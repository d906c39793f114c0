----------------------------- MODULE ArsipPanel -----------------------------
(***************************************************************************)
(* The document panel of AnggaranPage: the list of one node out of the      *)
(* query cache, the draft of a new order, the dialogs that delete and       *)
(* rename, and the mutations of useAnggaran, which outlive the panel.       *)
(* Somebody else changes the same documents.                               *)
(***************************************************************************)
EXTENDS QueryCache, Integers, Sequences, FiniteSets, SequencesExt

CONSTANTS
    Panel,       \* budget nodes the panel is opened for
    Docs,        \* documents that may be listed
    Hak,         \* permissions of the user
    MaxChanges   \* bound: changes of the documents at the server

\* Home[d] is the node of d: fixed, for an upload names it in its request.  The
\* server also lists the documents of other rows with the same path of codes and
\* the same source; there are none, for a code is unique below its parent and in
\* its source (migration 12).
CONSTANT Home

ASSUME DocsAssumption == IsFiniteSet(Docs) /\ "nowhere" \notin Panel

VARIABLES
    list,        \* list[n]: what the server lists for n
    version,     \* version[n]: changes of that list so far
    cache,       \* useAnggaranDokumen, one entry for each node
    target,      \* uploadTarget, as uploadDocumentNodeId
    ordering,    \* isOrderingDocuments
    draft,       \* documentOrderDraft
    removing,    \* deleteDocTarget
    renaming,    \* editingDoc
    call,        \* call[k]: the mutation of kind k
    owed         \* history: the version the cached list has to reach

arsipVars == <<list, version, cache, target, ordering, draft, removing, renaming, call, owed>>

Nowhere == "nowhere"
NoDoc == "no document"
Kinds == {"upload", "reorder", "remove", "rename"}
NoCall == [at |-> "idle", node |-> Nowhere, docs |-> <<>>, version |-> 0]
NoList == [docs |-> <<>>, version |-> 0]

ArsipInit ==
    /\ list \in [Panel -> UNION {SetToSeqs(S) : S \in SUBSET Docs}]
    /\ \A n \in Panel : Range(list[n]) = {d \in Docs : Home[d] = n}
    /\ version = [n \in Panel |-> 0]
    /\ cache = [n \in Panel |-> EmptyEntry(NoList)]
    /\ target = Nowhere /\ ordering = FALSE /\ draft = <<>>
    /\ removing = NoDoc /\ renaming = NoDoc
    /\ call = [k \in Kinds |-> NoCall]
    /\ owed = [n \in Panel |-> 0]

\* The delete dialog keeps focus and pointer to itself.
AtPanel == target # Nowhere /\ removing = NoDoc

Shown == IF target = Nowhere THEN <<>> ELSE cache[target].data.docs

-----------------------------------------------------------------------------
(* The panel.                                                              *)

\* Variant: the ordering goes on.
LeaveOrderingNot == UNCHANGED <<ordering, draft>>

\* The effects of a changed node: no ordering, an empty draft.
LeaveOrdering == ordering' = FALSE /\ draft' = <<>>

\* Dokumen in a row of the tree; the row may belong to the same node.
OpenPanel(n) ==
    /\ "dokumen:read" \in Hak
    /\ target = Nowhere /\ removing = NoDoc
    /\ target' = n
    /\ LeaveOrdering
    /\ cache' = [cache EXCEPT ![n] = Observe(@)]
    /\ UNCHANGED <<list, version, removing, renaming, call, owed>>

\* Tutup, the cross, or a click beside the panel, which works in every state.
ClosePanel ==
    /\ AtPanel
    /\ target' = Nowhere
    /\ LeaveOrdering
    /\ UNCHANGED <<list, version, cache, removing, renaming, call, owed>>

StartOrdering ==
    /\ "dokumen:update" \in Hak
    /\ AtPanel /\ ~ordering /\ Shown # <<>>
    /\ ordering' = TRUE /\ draft' = Shown
    /\ UNCHANGED <<list, version, cache, target, removing, renaming, call, owed>>

CancelOrdering ==
    /\ AtPanel /\ ordering /\ call["reorder"].at = "idle"
    /\ ordering' = FALSE /\ draft' = Shown
    /\ UNCHANGED <<list, version, cache, target, removing, renaming, call, owed>>

\* moveDocument: the arrows stay enabled while the order is being saved.
MoveDocument(i) ==
    /\ AtPanel /\ ordering /\ Shown # <<>>
    /\ i \in 1 .. Len(draft) - 1
    /\ draft' = [draft EXCEPT ![i] = draft[i + 1], ![i + 1] = draft[i]]
    /\ UNCHANGED <<list, version, cache, target, ordering, removing, renaming, call, owed>>

AskRemove(d) ==
    /\ "dokumen:delete" \in Hak /\ AtPanel /\ ~ordering
    /\ Contains(Shown, d)
    /\ removing' = d
    /\ UNCHANGED <<list, version, cache, target, ordering, draft, renaming, call, owed>>

AskRename(d) ==
    /\ "dokumen:update" \in Hak /\ AtPanel /\ ~ordering /\ renaming = NoDoc
    /\ Contains(Shown, d)
    /\ renaming' = d
    /\ UNCHANGED <<list, version, cache, target, ordering, draft, removing, call, owed>>

\* Batal and Escape; the rename form can be left while it is being saved.
Dismiss ==
    /\ \/ removing' = NoDoc /\ UNCHANGED renaming
       \/ renaming' = NoDoc /\ UNCHANGED removing
    /\ UNCHANGED <<list, version, cache, target, ordering, draft, call, owed>>

-----------------------------------------------------------------------------
(* The mutations.                                                          *)

Send(k, n, docs) ==
    /\ call[k].at = "idle"
    /\ call' = [call EXCEPT ![k] = [at |-> "sent", node |-> n, docs |-> docs, version |-> 0]]
    /\ UNCHANGED <<list, version, cache, target, ordering, draft, removing, renaming, owed>>

\* FileDropzone takes no file while one is being uploaded.
DropFile(d) ==
    /\ "dokumen:create" \in Hak
    /\ AtPanel /\ ~ordering
    /\ Home[d] = target /\ \A n \in Panel : ~Contains(list[n], d)
    /\ Send("upload", target, <<d>>)

SaveOrder == AtPanel /\ ordering /\ Send("reorder", target, draft)
ConfirmRemove == removing # NoDoc /\ Send("remove", Home[removing], <<removing>>)
SubmitRename == renaming # NoDoc /\ Send("rename", Home[renaming], <<renaming>>)

\* What the server does with a mutation; a document that is gone refuses a new
\* order (404) or name (500), and is deleted again without complaint.
Allowed(k, docs, l) == k \in {"reorder", "rename"} => Range(docs) \subseteq Range(l)

\* What is left of a list without some documents, in its order.
Without(l, docs) ==
    {s \in SetToSeqs(Range(l) \ Range(docs)) :
        \A p, q \in DOMAIN s : p < q => \E i, j \in DOMAIN l : i < j /\ l[i] = s[p] /\ l[j] = s[q]}

Listed(k, docs, l) ==
    CASE k = "upload"  -> {l \o docs}
      [] k = "reorder" -> {docs \o rest : rest \in Without(l, docs)}
      [] k = "remove"  -> Without(l, docs)
      [] k = "rename"  -> {l}

ServerChanges(n, lists) ==
    /\ version[n] < MaxChanges
    /\ \E l \in lists : list' = [list EXCEPT ![n] = l]
    /\ version' = [version EXCEPT ![n] = @ + 1]

Apply(k) ==
    LET c == call[k] IN
    /\ c.at = "sent" /\ Allowed(k, c.docs, list[c.node])
    /\ ServerChanges(c.node, Listed(k, c.docs, list[c.node]))
    /\ call' = [call EXCEPT ![k].at = "done", ![k].version = version'[c.node]]
    /\ UNCHANGED <<cache, target, ordering, draft, removing, renaming, owed>>

\* Variant: the list on the screen is left to grow old.
RefreshLater == cache' = [n \in Panel |-> Invalidate(cache[n], FALSE)]

\* onSuccess invalidates the lists, the handler refetches the one it shows.
Refresh ==
    cache' = [n \in Panel |->
        IF n = target THEN Refetch(Invalidate(cache[n], TRUE))
                      ELSE Invalidate(cache[n], FALSE)]

\* The list has to show the change, unless it overtook the list's own request:
\* one in the first load, or left for another node while it was fetched.
Owe(c) ==
    LET e == cache[c.node] IN
    owed' = IF Overtaken(e, c.node = target, e.ans.version < c.version)
              THEN owed ELSE [owed EXCEPT ![c.node] = Max({@, c.version})]

\* The answer closes what is open now, be it about another document or node.
Answered(k) ==
    LET c == call[k] IN
    /\ c.at = "done"
    /\ Refresh /\ Owe(c)
    /\ ordering' = (ordering /\ k # "reorder")
    /\ removing' = IF k = "remove" THEN NoDoc ELSE removing
    /\ renaming' = IF k = "rename" THEN NoDoc ELSE renaming
    /\ call' = [call EXCEPT ![k] = NoCall]
    /\ UNCHANGED <<list, version, target, draft>>

\* Refused, or the answer is lost; only the delete dialog closes.
Failed(k) ==
    /\ call[k].at \in {"sent", "done"}
    /\ removing' = IF k = "remove" THEN NoDoc ELSE removing
    /\ call' = [call EXCEPT ![k] = NoCall]
    /\ UNCHANGED <<list, version, cache, target, ordering, draft, renaming, owed>>

-----------------------------------------------------------------------------
(* The list.                                                               *)

ListRead(n) ==
    /\ cache[n].fetch = "sent"
    /\ cache' = [cache EXCEPT ![n] = ServerReads(@, [docs |-> list[n], version |-> version[n]])]
    /\ UNCHANGED <<list, version, target, ordering, draft, removing, renaming, call, owed>>

\* Variant: new data replaces the draft at any time.
DraftFollowsAlways(n) == draft' = IF target = n THEN cache'[n].data.docs ELSE draft

\* The effect on uploadDocuments: the draft follows the list unless it is edited.
DraftFollows(n) ==
    draft' = IF target = n /\ ~ordering THEN cache'[n].data.docs ELSE draft

ListLands(n) ==
    /\ cache[n].fetch = "read"
    /\ cache' = [cache EXCEPT ![n] = Land(@)]
    /\ DraftFollows(n)
    /\ UNCHANGED <<list, version, target, ordering, removing, renaming, call, owed>>

ListLost(n) ==
    /\ cache[n].fetch \in {"sent", "read"}
    /\ cache' = [cache EXCEPT ![n] = Lose(@)]
    /\ UNCHANGED <<list, version, target, ordering, draft, removing, renaming, call, owed>>

\* Another user changes the documents of a node, or a call that was given up here
\* is carried out late.
Rival(n) ==
    /\ \E k \in Kinds : \E d \in {e \in Docs : Home[e] = n} :
         /\ k = "upload" <=> \A m \in Panel : ~Contains(list[m], d)
         /\ \E docs \in IF k = "reorder" THEN SetToSeqs(Range(list[n])) ELSE {<<d>>} :
              ServerChanges(n, Listed(k, docs, list[n]))
    /\ UNCHANGED <<cache, target, ordering, draft, removing, renaming, call, owed>>

\* What users do and what gets lost; a run bounds their number.
ArsipCommand ==
    \/ ClosePanel \/ StartOrdering \/ CancelOrdering \/ Dismiss
    \/ SaveOrder \/ ConfirmRemove \/ SubmitRename
    \/ \E i \in 1 .. Cardinality(Docs) : MoveDocument(i)
    \/ \E d \in Docs : AskRemove(d) \/ AskRename(d) \/ DropFile(d)
    \/ \E k \in Kinds : Failed(k)
    \/ \E n \in Panel : OpenPanel(n) \/ ListLost(n) \/ Rival(n)

ArsipReply ==
    \/ \E k \in Kinds : Apply(k) \/ Answered(k)
    \/ \E n \in Panel : ListRead(n) \/ ListLands(n)

ArsipNext == ArsipCommand \/ ArsipReply

ArsipSpec == ArsipInit /\ [][ArsipNext]_arsipVars

-----------------------------------------------------------------------------
\* An order that is saved for a node orders that node's documents, though the
\* draft outlives every change of the panel (AnggaranPage.tsx:209-212, 276-289).
DraftOfThisNode ==
    call["reorder"].at # "idle" =>
        \A d \in Range(call["reorder"].docs) : Home[d] = call["reorder"].node

\* While the user orders, a list that arrives in the background takes nothing
\* out of the draft and puts nothing in (AnggaranPage.tsx:203-207).
DraftKept ==
    [][ordering /\ ordering' => Range(draft') = Range(draft)]_arsipVars

\* A list on the screen, once it is at rest, shows every change of the user's
\* own that was answered, in whatever order the answers came.  Excepted is a
\* change answered while a request the server had read before it was under way
\* for a list in its first load or off the screen, which is not sent again: that
\* one shows with the next change answered
\* (useAnggaran.ts:256-279, AnggaranPage.tsx:225-236, 276-285).
OwnDocsShown ==
    target # Nowhere =>
        (AtRest(cache[target]) => cache[target].data.version >= owed[target])
=============================================================================
