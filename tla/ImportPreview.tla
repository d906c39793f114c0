--------------------------- MODULE ImportPreview ---------------------------
(***************************************************************************)
(* One import of a budget file, from its first line to the table.           *)
(*                                                                         *)
(* mode "csv" is ImportAnggaranData: a line is upserted as it is parsed,    *)
(* all in one transaction.  mode "xlsx" is the modal: PreviewAnggaranImport *)
(* answers the parsed nodes, the user edits them (ImportPreviewModal.tsx)   *)
(* and ConfirmAnggaranImport saves the list.                                *)
(*                                                                         *)
(* The parsers (anggaran_parser*.go) keep the last code of each level and   *)
(* give a node the nearest lower level that has one; the handlers keep the  *)
(* last node of each level and resolve that level to a parent.              *)
(***************************************************************************)
EXTENDS PreviewTree

CONSTANTS
    FileRow,    \* lines a file may have
    NewKode,    \* values the user may type into kode
    NewPagu,    \* ... into pagu_revisi
    NewSd,      \* ... into realisasi_sd
    MaxEdits    \* bound: edits of one preview

ASSUME FileAssumption ==
    /\ FileRow \subseteq [level : 0 .. Top, kode : Kode \cup {Blank},
                          pagu : Int, lock : Int, sd : Int, sisa : Int]
    /\ NewKode \subseteq Kode \cup {Blank}
    /\ NewPagu \subseteq Int /\ NewSd \subseteq Int /\ MaxEdits \in Nat

VARIABLES
    mode,
    step,    \* "parse", "preview", "saved"
    nodes,   \* xlsx: previewNodes, then editedNodes; csv: the lines parsed so far
    last,    \* lastNodeAtLevel, its code
    ids,     \* levelTempIDs; csv: parentIDs
    tx,      \* csv: the open transaction
    rows,    \* the table
    unseen,  \* history: keys of the rows a save left whose answer was lost
    edits,   \* number of edits
    tidy     \* history: recalculated, and no edit since

vars == <<mode, step, nodes, last, ids, tx, rows, unseen, edits, tidy>>

Level == 0 .. Top

Init == /\ mode \in {"csv", "xlsx"} /\ step = "parse"
        /\ nodes = <<>>
        /\ last = [l \in Level |-> Blank]
        /\ ids = [l \in Level |-> 0]
        /\ tx = NothingSaved
        /\ rows = <<>> /\ unseen = {}
        /\ edits = 0 /\ tidy = FALSE

\* The request or the modal is over; another file may come.
Fresh == /\ step' = "parse" /\ nodes' = <<>> /\ tx' = NothingSaved
         /\ last' = [l \in Level |-> Blank]
         /\ ids' = [l \in Level |-> 0]
         /\ edits' = 0 /\ tidy' = FALSE
         /\ UNCHANGED <<mode, rows, unseen>>

----------------------------------------------------------------------------
(* Parsing. *)

Opened(level) == {l \in Level : l < level /\ last[l] # Blank}
ParentId(level) == IF Opened(level) = {} THEN 0 ELSE ids[Max(Opened(level))]

ParsedNode(r) ==
    [id |-> Len(nodes) + 1, parent |-> ParentId(r.level), level |-> r.level,
     kode |-> r.kode, pagu |-> r.pagu, lock |-> r.lock, sd |-> r.sd, sisa |-> r.sisa]

\* What a plausible bug would make of CloseBelow: deeper levels stay open.
CloseBelowNothing(level, kode) == [last EXCEPT ![level] = kode]

CloseBelow(level, kode) ==
    [l \in Level |-> IF l = level THEN kode ELSE IF l > level THEN Blank ELSE last[l]]

\* parentIDs of the csv import keeps the rows of deeper levels.
PlaceAt(level, i) ==
    [l \in Level |-> IF l = level THEN i
                     ELSE IF l > level /\ mode = "xlsx" THEN 0 ELSE ids[l]]

Parse(r) ==
    /\ step = "parse" /\ Len(nodes) < MaxRows
    /\ nodes' = Append(nodes, ParsedNode(r))
    /\ last' = CloseBelow(r.level, r.kode)
    /\ ids' = PlaceAt(r.level, Len(nodes) + 1)
    /\ tx' = IF mode = "csv" THEN Upserted(tx, ParsedNode(r)) ELSE tx
    /\ UNCHANGED <<mode, step, rows, unseen, edits, tidy>>

CsvCommit ==
    /\ mode = "csv" /\ step = "parse"
    /\ rows' = Over(tx.rows, rows)
    /\ step' = "saved"
    /\ UNCHANGED <<mode, nodes, last, ids, tx, unseen, edits, tidy>>

\* A statement or the reader fails, or the client is gone: Rollback.
CsvFail == mode = "csv" /\ step = "parse" /\ nodes # <<>> /\ Fresh

Analyze ==
    /\ mode = "xlsx" /\ step = "parse" /\ nodes # <<>>
    /\ nodes' = Normalized(nodes)
    /\ step' = "preview"
    /\ last' = [l \in Level |-> Blank] /\ ids' = [l \in Level |-> 0]
    /\ UNCHANGED <<mode, tx, rows, unseen, edits, tidy>>

----------------------------------------------------------------------------
(* The preview. *)

Edit(list) ==
    /\ step = "preview" /\ edits < MaxEdits
    /\ nodes' = list
    /\ edits' = edits + 1
    /\ tidy' = (tidy /\ list = nodes)
    /\ UNCHANGED <<mode, step, last, ids, tx, rows, unseen>>

DeleteNode(i) == Edit(Deleted(nodes, i))
Reparent(i, p) == i # p /\ Edit(Reparented(nodes, i, p))
EditKode(i, v) == Edit(Updated(nodes, i, "kode", v))
EditPagu(i, v) == Edit(Updated(nodes, i, "pagu", v))
EditSd(i, v) == ~IsLocked(Shown(nodes, i)) /\ Edit(Updated(nodes, i, "sd", v))

Recalculate ==
    /\ step = "preview"
    /\ nodes' = Recalculated(nodes)
    /\ tidy' = TRUE
    /\ UNCHANGED <<mode, step, last, ids, tx, rows, unseen, edits>>

\* Bound: no second file after an answer was lost.
Back == step = "preview" /\ unseen = {} /\ Fresh

\* One transaction.  If it fails nothing is saved and the modal shows the
\* preview as it was, a step that changes nothing.
Saved == FoldLeft(Upserted, NothingSaved, Normalized(nodes)).rows

Confirm ==
    /\ step = "preview" /\ nodes # <<>>
    /\ rows' = Over(Saved, rows)
    /\ step' = "saved"
    /\ UNCHANGED <<mode, nodes, last, ids, tx, unseen, edits, tidy>>

\* It commits and the answer is lost: the modal shows the preview again.
ConfirmLost ==
    /\ step = "preview" /\ nodes # <<>>
    /\ rows' = Over(Saved, rows)
    /\ unseen' = unseen \cup DOMAIN Saved
    /\ UNCHANGED <<mode, step, nodes, last, ids, tx, edits, tidy>>

----------------------------------------------------------------------------
Next == \/ \E r \in FileRow : Parse(r)
        \/ CsvCommit \/ CsvFail \/ Analyze
        \/ \E i \in Ids(nodes) :
             \/ DeleteNode(i)
             \/ \E p \in Ids(nodes) : Reparent(i, p)
             \/ \E v \in NewKode : EditKode(i, v)
             \/ \E v \in NewPagu : EditPagu(i, v)
             \/ \E v \in NewSd : EditSd(i, v)
        \/ Recalculate \/ Back
        \/ Confirm \/ ConfirmLost

Spec == Init /\ [][Next]_vars

----------------------------------------------------------------------------
(* Properties. *)

\* The list is the file's order with some lines left out: an edit neither
\* reorders nor duplicates nodes (ConfirmAnggaranImport saves in list order).
TypeOK ==
    /\ mode \in {"csv", "xlsx"}
    /\ step \in {"parse", "preview", "saved"}
    /\ nodes \in Seq(Node)
    /\ \A j, k \in DOMAIN nodes : j < k => nodes[j].id < nodes[k].id
    /\ last \in [Level -> Kode \cup {Blank}]
    /\ ids \in [Level -> 0 .. MaxRows]
    /\ edits \in 0 .. MaxEdits /\ tidy \in BOOLEAN

\* The nearest earlier line of a lower level that has a code and has not been
\* closed by a line of its own or a lower level.
OpenAbove(list, i) ==
    {j \in 1 .. i - 1 : /\ list[j].level < list[i].level /\ list[j].kode # Blank
                        /\ \A k \in j + 1 .. i - 1 : list[k].level > list[j].level}

\* Every parsed node hangs below the nearest line above it, in both imports,
\* although the csv import never clears parentIDs and both arrays are indexed
\* by a level the parser found in a third one (anggaran.go:63, :147).
ParsedRight ==
    step = "parse" =>
      \A i \in DOMAIN nodes :
        nodes[i].parent = IF OpenAbove(nodes, i) = {} THEN 0
                          ELSE Max(OpenAbove(nodes, i))

\* Whatever is deleted and dragged, every node of the preview can be reached
\* from a root: none hangs below a deleted one or on a cycle, where the tree
\* would not show it and handleRecalculate would not compute it.
AllShown ==
    step # "parse" =>
      Ids(nodes) = UNION {Below(nodes, n.id) : n \in {m \in ToSet(nodes) : m.parent = 0}}

\* After Auto Kalkulasi the amounts agree: balances, sums over children, no
\* realisation where the pagu is locked; so the normalisation that saving
\* applies changes no amount the user was shown.
SumsAgree ==
    tidy =>
      \A n \in ToSet(nodes) :
        LET kids == {m \in ToSet(nodes) : m.parent = n.id}
        IN  /\ n.sisa = n.pagu - n.sd
            /\ NormalizeByLock(n) = n
            /\ kids # {} => /\ n.pagu = MapThenSumSet(LAMBDA m : m.pagu, kids)
                            /\ n.sd = IF IsLocked(n) THEN 0
                                      ELSE MapThenSumSet(LAMBDA m : m.sd, kids)

\* Where the tree on the screen has a node.
Path(i) ==
    LET path[j \in Ids(nodes)] ==
          LET n == Shown(nodes, j)
          IN  IF n.parent = 0 THEN <<n.kode>> ELSE Append(path[n.parent], n.kode)
    IN  path[i]

\* The tree on the screen is saved, node for node, and nothing else but what an
\* earlier save left that the user was told had failed; of siblings with one
\* code the last is saved, ON CONFLICT DO UPDATE.
ShownIsSaved ==
    step = "saved" =>
      LET shown == {Path(i) : i \in Ids(nodes)}
          final == IF mode = "csv" THEN nodes ELSE Normalized(nodes)
      IN  /\ DOMAIN rows = shown \cup unseen
          /\ \A p \in shown :
               rows[p] = Amounts(Shown(final, Max({i \in Ids(nodes) : Path(i) = p})))

\* It is, for both imports, as long as no node was dragged below a later one.
SavedInOrder ==
    (\A n \in ToSet(nodes) : n.parent < n.id) => ShownIsSaved

=============================================================================
