----------------------------- MODULE BudgetPage -----------------------------
(***************************************************************************)
(* AnggaranPage around one row of the budget: which period is shown, the    *)
(* tree of each period out of the query cache, the edit modal that saves a  *)
(* row with two or three calls at once, the delete of another row, and the  *)
(* end of an import, which takes a snapshot and moves the page to it.       *)
(* The source filter picks columns of the tree and is left out.            *)
(***************************************************************************)
EXTENDS QueryCache, Integers, FiniteSetsExt

CONSTANTS
    Masa,          \* periods that may have a snapshot: <<month, revision>>
    NowMonth,      \* the current month
    RowSet,        \* rows that may be typed or imported
    MaxSaves,      \* bound: submits of the modal
    MaxBudget      \* bound: changes of the live table

\* A month without a snapshot shows its revision 1; "live" and "none" are no months.
ASSUME MasaAssumption ==
    /\ IsFiniteSet(Masa)
    /\ \A k \in Masa : k[2] \in 0 .. 99 /\ <<k[1], 1>> \in Masa /\ k[1] \notin {"live", "none"}
ASSUME RowAssumption == RowSet \subseteq [pagu : Nat, lock : Nat, real : Nat]

VARIABLES
    nodeRow,       \* the live row
    apart,         \* its realisasi is on a node of its own: realisasi_node_id
    budgetEdition, \* changes of the live table so far
    taken,         \* taken[k]: the snapshot of a period
    treeCache,     \* useAnggaran, one entry for each period
    takenCache,    \* useAnggaranSnapshots
    bulan, revisi, \* the chosen month; the chosen period, or none
    edit,          \* editTarget and the fields of EditPaguModal
    submits,       \* saves of the modal so far
    puts,          \* the calls in flight, and those given up that the server may still get
    broken,        \* saves one of whose calls failed
    importing,     \* confirmImportMutation, then createSnapshotMutation
    owedTree,      \* history: the edition each tree has to reach
    reported,      \* history: what the last save reported as stored
    touched        \* history: the row changed otherwise since that was sent

budgetVars == <<nodeRow, apart, budgetEdition, taken, treeCache, takenCache, bulan, revisi,
                edit, submits, puts, broken, importing, owedTree, reported, touched>>

LiveKey == <<"live", 0>>
NoChoice == <<"none", 0>>
TreeKey == Masa \cup {LiveKey}
Month == {k[1] : k \in Masa} \cup {NowMonth}
ZeroRow == [pagu |-> 0, lock |-> 0, real |-> 0]
NoTree == [row |-> ZeroRow, edition |-> 0]
NotReported == [ZeroRow EXCEPT !.pagu = -1]
LockActive(r) == r.pagu > 0 /\ r.lock >= r.pagu

NoImport == [at |-> "idle", masa |-> NoChoice, edition |-> 0]

\* The periods of the shown month that the list of snapshots names.
Available == {k \in takenCache.data : k[1] = bulan}

\* The place of a revision among strings: "1", "10" .. "19", "2", "20" ..
TextRank(r) == IF r < 10 THEN 11 * r ELSE 11 * (r \div 10) + 1 + (r % 10)

\* derivedPeriode: the revision that is last as a string.
Derived ==
    IF revisi # NoChoice THEN revisi
    ELSE IF bulan = NowMonth THEN LiveKey
    ELSE IF Available = {} THEN <<bulan, 1>>
    ELSE CHOOSE k \in Available : \A j \in Available : TextRank(j[2]) <= TextRank(k[2])

ShownTree == treeCache[Derived]

ServerTree(k) ==
    IF k = LiveKey THEN [row |-> nodeRow, edition |-> budgetEdition] ELSE taken[k]

BudgetInit ==
    /\ nodeRow \in RowSet /\ ~LockActive(nodeRow)
    /\ apart \in BOOLEAN
    /\ budgetEdition = 1
    /\ \E old \in SUBSET Masa :
         taken = [k \in Masa |-> IF k \in old THEN [row |-> nodeRow, edition |-> 1] ELSE NoTree]
    /\ bulan = NowMonth /\ revisi = NoChoice
    /\ treeCache = [k \in TreeKey |-> IF k = LiveKey THEN Fetch(EmptyEntry(NoTree)) ELSE EmptyEntry(NoTree)]
    /\ takenCache = Fetch(EmptyEntry({}))
    /\ edit = [open |-> FALSE, row |-> ZeroRow]
    /\ submits = 0 /\ puts = {} /\ broken = {}
    /\ importing = NoImport
    /\ owedTree = [k \in TreeKey |-> 0]
    /\ reported = NotReported /\ touched = FALSE

pageVars == <<bulan, revisi, edit, importing>>
serverVars == <<nodeRow, budgetEdition, taken>>
saveVars == <<submits, puts, broken, reported, touched>>

\* Another period on the screen is fetched unless it is there and valid.
Look == treeCache' = [treeCache EXCEPT ![Derived'] = Observe(@)]

\* queryClient.invalidateQueries({ queryKey: ['anggaran'] })
RefreshAll(k) ==
    /\ treeCache' = [j \in TreeKey |-> Invalidate(treeCache[j], j = k)]
    /\ takenCache' = Invalidate(takenCache, TRUE)

-----------------------------------------------------------------------------
(* The filters.                                                            *)

AtBudget == ~edit.open /\ importing = NoImport

ChooseMonth(b) ==
    /\ AtBudget /\ b # bulan
    /\ bulan' = b /\ revisi' = NoChoice
    /\ UNCHANGED <<serverVars, apart, takenCache, edit, importing, saveVars, owedTree>>
    /\ Look

\* The revision, or Live for the current month; every query is invalidated
\* while the tree of before is still the one on the screen.
ChooseRevision(k) ==
    /\ AtBudget
    /\ k = NoChoice => bulan = NowMonth
    /\ k # NoChoice => k \in Masa /\ k[1] = bulan
    /\ revisi' = k /\ UNCHANGED bulan
    /\ LET e == [j \in TreeKey |-> Invalidate(treeCache[j], j = Derived)]
       IN  treeCache' = [e EXCEPT ![IF k = NoChoice THEN LiveKey ELSE k] = Observe(@)]
    /\ takenCache' = Invalidate(takenCache, TRUE)
    /\ UNCHANGED <<serverVars, apart, edit, importing, saveVars, owedTree>>

\* Perbarui
Perbarui ==
    /\ AtBudget /\ ~Loading(ShownTree)
    /\ RefreshAll(Derived)
    /\ UNCHANGED <<serverVars, apart, pageVars, saveVars, owedTree>>

-----------------------------------------------------------------------------
(* EditPaguModal and the delete of a row.                                  *)

\* Edit Data fills the fields from the tree on the screen, be it old, or a
\* snapshot: its rows carry the ids of the live ones.
OpenEdit ==
    /\ AtBudget /\ ShownTree.has /\ ShownTree.data # NoTree
    /\ edit' = [open |-> TRUE, row |-> ShownTree.data.row]
    /\ UNCHANGED <<serverVars, apart, treeCache, takenCache, bulan, revisi, importing, saveVars, owedTree>>

FillEdit(r) ==
    /\ edit.open /\ edit' = [edit EXCEPT !.row = r]
    /\ UNCHANGED <<serverVars, apart, treeCache, takenCache, bulan, revisi, importing, saveVars, owedTree>>

\* Batal works while a save is under way.
CloseEdit ==
    /\ edit.open /\ edit' = [edit EXCEPT !.open = FALSE]
    /\ UNCHANGED <<serverVars, apart, treeCache, takenCache, bulan, revisi, importing, saveVars, owedTree>>

\* A locked row is sent without realisasi.
ToStore(r) == [r EXCEPT !.real = IF LockActive(r) THEN 0 ELSE r.real]

\* Each of the two mutations knows its last call only: with the realisasi apart,
\* the second call of updatePaguMutation hides the first.
Pending ==
    \E p \in puts : /\ p.save = submits /\ p.at # "lost"
                   /\ p.part \in (IF apart THEN {"real", "lock"} ELSE {"pagu", "lock"})

PutCall(n, part, row) == [save |-> n, part |-> part, row |-> row, at |-> "sent", edition |-> 0]

SubmitEdit ==
    /\ edit.open /\ ~Pending /\ submits < MaxSaves
    /\ submits' = submits + 1
    /\ LET parts == IF apart THEN {"pagu", "lock", "real"} ELSE {"pagu", "lock"}
       IN  puts' = puts \cup {PutCall(submits', part, ToStore(edit.row)) : part \in parts}
    /\ touched' = (\E p \in puts : p.part # "delete") /\ reported' = NotReported
    /\ UNCHANGED <<serverVars, apart, treeCache, takenCache, pageVars, broken, owedTree>>

\* Hapus Permanen, for a row elsewhere in the tree.
ConfirmDeleteNode ==
    /\ AtBudget /\ ShownTree.has /\ ShownTree.data # NoTree
    /\ ~\E p \in puts : p.part = "delete" /\ p.at # "lost"
    /\ puts' = puts \cup {PutCall(0, "delete", ZeroRow)}
    /\ UNCHANGED <<serverVars, apart, treeCache, takenCache, pageVars, submits, broken, owedTree, reported, touched>>

-----------------------------------------------------------------------------
(* The server.                                                             *)

Changed(r) ==
    /\ budgetEdition < MaxBudget
    /\ nodeRow' = r /\ budgetEdition' = budgetEdition + 1

Written(p) ==
    CASE p.part = "pagu" -> IF apart THEN [nodeRow EXCEPT !.pagu = p.row.pagu]
                            ELSE [p.row EXCEPT !.lock = nodeRow.lock]
      [] p.part = "lock" -> [nodeRow EXCEPT !.lock = p.row.lock]
      [] p.part = "real" -> [nodeRow EXCEPT !.real = p.row.real]
      [] p.part = "delete" -> nodeRow

\* Nobody awaits the answer of a call that was given up.
PutApplies(p) ==
    /\ p.at \in {"sent", "lost"}
    /\ Changed(Written(p))
    /\ puts' = (puts \ {p}) \cup
         (IF p.at = "lost" THEN {} ELSE {[p EXCEPT !.at = "done", !.edition = budgetEdition']})
    /\ UNCHANGED <<taken, apart, treeCache, takenCache, pageVars, submits, broken, owedTree, reported, touched>>

\* Another user edits the row.
OtherEdits(r) ==
    /\ r # nodeRow /\ Changed(r)
    /\ touched' = TRUE /\ reported' = NotReported
    /\ UNCHANGED <<taken, apart, treeCache, takenCache, pageVars, submits, puts, broken, owedTree>>

-----------------------------------------------------------------------------
(* The answers.                                                            *)

RefreshAfter(part) == RefreshAll(Derived)

\* The tree has to show the change, unless it overtook the tree's own request:
\* one in its first load, or fetched while another period is on the screen.
OweTree(k, e) ==
    owedTree' = IF Overtaken(treeCache[k], k = Derived, treeCache[k].ans.edition < e)
                  THEN owedTree ELSE [owedTree EXCEPT ![k] = Max({@, e})]

\* Variant: Promise.allSettled.
AllSettled(p) == ~\E q \in puts \ {p} : q.save = p.save

\* Promise.all
AllSaved(p) == p.save \notin broken /\ ~\E q \in puts \ {p} : q.save = p.save

\* The last answer of a save reports it and closes the modal that is open.
PutAnswered(p) ==
    /\ p.at = "done"
    /\ RefreshAfter(p.part) /\ OweTree(LiveKey, p.edition)
    /\ puts' = puts \ {p}
    /\ IF p.part # "delete" /\ AllSaved(p)
         THEN edit' = [edit EXCEPT !.open = FALSE] /\ reported' = p.row
         ELSE UNCHANGED <<edit, reported>>
    /\ UNCHANGED <<serverVars, apart, bulan, revisi, importing, submits, broken, touched>>

\* Refused, or lost: the error is shown and the modal stays.  A call that was lost
\* on its way may still reach the server.
PutFails(p) ==
    /\ p.at # "lost"
    /\ \/ puts' = puts \ {p}
       \/ p.at = "sent" /\ puts' = (puts \ {p}) \cup {[p EXCEPT !.at = "lost"]}
    /\ broken' = IF p.part = "delete" THEN broken ELSE broken \cup {p.save}
    /\ UNCHANGED <<serverVars, apart, treeCache, takenCache, pageVars, submits, owedTree, reported, touched>>

TreeRead(k) ==
    /\ treeCache[k].fetch = "sent"
    /\ treeCache' = [treeCache EXCEPT ![k] = ServerReads(@, ServerTree(k))]
    /\ UNCHANGED <<serverVars, apart, takenCache, pageVars, saveVars, owedTree>>

TreeLands(k) ==
    /\ treeCache[k].fetch = "read"
    /\ treeCache' = [treeCache EXCEPT ![k] = Land(@)]
    /\ UNCHANGED <<serverVars, apart, takenCache, pageVars, saveVars, owedTree>>

TreeLost(k) ==
    /\ treeCache[k].fetch \in {"sent", "read"}
    /\ treeCache' = [treeCache EXCEPT ![k] = Lose(@)]
    /\ UNCHANGED <<serverVars, apart, takenCache, pageVars, saveVars, owedTree>>

\* The list of snapshots, read and shown in one step; a new list may change the
\* period that is shown by default.
TakenLands ==
    /\ takenCache.fetch = "sent"
    /\ takenCache' = Land(ServerReads(takenCache, {k \in Masa : taken[k] # NoTree}))
    /\ UNCHANGED <<serverVars, apart, pageVars, saveVars, owedTree>>
    /\ Look

-----------------------------------------------------------------------------
(* The end of an import; its preview is ImportPreview.                     *)

ImportSent(k) ==
    /\ AtBudget
    /\ importing' = [NoImport EXCEPT !.at = "confirm", !.masa = k]
    /\ UNCHANGED <<serverVars, apart, treeCache, takenCache, bulan, revisi, edit, saveVars, owedTree>>

ImportApplies(r) ==
    /\ importing.at = "confirm"
    /\ Changed(r)
    /\ importing' = [importing EXCEPT !.at = "saved", !.edition = budgetEdition']
    /\ touched' = TRUE /\ reported' = NotReported
    /\ UNCHANGED <<taken, apart, treeCache, takenCache, bulan, revisi, edit, submits, puts, broken, owedTree>>

ImportAnswered ==
    /\ importing.at = "saved"
    /\ RefreshAll(Derived) /\ OweTree(LiveKey, importing.edition)
    /\ importing' = [importing EXCEPT !.at = "snapshot"]
    /\ UNCHANGED <<serverVars, apart, bulan, revisi, edit, saveVars>>

\* The preview comes back, and the user leaves it.
ImportFails ==
    /\ importing.at \in {"confirm", "saved"}
    /\ importing' = NoImport
    /\ UNCHANGED <<serverVars, apart, treeCache, takenCache, bulan, revisi, edit, saveVars, owedTree>>

\* Another user takes a snapshot, or a call that was given up here takes it late.
OtherTakes(k) ==
    /\ taken' = [taken EXCEPT ![k] = ServerTree(LiveKey)]
    /\ UNCHANGED <<nodeRow, budgetEdition, apart, treeCache, takenCache, pageVars, saveVars, owedTree>>

\* CreateAnggaranSnapshot, whose own failures are in Snapshots.
SnapshotApplies ==
    /\ importing.at = "snapshot"
    /\ taken' = [taken EXCEPT ![importing.masa] = ServerTree(LiveKey)]
    /\ importing' = [importing EXCEPT !.at = "taken", !.edition = budgetEdition]
    /\ UNCHANGED <<nodeRow, budgetEdition, apart, treeCache, takenCache, bulan, revisi, edit, saveVars, owedTree>>

\* Variant: the page moves and nothing is invalidated.
MoveUntold(k) ==
    /\ treeCache' = [treeCache EXCEPT ![k] = Observe(@)]
    /\ UNCHANGED takenCache

\* onSuccess, and then onImported with the new period.
MoveTold(k) ==
    /\ takenCache' = Invalidate(takenCache, TRUE)
    /\ LET e == [j \in TreeKey |-> Invalidate(treeCache[j], j = Derived)]
       IN  treeCache' = [e EXCEPT ![k] = Observe(@)]

SnapshotAnswered ==
    LET k == importing.masa IN
    /\ importing.at = "taken"
    /\ MoveTold(k) /\ OweTree(k, importing.edition)
    /\ bulan' = k[1] /\ revisi' = k
    /\ importing' = NoImport
    /\ UNCHANGED <<serverVars, apart, edit, saveVars>>

\* The error goes to the console and the import is done all the same.
SnapshotFails ==
    LET k == importing.masa IN
    /\ importing.at \in {"snapshot", "taken"}
    /\ treeCache' = [treeCache EXCEPT ![k] = Observe(@)]
    /\ bulan' = k[1] /\ revisi' = k
    /\ importing' = NoImport
    /\ UNCHANGED <<serverVars, apart, takenCache, edit, saveVars, owedTree>>

\* What users do and what gets lost; a run bounds their number.
BudgetCommand ==
    \/ Perbarui \/ OpenEdit \/ CloseEdit \/ SubmitEdit \/ ConfirmDeleteNode
    \/ ImportFails \/ SnapshotFails
    \/ \E b \in Month : ChooseMonth(b)
    \/ \E k \in Masa \cup {NoChoice} : ChooseRevision(k)
    \/ \E r \in RowSet : FillEdit(r) \/ OtherEdits(r)
    \/ \E p \in puts : PutFails(p)
    \/ \E k \in TreeKey : TreeLost(k)
    \/ \E k \in Masa : ImportSent(k) \/ OtherTakes(k)

BudgetReply ==
    \/ TakenLands
    \/ \E k \in TreeKey : TreeRead(k) \/ TreeLands(k)
    \/ \E p \in puts : PutApplies(p) \/ PutAnswered(p)
    \/ \E r \in RowSet : ImportApplies(r)
    \/ ImportAnswered \/ SnapshotApplies \/ SnapshotAnswered

BudgetSpec == BudgetInit /\ [][BudgetCommand \/ BudgetReply]_budgetVars

-----------------------------------------------------------------------------
\* A tree at rest on the screen shows every change of the user's own that was
\* answered: an import and its snapshot, a delete, and each of the calls of a
\* save, whichever order they are answered in.  Excepted is a change answered
\* while a request the server had read before it was under way for a tree in its
\* first load or off the screen, which is not sent again: such a tree shows the
\* change with the next answered one, Perbarui or change of the revision
\* (useAnggaran.ts:193-245, AnggaranPage.tsx:650-659).
OwnBudgetShown ==
    AtRest(ShownTree) => ShownTree.data.edition >= owedTree[Derived]

\* A save that was reported is stored, in every part and under the rule for
\* locked rows, unless somebody else or an earlier save of the user's own, still
\* under way or given up, changed the row (EditPaguModal.tsx:30-60).
SavedAsReported ==
    reported # NotReported /\ ~touched =>
        /\ nodeRow = reported
        /\ LockActive(nodeRow) => nodeRow.real = 0
=============================================================================
