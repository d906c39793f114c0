----------------------------- MODULE Snapshots ------------------------------
(***************************************************************************)
(* CreateAnggaranSnapshot: the period is deleted and written anew, in two   *)
(* statements that commit each by itself.  The copy is one statement over   *)
(* the live table, so a copy is known by the edition of the table it took.  *)
(***************************************************************************)
EXTENDS Naturals, Sequences

CONSTANTS
    Periode,      \* periods somebody makes a snapshot of
    Caller,       \* calls of CreateAnggaranSnapshot
    MaxEdition    \* bound: changes of the live table

VARIABLES
    edition,      \* changes of anggaran_node so far
    copies,       \* copies[p]: the copies below the period p in anggaran_history
    snapping      \* snapping[c]: what a call does next, for which period, and
                  \* the edition it began in

snapVars == <<edition, copies, snapping>>

SnapInit ==
    /\ edition = 1
    /\ copies \in [Periode -> {<<>>, <<1>>}]
    /\ \E p \in Periode :
         snapping = [c \in Caller |-> [at |-> "idle", periode |-> p, began |-> 0]]

\* An edit or an import commits.
BudgetChanges ==
    /\ edition < MaxEdition
    /\ edition' = edition + 1
    /\ UNCHANGED <<copies, snapping>>

Ask(c, p) ==
    /\ snapping[c].at = "idle"
    /\ snapping' = [snapping EXCEPT ![c] = [at |-> "delete", periode |-> p, began |-> edition]]
    /\ UNCHANGED <<edition, copies>>

\* Variant: the delete finds nothing, as when it compares another form of p.
DropNone(c) ==
    /\ snapping[c].at = "delete"
    /\ snapping' = [snapping EXCEPT ![c].at = "insert"]
    /\ UNCHANGED <<edition, copies>>

\* DELETE ... WHERE snapshot_periode
DropOld(c) ==
    /\ snapping[c].at = "delete"
    /\ copies' = [copies EXCEPT ![snapping[c].periode] = <<>>]
    /\ snapping' = [snapping EXCEPT ![c].at = "insert"]
    /\ UNCHANGED edition

\* INSERT ... SELECT ... FROM anggaran_node
TakeCopy(c) ==
    /\ snapping[c].at = "insert"
    /\ copies' = [copies EXCEPT ![snapping[c].periode] = Append(@, edition)]
    /\ snapping' = [snapping EXCEPT ![c].at = "answered"]
    /\ UNCHANGED edition

\* A statement fails: the period keeps what the first one left.
SnapFails(c) ==
    /\ snapping[c].at \in {"delete", "insert"}
    /\ snapping' = [snapping EXCEPT ![c].at = "failed"]
    /\ UNCHANGED <<edition, copies>>

SnapNext ==
    \/ BudgetChanges
    \/ \E c \in Caller : DropOld(c) \/ TakeCopy(c) \/ SnapFails(c)
    \/ \E c \in Caller, p \in Periode : Ask(c, p)

SnapSpec == SnapInit /\ [][SnapNext]_snapVars

-----------------------------------------------------------------------------
\* Once the calls for a period are answered, in whatever way they overlapped,
\* the period shows the budget as it was when the last of them began or later,
\* and nothing from before the first (anggaran.go:892-901).  A call that fails
\* after its delete breaks this, and is left out.
LatestAnswerStands ==
    \A p \in Periode :
      LET calls == {c \in Caller : snapping[c].periode = p /\ snapping[c].at # "idle"}
          seen == {copies[p][i] : i \in 1 .. Len(copies[p])}
      IN  calls # {} /\ (\A c \in calls : snapping[c].at = "answered") =>
            /\ \E e \in seen : \A c \in calls : e >= snapping[c].began
            /\ \A e \in seen : \E c \in calls : e >= snapping[c].began
=============================================================================
