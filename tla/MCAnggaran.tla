----------------------------- MODULE MCAnggaran -----------------------------
(***************************************************************************)
(* Instances of AnggaranTx for TLC: a root akar with a branch k over two       *)
(* leaves a and b.                                                          *)
(***************************************************************************)
EXTENDS AnggaranTx, TLC

CONSTANTS akar, k, a, b

MCParent == [n \in Node |-> IF n = akar THEN NoNode ELSE IF n = k THEN akar ELSE k]
MCDepth == [n \in Node |-> IF n = akar THEN 0 ELSE IF n = k THEN 1 ELSE 2]

FileOf(pagu, lock, lalu, ini) ==
    [pagu |-> pagu, lock |-> lock, lalu |-> lalu, ini |-> ini, sd |-> lalu + ini,
     persen |-> Percent(pagu, lalu + ini), sisa |-> pagu - lalu - ini]

\* A file whose summary rows agree with its leaves.
Consistent(tahun, v, w) ==
    LET leaf == [n \in Node \cap {a, b} |-> IF n = a THEN v ELSE w]
        Sum(f) == SumFunction([n \in DOMAIN leaf |-> Decimal(leaf[n][f])])
    IN  [kind |-> "import", tahun |-> tahun,
         file |-> [n \in Node |-> IF n \in DOMAIN leaf THEN leaf[n]
                    ELSE FileOf(Sum("pagu"), Sum("lock"), Sum("lalu"), Sum("ini"))]]

Edit(n, pagu, lalu, ini) ==
    [kind |-> "update", node |-> n, pagu |-> pagu, lalu |-> lalu, ini |-> ini]
SetLock(n, v) == [kind |-> "lock", node |-> n, lock |-> v]
Delete(n) == [kind |-> "delete", node |-> n]
Tutup == [kind |-> "rollover"]

\* The amount of a that is 0 is no number in the file.
Import1 == Consistent(2025, [FileOf(2, 1, 0, 1) EXCEPT !.lalu = Garbled], FileOf(1, 0, 1, 0))

\* One handler at a time, every kind of request; ini = 20 overflows the
\* percentage of a small pagu.
SerialRequests ==
    {Import1, Edit(a, 3, Keep, Keep), Edit(a, Keep, Keep, 20), Edit(b, Garbled, 0, 2),
     SetLock(b, 2), Delete(a), Delete(k), Tutup}

-----------------------------------------------------------------------------
(* Concurrent instances start after an import of a consistent file.         *)

Seed == Atomic!ImportResult(EmptyTable, Import1)
SeededSpec == Started(Seed) /\ [][Next]_vars
TxSymmetry == Permutations(Tx)
FairSeededSpec == SeededSpec /\ Fairness

\* Pagu edits of one item beside lock edits of another: they share every
\* ancestor and no column.
EditRequests == {Edit(a, 3, Keep, Keep), Edit(a, 1, 1, 0), SetLock(b, 2)}

\* Pagu edits of two items below one branch.
SiblingEdits == {Edit(a, 3, Keep, Keep), Edit(b, 2, Keep, Keep)}

\* Next year's file with the same codes.
Import2 == Consistent(2026, FileOf(4, 0, 2, 0), FileOf(1, 1, 0, 0))

\* Two budget years, one after the other.
YearRequests == {Import1, Import2}

\* The end of a month: edits beside the roll-over and a new file.
MonthEndRequests == {Edit(a, Keep, 0, 2), SetLock(b, 2), Tutup, Import2}

\* An import and a delete that change the shape of the tree, with an edit.
LiveRequests == {Import2, Delete(k), Edit(a, 3, Keep, Keep)}

=============================================================================
