------------------------------ MODULE TreeView ------------------------------
(***************************************************************************)
(* buildTree of useAnggaran: from the rows of the server, parents before    *)
(* children, to the tree on the screen and its realisation, which inner     *)
(* nodes take from their children.  A pure function: the rows are fixed.    *)
(***************************************************************************)
EXTENDS Integers, Sequences, FiniteSets, FiniteSetsExt, SequencesExt

CONSTANTS RowId, MaxSum

ASSUME AnswerAssumption == IsFiniteSet(RowId) /\ MaxSum \in Nat

VARIABLES
    rows,      \* ids in the order of the answer
    parent,    \* parent[r]: another row, Top, or Elsewhere for a row left out
    spent_by   \* realisasi_sd_periode of each row

treeVars == <<rows, parent, spent_by>>

Top == "top"
Elsewhere == "elsewhere"

Position(order, r) == CHOOSE i \in 1 .. Len(order) : order[i] = r

\* ORDER BY path: a parent comes before its children.
TreeInit ==
    /\ rows \in SetToSeqs(RowId)
    /\ parent \in [RowId -> RowId \cup {Top, Elsewhere}]
    /\ \A r \in RowId : parent[r] \in RowId =>
           Position(rows, parent[r]) < Position(rows, r)
    /\ spent_by \in [RowId -> 0 .. MaxSum]

\* The map and the roots while the rows are read one after another.
EmptyForest == [roots |-> <<>>, below |-> [r \in {} |-> <<>>]]

\* Variant: a row whose parent is not among the rows is dropped.
PlaceDropped(r, f) ==
    LET seen == [x \in DOMAIN f.below \cup {r} |-> IF x = r THEN <<>> ELSE f.below[x]]
    IN  IF parent[r] = Top THEN [roots |-> Append(f.roots, r), below |-> seen]
        ELSE IF parent[r] \in DOMAIN seen
          THEN [f EXCEPT !.below = [seen EXCEPT ![parent[r]] = Append(@, r)]]
        ELSE [f EXCEPT !.below = seen]

\* A row goes below its parent if that was read before it, else to the roots.
Place(r, f) ==
    LET seen == [x \in DOMAIN f.below \cup {r} |-> IF x = r THEN <<>> ELSE f.below[x]]
    IN  IF parent[r] \in DOMAIN seen
          THEN [f EXCEPT !.below = [seen EXCEPT ![parent[r]] = Append(@, r)]]
          ELSE [roots |-> Append(f.roots, r), below |-> seen]

BuildTree == FoldLeft(LAMBDA f, r : Place(r, f), EmptyForest, rows)

SumOf(f, S) == FoldSet(LAMBDA r, acc : f[r] + acc, 0, S)

\* Variant: an inner node keeps its own amount besides its children's.
AggregateBoth(below) ==
    LET sd[r \in RowId] == spent_by[r] + SumOf(sd, Range(below[r]))
    IN  sd

\* aggregateFromChildren
Aggregate(below) ==
    LET sd[r \in RowId] ==
            IF below[r] = <<>> THEN spent_by[r] ELSE SumOf(sd, Range(below[r]))
    IN  sd

-----------------------------------------------------------------------------
\* Every row of the answer is on the screen exactly once, at the top if its
\* parent is not in the answer (useAnggaran.ts:60-83).
EveryRowOnce ==
    LET tree == BuildTree
        lists == <<tree.roots>> \o [i \in 1 .. Len(rows) |-> tree.below[rows[i]]]
        shown == FoldLeft(LAMBDA s, l : s \o l, <<>>, lists)
    IN  /\ Len(shown) = Len(rows)
        /\ Range(shown) = RowId
        /\ \A r \in RowId : Contains(tree.roots, r) <=> parent[r] \notin RowId

\* What the top rows add up to is what the rows without children spent: no
\* amount is counted at two levels (useAnggaran.ts:86-107).
TopIsSumOfLeaves ==
    LET tree == BuildTree
        leaves == {r \in RowId : ~\E c \in RowId : parent[c] = r}
    IN  SumOf(Aggregate(tree.below), Range(tree.roots)) = SumOf(spent_by, leaves)
=============================================================================
