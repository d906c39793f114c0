---------------------------- MODULE AnggaranTree ----------------------------
(***************************************************************************)
(* What the budget handlers promise: each request either changes the whole  *)
(* tree in one step or changes nothing.  An edit reaches every ancestor in  *)
(* that step (openapi.yaml: "Anggaran updated and rolled up successfully",  *)
(* "Delete an anggaran node and recursively update parents").               *)
(***************************************************************************)
EXTENDS AnggaranData, SequencesExt

VARIABLE db

Ancestors[n \in Node] ==
    IF Parent[n] = NoNode THEN <<>> ELSE <<Parent[n]>> \o Ancestors[Parent[n]]

Below(n) == {m \in Node : m = n \/ n \in ToSet(Ancestors[m])}

\* A row that is not there is not written.
Put(T, n, row) == IF T[n] = NoRow THEN T ELSE [T EXCEPT ![n] = row]

\* One turn of the loops: the sums of the children of p, and in
\* UpdateAnggaranNode its derived columns.
Roll(kind, T, p) ==
    LET row == RollupRow(kind, T[p], T, p)
    IN  Put(T, p, IF kind = "update" THEN Derive(row) ELSE row)

Climb(kind, T, n) ==
    LET Turn(U, p) == Roll(kind, U, p) IN FoldLeft(Turn, T, Ancestors[n])

UpdateResult(T, r) ==
    IF T[r.node] = NoRow THEN T
    ELSE Climb("update", Put(T, r.node, Derive(Edited(T[r.node], r))), r.node)

LockResult(T, r) ==
    IF T[r.node] = NoRow THEN T
    ELSE Climb("lock", [T EXCEPT ![r.node].lock = Decimal(r.lock)], r.node)

DeleteResult(T, r) ==
    Climb("delete", [n \in Node |-> IF n \in Below(r.node) THEN NoRow ELSE T[n]], r.node)

ImportResult(T, r) ==
    [n \in Node |-> IF n \in DOMAIN r.file
                    THEN Upserted(T[n], r.file[n], r.tahun) ELSE T[n]]

RolloverResult(T) ==
    [n \in Node |-> IF T[n] = NoRow THEN NoRow ELSE RolledOver(T[n])]

Result(T, r) ==
    CASE r.kind = "update" -> UpdateResult(T, r)
      [] r.kind = "lock" -> LockResult(T, r)
      [] r.kind = "delete" -> DeleteResult(T, r)
      [] r.kind = "import" -> ImportResult(T, r)
      [] r.kind = "rollover" -> RolloverResult(T)

Init == db = EmptyTable

Next == \E r \in Request : db' = Result(db, r)

Spec == Init /\ [][Next]_db

=============================================================================
