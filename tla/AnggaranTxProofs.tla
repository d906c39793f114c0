-------------------------- MODULE AnggaranTxProofs --------------------------
(***************************************************************************)
(* Theorems about AnggaranTx, for every tree, every set of concurrent       *)
(* handlers and every column range.                                         *)
(***************************************************************************)
EXTENDS AnggaranTx, TLAPS

\* The kind of a request says which fields it has.
LEMMA RequestKinds ==
    ASSUME NEW q \in Request
    PROVE  /\ q.kind \in {"update", "lock", "delete", "import", "rollover"}
           /\ q.kind = "update" => q \in UpdateRequest
           /\ q.kind = "lock" => q \in LockRequest
           /\ q.kind = "delete" => q \in DeleteRequest
           /\ q.kind = "import" => ImportRequest(q)
    BY RequestAssumption DEF NodeRequest, UpdateRequest, LockRequest,
       DeleteRequest, RolloverRequest, ImportRequest

\* A view is a table: the transaction's own versions over the committed ones.
LEMMA ViewType ==
    ASSUME TypeOK, NEW t \in Tx
    PROVE  View(t) \in Table
    BY DEF TypeOK, View, Table

\* A node of an import file makes a row.
LEMMA DecimalIs ==
    /\ \A v \in AmountText : Decimal(v) \in Amount
    /\ \A v \in Persen \cup {Garbled} : Decimal(v) \in Persen
<1>1. 0 \in Amount /\ 0 \in Persen
  <2>1. MaxAmount \in Nat
    BY ValueAssumption
  <2>2. QED BY <2>1 DEF Amount, Persen
<1>2. QED BY <1>1 DEF AmountText, Decimal

LEMMA UpsertedType ==
    ASSUME NEW f \in FileRow, NEW old \in Row \cup {NoRow}, NEW y \in Tahun
    PROVE  Upserted(old, f, y) \in Row
<1>1. /\ Decimal(f.pagu) \in Amount /\ Decimal(f.lock) \in Amount /\ Decimal(f.lalu) \in Amount
      /\ Decimal(f.ini) \in Amount /\ Decimal(f.sd) \in Amount /\ Decimal(f.sisa) \in Amount
      /\ Decimal(f.persen) \in Persen
  BY DecimalIs DEF FileRow
<1>2. QED BY <1>1 DEF Row, Upserted

\* One row of a transaction's own versions changes, or none.
LEMMA OwnType ==
    ASSUME own \in [Tx -> [Node -> Row \cup {NoRow, Clean}]], NEW t \in Tx,
           NEW n \in Node, NEW row \in Row \cup {NoRow},
           Store(t, n, row) \/ Skip(t)
    PROVE  own' \in [Tx -> [Node -> Row \cup {NoRow, Clean}]]
<1>1. CASE Skip(t) BY <1>1 DEF Skip
<1>2. CASE Store(t, n, row)
  <2>1. [own[t] EXCEPT ![n] = row] \in [Node -> Row \cup {NoRow, Clean}]
    OBVIOUS
  <2>2. own' = [own EXCEPT ![t] = [own[t] EXCEPT ![n] = row]]
    BY <1>2 DEF Store
  <2>3. QED BY <2>1, <2>2
<1>3. QED BY <1>1, <1>2

-----------------------------------------------------------------------------
(* Type correctness.  The loops need to know that the node they stand on is *)
(* a node, and that a roll-up that waits does so for its parent.            *)

Staged(t) ==
    /\ pc[t] \in {"derive", "rollup", "cascade"} => cur[t] \in Node
    /\ pc[t] = "rollup" /\ want[t] # NoNode => Parent[cur[t]] = want[t]
    /\ pc[t] = "upsert" => /\ req[t] \in Request /\ req[t].kind = "import"
                           /\ todo[t] \subseteq DOMAIN req[t].file
    /\ pc[t] \in {"lookup", "write"} => req[t] \in Request

TypeInv == TypeOK /\ \A t \in Tx : Staged(t)

\* The end of a transaction leaves it idle, with nothing written.
LEMMA ReleaseTypeInv ==
    ASSUME TypeInv, NEW t \in Tx, Release(t), db' \in Table
    PROVE  TypeInv'
<1>1. TypeOK'
  BY DEF TypeInv, TypeOK, Release, Stage, EmptyTable, Table
<1>2. ASSUME NEW u \in Tx PROVE Staged(u)'
  BY DEF TypeInv, TypeOK, Staged, Release
<1>3. QED BY <1>1, <1>2 DEF TypeInv

LEMMA RollbackTypeInv ==
    ASSUME TypeInv, NEW t \in Tx, Rollback(t)
    PROVE  TypeInv'
  BY ReleaseTypeInv DEF Rollback, TypeInv, TypeOK

\* A statement that waits keeps its place in the handler.
LEMMA BlockTypeInv ==
    ASSUME TypeInv, NEW t \in Tx, NEW n \in Node, Block(t, n),
           pc[t] = "rollup" => n = Parent[cur[t]]
    PROVE  TypeInv'
<1>1. View(t) \in Table BY ViewType DEF TypeInv
<1>2. TypeOK' BY <1>1 DEF TypeInv, TypeOK, Block
<1>3. ASSUME NEW u \in Tx PROVE Staged(u)'
  BY DEF TypeInv, TypeOK, Staged, Block
<1>4. QED BY <1>2, <1>3 DEF TypeInv

\* An UPDATE of one row, in each of its outcomes.
LEMMA UpdateTypeInv ==
    ASSUME TypeInv, NEW t \in Tx, NEW n \in Node, NEW row, NEW at \in Node,
           NEW next \in {"derive", "rollup"}, Update(t, n, row, next, at),
           pc[t] = "rollup" => n = Parent[cur[t]]
    PROVE  TypeInv'
<1>1. CASE Block(t, n) BY <1>1, BlockTypeInv
<1>2. CASE Rollback(t) BY <1>2, RollbackTypeInv
<1>3. CASE /\ IF Hit(t, n) THEN row \in Row /\ Store(t, n, row) ELSE Skip(t)
           /\ pc' = [pc EXCEPT ![t] = next]
           /\ cur' = [cur EXCEPT ![t] = at]
           /\ UNCHANGED <<db, req, todo>>
  <2>1. own' \in [Tx -> [Node -> Row \cup {NoRow, Clean}]]
    <3>1. CASE Hit(t, n) BY <3>1, <1>3, OwnType DEF TypeInv, TypeOK
    <3>2. CASE ~Hit(t, n) BY <3>2, <1>3 DEF TypeInv, TypeOK, Skip
    <3>3. QED BY <3>1, <3>2
  <2>2. /\ want' = [want EXCEPT ![t] = NoNode]
        /\ snap' = [snap EXCEPT ![t] = EmptyTable]
    BY <1>3 DEF Store, Skip
  <2>3. TypeOK'
    BY <1>3, <2>1, <2>2 DEF TypeInv, TypeOK, Stage, EmptyTable, Table
  <2>4. ASSUME NEW u \in Tx PROVE Staged(u)'
    BY <1>3, <2>2 DEF TypeInv, TypeOK, Staged
  <2>5. QED BY <2>3, <2>4 DEF TypeInv
<1>4. QED BY <1>1, <1>2, <1>3 DEF Update

\* A row written by an import, a rollover or a cascading delete.
LEMMA StoreTypeInv ==
    ASSUME TypeInv, NEW t \in Tx, NEW n \in Node, NEW row \in Row \cup {NoRow},
           Store(t, n, row) \/ Skip(t),
           NEW rest \in SUBSET todo[t], todo' = [todo EXCEPT ![t] = rest],
           pc[t] # "rollup", UNCHANGED <<db, pc, req, cur>>
    PROVE  TypeInv'
<1>1. own' \in [Tx -> [Node -> Row \cup {NoRow, Clean}]]
  BY OwnType DEF TypeInv, TypeOK
<1>2. /\ want' = [want EXCEPT ![t] = NoNode]
      /\ snap' = [snap EXCEPT ![t] = EmptyTable]
  BY DEF Store, Skip
<1>3. TypeOK' BY <1>1, <1>2 DEF TypeInv, TypeOK, EmptyTable, Table
<1>4. ASSUME NEW u \in Tx PROVE Staged(u)'
  BY <1>2 DEF TypeInv, TypeOK, Staged
<1>5. QED BY <1>3, <1>4 DEF TypeInv

\* A step that only moves on to the next stage.
LEMMA MoveTypeInv ==
    ASSUME TypeInv, NEW t \in Tx, NEW stage \in Stage,
           pc' = [pc EXCEPT ![t] = stage], UNCHANGED <<db, own, req, cur, todo, want, snap>>,
           \/ stage = "commit"
           \/ stage = "write" /\ pc[t] = "lookup"
    PROVE  TypeInv'
<1>1. TypeOK' BY DEF TypeInv, TypeOK
<1>2. ASSUME NEW u \in Tx PROVE Staged(u)'
  BY DEF TypeInv, TypeOK, Staged
<1>3. QED BY <1>1, <1>2 DEF TypeInv

LEMMA BeginTypeInv ==
    ASSUME TypeInv, NEW t \in Tx, Begin(t)
    PROVE  TypeInv'
<1> PICK r \in Request :
      /\ req' = [req EXCEPT ![t] = r]
      /\ pc' = [pc EXCEPT ![t] = FirstStep(r.kind)]
      /\ todo' = [todo EXCEPT ![t] =
            CASE r.kind = "import" -> DOMAIN r.file
              [] r.kind = "rollover" -> {n \in Node : db[n] # NoRow}
              [] OTHER -> {}]
  BY DEF Begin
<1> USE RequestKinds
<1>1. /\ FirstStep(r.kind) \in {"lookup", "write", "upsert", "sweep"}
      /\ FirstStep(r.kind) = "upsert" => r.kind = "import"
  BY DEF FirstStep
<1>2. r.kind = "import" => DOMAIN r.file \in SUBSET Node
  BY DEF ImportRequest, FileNodes
<1>3. todo' \in [Tx -> SUBSET Node] BY <1>2 DEF TypeInv, TypeOK
<1>4. TypeOK' BY <1>1, <1>3 DEF Begin, TypeInv, TypeOK, Stage
<1>5. ASSUME NEW u \in Tx PROVE Staged(u)'
  <2>1. CASE u = t
    BY <2>1, <1>1 DEF Begin, TypeInv, TypeOK, Staged
  <2>2. CASE u # t
    BY <2>2 DEF Begin, TypeInv, TypeOK, Staged
  <2>3. QED BY <2>1, <2>2
<1>6. QED BY <1>4, <1>5 DEF TypeInv

\* The DELETE and its cascade.
LEMMA DeleteTypeInv ==
    ASSUME TypeInv, NEW t \in Tx,
           DeleteLookup(t) \/ DeleteWrite(t) \/ Cascade(t) \/ CascadeEnd(t)
    PROVE  TypeInv'
<1> USE RequestKinds
<1>1. CASE DeleteLookup(t)
  BY <1>1, RollbackTypeInv, MoveTypeInv DEF DeleteLookup, Stage
<1>2. CASE DeleteWrite(t)
  <2> DEFINE n == req[t].node
  <2>1. n \in Node
    BY <1>2 DEF DeleteWrite, TypeInv, Staged, DeleteRequest
  <2>2. CASE Block(t, n) BY <2>1, <2>2, <1>2, BlockTypeInv DEF DeleteWrite
  <2>3. CASE ~Block(t, n)
    <3>1. /\ Store(t, n, NoRow) \/ Skip(t)
          /\ pc' = [pc EXCEPT ![t] = "cascade"]
          /\ cur' = [cur EXCEPT ![t] = n]
          /\ UNCHANGED <<db, req, todo>>
      BY <1>2, <2>3 DEF DeleteWrite
    <3>2. own' \in [Tx -> [Node -> Row \cup {NoRow, Clean}]]
      BY <2>1, <3>1, OwnType DEF TypeInv, TypeOK
    <3>3. /\ want' = [want EXCEPT ![t] = NoNode]
          /\ snap' = [snap EXCEPT ![t] = EmptyTable]
      BY <3>1 DEF Store, Skip
    <3>4. TypeOK'
      BY <2>1, <3>1, <3>2, <3>3
      DEF TypeInv, TypeOK, Stage, EmptyTable, Table
    <3>5. ASSUME NEW u \in Tx PROVE Staged(u)'
      BY <2>1, <3>1, <3>3 DEF TypeInv, TypeOK, Staged
    <3>6. QED BY <3>4, <3>5 DEF TypeInv
  <2>4. QED BY <2>2, <2>3
<1>3. CASE Cascade(t)
  <2>1. PICK c \in Node :
           \/ Block(t, c)
           \/ Store(t, c, NoRow) /\ UNCHANGED <<db, pc, req, cur, todo>>
    BY <1>3 DEF Cascade, Cascaded
  <2>2. CASE Block(t, c) BY <2>2, <1>3, BlockTypeInv DEF Cascade
  <2>3. CASE Store(t, c, NoRow) /\ UNCHANGED <<db, pc, req, cur, todo>>
    <3>1. todo' = [todo EXCEPT ![t] = todo[t]]
      BY <2>3 DEF TypeInv, TypeOK
    <3>2. QED BY <3>1, <2>3, <1>3, StoreTypeInv DEF Cascade
  <2>4. QED BY <2>1, <2>2, <2>3
<1>4. CASE CascadeEnd(t)
  <2>1. /\ want' = [want EXCEPT ![t] = NoNode]
        /\ snap' = [snap EXCEPT ![t] = EmptyTable]
        /\ own' = own
    BY <1>4 DEF CascadeEnd, Skip
  <2>2. TypeOK'
    BY <1>4, <2>1 DEF CascadeEnd, TypeInv, TypeOK, Stage, EmptyTable, Table
  <2>3. ASSUME NEW u \in Tx PROVE Staged(u)'
    BY <1>4, <2>1 DEF CascadeEnd, TypeInv, TypeOK, Staged
  <2>4. QED BY <2>2, <2>3 DEF TypeInv
<1>5. QED BY <1>1, <1>2, <1>3, <1>4

\* The import's upserts and the rollover's sweep.
LEMMA SweepTypeInv ==
    ASSUME TypeInv, NEW t \in Tx, ImportUpsert(t) \/ RolloverSweep(t)
    PROVE  TypeInv'
<1>1. CASE ImportUpsert(t)
  <2>1. PICK n \in todo[t] :
           \/ Block(t, n)
           \/ /\ Store(t, n, Upserted(View(t)[n], req[t].file[n], req[t].tahun))
              /\ todo' = [todo EXCEPT ![t] = @ \ {n}]
              /\ UNCHANGED <<db, pc, req, cur>>
    BY <1>1 DEF ImportUpsert
  <2>2. n \in Node BY DEF TypeInv, TypeOK
  <2>3. CASE Block(t, n) BY <2>2, <2>3, <1>1, BlockTypeInv DEF ImportUpsert
  <2>4. CASE ~Block(t, n)
    <3>1. ImportRequest(req[t]) /\ n \in DOMAIN req[t].file
      BY <1>1, RequestKinds DEF ImportUpsert, TypeInv, Staged
    <3>2. req[t].file[n] \in FileRow /\ req[t].tahun \in Tahun
      BY <3>1 DEF ImportRequest
    <3>3. View(t)[n] \in Row \cup {NoRow}
      BY <2>2, ViewType DEF TypeInv, Table
    <3>4. Upserted(View(t)[n], req[t].file[n], req[t].tahun) \in Row
      BY <3>2, <3>3, UpsertedType
    <3>5. todo[t] \ {n} \in SUBSET todo[t] /\ pc[t] # "rollup"
      BY <1>1 DEF ImportUpsert
    <3>6. QED BY <2>1, <2>2, <2>4, <3>4, <3>5, StoreTypeInv
  <2>5. QED BY <2>3, <2>4
<1>2. CASE RolloverSweep(t)
  <2>1. PICK n \in todo[t] :
           \/ Block(t, n)
           \/ /\ IF View(t)[n] # NoRow
                 THEN RolledOver(View(t)[n]) \in Row /\ Store(t, n, RolledOver(View(t)[n]))
                 ELSE Skip(t)
              /\ todo' = [todo EXCEPT ![t] = @ \ {n}]
              /\ UNCHANGED <<db, pc, req, cur>>
           \/ Rollback(t)
    BY <1>2 DEF RolloverSweep
  <2>2. n \in Node BY DEF TypeInv, TypeOK
  <2>3. CASE Block(t, n) BY <2>2, <2>3, <1>2, BlockTypeInv DEF RolloverSweep
  <2>4. CASE Rollback(t) BY <2>4, RollbackTypeInv
  <2>5. CASE ~Block(t, n) /\ ~Rollback(t)
    <3>1. PICK row \in Row \cup {NoRow} : Store(t, n, row) \/ Skip(t)
      BY <2>1, <2>5
    <3>2. todo[t] \ {n} \in SUBSET todo[t] /\ pc[t] # "rollup"
      BY <1>2 DEF RolloverSweep
    <3>3. QED BY <2>1, <2>2, <2>5, <3>1, <3>2, StoreTypeInv
  <2>6. QED BY <2>3, <2>4, <2>5
<1>3. QED BY <1>1, <1>2

LEMMA TypeInvStep ==
    ASSUME TypeInv, NEW t \in Tx, Begin(t) \/ Step(t) \/ Fail(t) \/ Victim(t)
    PROVE  TypeInv'
<1> USE RequestKinds
<1>1. CASE Begin(t) BY <1>1, BeginTypeInv
<1>2. CASE UpdateWrite(t)
  <2>1. req[t].node \in Node /\ pc[t] = "write"
    BY <1>2 DEF UpdateWrite, TypeInv, Staged, UpdateRequest
  <2>2. QED BY <1>2, <2>1, UpdateTypeInv DEF UpdateWrite
<1>3. CASE UpdateDerive(t)
  BY <1>3, UpdateTypeInv DEF UpdateDerive, TypeInv, Staged
<1>4. CASE LockWrite(t)
  <2>1. req[t].node \in Node /\ pc[t] = "write"
    BY <1>4 DEF LockWrite, TypeInv, Staged, LockRequest
  <2>2. QED BY <1>4, <2>1, UpdateTypeInv DEF LockWrite
<1>5. CASE Rollup(t)
  <2> DEFINE p == Parent[cur[t]]
  <2>1. p \in Node
    BY <1>5, TreeAssumption DEF Rollup, AtTop, TypeInv, TypeOK, Staged
  <2>2. QED BY <1>5, <2>1, UpdateTypeInv DEF Rollup
<1>6. CASE RollupEnd(t) BY <1>6, MoveTypeInv DEF RollupEnd, Stage
<1>7. CASE DeleteLookup(t) \/ DeleteWrite(t) \/ Cascade(t) \/ CascadeEnd(t)
  BY <1>7, DeleteTypeInv
<1>8. CASE ImportUpsert(t) \/ RolloverSweep(t) BY <1>8, SweepTypeInv
<1>9. CASE WorkEnd(t) BY <1>9, MoveTypeInv DEF WorkEnd, Stage
<1>10. CASE Commit(t)
  BY <1>10, ViewType, ReleaseTypeInv DEF Commit, TypeInv
<1>11. CASE Fail(t) \/ Victim(t)
  BY <1>11, RollbackTypeInv DEF Fail, Victim
<1>12. QED BY <1>1, <1>2, <1>3, <1>4, <1>5, <1>6, <1>7, <1>8, <1>9, <1>10, <1>11
           DEF Step

\* An empty table, or any other, when the server starts.
LEMMA StartedTypeInv ==
    ASSUME NEW T \in Table, Started(T)
    PROVE  TypeInv
  BY DEF Started, EmptyTable, TypeInv, TypeOK, Staged, Stage, Table

LEMMA TypeInvNext == TypeInv /\ [Next]_vars => TypeInv'
<1> SUFFICES ASSUME TypeInv, [Next]_vars PROVE TypeInv'
  OBVIOUS
<1>1. CASE Next BY <1>1, TypeInvStep DEF Next
<1>2. CASE UNCHANGED vars BY <1>2 DEF vars, TypeInv, TypeOK, Staged
<1>3. QED BY <1>1, <1>2

\* Whatever the tree, the column ranges and the number of handlers, every row
\* a statement leaves fits its columns, and every loop stands on a node.
THEOREM TypeCorrect == Spec => []TypeOK
<1>1. Init => TypeInv
  BY StartedTypeInv DEF Init, EmptyTable, Table
<1>2. TypeInv => TypeOK BY DEF TypeInv
<1>3. QED BY <1>1, <1>2, TypeInvNext, PTL DEF Spec

-----------------------------------------------------------------------------
(* Row locks.                                                              *)

\* Two transactions never hold uncommitted versions of the same row: each
\* statement writes a row only while no other transaction has written it.
RowLockExclusive ==
    \A t, u \in Tx, n \in Node : t # u => own[t][n] = Clean \/ own[u][n] = Clean

LockInv == TypeInv /\ RowLockExclusive

\* What a step does to the rows the transactions have written: nothing to those
\* of other transactions, and to its own one row it has locked, or all of them.
Writes(t, n) == /\ Free(t, n)
                /\ \E row \in Row \cup {NoRow} : own' = [own EXCEPT ![t][n] = row]

LEMMA StepWrites ==
    ASSUME TypeInv, NEW t \in Tx, Begin(t) \/ Step(t) \/ Fail(t) \/ Victim(t)
    PROVE  \/ own' = own
           \/ own' = [own EXCEPT ![t] = [n \in Node |-> Clean]]
           \/ \E n \in Node : Writes(t, n)
<1> USE RequestKinds
<1>1. ASSUME NEW n \in Node, NEW row, NEW next, NEW at, Update(t, n, row, next, at)
      PROVE  \/ own' = own
             \/ own' = [own EXCEPT ![t] = [m \in Node |-> Clean]]
             \/ Writes(t, n)
  BY <1>1 DEF Update, Block, Store, Skip, Rollback, Release, Ready, Hit, Writes
<1>2. CASE UpdateWrite(t)
  <2>1. req[t].node \in Node
    BY <1>2 DEF UpdateWrite, TypeInv, Staged, UpdateRequest
  <2>2. QED BY <1>1, <1>2, <2>1 DEF UpdateWrite
<1>3. CASE UpdateDerive(t)
  BY <1>1, <1>3 DEF UpdateDerive, TypeInv, Staged
<1>4. CASE LockWrite(t)
  <2>1. req[t].node \in Node
    BY <1>4 DEF LockWrite, TypeInv, Staged, LockRequest
  <2>2. QED BY <1>1, <1>4, <2>1 DEF LockWrite
<1>5. CASE Rollup(t)
  <2> DEFINE p == Parent[cur[t]]
  <2>1. p \in Node
    BY <1>5, TreeAssumption DEF Rollup, AtTop, TypeInv, TypeOK, Staged
  <2>2. QED BY <1>1, <1>5, <2>1 DEF Rollup
<1>6. CASE DeleteWrite(t)
  <2>1. req[t].node \in Node
    BY <1>6 DEF DeleteWrite, TypeInv, Staged, DeleteRequest
  <2>2. QED
    BY <1>6, <2>1 DEF DeleteWrite, Block, Store, Skip, Ready, Hit, Writes
<1>7. CASE Cascade(t)
  BY <1>7 DEF Cascade, Cascaded, Block, Store, Writes
<1>8. CASE ImportUpsert(t)
  <2>1. PICK n \in todo[t] :
           \/ Block(t, n)
           \/ /\ Free(t, n)
              /\ Store(t, n, Upserted(View(t)[n], req[t].file[n], req[t].tahun))
    BY <1>8 DEF ImportUpsert
  <2>2. n \in Node BY DEF TypeInv, TypeOK
  <2>3. ImportRequest(req[t]) /\ n \in DOMAIN req[t].file
    BY <1>8 DEF ImportUpsert, TypeInv, Staged
  <2>4. View(t)[n] \in Row \cup {NoRow}
    BY <2>2, ViewType DEF TypeInv, Table
  <2>5. Upserted(View(t)[n], req[t].file[n], req[t].tahun) \in Row
    BY <2>3, <2>4, UpsertedType DEF ImportRequest
  <2>6. QED BY <2>1, <2>2, <2>5 DEF Block, Store, Writes
<1>9. CASE RolloverSweep(t)
  <2>1. PICK n \in todo[t] :
           \/ Block(t, n)
           \/ /\ Free(t, n)
              /\ \/ RolledOver(View(t)[n]) \in Row /\ Store(t, n, RolledOver(View(t)[n]))
                 \/ Skip(t)
           \/ Rollback(t)
    BY <1>9 DEF RolloverSweep
  <2>2. n \in Node BY DEF TypeInv, TypeOK
  <2>3. QED BY <2>1, <2>2 DEF Block, Store, Skip, Rollback, Release, Writes
<1>10. CASE Begin(t) \/ RollupEnd(t) \/ WorkEnd(t) \/ DeleteLookup(t) \/ CascadeEnd(t)
  BY <1>10 DEF Begin, RollupEnd, WorkEnd, DeleteLookup, CascadeEnd, Skip,
               Rollback, Release
<1>11. CASE Commit(t) \/ Fail(t) \/ Victim(t)
  BY <1>11 DEF Commit, Fail, Victim, Rollback, Release
<1>12. QED BY <1>2, <1>3, <1>4, <1>5, <1>6, <1>7, <1>8, <1>9, <1>10, <1>11
           DEF Step

LEMMA LockInvNext == LockInv /\ [Next]_vars => LockInv'
<1> SUFFICES ASSUME LockInv, [Next]_vars PROVE RowLockExclusive'
  BY TypeInvNext DEF LockInv
<1>1. CASE UNCHANGED vars
  BY <1>1 DEF vars, LockInv, RowLockExclusive
<1>2. ASSUME NEW t \in Tx, Begin(t) \/ Step(t) \/ Fail(t) \/ Victim(t)
      PROVE  RowLockExclusive'
  <2>1. CASE own' = own BY <2>1 DEF LockInv, RowLockExclusive
  <2>2. CASE own' = [own EXCEPT ![t] = [n \in Node |-> Clean]]
    BY <2>2 DEF LockInv, RowLockExclusive, TypeInv, TypeOK
  <2>3. ASSUME NEW n \in Node, Writes(t, n) PROVE RowLockExclusive'
    <3> SUFFICES ASSUME NEW u \in Tx, NEW v \in Tx, NEW m \in Node, u # v
                 PROVE  own'[u][m] = Clean \/ own'[v][m] = Clean
      BY DEF RowLockExclusive
    <3>1. /\ \A w \in Tx \ {t} : own'[w] = own[w]
          /\ m # n => own'[t][m] = own[t][m]
      BY <2>3 DEF Writes, LockInv, TypeInv, TypeOK
    <3>2. own[u][m] = Clean \/ own[v][m] = Clean
      BY DEF LockInv, RowLockExclusive
    <3>3. QED BY <2>3, <3>1, <3>2 DEF Writes, Free
  <2>4. QED BY <1>2, <2>1, <2>2, <2>3, StepWrites DEF LockInv
<1>3. QED BY <1>1, <1>2 DEF Next

LEMMA StartedLockInv ==
    ASSUME NEW T \in Table, Started(T)
    PROVE  LockInv
  BY StartedTypeInv DEF Started, LockInv, RowLockExclusive

\* Handlers of any kind, run at the same time, never overwrite each other's
\* uncommitted rows.
THEOREM RowsLocked == Spec => []RowLockExclusive
<1>1. Init => LockInv
  BY StartedLockInv DEF Init, EmptyTable, Table
<1>2. LockInv => RowLockExclusive BY DEF LockInv
<1>3. QED BY <1>1, <1>2, LockInvNext, PTL DEF Spec


-----------------------------------------------------------------------------
(* The forest of the committed rows.                                       *)

Held(t, n) == own[t][n] # Clean /\ own[t][n] # NoRow

\* The stage of a handler says which request it serves; an idle one holds nothing.
Kinded(t) ==
    /\ pc[t] = "idle" => \A n \in Node : own[t][n] = Clean
    /\ pc[t] \in {"write", "rollup"} => req[t].kind \in {"update", "lock", "delete"}
    /\ pc[t] = "derive" => req[t].kind = "update"
    /\ pc[t] \in {"lookup", "cascade"} => req[t].kind = "delete"
    /\ pc[t] = "upsert" => req[t].kind = "import"
    /\ pc[t] = "sweep" => req[t].kind = "rollover"

\* What a transaction's own versions owe to the tree: only a delete takes rows
\* away, only an import adds some, a child after its parent, and after the
\* cascade no row is left below a deleted one.
Family(t) ==
    /\ \A n \in Node : own[t][n] = NoRow => req[t].kind = "delete"
    /\ req[t].kind # "import" => \A n \in Node : Held(t, n) => db[n] # NoRow
    /\ req[t].kind = "import" =>
         \A n \in Node : Held(t, n) /\ Parent[n] # NoNode => Held(t, Parent[n])
    /\ pc[t] = "upsert" => \A n \in DOMAIN req[t].file \ todo[t] : Held(t, n)
    /\ pc[t] \in {"rollup", "commit"} => Cascaded(t) = {}

ForestInv == LockInv /\ ForestClosed /\ \A t \in Tx : Kinded(t) /\ Family(t)

\* A handler to which nothing happens, while the table stays, keeps its part.
LEMMA BystanderKeeps ==
    ASSUME NEW u \in Tx, Kinded(u), Family(u), own'[u] = own[u], pc'[u] = pc[u],
           req'[u] = req[u], todo'[u] = todo[u], db' = db
    PROVE  Kinded(u)' /\ Family(u)'
<1>1. Kinded(u)' BY DEF Kinded
<1>2. \A n \in Node : Held(u, n)' = Held(u, n) BY DEF Held
<1>3. Cascaded(u)' = Cascaded(u) BY DEF Cascaded, View
<1>4. \A n \in Node : Parent[n] # NoNode => Parent[n] \in Node
  BY TreeAssumption
<1>5. (req[u].kind = "import" =>
         \A n \in Node : Held(u, n) /\ Parent[n] # NoNode => Held(u, Parent[n]))'
  BY <1>2, <1>4 DEF Family
<1>6. (pc[u] = "upsert" => \A n \in DOMAIN req[u].file \ todo[u] : Held(u, n))'
  BY DEF Family, Held
<1>7. QED BY <1>1, <1>2, <1>3, <1>5, <1>6 DEF Family

\* A handler that has let go of everything.
LEMMA IdleFamily ==
    ASSUME TypeInv, NEW t \in Tx, Release(t)
    PROVE  Kinded(t)' /\ Family(t)'
<1>1. /\ \A n \in Node : own'[t][n] = Clean
      /\ pc'[t] = "idle" /\ req'[t] = NoRequest
  BY DEF TypeInv, TypeOK, Release
<1>2. \A n \in Node : ~Held(t, n)' /\ own'[t][n] # NoRow
  BY <1>1, ValueAssumption DEF Held
<1>3. NoRequest.kind # "import" BY DEF NoRequest
<1>4. QED BY <1>1, <1>2, <1>3 DEF Kinded, Family

\* Nothing is left below a deleted row where nothing is deleted.
LEMMA NoCascade ==
    ASSUME NEW t \in Tx, Family(t), req[t].kind # "delete"
    PROVE  Cascaded(t) = {}
  BY TreeAssumption DEF Family, Cascaded

\* A row is replaced by another row.
LEMMA ReplaceFamily ==
    ASSUME TypeInv, NEW t \in Tx, NEW n \in Node, NEW row \in Row,
           Family(t), Store(t, n, row), View(t)[n] # NoRow,
           db' = db, req' = req, req[t].kind # "import",
           pc'[t] # "upsert",
           pc'[t] \in {"rollup", "commit"} => Cascaded(t) = {}
    PROVE  Family(t)'
<1>1. /\ own'[t][n] = row
      /\ \A m \in Node \ {n} : own'[t][m] = own[t][m]
  BY DEF TypeInv, TypeOK, Store
<1>2. row # NoRow /\ row # Clean BY ValueAssumption
<1>3. Held(t, n) \/ db[n] # NoRow
  BY DEF View, Held
<1>4. \A m \in Node : own'[t][m] = NoRow => req'[t].kind = "delete"
  BY <1>1, <1>2 DEF Family
<1>5. \A m \in Node : Held(t, m)' => db'[m] # NoRow
  BY <1>1, <1>3 DEF Family, Held
<1>6. ASSUME Cascaded(t) = {} PROVE Cascaded(t)' = {}
  <2> SUFFICES ASSUME NEW c \in Node, Parent[c] # NoNode,
                      own'[t][Parent[c]] = NoRow, View(t)'[c] # NoRow
               PROVE  FALSE
    BY DEF Cascaded
  <2>1. Parent[c] \in Node BY TreeAssumption
  <2>2. own[t][Parent[c]] = NoRow BY <2>1, <1>1, <1>2
  <2>3. View(t)[c] # NoRow BY <1>1 DEF View
  <2>4. QED BY <2>2, <2>3, <1>6 DEF Cascaded
<1>7. QED BY <1>4, <1>5, <1>6 DEF Family

\* A step that writes nothing.
LEMMA StayFamily ==
    ASSUME NEW t \in Tx, Family(t), own'[t] = own[t], db' = db, req'[t] = req[t],
           pc'[t] = "upsert" => pc[t] = "upsert" /\ todo'[t] = todo[t],
           pc'[t] \in {"rollup", "commit"} => Cascaded(t) = {}
    PROVE  Family(t)'
<1>1. \A n \in Node : Held(t, n)' = Held(t, n) BY DEF Held
<1>2. Cascaded(t)' = Cascaded(t) BY DEF Cascaded, View
<1>3. \A n \in Node : Parent[n] # NoNode => Parent[n] \in Node
  BY TreeAssumption
<1>4. (req[t].kind = "import" =>
         \A n \in Node : Held(t, n) /\ Parent[n] # NoNode => Held(t, Parent[n]))'
  BY <1>1, <1>3 DEF Family
<1>5. (pc[t] = "upsert" => \A n \in DOMAIN req[t].file \ todo[t] : Held(t, n))'
  BY DEF Family, Held
<1>6. QED BY <1>1, <1>2, <1>4, <1>5 DEF Family

\* An UPDATE of one row, in each of its outcomes.
LEMMA UpdateFamily ==
    ASSUME TypeInv, NEW t \in Tx, Kinded(t), Family(t), NEW n \in Node, NEW row,
           NEW next \in {"derive", "rollup"}, NEW at, Update(t, n, row, next, at),
           req[t].kind \in {"update", "lock", "delete"},
           next = "derive" => req[t].kind = "update",
           Cascaded(t) = {}
    PROVE  Kinded(t)' /\ Family(t)'
<1>1. CASE Block(t, n)
  BY <1>1, BystanderKeeps DEF Block
<1>2. CASE Rollback(t) BY <1>2, IdleFamily DEF Rollback
<1>3. CASE /\ IF Hit(t, n) THEN row \in Row /\ Store(t, n, row) ELSE Skip(t)
           /\ pc' = [pc EXCEPT ![t] = next]
           /\ UNCHANGED <<db, req, todo>>
  <2>1. pc'[t] = next BY <1>3 DEF TypeInv, TypeOK
  <2>2. Kinded(t)' BY <1>3, <2>1 DEF Kinded
  <2>3. CASE Hit(t, n)
    <3>1. View(t)[n] # NoRow BY <2>3 DEF Hit
    <3>2. QED BY <1>3, <2>1, <2>2, <2>3, <3>1, ReplaceFamily
  <2>4. CASE ~Hit(t, n)
    BY <1>3, <2>1, <2>2, <2>4, StayFamily DEF Skip
  <2>5. QED BY <2>3, <2>4
<1>4. QED BY <1>1, <1>2, <1>3 DEF Update

\* Rows are added by an import, each below one it has added or found.
LEMMA UpsertFamily ==
    ASSUME TypeInv, NEW t \in Tx, Kinded(t), Family(t), ImportUpsert(t)
    PROVE  Kinded(t)' /\ Family(t)'
<1>1. PICK n \in todo[t] :
         /\ Parent[n] \notin todo[t]
         /\ \/ Block(t, n)
            \/ /\ Store(t, n, Upserted(View(t)[n], req[t].file[n], req[t].tahun))
               /\ todo' = [todo EXCEPT ![t] = @ \ {n}]
               /\ UNCHANGED <<db, pc, req, cur>>
  BY DEF ImportUpsert
<1>2. CASE Block(t, n)
  BY <1>2, BystanderKeeps DEF Block
<1>3. CASE ~Block(t, n)
  <2> DEFINE row == Upserted(View(t)[n], req[t].file[n], req[t].tahun)
  <2>1. /\ pc[t] = "upsert" /\ req[t].kind = "import" /\ ImportRequest(req[t])
        /\ n \in Node /\ n \in DOMAIN req[t].file
    BY RequestKinds DEF ImportUpsert, TypeInv, TypeOK, Staged
  <2>2. row \in Row
    BY <2>1, ViewType, UpsertedType DEF ImportRequest, TypeInv, Table
  <2> HIDE DEF row
  <2>3. /\ own'[t][n] = row
        /\ \A m \in Node \ {n} : own'[t][m] = own[t][m]
        /\ todo'[t] = todo[t] \ {n}
        /\ UNCHANGED <<db, pc, req>>
    BY <1>1, <1>3, <2>1 DEF row, TypeInv, TypeOK, Store
  <2>4. row # NoRow /\ row # Clean BY <2>2, ValueAssumption
  <2>5. Kinded(t)' BY <2>1, <2>3 DEF Kinded
  <2>6. \A m \in Node : own'[t][m] # NoRow BY <2>1, <2>3, <2>4 DEF Family
  <2>7. Held(t, n)' /\ \A m \in Node : Held(t, m) => Held(t, m)'
    BY <2>1, <2>3, <2>4 DEF Held
  <2>8. ASSUME NEW m \in Node, Held(t, m)', Parent[m] # NoNode
        PROVE  Held(t, Parent[m])'
    <3>1. Parent[m] \in Node BY <2>8, TreeAssumption
    <3>2. CASE m = n
      <4>1. Parent[n] \in DOMAIN req[t].file
        BY <2>1, <2>8, <3>2 DEF ImportRequest, FileNodes
      <4>2. Held(t, Parent[n]) BY <1>1, <2>1, <4>1 DEF Family
      <4>3. QED BY <3>1, <3>2, <4>2, <2>7
    <3>3. CASE m # n
      <4>1. Held(t, m) BY <2>3, <2>8, <3>3 DEF Held
      <4>2. QED BY <2>1, <2>7, <2>8, <3>1, <4>1 DEF Family
    <3>4. QED BY <3>2, <3>3
  <2>9. \A m \in DOMAIN req[t].file \ (todo[t] \ {n}) : Held(t, m)'
    <3>1. DOMAIN req[t].file \subseteq Node
      BY <2>1 DEF ImportRequest, FileNodes
    <3>2. QED BY <2>1, <2>7, <3>1 DEF Family
  <2>10. QED BY <2>1, <2>3, <2>5, <2>6, <2>8, <2>9 DEF Family
<1>4. QED BY <1>2, <1>3

\* A delete takes a row away, or waits; nothing is asked of it until the cascade
\* has ended.
LEMMA RemoveFamily ==
    ASSUME TypeInv, NEW t \in Tx, Kinded(t), Family(t), NEW n \in Node,
           req[t].kind = "delete", Store(t, n, NoRow), db' = db, req' = req,
           pc'[t] = "cascade"
    PROVE  Kinded(t)' /\ Family(t)'
<1>1. /\ own'[t][n] = NoRow
      /\ \A m \in Node \ {n} : own'[t][m] = own[t][m]
  BY DEF TypeInv, TypeOK, Store
<1>2. Kinded(t)' BY DEF Kinded
<1>3. \A m \in Node : Held(t, m)' => Held(t, m) BY <1>1 DEF Held
<1>4. QED BY <1>1, <1>2, <1>3 DEF Family

LEMMA DeleteFamily ==
    ASSUME TypeInv, NEW t \in Tx, Kinded(t), Family(t),
           DeleteLookup(t) \/ DeleteWrite(t) \/ Cascade(t) \/ CascadeEnd(t)
    PROVE  Kinded(t)' /\ Family(t)'
<1>1. CASE DeleteLookup(t)
  <2>1. CASE Rollback(t) BY <2>1, IdleFamily DEF Rollback
  <2>2. CASE ~Rollback(t)
    <3>1. /\ pc[t] = "lookup" /\ pc'[t] = "write"
          /\ UNCHANGED <<db, own, req, todo>>
      BY <1>1, <2>2 DEF DeleteLookup, TypeInv, TypeOK
    <3>2. Kinded(t)' BY <3>1 DEF Kinded
    <3>3. QED BY <3>1, <3>2, StayFamily
  <2>3. QED BY <2>1, <2>2
<1>2. CASE DeleteWrite(t)
  <2> DEFINE n == req[t].node
  <2>1. n \in Node
    BY <1>2, RequestKinds DEF DeleteWrite, TypeInv, Staged, DeleteRequest
  <2>2. CASE Block(t, n) BY <2>2, BystanderKeeps DEF Block
  <2>3. CASE ~Block(t, n)
    <3>1. /\ Store(t, n, NoRow) \/ Skip(t)
          /\ pc'[t] = "cascade" /\ req[t].kind = "delete"
          /\ UNCHANGED <<db, req, todo>>
      BY <1>2, <2>3 DEF DeleteWrite, TypeInv, TypeOK
    <3>2. CASE Store(t, n, NoRow) BY <2>1, <3>1, <3>2, RemoveFamily
    <3>3. CASE Skip(t)
      <4>1. Kinded(t)' BY <3>1 DEF Kinded
      <4>2. QED BY <3>1, <3>3, <4>1, StayFamily DEF Skip
    <3>4. QED BY <3>1, <3>2, <3>3
  <2>4. QED BY <2>2, <2>3
<1>3. CASE Cascade(t)
  <2>1. PICK c \in Node :
           \/ Block(t, c)
           \/ Store(t, c, NoRow) /\ UNCHANGED <<db, pc, req, cur, todo>>
    BY <1>3 DEF Cascade, Cascaded
  <2>2. CASE Block(t, c) BY <2>2, BystanderKeeps DEF Block
  <2>3. CASE ~Block(t, c)
    BY <1>3, <2>1, <2>3, RemoveFamily DEF Cascade, Kinded
  <2>4. QED BY <2>2, <2>3
<1>4. CASE CascadeEnd(t)
  <2>1. /\ pc[t] = "cascade" /\ pc'[t] = "rollup" /\ Cascaded(t) = {}
        /\ UNCHANGED <<db, own, req, todo>>
    BY <1>4 DEF CascadeEnd, Skip, TypeInv, TypeOK
  <2>2. Kinded(t)' BY <2>1 DEF Kinded
  <2>3. QED BY <2>1, <2>2, StayFamily
<1>5. QED BY <1>1, <1>2, <1>3, <1>4

\* The roll-over writes rows it finds.
LEMMA SweepFamily ==
    ASSUME TypeInv, NEW t \in Tx, Kinded(t), Family(t), RolloverSweep(t)
    PROVE  Kinded(t)' /\ Family(t)'
<1>1. PICK n \in todo[t] :
         \/ Block(t, n)
         \/ /\ IF View(t)[n] # NoRow
               THEN RolledOver(View(t)[n]) \in Row /\ Store(t, n, RolledOver(View(t)[n]))
               ELSE Skip(t)
            /\ UNCHANGED <<db, pc, req, cur>>
         \/ Rollback(t)
  BY DEF RolloverSweep
<1>2. n \in Node /\ pc[t] = "sweep" /\ req[t].kind = "rollover"
  BY DEF RolloverSweep, Kinded, TypeInv, TypeOK
<1>3. CASE Block(t, n) BY <1>3, BystanderKeeps DEF Block
<1>4. CASE Rollback(t) BY <1>4, IdleFamily DEF Rollback
<1>5. CASE ~Block(t, n) /\ ~Rollback(t)
  <2>1. UNCHANGED <<db, pc, req, cur>> BY <1>1, <1>5
  <2>2. Kinded(t)' BY <1>2, <2>1 DEF Kinded
  <2>3. CASE View(t)[n] # NoRow
    BY <1>1, <1>2, <1>5, <2>1, <2>2, <2>3, ReplaceFamily
  <2>4. CASE View(t)[n] = NoRow
    BY <1>1, <1>2, <1>5, <2>1, <2>2, <2>4, StayFamily DEF Skip
  <2>5. QED BY <2>3, <2>4
<1>6. QED BY <1>1, <1>3, <1>4, <1>5

\* The handler that takes the step.
LEMMA OwnFamily ==
    ASSUME TypeInv, NEW t \in Tx, Kinded(t), Family(t),
           Begin(t) \/ Step(t) \/ Fail(t) \/ Victim(t)
    PROVE  Kinded(t)' /\ Family(t)'
<1>1. CASE Begin(t)
  <2>1. PICK r \in Request :
           /\ req'[t] = r /\ pc'[t] = FirstStep(r.kind)
           /\ r.kind = "import" => todo'[t] = DOMAIN r.file
    BY <1>1 DEF Begin, TypeInv, TypeOK
  <2>2. /\ own' = own /\ db' = db
        /\ \A n \in Node : own[t][n] = Clean
    BY <1>1 DEF Begin, Kinded
  <2>3. Kinded(t)' BY <2>1, <2>2, RequestKinds DEF Kinded, FirstStep
  <2>4. \A n \in Node : own'[t][n] # NoRow /\ ~Held(t, n)'
    BY <2>2, ValueAssumption DEF Held
  <2>5. (pc[t] = "upsert" => \A n \in DOMAIN req[t].file \ todo[t] : Held(t, n))'
    BY <2>1, RequestKinds DEF FirstStep
  <2>6. (pc[t] \in {"rollup", "commit"} => Cascaded(t) = {})'
    BY <2>1, RequestKinds DEF FirstStep
  <2>7. QED BY <2>3, <2>4, <2>5, <2>6 DEF Family
<1>2. CASE UpdateWrite(t)
  <2>1. req[t].node \in Node /\ req[t].kind = "update"
    BY <1>2, RequestKinds DEF UpdateWrite, TypeInv, Staged, UpdateRequest
  <2>2. QED BY <1>2, <2>1, NoCascade, UpdateFamily DEF UpdateWrite
<1>3. CASE UpdateDerive(t)
  <2>1. cur[t] \in Node /\ req[t].kind = "update"
    BY <1>3 DEF UpdateDerive, TypeInv, Staged, Kinded
  <2>2. QED BY <1>3, <2>1, NoCascade, UpdateFamily DEF UpdateDerive
<1>4. CASE LockWrite(t)
  <2>1. req[t].node \in Node /\ req[t].kind = "lock"
    BY <1>4, RequestKinds DEF LockWrite, TypeInv, Staged, LockRequest
  <2>2. QED BY <1>4, <2>1, NoCascade, UpdateFamily DEF LockWrite
<1>5. CASE Rollup(t)
  <2> DEFINE p == Parent[cur[t]]
  <2>1. p \in Node
    BY <1>5, TreeAssumption DEF Rollup, AtTop, TypeInv, TypeOK, Staged
  <2>2. Cascaded(t) = {} /\ req[t].kind \in {"update", "lock", "delete"}
    BY <1>5 DEF Rollup, Kinded, Family
  <2>3. QED BY <1>5, <2>1, <2>2, UpdateFamily DEF Rollup
<1>6. CASE RollupEnd(t)
  <2>1. /\ pc[t] = "rollup" /\ pc'[t] = "commit"
        /\ UNCHANGED <<db, own, req, todo>>
    BY <1>6 DEF RollupEnd, TypeInv, TypeOK
  <2>2. Kinded(t)' BY <2>1 DEF Kinded
  <2>3. Cascaded(t) = {} BY <2>1 DEF Family
  <2>4. QED BY <2>1, <2>2, <2>3, StayFamily
<1>7. CASE DeleteLookup(t) \/ DeleteWrite(t) \/ Cascade(t) \/ CascadeEnd(t)
  BY <1>7, DeleteFamily
<1>8. CASE ImportUpsert(t) BY <1>8, UpsertFamily
<1>9. CASE RolloverSweep(t) BY <1>9, SweepFamily
<1>10. CASE WorkEnd(t)
  <2>1. /\ pc[t] \in {"upsert", "sweep"} /\ pc'[t] = "commit"
        /\ UNCHANGED <<db, own, req, todo>>
    BY <1>10 DEF WorkEnd, TypeInv, TypeOK
  <2>2. Kinded(t)' BY <2>1 DEF Kinded
  <2>3. Cascaded(t) = {} BY <2>1, NoCascade DEF Kinded
  <2>4. QED BY <2>1, <2>2, <2>3, StayFamily
<1>11. CASE Commit(t) BY <1>11, IdleFamily DEF Commit
<1>12. CASE Fail(t) \/ Victim(t)
  BY <1>12, IdleFamily DEF Fail, Victim, Rollback
<1>13. QED BY <1>1, <1>2, <1>3, <1>4, <1>5, <1>6, <1>7, <1>8, <1>9, <1>10, <1>11, <1>12
           DEF Step

\* What a step leaves alone.
LEMMA StepFrame ==
    ASSUME TypeInv, NEW t \in Tx, NEW u \in Tx \ {t},
           Begin(t) \/ Step(t) \/ Fail(t) \/ Victim(t)
    PROVE  /\ own'[u] = own[u] /\ pc'[u] = pc[u] /\ req'[u] = req[u]
           /\ todo'[u] = todo[u]
           /\ ~Commit(t) => db' = db
<1>1. CASE Begin(t) BY <1>1 DEF Begin, TypeInv, TypeOK, Commit
<1>2. ASSUME NEW n, NEW row, NEW next, NEW at, Update(t, n, row, next, at)
      PROVE  /\ own'[u] = own[u] /\ pc'[u] = pc[u] /\ req'[u] = req[u]
             /\ todo'[u] = todo[u] /\ db' = db
  BY <1>2 DEF Update, Block, Store, Skip, Rollback, Release, TypeInv, TypeOK
<1>3. CASE UpdateWrite(t) \/ UpdateDerive(t) \/ LockWrite(t) \/ Rollup(t)
  BY <1>2, <1>3 DEF UpdateWrite, UpdateDerive, LockWrite, Rollup
<1>4. CASE DeleteLookup(t) \/ DeleteWrite(t) \/ Cascade(t) \/ CascadeEnd(t)
  BY <1>4 DEF DeleteLookup, DeleteWrite, Cascade, CascadeEnd, Block, Store,
              Skip, Rollback, Release, TypeInv, TypeOK
<1>5. CASE ImportUpsert(t)
  BY <1>5 DEF ImportUpsert, Block, Store, TypeInv, TypeOK
<1>6. CASE RolloverSweep(t)
  BY <1>6 DEF RolloverSweep, Block, Store, Skip, Rollback, Release, TypeInv, TypeOK
<1>7. CASE RollupEnd(t) \/ WorkEnd(t)
  BY <1>7 DEF RollupEnd, WorkEnd, TypeInv, TypeOK
<1>8. CASE Commit(t) BY <1>8 DEF Commit, Release, TypeInv, TypeOK
<1>9. CASE Fail(t) \/ Victim(t)
  BY <1>9 DEF Fail, Victim, Rollback, Release, TypeInv, TypeOK
<1>10. QED BY <1>1, <1>3, <1>4, <1>5, <1>6, <1>7, <1>8, <1>9 DEF Step

\* A transaction's view of the table is a forest again before it commits.
LEMMA ViewClosed ==
    ASSUME ForestInv, NEW t \in Tx, pc[t] \in {"rollup", "commit"}, NEW n \in Node,
           Parent[n] # NoNode, View(t)[n] # NoRow
    PROVE  View(t)[Parent[n]] # NoRow
<1>1. Parent[n] \in Node BY TreeAssumption
<1>2. Family(t) /\ Cascaded(t) = {} BY DEF ForestInv, Family
<1>3. own[t][Parent[n]] # NoRow BY <1>2 DEF Cascaded
<1>4. CASE own[t][Parent[n]] # Clean BY <1>1, <1>3, <1>4 DEF View
<1>5. CASE own[t][Parent[n]] = Clean
  <2>1. Held(t, n) => req[t].kind # "import"
    BY <1>2, <1>5 DEF Family, Held
  <2>2. db[n] # NoRow
    <3>1. CASE Held(t, n) BY <1>2, <2>1, <3>1 DEF Family
    <3>2. CASE ~Held(t, n) BY <3>2, ValueAssumption DEF View, Held
    <3>3. QED BY <3>1, <3>2
  <2>3. db[Parent[n]] # NoRow BY <2>2 DEF ForestInv, ForestClosed
  <2>4. QED BY <1>1, <1>5, <2>3 DEF View
<1>6. QED BY <1>4, <1>5

\* A commit changes only rows no other transaction has written, and adds no
\* row below one that another has deleted.
LEMMA CommitKeepsOthers ==
    ASSUME ForestInv, NEW t \in Tx, Commit(t), NEW u \in Tx \ {t}
    PROVE  Kinded(u)' /\ Family(u)'
<1>1. /\ Kinded(u) /\ Family(u) /\ Family(t) /\ TypeInv /\ RowLockExclusive
      /\ db' = View(t)
  BY DEF ForestInv, LockInv, Commit
<1>2. /\ own'[u] = own[u] /\ pc'[u] = pc[u] /\ req'[u] = req[u]
      /\ todo'[u] = todo[u]
  BY <1>1, StepFrame DEF Step
<1>3. \A n \in Node : own[u][n] # Clean => own[t][n] = Clean
  BY <1>1 DEF RowLockExclusive
<1>4. \A n \in Node : own[u][n] # Clean => db'[n] = db[n]
  BY <1>1, <1>3 DEF View
<1>5. \A n \in Node : Held(u, n)' = Held(u, n) BY <1>2 DEF Held
<1>6. \A n \in Node : Parent[n] # NoNode => Parent[n] \in Node
  BY TreeAssumption
<1>7. ASSUME Cascaded(u) = {} PROVE Cascaded(u)' = {}
  <2> SUFFICES ASSUME NEW c \in Node, Parent[c] # NoNode,
                      own'[u][Parent[c]] = NoRow, View(u)'[c] # NoRow
               PROVE  FALSE
    BY DEF Cascaded
  <2>1. View(u)[c] = NoRow BY <1>2, <1>7 DEF Cascaded
  <2>2. own[u][c] = Clean /\ db[c] = NoRow /\ db'[c] # NoRow
    BY <1>2, <2>1 DEF View
  <2>3. Held(t, c) BY <1>1, <2>2 DEF View, Held
  <2>4. Held(t, Parent[c]) BY <1>1, <2>2, <2>3 DEF Family
  <2>5. own[u][Parent[c]] # Clean BY <1>2, ValueAssumption
  <2>6. QED BY <1>3, <1>6, <2>4, <2>5 DEF Held
<1>8. Kinded(u)' BY <1>1, <1>2 DEF Kinded
<1>9. (req[u].kind # "import" => \A n \in Node : Held(u, n) => db[n] # NoRow)'
  BY <1>1, <1>2, <1>4, <1>5 DEF Family, Held
<1>10. (req[u].kind = "import" =>
          \A n \in Node : Held(u, n) /\ Parent[n] # NoNode => Held(u, Parent[n]))'
  BY <1>1, <1>2, <1>5, <1>6 DEF Family
<1>11. (pc[u] = "upsert" => \A n \in DOMAIN req[u].file \ todo[u] : Held(u, n))'
  BY <1>1, <1>2 DEF Family, Held
<1>12. QED BY <1>1, <1>2, <1>7, <1>8, <1>9, <1>10, <1>11 DEF Family

LEMMA ForestInvNext == ForestInv /\ [Next]_vars => ForestInv'
<1> SUFFICES ASSUME ForestInv, [Next]_vars PROVE ForestInv'
  OBVIOUS
<1>1. LockInv' BY LockInvNext DEF ForestInv
<1>2. CASE UNCHANGED vars
  <2>1. ForestClosed' BY <1>2 DEF vars, ForestInv, ForestClosed
  <2>2. ASSUME NEW u \in Tx PROVE Kinded(u)' /\ Family(u)'
    BY <1>2, BystanderKeeps DEF vars, ForestInv
  <2>3. QED BY <1>1, <2>1, <2>2 DEF ForestInv
<1>3. ASSUME NEW t \in Tx, Begin(t) \/ Step(t) \/ Fail(t) \/ Victim(t)
      PROVE  ForestInv'
  <2>1. TypeInv /\ Kinded(t) /\ Family(t) BY DEF ForestInv, LockInv
  <2>2. Kinded(t)' /\ Family(t)' BY <1>3, <2>1, OwnFamily
  <2>3. ForestClosed'
    <3>1. CASE Commit(t)
      <4>1. pc[t] = "commit" /\ db' = View(t) BY <3>1 DEF Commit
      <4>2. QED BY <4>1, ViewClosed DEF ForestClosed
    <3>2. CASE ~Commit(t)
      <4>1. UNCHANGED db
        BY <1>3, <3>2 DEF Step, Begin, UpdateWrite, UpdateDerive, LockWrite, Rollup,
           RollupEnd, DeleteLookup, DeleteWrite, Cascade, CascadeEnd, ImportUpsert,
           RolloverSweep, WorkEnd, Fail, Victim, Update, Block, Rollback
      <4>2. QED BY <4>1 DEF ForestInv, ForestClosed
    <3>3. QED BY <3>1, <3>2
  <2>4. ASSUME NEW u \in Tx \ {t} PROVE Kinded(u)' /\ Family(u)'
    <3>1. CASE Commit(t) BY <3>1, CommitKeepsOthers
    <3>2. CASE ~Commit(t)
      BY <1>3, <2>1, <3>2, StepFrame, BystanderKeeps DEF ForestInv
    <3>3. QED BY <3>1, <3>2
  <2>5. QED BY <1>1, <2>2, <2>3, <2>4 DEF ForestInv
<1>4. QED BY <1>2, <1>3 DEF Next

LEMMA StartedForest ==
    ASSUME NEW T \in Table, Started(T),
           \A n \in Node : T[n] # NoRow /\ Parent[n] # NoNode => T[Parent[n]] # NoRow
    PROVE  ForestInv
<1>1. LockInv BY StartedLockInv
<1>2. ForestClosed BY DEF Started, ForestClosed
<1>3. ASSUME NEW t \in Tx PROVE Kinded(t) /\ Family(t)
  <2>1. /\ \A n \in Node : own[t][n] = Clean
        /\ pc[t] = "idle" /\ req[t].kind = "none"
    BY DEF Started, NoRequest
  <2>2. \A n \in Node : own[t][n] # NoRow /\ ~Held(t, n)
    BY <2>1, ValueAssumption DEF Held
  <2>3. QED BY <2>1, <2>2 DEF Kinded, Family
<1>4. QED BY <1>1, <1>2, <1>3 DEF ForestInv

\* From any table that is a forest: however imports, deletes and edits overlap
\* and whichever of them fail, no committed row is left without its parent.
THEOREM NoOrphans ==
    ASSUME NEW T \in Table,
           \A n \in Node : T[n] # NoRow /\ Parent[n] # NoNode => T[Parent[n]] # NoRow
    PROVE  Started(T) /\ [][Next]_vars => []ForestClosed
<1>1. Started(T) => ForestInv BY StartedForest
<1>2. ForestInv => ForestClosed BY DEF ForestInv
<1>3. QED BY <1>1, <1>2, ForestInvNext, PTL
-----------------------------------------------------------------------------
(* Imports and roll-overs compute each row from its own older version only.  *)
(* The versions a transaction has written stay what the request makes of the *)
(* committed row: nobody else can change a row it has locked.                *)

IsBatch(r) == r \in Request /\ r.kind \in {"import", "rollover"}
BatchOnly == \A r \in Request : IsBatch(r)

\* The rows the request of t is about, and what it makes of them.
Due(t, n) == IF req[t].kind = "import" THEN n \in DOMAIN req[t].file ELSE db[n] # NoRow
Made(t, n) == IF req[t].kind = "import"
              THEN Upserted(db[n], req[t].file[n], req[t].tahun)
              ELSE RolledOver(db[n])

Batch(t) ==
    /\ pc[t] \in {"idle", "upsert", "sweep", "commit"}
    /\ pc[t] = "idle" => \A n \in Node : own[t][n] = Clean
    /\ pc[t] = "upsert" => req[t].kind = "import"
    /\ pc[t] = "sweep" => req[t].kind = "rollover"
    /\ pc[t] = "commit" => todo[t] = {}
    /\ pc[t] # "idle" =>
         /\ IsBatch(req[t])
         /\ \A n \in Node :
              IF own[t][n] = Clean THEN Due(t, n) => n \in todo[t]
              ELSE /\ Due(t, n) /\ n \notin todo[t]
                   /\ own[t][n] = Made(t, n) /\ own[t][n] # NoRow

\* A roll-over takes the rows of the snapshot it starts on, so imports beside
\* one must not add any.
NoNewRows(T) ==
    (\E r \in Request : r.kind = "rollover") =>
      \A r \in Request : r.kind = "import" => \A n \in DOMAIN r.file : T[n] # NoRow

BatchInv == LockInv /\ NoNewRows(db) /\ \A t \in Tx : Batch(t)

LEMMA BystanderBatch ==
    ASSUME NEW u \in Tx, Batch(u), own'[u] = own[u], pc'[u] = pc[u],
           req'[u] = req[u], todo'[u] = todo[u],
           \A n \in Node : own[u][n] # Clean => db'[n] = db[n],
           pc[u] # "idle" /\ req[u].kind = "rollover" =>
             \A n \in Node : db'[n] # NoRow => db[n] # NoRow,
           \A n \in Node : db[n] # NoRow => db'[n] # NoRow
    PROVE  Batch(u)'
<1>1. ASSUME NEW n \in Node, pc[u] # "idle"
      PROVE  IF own[u][n] = Clean THEN Due(u, n)' => n \in todo[u]
             ELSE /\ Due(u, n)' /\ n \notin todo[u]
                  /\ own[u][n] = Made(u, n)' /\ own[u][n] # NoRow
  <2>1. Due(u, n)' = Due(u, n)
    <3>1. CASE req[u].kind = "import" BY <3>1 DEF Due
    <3>2. CASE req[u].kind # "import"
      <4>1. req[u].kind = "rollover"
        BY <1>1, <3>2 DEF Batch, IsBatch
      <4>2. QED BY <1>1, <4>1 DEF Due
    <3>3. QED BY <3>1, <3>2
  <2>2. own[u][n] # Clean => Made(u, n)' = Made(u, n) BY DEF Made
  <2>3. QED BY <1>1, <2>1, <2>2 DEF Batch
<1>2. QED BY <1>1 DEF Batch

\* A step that writes one row n, or finds none to write.
LEMMA WorkBatch ==
    ASSUME TypeInv, NEW t \in Tx, Batch(t), NEW n \in todo[t],
           pc[t] \in {"upsert", "sweep"}, db' = db, pc' = pc, req' = req,
           todo' = [todo EXCEPT ![t] = @ \ {n}],
           IF Due(t, n) THEN own' = [own EXCEPT ![t][n] = Made(t, n)] /\ Made(t, n) \in Row
           ELSE own' = own
    PROVE  Batch(t)'
<1>1. n \in Node /\ todo'[t] = todo[t] \ {n} BY DEF TypeInv, TypeOK
<1>2. \A m \in Node : Due(t, m)' = Due(t, m) /\ Made(t, m)' = Made(t, m)
  BY DEF Due, Made
<1>3. \A m \in Node \ {n} : own'[t][m] = own[t][m]
  BY DEF TypeInv, TypeOK
<1>4. own[t][n] = Clean BY <1>1 DEF Batch
<1>5. Due(t, n) => own'[t][n] = Made(t, n) BY <1>1 DEF TypeInv, TypeOK
<1>6. ASSUME NEW m \in Node
      PROVE  IF own'[t][m] = Clean THEN Due(t, m) => m \in todo'[t]
             ELSE /\ Due(t, m) /\ m \notin todo'[t]
                  /\ own'[t][m] = Made(t, m) /\ own'[t][m] # NoRow
  <2>1. CASE m = n BY <1>1, <1>4, <1>5, <2>1, ValueAssumption
  <2>2. CASE m # n BY <1>1, <1>3, <2>2 DEF Batch
  <2>3. QED BY <2>1, <2>2
<1>7. QED BY <1>2, <1>6 DEF Batch

\* The handler that takes the step, unless it commits.
LEMMA OwnBatch ==
    ASSUME TypeInv, NEW t \in Tx, Batch(t), ~Commit(t), Begin(t) => IsBatch(req'[t]),
           Begin(t) \/ Step(t) \/ Fail(t) \/ Victim(t)
    PROVE  Batch(t)'
<1>1. CASE Release(t)
  <2>1. pc'[t] = "idle" /\ \A n \in Node : own'[t][n] = Clean
    BY <1>1 DEF Release, TypeInv, TypeOK
  <2>2. QED BY <2>1 DEF Batch
<1>2. CASE Begin(t)
  <2>1. PICK r \in Request :
           /\ req'[t] = r /\ pc'[t] = FirstStep(r.kind)
           /\ todo'[t] = CASE r.kind = "import" -> DOMAIN r.file
                           [] r.kind = "rollover" -> {n \in Node : db[n] # NoRow}
                           [] OTHER -> {}
    BY <1>2 DEF Begin, TypeInv, TypeOK
  <2>2. /\ own' = own /\ db' = db
        /\ \A n \in Node : own[t][n] = Clean
    BY <1>2 DEF Begin, Batch
  <2>3. CASE r.kind = "import"
    BY <2>1, <2>2, <2>3 DEF Batch, IsBatch, Due, FirstStep
  <2>4. CASE r.kind = "rollover"
    BY <2>1, <2>2, <2>4 DEF Batch, IsBatch, Due, FirstStep
  <2>5. QED BY <1>2, <2>1, <2>3, <2>4 DEF IsBatch
<1>3. CASE ImportUpsert(t)
  <2>1. PICK n \in todo[t] :
           \/ Block(t, n)
           \/ /\ Store(t, n, Upserted(View(t)[n], req[t].file[n], req[t].tahun))
              /\ todo' = [todo EXCEPT ![t] = @ \ {n}]
              /\ UNCHANGED <<db, pc, req, cur>>
    BY <1>3 DEF ImportUpsert
  <2>2. CASE Block(t, n) BY <2>2, BystanderBatch DEF Block
  <2>3. CASE ~Block(t, n)
    <3>1. /\ pc[t] = "upsert" /\ req[t].kind = "import" /\ ImportRequest(req[t])
          /\ n \in Node /\ n \in DOMAIN req[t].file
      BY <1>3, RequestKinds DEF ImportUpsert, TypeInv, TypeOK, Staged
    <3>2. own[t][n] = Clean /\ View(t)[n] = db[n] BY <3>1 DEF Batch, View
    <3>3. Due(t, n) /\ Made(t, n) = Upserted(View(t)[n], req[t].file[n], req[t].tahun)
      BY <3>1, <3>2 DEF Due, Made
    <3>4. Made(t, n) \in Row
      <4>1. View(t)[n] \in Row \cup {NoRow} BY <3>1, ViewType DEF TypeInv, Table
      <4>2. req[t].file[n] \in FileRow /\ req[t].tahun \in Tahun
        BY <3>1 DEF ImportRequest
      <4>3. QED BY <3>3, <4>1, <4>2, UpsertedType
    <3>5. QED BY <2>1, <2>3, <3>1, <3>3, <3>4, ValueAssumption, WorkBatch DEF Store
  <2>4. QED BY <2>2, <2>3
<1>4. CASE RolloverSweep(t)
  <2>1. PICK n \in todo[t] :
           \/ Block(t, n)
           \/ /\ IF View(t)[n] # NoRow
                 THEN RolledOver(View(t)[n]) \in Row /\ Store(t, n, RolledOver(View(t)[n]))
                 ELSE Skip(t)
              /\ todo' = [todo EXCEPT ![t] = @ \ {n}]
              /\ UNCHANGED <<db, pc, req, cur>>
           \/ Rollback(t)
    BY <1>4 DEF RolloverSweep
  <2>2. CASE Block(t, n) BY <2>2, BystanderBatch DEF Block
  <2>3. CASE Rollback(t) BY <1>1, <2>3 DEF Rollback
  <2>4. CASE ~Block(t, n) /\ ~Rollback(t)
    <3>1. pc[t] = "sweep" /\ req[t].kind = "rollover" /\ n \in Node
      BY <1>4 DEF RolloverSweep, Batch, TypeInv, TypeOK
    <3>2. own[t][n] = Clean /\ View(t)[n] = db[n] BY <3>1 DEF Batch, View
    <3>3. Due(t, n) = (View(t)[n] # NoRow) /\ Made(t, n) = RolledOver(View(t)[n])
      BY <3>1, <3>2 DEF Due, Made
    <3>4. CASE View(t)[n] # NoRow
      BY <2>1, <2>4, <3>1, <3>3, <3>4, ValueAssumption, WorkBatch DEF Store
    <3>5. CASE View(t)[n] = NoRow
      BY <2>1, <2>4, <3>1, <3>3, <3>5, WorkBatch DEF Skip
    <3>6. QED BY <3>4, <3>5
  <2>5. QED BY <2>2, <2>3, <2>4
<1>5. CASE WorkEnd(t)
  <2>1. /\ pc[t] \in {"upsert", "sweep"} /\ pc'[t] = "commit" /\ todo[t] = {}
        /\ UNCHANGED <<db, own, req, todo>>
    BY <1>5 DEF WorkEnd, TypeInv, TypeOK
  <2>2. \A n \in Node : Due(t, n)' = Due(t, n) /\ Made(t, n)' = Made(t, n)
    BY <2>1 DEF Due, Made
  <2>3. QED BY <2>1, <2>2 DEF Batch
<1>6. CASE Fail(t) \/ Victim(t)
  BY <1>1, <1>6 DEF Fail, Victim, Rollback
<1>7. ~ \/ UpdateWrite(t) \/ UpdateDerive(t) \/ LockWrite(t) \/ Rollup(t)
        \/ RollupEnd(t) \/ DeleteLookup(t) \/ DeleteWrite(t) \/ Cascade(t)
        \/ CascadeEnd(t)
  BY DEF Batch, UpdateWrite, UpdateDerive, LockWrite, Rollup, RollupEnd,
     DeleteLookup, DeleteWrite, Cascade, CascadeEnd
<1>8. QED BY <1>2, <1>3, <1>4, <1>5, <1>6, <1>7 DEF Step

\* What a commit does to the table.
LEMMA CommitMade ==
    ASSUME NEW t \in Tx, Batch(t), Commit(t), NEW n \in Node
    PROVE  db'[n] = IF Due(t, n) THEN Made(t, n) ELSE db[n]
<1>1. pc[t] = "commit" /\ db' = View(t) BY DEF Commit
<1>2. CASE own[t][n] = Clean BY <1>1, <1>2 DEF Batch, View
<1>3. CASE own[t][n] # Clean BY <1>1, <1>3 DEF Batch, View
<1>4. QED BY <1>2, <1>3

\* It is what AnggaranTree says of the request.
LEMMA CommitAtomic ==
    ASSUME NEW t \in Tx, Batch(t), Commit(t)
    PROVE  Atomic!Next
<1> DEFINE r == req[t]
<1>1. IsBatch(r) /\ r \in Request /\ pc[t] = "commit" /\ db' = View(t)
  BY DEF Commit, Batch, IsBatch
<1>2. db' = [n \in Node |-> IF Due(t, n) THEN Made(t, n) ELSE db[n]]
  BY <1>1, CommitMade DEF View
<1>3. CASE r.kind = "import"
  <2>1. db' = Atomic!ImportResult(db, r)
    BY <1>2, <1>3 DEF Due, Made, Atomic!ImportResult, Atomic!Upserted, Upserted, Atomic!Decimal, Decimal
  <2>2. Atomic!Result(db, r) = Atomic!ImportResult(db, r)
    BY <1>3 DEF Atomic!Result
  <2>3. QED BY <1>1, <2>1, <2>2 DEF Atomic!Next
<1>4. CASE r.kind = "rollover"
  <2>1. db' = Atomic!RolloverResult(db)
    BY <1>2, <1>4 DEF Due, Made, Atomic!RolloverResult, Atomic!RolledOver, RolledOver
  <2>2. Atomic!Result(db, r) = Atomic!RolloverResult(db)
    BY <1>4 DEF Atomic!Result
  <2>3. QED BY <1>1, <2>1, <2>2 DEF Atomic!Next
<1>5. QED BY <1>1, <1>3, <1>4 DEF IsBatch

LEMMA BatchInvNext == BatchOnly /\ BatchInv /\ [Next]_vars => BatchInv' /\ [Atomic!Next]_db
<1> SUFFICES ASSUME BatchOnly, BatchInv, [Next]_vars
             PROVE  BatchInv' /\ [Atomic!Next]_db
  OBVIOUS
<1>1. LockInv' BY LockInvNext DEF BatchInv
<1>2. CASE UNCHANGED vars
  <2>1. \A u \in Tx : Batch(u)' BY <1>2, BystanderBatch DEF vars, BatchInv
  <2>2. QED BY <1>1, <1>2, <2>1 DEF vars, BatchInv, NoNewRows
<1>3. ASSUME NEW t \in Tx, Begin(t) \/ Step(t) \/ Fail(t) \/ Victim(t)
      PROVE  BatchInv' /\ [Atomic!Next]_db
  <2>1. TypeInv /\ Batch(t) BY DEF BatchInv, LockInv
  <2>2. CASE ~Commit(t)
    <3>1. db' = db
      BY <1>3, <2>2 DEF Step, Begin, UpdateWrite, UpdateDerive, LockWrite, Rollup,
         RollupEnd, DeleteLookup, DeleteWrite, Cascade, CascadeEnd, ImportUpsert,
         RolloverSweep, WorkEnd, Fail, Victim, Update, Block, Rollback
    <3>2. \A u \in Tx \ {t} : Batch(u)'
      BY <1>3, <2>1, <3>1, StepFrame, BystanderBatch DEF BatchInv
    <3>3. Batch(t)'
      <4>1. Begin(t) => IsBatch(req'[t]) BY <2>1 DEF Begin, TypeInv, TypeOK, BatchOnly
      <4>2. QED BY <1>3, <2>1, <2>2, <4>1, OwnBatch
    <3>4. QED BY <1>1, <3>1, <3>2, <3>3 DEF BatchInv, NoNewRows
  <2>3. CASE Commit(t)
    <3>1. Atomic!Next BY <2>1, <2>3, CommitAtomic
    <3>2. pc[t] = "commit" /\ req[t] \in Request BY <2>1, <2>3 DEF Commit, Batch, IsBatch
    <3>3. Batch(t)'
      <4>1. pc'[t] = "idle" /\ \A n \in Node : own'[t][n] = Clean
        BY <2>1, <2>3 DEF Commit, Release, TypeInv, TypeOK
      <4>2. QED BY <4>1 DEF Batch
    <3>4. \A n \in Node : db[n] # NoRow => db'[n] # NoRow
      BY <2>1, <2>3, <3>2 DEF Commit, Batch, View
    <3>5. NoNewRows(db)'
      <4>1. \A r \in Request : r.kind = "import" => DOMAIN r.file \subseteq Node
        BY RequestKinds DEF ImportRequest, FileNodes
      <4>2. QED BY <3>4, <4>1 DEF BatchInv, NoNewRows
    <3>6. ASSUME NEW u \in Tx \ {t} PROVE Batch(u)'
      <4>1. /\ Batch(u) /\ own'[u] = own[u] /\ pc'[u] = pc[u]
            /\ req'[u] = req[u] /\ todo'[u] = todo[u]
        BY <1>3, <2>1, StepFrame DEF BatchInv
      <4>2. \A n \in Node : own[u][n] # Clean => db'[n] = db[n]
        BY <2>3 DEF Commit, View, BatchInv, LockInv, RowLockExclusive
      <4>3. ASSUME pc[u] # "idle", req[u].kind = "rollover", NEW n \in Node,
                   db'[n] # NoRow
            PROVE  db[n] # NoRow
        <5>1. \E r \in Request : r.kind = "rollover" BY <4>1, <4>3 DEF Batch, IsBatch
        <5>2. CASE Due(t, n) BY <3>2, <5>1, <5>2 DEF Due, BatchInv, NoNewRows
        <5>3. CASE ~Due(t, n) BY <2>1, <2>3, <4>3, <5>3, CommitMade
        <5>4. QED BY <5>2, <5>3
      <4>4. QED BY <3>4, <4>1, <4>2, <4>3, BystanderBatch
    <3>7. QED BY <1>1, <3>1, <3>3, <3>5, <3>6 DEF BatchInv
  <2>4. QED BY <2>2, <2>3
<1>4. QED BY <1>2, <1>3 DEF Next

\* Imports and roll-overs that overlap are atomic, each at its commit, from any
\* table: of imports alone whatever they name, beside a roll-over as long as
\* they add no row, for its scan has begun.  (AtomicSteps, for every tree, any
\* number of handlers and any failure.)
THEOREM BatchesAtomic ==
    ASSUME BatchOnly, NEW T \in Table, NoNewRows(T)
    PROVE  Started(T) /\ [][Next]_vars => AtomicSteps
<1>1. Started(T) => BatchInv
  <2> SUFFICES ASSUME Started(T) PROVE BatchInv
    OBVIOUS
  <2>1. LockInv BY StartedLockInv
  <2>2. NoNewRows(db) BY DEF Started
  <2>3. \A t \in Tx : Batch(t) BY DEF Started, Batch
  <2>4. QED BY <2>1, <2>2, <2>3 DEF BatchInv
<1>2. BatchInv /\ [Next]_vars => BatchInv' /\ [Atomic!Next]_db BY BatchInvNext
<1>3. QED BY <1>1, <1>2, PTL DEF AtomicSteps
=============================================================================
