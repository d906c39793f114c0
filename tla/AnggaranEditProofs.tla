------------------------- MODULE AnggaranEditProofs -------------------------
(***************************************************************************)
(* What the order of the statements in the loops of UpdateAnggaranNode and  *)
(* UpdateLockPagu guarantees: edits never deadlock, and the derived columns *)
(* of the committed rows stay fresh beside imports and rollovers; edits of  *)
(* different columns leave every sum right; a handler that runs alone has   *)
(* carried its change to the top when it commits.  What a handler alone and *)
(* edits of different columns commit is what AnggaranTree says of the       *)
(* request in one step.                                                     *)
(***************************************************************************)
EXTENDS AnggaranTxProofs, FoldTheorems

SeededAt(T) == Started(T) /\ [][Next]_vars

-----------------------------------------------------------------------------
(* Edits lock rows from a node to its root.  A handler therefore waits only *)
(* for a row that is nearer to the root than each row it holds: along a     *)
(* cycle of waiting handlers the awaited rows would climb forever.          *)

EditsOnly == Request \subseteq UpdateRequest \cup LockRequest

Climbs(t) ==
    /\ pc[t] \in {"idle", "write", "derive", "rollup", "commit"}
    /\ pc[t] # "idle" => req[t] \in Request
    /\ pc[t] \in {"idle", "write"} => \A n \in Node : own[t][n] = Clean
    /\ pc[t] \in {"derive", "rollup"} =>
         \A n \in Node : own[t][n] # Clean => n = cur[t] \/ Depth[cur[t]] < Depth[n]
    /\ want[t] # NoNode =>
         \A n \in Node : own[t][n] # Clean => Depth[want[t]] < Depth[n]

ClimbInv == LockInv /\ \A t \in Tx : Climbs(t)

\* A row that a handler waits for is another handler's, not its own.
LEMMA BlockedElsewhere ==
    ASSUME LockInv, NEW t \in Tx, NEW n \in Node, ~Free(t, n)
    PROVE  own[t][n] = Clean
  BY DEF LockInv, RowLockExclusive, Free

\* An UPDATE of n after only rows further from the root have been written.
LEMMA UpdateClimbs ==
    ASSUME ClimbInv, NEW t \in Tx, NEW n \in Node, NEW row,
           NEW next \in {"derive", "rollup"}, Update(t, n, row, next, n),
           pc[t] # "idle",
           \A m \in Node : own[t][m] # Clean => m = n \/ Depth[n] < Depth[m]
    PROVE  \A u \in Tx : Climbs(u)'
<1>1. CASE ~Ready(t, n) /\ Block(t, n)
  <2>1. own[t][n] = Clean
    BY <1>1, BlockedElsewhere DEF ClimbInv, Ready
  <2>2. want' = [want EXCEPT ![t] = n] /\ UNCHANGED <<own, pc, req, cur>>
    BY <1>1 DEF Block
  <2>3. QED BY <2>1, <2>2 DEF ClimbInv, Climbs, LockInv, TypeInv, TypeOK
<1>2. CASE Rollback(t)
  BY <1>2 DEF Rollback, Release, ClimbInv, Climbs, LockInv, TypeInv, TypeOK
<1>3. CASE /\ IF Hit(t, n) THEN row \in Row /\ Store(t, n, row) ELSE Skip(t)
           /\ pc' = [pc EXCEPT ![t] = next]
           /\ cur' = [cur EXCEPT ![t] = n]
           /\ UNCHANGED <<db, req, todo>>
  <2>1. /\ want' = [want EXCEPT ![t] = NoNode]
        /\ \A u \in Tx \ {t} : own'[u] = own[u]
        /\ \A m \in Node \ {n} : own'[t][m] = own[t][m]
    BY <1>3 DEF Store, Skip, ClimbInv, LockInv, TypeInv, TypeOK
  <2>2. ASSUME NEW u \in Tx \ {t} PROVE Climbs(u)'
    BY <1>3, <2>1 DEF ClimbInv, Climbs, LockInv, TypeInv, TypeOK
  <2>3. Climbs(t)'
    BY <1>3, <2>1 DEF ClimbInv, Climbs, LockInv, TypeInv, TypeOK
  <2>4. QED BY <2>2, <2>3
<1>4. QED BY <1>1, <1>2, <1>3 DEF Update

LEMMA ClimbStep ==
    ASSUME EditsOnly, ClimbInv, NEW t \in Tx,
           Begin(t) \/ Step(t) \/ Fail(t) \/ Victim(t)
    PROVE  \A u \in Tx : Climbs(u)'
<1> USE DEF ClimbInv, LockInv, TypeInv
<1>1. \A r \in Request : r.kind \in {"update", "lock"} /\ r.node \in Node
  BY DEF EditsOnly, UpdateRequest, LockRequest
<1>2. CASE Begin(t)
  BY <1>1, <1>2 DEF Begin, FirstStep, Climbs, TypeOK
<1>3. CASE UpdateWrite(t)
  BY <1>1, <1>3, UpdateClimbs DEF UpdateWrite, Climbs
<1>4. CASE UpdateDerive(t)
  BY <1>4, UpdateClimbs DEF UpdateDerive, Climbs, Staged
<1>5. CASE LockWrite(t)
  BY <1>1, <1>5, UpdateClimbs DEF LockWrite, Climbs
<1>6. CASE Rollup(t)
  <2> DEFINE p == Parent[cur[t]]
  <2>1. cur[t] \in Node /\ p \in Node
    BY <1>6, TreeAssumption DEF Rollup, AtTop, TypeOK, Staged
  <2>2. Depth[p] < Depth[cur[t]] /\ Depth \in [Node -> Nat]
    BY <2>1, TreeAssumption
  <2>3. \A m \in Node : own[t][m] # Clean => m = p \/ Depth[p] < Depth[m]
    BY <1>6, <2>1, <2>2 DEF Rollup, Climbs
  <2>4. QED BY <1>6, <2>1, <2>3, UpdateClimbs DEF Rollup
<1>7. CASE RollupEnd(t)
  BY <1>7 DEF RollupEnd, Climbs, TypeOK
<1>8. CASE Commit(t) \/ Fail(t) \/ Victim(t)
  BY <1>8 DEF Commit, Fail, Victim, Rollback, Release, Climbs, TypeOK
<1>9. ~ \/ DeleteLookup(t) \/ DeleteWrite(t) \/ Cascade(t) \/ CascadeEnd(t)
        \/ ImportUpsert(t) \/ RolloverSweep(t) \/ WorkEnd(t)
  BY <1>1 DEF DeleteLookup, DeleteWrite, Cascade, CascadeEnd, ImportUpsert,
              RolloverSweep, WorkEnd, Climbs
<1>10. QED BY <1>2, <1>3, <1>4, <1>5, <1>6, <1>7, <1>8, <1>9 DEF Step

LEMMA ClimbInvNext == EditsOnly /\ ClimbInv /\ [Next]_vars => ClimbInv'
<1> SUFFICES ASSUME EditsOnly, ClimbInv, [Next]_vars PROVE ClimbInv'
  OBVIOUS
<1>1. LockInv' BY LockInvNext DEF ClimbInv
<1>2. CASE Next BY <1>1, <1>2, ClimbStep DEF Next, ClimbInv
<1>3. CASE UNCHANGED vars BY <1>1, <1>3 DEF vars, ClimbInv, Climbs
<1>4. QED BY <1>2, <1>3

\* A set of numbers that is not empty has a smallest member.
LEMMA Smallest ==
    ASSUME NEW D \in SUBSET Nat, D # {}
    PROVE  \E d \in D : \A e \in D : d <= e
<1> DEFINE R == {ss \in Nat \X Nat : ss[1] < ss[2]}
<1>1. IsWellFoundedOn(R, Nat)
  BY NatLessThanWellFounded DEF OpToRel
<1>2. PICK d \in D : \A e \in D : <<e, d>> \notin R
  <2> HIDE DEF R
  <2>1. QED BY <1>1, WFMin
<1>3. ASSUME NEW e \in D PROVE d <= e
  <2>1. d \in Nat /\ e \in Nat OBVIOUS
  <2>2. ~(e < d) BY <1>2, <2>1
  <2>3. QED BY <2>1, <2>2
<1>4. QED BY <1>3

LEMMA ClimbersNeverDeadlock == ClimbInv => NoDeadlock
<1> SUFFICES ASSUME ClimbInv, NEW t \in Tx, NEW S \in SUBSET Tx, t \in S,
                    \A s \in S : \E u \in S : WaitsFor(s, u)
             PROVE  FALSE
  BY DEF NoDeadlock, Deadlocked
<1> DEFINE D == {Depth[want[s]] : s \in S}
<1>1. \A s \in S : want[s] \in Node
  BY DEF WaitsFor, ClimbInv, LockInv, TypeInv, TypeOK
<1>2. D \in SUBSET Nat /\ D # {}
  BY <1>1, TreeAssumption
<1>3. PICK s \in S : \A e \in D : Depth[want[s]] <= e
  <2> HIDE DEF D
  <2>1. PICK d \in D : \A e \in D : d <= e BY <1>2, Smallest
  <2>2. QED BY <2>1 DEF D
<1>4. PICK u \in S : own[u][want[s]] # Clean
  BY DEF WaitsFor
<1>5. Depth[want[u]] < Depth[want[s]]
  BY <1>1, <1>4, TreeAssumption DEF ClimbInv, Climbs
<1>6. Depth[want[s]] <= Depth[want[u]]
  BY <1>3
<1>7. Depth[want[u]] \in Nat /\ Depth[want[s]] \in Nat
  BY <1>1, TreeAssumption
<1>8. QED BY <1>5, <1>6, <1>7

\* However many edits of amounts and locks run at the same time, on any tree
\* and from any table, none of them is ever part of a deadlock.
THEOREM EditsNeverDeadlock ==
    ASSUME EditsOnly, NEW T \in Table
    PROVE  SeededAt(T) => []NoDeadlock
<1>1. Started(T) => ClimbInv
  BY StartedLockInv DEF Started, ClimbInv, Climbs
<1>2. ClimbInv /\ [Next]_vars => ClimbInv'
  BY ClimbInvNext
<1>3. QED BY <1>1, <1>2, ClimbersNeverDeadlock, PTL DEF SeededAt

-----------------------------------------------------------------------------
(* The derived columns.  Between the statement that changes the amounts of a *)
(* row and the one that derives from them the row is the handler's own; the  *)
(* other handlers only store rows that are fresh.                           *)

\* No deletes, and files whose derived columns agree with their amounts.
FreshRequests ==
    \A r \in Request :
        /\ r.kind # "delete"
        /\ r.kind = "import" => \A n \in DOMAIN r.file : Fresh(Upserted(NoRow, r.file[n], r.tahun))

Deriving(t, n) == pc[t] = "derive" /\ n = cur[t] /\ want[t] = NoNode

KeepsFresh(t) ==
    /\ pc[t] \notin {"lookup", "cascade"}
    /\ pc[t] # "idle" => req[t] \in Request
    /\ pc[t] \in {"derive", "rollup"} => req[t].kind \in {"update", "lock"}
    /\ \A n \in Node : own[t][n] # Clean =>
         own[t][n] # NoRow /\ (Fresh(own[t][n]) \/ Deriving(t, n))

FreshInv == LockInv /\ DerivedFresh /\ \A t \in Tx : KeepsFresh(t)

LEMMA DerivedIsFresh ==
    ASSUME NEW row \in Row
    PROVE  Fresh(Derive(row))
  BY DEF Derive, Fresh, Row

LEMMA UpsertedIsFresh ==
    ASSUME NEW f, NEW old, NEW y, Fresh(Upserted(NoRow, f, y))
    PROVE  Fresh(Upserted(old, f, y))
  BY DEF Upserted, Fresh

LEMMA RolledOverIsFresh ==
    ASSUME NEW row \in Row, Fresh(row)
    PROVE  Fresh(RolledOver(row))
<1>1. row.sd \in Int BY DEF Row, Amount
<1>2. QED BY <1>1 DEF RolledOver, Fresh, Row

\* Outside the derive statement a handler sees fresh rows only.
LEMMA ViewFresh ==
    ASSUME FreshInv, NEW t \in Tx, pc[t] # "derive", NEW n \in Node,
           View(t)[n] # NoRow
    PROVE  Fresh(View(t)[n])
  BY DEF FreshInv, KeepsFresh, Deriving, DerivedFresh, View

\* A handler that ends holds nothing.
LEMMA ReleaseFresh ==
    ASSUME FreshInv, NEW t \in Tx, Release(t)
    PROVE  \A u \in Tx : KeepsFresh(u)'
<1>1. ASSUME NEW u \in Tx \ {t} PROVE KeepsFresh(u)'
  BY DEF FreshInv, LockInv, TypeInv, TypeOK, Release, KeepsFresh, Deriving
<1>2. KeepsFresh(t)'
  BY DEF FreshInv, LockInv, TypeInv, TypeOK, Release, KeepsFresh, Deriving
<1>3. QED BY <1>1, <1>2

LEMMA RollbackFresh ==
    ASSUME FreshInv, NEW t \in Tx, Rollback(t)
    PROVE  DerivedFresh' /\ \A u \in Tx : KeepsFresh(u)'
  BY ReleaseFresh DEF Rollback, FreshInv, DerivedFresh

\* An UPDATE of n that stores a fresh row or goes on to derive it.
LEMMA UpdateFresh ==
    ASSUME FreshInv, NEW t \in Tx, NEW n \in Node, NEW row,
           NEW next \in {"derive", "rollup"}, Update(t, n, row, next, n),
           pc[t] # "idle", pc[t] = "derive" => n = cur[t],
           req[t].kind \in {"update", "lock"},
           next = "derive" \/ (row \in Row /\ View(t)[n] # NoRow => Fresh(row))
    PROVE  DerivedFresh' /\ \A u \in Tx : KeepsFresh(u)'
<1> USE DEF FreshInv, LockInv, TypeInv
<1>0. ASSUME db' = db PROVE DerivedFresh'
  BY <1>0 DEF DerivedFresh
<1>1. CASE ~Ready(t, n) /\ Block(t, n)
  <2>1. own[t][n] = Clean BY <1>1, BlockedElsewhere DEF Ready
  <2>2. want' = [want EXCEPT ![t] = n] /\ UNCHANGED <<db, own, pc, req, cur>>
    BY <1>1 DEF Block
  <2>3. QED BY <1>0, <2>1, <2>2 DEF KeepsFresh, Deriving, TypeOK
<1>2. CASE Rollback(t) BY <1>2, RollbackFresh
<1>3. CASE /\ IF Hit(t, n) THEN row \in Row /\ Store(t, n, row) ELSE Skip(t)
           /\ pc' = [pc EXCEPT ![t] = next]
           /\ cur' = [cur EXCEPT ![t] = n]
           /\ UNCHANGED <<db, req, todo>>
  <2>1. /\ want' = [want EXCEPT ![t] = NoNode]
        /\ \A u \in Tx \ {t} : own'[u] = own[u]
        /\ \A m \in Node \ {n} : own'[t][m] = own[t][m]
    BY <1>3 DEF Store, Skip, TypeOK
  <2>2. ASSUME NEW u \in Tx \ {t} PROVE KeepsFresh(u)'
    BY <1>3, <2>1 DEF KeepsFresh, Deriving, TypeOK
  <2>3. ASSUME NEW m \in Node \ {n}, own'[t][m] # Clean
        PROVE  own'[t][m] # NoRow /\ Fresh(own'[t][m])
    BY <1>3, <2>1, <2>3 DEF KeepsFresh, Deriving
  <2>4. ASSUME own'[t][n] # Clean
        PROVE  own'[t][n] # NoRow /\ (Fresh(own'[t][n]) \/ Deriving(t, n)')
    <3>1. CASE Hit(t, n)
      <4>1. own'[t][n] = row BY <1>3, <3>1 DEF Store, TypeOK
      <4>2. row # NoRow BY <1>3, <3>1, ValueAssumption
      <4>3. next = "derive" => Deriving(t, n)'
        BY <1>3, <2>1 DEF Deriving, TypeOK
      <4>4. QED BY <1>3, <3>1, <4>1, <4>2, <4>3 DEF Hit
    <3>2. CASE ~Hit(t, n)
      <4>1. own'[t][n] = own[t][n] BY <1>3, <3>2 DEF Skip
      <4>2. own[t][n] # NoRow BY <2>4, <4>1 DEF KeepsFresh
      <4>3. ~Deriving(t, n)
        BY <2>4, <3>2, <4>1, <4>2 DEF Deriving, Hit, Seen, View
      <4>4. QED BY <2>4, <4>1, <4>2, <4>3 DEF KeepsFresh
    <3>3. QED BY <3>1, <3>2
  <2>5. KeepsFresh(t)'
    BY <1>3, <2>3, <2>4 DEF KeepsFresh, TypeOK
  <2>6. QED BY <1>0, <1>3, <2>2, <2>5
<1>4. QED BY <1>1, <1>2, <1>3 DEF Update

\* A whole row stored by an import or a rollover.
LEMMA StoreFresh ==
    ASSUME FreshInv, NEW t \in Tx, NEW n \in Node,
           NEW row \in Row, Fresh(row), Store(t, n, row) \/ Skip(t),
           pc[t] \in {"upsert", "sweep"}, UNCHANGED <<db, pc, req, cur>>
    PROVE  DerivedFresh' /\ \A u \in Tx : KeepsFresh(u)'
<1> USE DEF FreshInv, LockInv, TypeInv
<1>1. DerivedFresh' BY DEF DerivedFresh
<1>2. /\ want' = [want EXCEPT ![t] = NoNode]
      /\ \A u \in Tx \ {t} : own'[u] = own[u]
      /\ \A m \in Node : own'[t][m] = own[t][m] \/ own'[t][m] = row
  BY DEF Store, Skip, TypeOK
<1>3. row # NoRow BY ValueAssumption
<1>4. \A u \in Tx : KeepsFresh(u)'
  BY <1>2, <1>3 DEF KeepsFresh, Deriving, TypeOK
<1>5. QED BY <1>1, <1>4

\* A statement that waits before it stores a whole row.
LEMMA BlockFresh ==
    ASSUME FreshInv, NEW t \in Tx, NEW n \in Node, Block(t, n), pc[t] # "derive"
    PROVE  DerivedFresh' /\ \A u \in Tx : KeepsFresh(u)'
  BY DEF FreshInv, LockInv, TypeInv, TypeOK, DerivedFresh, KeepsFresh, Deriving,
         Block

LEMMA FreshStep ==
    ASSUME FreshRequests, FreshInv, NEW t \in Tx,
           Begin(t) \/ Step(t) \/ Fail(t) \/ Victim(t)
    PROVE  DerivedFresh' /\ \A u \in Tx : KeepsFresh(u)'
<1> USE RequestKinds DEF FreshInv, LockInv, TypeInv
<1>1. View(t) \in Table BY ViewType
<1>2. CASE Begin(t)
  <2>1. PICK r \in Request : /\ req' = [req EXCEPT ![t] = r]
                             /\ pc' = [pc EXCEPT ![t] = FirstStep(r.kind)]
    BY <1>2 DEF Begin
  <2>2. FirstStep(r.kind) \in {"write", "upsert", "sweep"}
    BY DEF FreshRequests, FirstStep
  <2>3. pc[t] = "idle" /\ UNCHANGED <<db, own, cur, want>> BY <1>2 DEF Begin
  <2>4. QED
    BY <2>1, <2>2, <2>3 DEF DerivedFresh, KeepsFresh, Deriving, TypeOK
<1>3. CASE UpdateWrite(t)
  <2>1. req[t].node \in Node
    BY <1>3 DEF UpdateWrite, KeepsFresh, UpdateRequest
  <2>2. QED BY <1>3, <2>1, UpdateFresh DEF UpdateWrite
<1>4. CASE UpdateDerive(t)
  <2>1. cur[t] \in Node BY <1>4 DEF UpdateDerive, Staged
  <2>2. View(t)[cur[t]] # NoRow => View(t)[cur[t]] \in Row
    BY <1>1, <2>1 DEF Table
  <2>3. View(t)[cur[t]] # NoRow => Fresh(Derive(View(t)[cur[t]]))
    BY <2>2, DerivedIsFresh
  <2>4. QED BY <1>4, <2>1, <2>3, UpdateFresh DEF UpdateDerive, KeepsFresh
<1>5. CASE LockWrite(t)
  <2> DEFINE n == req[t].node
  <2>1. n \in Node /\ pc[t] = "write"
    BY <1>5 DEF LockWrite, KeepsFresh, LockRequest
  <2>2. View(t)[n] # NoRow => View(t)[n] \in Row /\ Fresh(View(t)[n])
    BY <1>1, <2>1, ViewFresh DEF Table
  <2>3. View(t)[n] # NoRow => Fresh([View(t)[n] EXCEPT !.lock = Decimal(req[t].lock)])
    BY <2>2 DEF Fresh, Row
  <2>4. QED BY <1>5, <2>1, <2>3, UpdateFresh DEF LockWrite
<1>6. CASE Rollup(t)
  <2> DEFINE p == Parent[cur[t]]
             new == RollupRow(req[t].kind, View(t)[p], Seen(t), p)
  <2>1. p \in Node /\ pc[t] = "rollup"
    BY <1>6, TreeAssumption DEF Rollup, AtTop, TypeOK, Staged
  <2>2. View(t)[p] # NoRow => View(t)[p] \in Row /\ Fresh(View(t)[p])
    BY <1>1, <2>1, ViewFresh DEF Table
  <2>3. CASE req[t].kind = "update"
    BY <1>6, <2>1, <2>3, UpdateFresh DEF Rollup
  <2>4. CASE req[t].kind = "lock"
    <3>1. View(t)[p] # NoRow => Fresh(new)
      BY <2>2, <2>4 DEF RollupRow, Fresh, Row
    <3>2. Update(t, p, new, "rollup", p) BY <1>6, <2>4 DEF Rollup
    <3>3. QED BY <2>1, <2>4, <3>1, <3>2, UpdateFresh
  <2>5. req[t].kind \in {"update", "lock"} BY <2>1 DEF KeepsFresh
  <2>6. QED BY <2>3, <2>4, <2>5
<1>7. CASE ImportUpsert(t)
  <2>1. PICK n \in todo[t] :
           \/ Block(t, n)
           \/ /\ Store(t, n, Upserted(View(t)[n], req[t].file[n], req[t].tahun))
              /\ UNCHANGED <<db, pc, req, cur>>
    BY <1>7 DEF ImportUpsert
  <2>2. n \in Node BY DEF TypeOK
  <2>3. ImportRequest(req[t]) /\ n \in DOMAIN req[t].file /\ req[t] \in Request
    BY <1>7 DEF ImportUpsert, Staged
  <2>4. View(t)[n] \in Row \cup {NoRow} BY <1>1, <2>2 DEF Table
  <2>5. req[t].file[n] \in FileRow /\ Fresh(Upserted(NoRow, req[t].file[n], req[t].tahun))
    BY <2>3 DEF ImportRequest, FreshRequests
  <2>6. /\ Upserted(View(t)[n], req[t].file[n], req[t].tahun) \in Row
        /\ Fresh(Upserted(View(t)[n], req[t].file[n], req[t].tahun))
    BY <2>3, <2>4, <2>5, UpsertedType, UpsertedIsFresh DEF ImportRequest
  <2>7. QED
    BY <1>7, <2>1, <2>2, <2>6, BlockFresh, StoreFresh DEF ImportUpsert
<1>8. CASE RolloverSweep(t)
  <2>1. PICK n \in todo[t] :
           \/ Block(t, n)
           \/ /\ IF View(t)[n] # NoRow
                 THEN RolledOver(View(t)[n]) \in Row /\ Store(t, n, RolledOver(View(t)[n]))
                 ELSE Skip(t)
              /\ UNCHANGED <<db, pc, req, cur>>
           \/ Rollback(t)
    BY <1>8 DEF RolloverSweep
  <2>2. n \in Node /\ pc[t] = "sweep" BY <1>8 DEF RolloverSweep, TypeOK
  <2>3. View(t)[n] # NoRow => View(t)[n] \in Row /\ Fresh(View(t)[n])
    BY <1>1, <2>2, ViewFresh DEF Table
  <2>4. CASE Block(t, n) BY <2>2, <2>4, BlockFresh
  <2>5. CASE Rollback(t) BY <2>5, RollbackFresh
  <2>6. CASE View(t)[n] # NoRow /\ ~Block(t, n) /\ ~Rollback(t)
    BY <2>1, <2>2, <2>3, <2>6, RolledOverIsFresh, StoreFresh
  <2>7. CASE View(t)[n] = NoRow /\ ~Block(t, n) /\ ~Rollback(t)
    BY <2>1, <2>2, <2>7
    DEF Skip, DerivedFresh, KeepsFresh, Deriving, TypeOK
  <2>8. QED BY <2>4, <2>5, <2>6, <2>7
<1>9. CASE RollupEnd(t) \/ WorkEnd(t)
  BY <1>9 DEF RollupEnd, WorkEnd, DerivedFresh, KeepsFresh, Deriving, TypeOK
<1>10. CASE Commit(t)
  <2>1. \A n \in Node : View(t)[n] # NoRow => Fresh(View(t)[n])
    BY <1>10, ViewFresh DEF Commit
  <2>2. db' = View(t) BY <1>10 DEF Commit
  <2>3. DerivedFresh' BY <2>1, <2>2 DEF DerivedFresh
  <2>4. QED BY <1>10, <2>3, ReleaseFresh DEF Commit
<1>11. CASE Fail(t) \/ Victim(t)
  BY <1>11, RollbackFresh DEF Fail, Victim
<1>12. ~(DeleteLookup(t) \/ DeleteWrite(t) \/ Cascade(t) \/ CascadeEnd(t))
  BY DEF DeleteLookup, DeleteWrite, Cascade, CascadeEnd, KeepsFresh, FreshRequests
<1>13. QED BY <1>2, <1>3, <1>4, <1>5, <1>6, <1>7, <1>8, <1>9, <1>10, <1>11, <1>12
           DEF Step

LEMMA FreshInvNext == FreshRequests /\ FreshInv /\ [Next]_vars => FreshInv'
<1> SUFFICES ASSUME FreshRequests, FreshInv, [Next]_vars PROVE FreshInv'
  OBVIOUS
<1>1. LockInv' BY LockInvNext DEF FreshInv
<1>2. CASE Next BY <1>1, <1>2, FreshStep DEF Next, FreshInv
<1>3. CASE UNCHANGED vars
  BY <1>1, <1>3 DEF vars, FreshInv, DerivedFresh, KeepsFresh, Deriving
<1>4. QED BY <1>2, <1>3

\* Without deletes, and with files whose derived columns agree with their
\* amounts, every committed row has fresh derived columns, whatever edits,
\* imports and rollovers run at the same time.
THEOREM RowsStayFresh ==
    ASSUME FreshRequests, NEW T \in Table,
           \A n \in Node : T[n] # NoRow => Fresh(T[n])
    PROVE  SeededAt(T) => []DerivedFresh
<1>1. Started(T) => FreshInv
  BY StartedLockInv DEF Started, FreshInv, DerivedFresh, KeepsFresh
<1>2. FreshInv /\ [Next]_vars => FreshInv'
  BY FreshInvNext
<1>3. FreshInv => DerivedFresh BY DEF FreshInv
<1>4. QED BY <1>1, <1>2, <1>3, PTL DEF SeededAt


-----------------------------------------------------------------------------
(* Edits of different columns.  Pagu edits of one leaf and lock edits of one *)
(* leaf share every ancestor and no column.  A handler that waits keeps its  *)
(* snapshot and sums over it when it goes on: nobody else changes the column *)
(* it sums, so the snapshot is as good as new.                               *)

EditsApart ==
    /\ EditsOnly
    /\ \A r \in Request : \A c \in Node : Parent[c] # r.node
    /\ \A r, s \in Request : r.kind = s.kind => r.node = s.node

SumFields == {"pagu", "lock", "lalu", "ini"}
Columns(kind) == IF kind = "lock" THEN {"lock"} ELSE {"pagu", "lalu", "ini"}

\* Two tables with the same rows, equal in some columns.
Agree(T, U, F) ==
    \A n \in Node : /\ T[n] = NoRow <=> U[n] = NoRow
                    /\ T[n] # NoRow => \A f \in F : T[n][f] = U[n][f]

Active(t) == \E n \in Node : own[t][n] # Clean

\* The roll-up of p's sums is what t will do next.
Pending(t, p) == /\ pc[t] \in {"derive", "rollup"}
                 /\ p = Parent[cur[t]] /\ View(t)[cur[t]] # NoRow

HoldsAt(T, F, p) ==
    T[p] # NoRow /\ Children(T, p) # {} => \A f \in F : T[p][f] = Total(T, p, f)

Apart(t) ==
    /\ \A n \in Node : own[t][n] # Clean =>
         /\ own[t][n] # NoRow /\ db[n] # NoRow
         /\ \A f \in SumFields \ Columns(req[t].kind) : own[t][n][f] = db[n][f]
    /\ Active(t) => own[t][req[t].node] # Clean
    /\ pc[t] \in {"derive", "rollup"} /\ ~Active(t) => db[cur[t]] = NoRow
    /\ pc[t] = "rollup" /\ want[t] # NoNode => Active(t)
    /\ want[t] # NoNode => /\ Agree(snap[t], View(t), {})
                           /\ Active(t) => Agree(snap[t], View(t), Columns(req[t].kind))
    /\ Active(t) => \A p \in Node :
         ~Pending(t, p) => HoldsAt(View(t), Columns(req[t].kind), p)

ApartInv == ClimbInv /\ ForestConsistent /\ \A t \in Tx : Apart(t)

\* Tables that agree in a column have the same sums of it.
LEMMA SameTotals ==
    ASSUME NEW T, NEW U, NEW F, Agree(T, U, F), NEW f \in F, NEW p
    PROVE  Children(T, p) = Children(U, p) /\ Total(T, p, f) = Total(U, p, f)
<1>1. Children(T, p) = Children(U, p) BY DEF Agree, Children
<1>2. \A c \in Children(T, p) : T[c][f] = U[c][f]
  BY DEF Agree, Children
<1>3. [c \in Children(T, p) |-> T[c][f]] = [c \in Children(U, p) |-> U[c][f]]
  BY <1>1, <1>2
<1>4. QED BY <1>1, <1>3 DEF Total

LEMMA AgreeHolds ==
    ASSUME NEW T, NEW U, NEW F, Agree(T, U, F), NEW p \in Node, HoldsAt(T, F, p)
    PROVE  HoldsAt(U, F, p)
<1>1. ASSUME NEW f \in F, U[p] # NoRow, Children(U, p) # {}
      PROVE  U[p][f] = Total(U, p, f)
  BY <1>1, SameTotals DEF HoldsAt, Agree
<1>2. QED BY <1>1 DEF HoldsAt

\* A consistent forest is one whose sums hold in every column.
LEMMA ConsistentHolds ==
    ForestConsistent <=> \A p \in Node : HoldsAt(db, SumFields, p)
  BY DEF ForestConsistent, HoldsAt, SumsHold, SumFields

Replaced(T, n, row) == [T EXCEPT ![n] = row]

LEMMA ReplacedRow ==
    ASSUME NEW T \in Table, NEW n \in Node, NEW row
    PROVE  /\ Replaced(T, n, row)[n] = row
           /\ \A m \in Node : m # n => Replaced(T, n, row)[m] = T[m]
  BY DEF Replaced, Table

\* One row is written: the sums over the children of all but its parent stay.
LEMMA StoredTotals ==
    ASSUME NEW T \in Table, NEW n \in Node, NEW row \in Row, NEW p \in Node,
           p # Parent[n], NEW F
    PROVE  /\ Children(Replaced(T, n, row), p) = Children(T, p)
           /\ \A f \in F : Total(Replaced(T, n, row), p, f) = Total(T, p, f)
<1> DEFINE U == Replaced(T, n, row)
<1>1. \A m \in Node \ {n} : U[m] = T[m] BY ReplacedRow
<1>2. Children(U, p) = Children(T, p) /\ n \notin Children(T, p)
  BY <1>1 DEF Children
<1>3. \A c \in Children(T, p) : c \in Node \ {n} BY <1>2 DEF Children
<1> HIDE DEF U
<1>4. ASSUME NEW f \in F PROVE Total(U, p, f) = Total(T, p, f)
  <2>1. [c \in Children(U, p) |-> U[c][f]] = [c \in Children(T, p) |-> T[c][f]]
    BY <1>1, <1>2, <1>3
  <2>2. QED BY <2>1 DEF Total
<1>5. QED BY <1>2, <1>4 DEF U

LEMMA OffPath ==
    ASSUME NEW T \in Table, NEW n \in Node, NEW row \in Row, NEW p \in Node,
           p # n, p # Parent[n], NEW F, HoldsAt(T, F, p)
    PROVE  HoldsAt(Replaced(T, n, row), F, p)
<1>1. Replaced(T, n, row)[p] = T[p] BY ReplacedRow
<1>2. QED BY <1>1, StoredTotals DEF HoldsAt

\* A row is written with the sums of its children.
LEMMA OnPath ==
    ASSUME NEW T \in Table, NEW n \in Node, NEW row \in Row, NEW F,
           Children(T, n) # {} => \A f \in F : row[f] = Total(T, n, f)
    PROVE  HoldsAt(Replaced(T, n, row), F, n)
<1>1. n # Parent[n] BY TreeAssumption
<1>2. Replaced(T, n, row)[n] = row BY ReplacedRow
<1>3. QED BY <1>1, <1>2, StoredTotals DEF HoldsAt

\* What a handler sees and what is committed differ in its own columns only.
LEMMA ViewApart ==
    ASSUME ApartInv, NEW t \in Tx
    PROVE  /\ Agree(View(t), db, SumFields \ Columns(req[t].kind))
           /\ ~Active(t) => View(t) = db
<1>1. \A n \in Node : View(t)[n] = IF own[t][n] = Clean THEN db[n] ELSE own[t][n]
  BY DEF View
<1>2. Agree(View(t), db, SumFields \ Columns(req[t].kind))
  BY <1>1 DEF ApartInv, Apart, Agree
<1>3. db \in Table BY DEF ApartInv, ClimbInv, LockInv, TypeInv, TypeOK
<1>4. ~Active(t) => View(t) = db
  BY <1>3 DEF View, Active, Table
<1>5. QED BY <1>2, <1>4

\* All sums but the pending one hold in what a handler sees.
LEMMA SeenSums ==
    ASSUME ApartInv, NEW t \in Tx, NEW p \in Node, ~Pending(t, p)
    PROVE  HoldsAt(View(t), Columns(req[t].kind), p)
<1>1. CASE Active(t) BY <1>1 DEF ApartInv, Apart
<1>2. CASE ~Active(t)
  <2>1. HoldsAt(db, SumFields, p) BY ConsistentHolds DEF ApartInv
  <2>2. Columns(req[t].kind) \subseteq SumFields BY DEF Columns, SumFields
  <2>3. HoldsAt(db, Columns(req[t].kind), p) BY <2>1, <2>2 DEF HoldsAt
  <2>4. QED BY <1>2, <2>3, ViewApart
<1>3. QED BY <1>1, <1>2

\* A handler's row is written, with its own columns changed at most: what it
\* sees changes in that row alone, and all sums but the parent's hold.
LEMMA StoreApart ==
    ASSUME ApartInv, NEW t \in Tx, NEW n \in Node, NEW row \in Row,
           Store(t, n, row), View(t)[n] # NoRow,
           req[t].kind \in {"update", "lock"},
           pc'[t] \in {"derive", "rollup"}, cur'[t] = n, db' = db, req'[t] = req[t],
           \A f \in SumFields \ Columns(req[t].kind) : row[f] = View(t)[n][f],
           Active(t) \/ n = req[t].node,
           Children(View(t), n) # {} =>
             \A f \in Columns(req[t].kind) : row[f] = Total(View(t), n, f),
           \A p \in Node : p # n /\ p # Parent[n] =>
             HoldsAt(View(t), Columns(req[t].kind), p)
    PROVE  Apart(t)'
<1> DEFINE F == Columns(req[t].kind)
<1>1. /\ TypeOK /\ Apart(t) /\ View(t) \in Table
  BY ViewType DEF ApartInv, ClimbInv, LockInv, TypeInv
<1>2. /\ own'[t][n] = row /\ want'[t] = NoNode
      /\ \A m \in Node \ {n} : own'[t][m] = own[t][m]
  BY <1>1 DEF TypeOK, Store
<1>3. row # NoRow /\ row # Clean BY ValueAssumption
<1>4. View(t)' = [View(t) EXCEPT ![n] = row]
  <2>1. \A m \in Node : View(t)'[m] = [View(t) EXCEPT ![n] = row][m]
    BY <1>1, <1>2, <1>3 DEF View, Table
  <2>2. View(t)' = [m \in Node |-> View(t)'[m]] BY DEF View
  <2>3. QED BY <1>1, <2>1, <2>2 DEF Table
<1>5. db[n] # NoRow /\ \A f \in SumFields \ F : row[f] = db[n][f]
  BY ViewApart DEF Agree
<1>6. ASSUME NEW m \in Node, own'[t][m] # Clean
      PROVE  /\ own'[t][m] # NoRow /\ db'[m] # NoRow
             /\ \A f \in SumFields \ F : own'[t][m][f] = db'[m][f]
  <2>1. CASE m = n BY <1>2, <1>3, <1>5, <2>1
  <2>2. CASE m # n BY <1>1, <1>2, <1>6, <2>2 DEF Apart
  <2>3. QED BY <2>1, <2>2
<1>7. own'[t][req[t].node] # Clean
  <2>1. CASE n = req[t].node BY <1>2, <1>3, <2>1
  <2>2. CASE n # req[t].node
    <3>1. own[t][req[t].node] # Clean BY <1>1, <2>2 DEF Apart
    <3>2. PICK m \in Node : own[t][m] # Clean BY <2>2 DEF Active
    <3>3. req[t] \in Request BY <3>2 DEF ApartInv, ClimbInv, Climbs
    <3>4. req[t].node \in Node
      BY <3>3, RequestKinds DEF UpdateRequest, LockRequest
    <3>5. QED BY <1>2, <2>2, <3>1, <3>4
  <2>3. QED BY <2>1, <2>2
<1>8. Active(t)' BY <1>2, <1>3 DEF Active
<1>9. ASSUME NEW p \in Node, ~Pending(t, p)' PROVE HoldsAt(View(t)', F, p)
  <2>1. View(t)'[cur'[t]] # NoRow BY <1>1, <1>3, <1>4 DEF Table
  <2>2. p # Parent[n] BY <1>9, <2>1 DEF Pending
  <2>3. CASE p = n
    <3>1. HoldsAt(Replaced(View(t), n, row), F, n) BY <1>1, OnPath
    <3>2. QED BY <1>4, <2>3, <3>1 DEF Replaced
  <2>4. CASE p # n
    <3>1. HoldsAt(View(t), F, p) BY <2>2, <2>4
    <3>2. HoldsAt(Replaced(View(t), n, row), F, p)
      BY <1>1, <2>2, <2>4, <3>1, OffPath
    <3>3. QED BY <1>4, <3>2 DEF Replaced
  <2>5. QED BY <2>3, <2>4
<1>10. QED BY <1>2, <1>6, <1>7, <1>8, <1>9 DEF Apart

\* A row that is not there is passed over.
LEMMA SkipApart ==
    ASSUME ApartInv, NEW t \in Tx, NEW n \in Node,
           own' = own, db' = db, req'[t] = req[t], want'[t] = NoNode,
           pc'[t] \in {"derive", "rollup"}, cur'[t] = n, View(t)[n] = NoRow,
           \A p \in Node : p # n => HoldsAt(View(t), Columns(req[t].kind), p)
    PROVE  Apart(t)'
<1>1. Apart(t) BY DEF ApartInv
<1>2. View(t)' = View(t) BY DEF View
<1>3. db[n] = NoRow BY ViewApart DEF Agree
<1>4. \A p \in Node : HoldsAt(View(t), Columns(req[t].kind), p)
  BY DEF HoldsAt
<1>5. Active(t)' = Active(t) BY DEF Active
<1>6. QED BY <1>1, <1>2, <1>3, <1>4, <1>5 DEF Apart

\* A handler that waits has a snapshot of what it sees.
LEMMA BlockApart ==
    ASSUME ApartInv, NEW t \in Tx, NEW n \in Node, Block(t, n),
           pc[t] = "rollup" => Active(t)
    PROVE  Apart(t)'
<1>1. Apart(t) /\ TypeOK BY DEF ApartInv, ClimbInv, LockInv, TypeInv
<1>2. /\ UNCHANGED <<db, own, pc, req, cur>> /\ snap'[t] = View(t)
  BY <1>1 DEF Block, TypeOK
<1>3. View(t)' = View(t) /\ Active(t)' = Active(t) BY <1>2 DEF View, Active
<1>4. \A p \in Node : Pending(t, p)' = Pending(t, p) BY <1>2, <1>3 DEF Pending
<1>5. \A F : Agree(View(t), View(t), F) BY DEF Agree
<1>6. QED BY <1>1, <1>2, <1>3, <1>4, <1>5 DEF Apart

\* A handler whose request has ended.
LEMMA ReleaseApart ==
    ASSUME ApartInv, NEW t \in Tx, Release(t)
    PROVE  Apart(t)'
<1>1. TypeOK BY DEF ApartInv, ClimbInv, LockInv, TypeInv
<1>2. /\ \A n \in Node : own'[t][n] = Clean
      /\ pc'[t] = "idle" /\ want'[t] = NoNode
  BY <1>1 DEF TypeOK, Release
<1>3. ~Active(t)' BY <1>2 DEF Active
<1>4. QED BY <1>2, <1>3 DEF Apart

\* An UPDATE of one row, in each of its outcomes.
LEMMA UpdateApart ==
    ASSUME ApartInv, NEW t \in Tx, NEW n \in Node, NEW row,
           NEW next \in {"derive", "rollup"}, Update(t, n, row, next, n),
           req[t].kind \in {"update", "lock"}, pc[t] = "rollup" => Active(t),
           View(t)[n] # NoRow =>
             /\ \A f \in SumFields \ Columns(req[t].kind) : row[f] = View(t)[n][f]
             /\ Active(t) \/ n = req[t].node
             /\ Children(View(t), n) # {} =>
                  \A f \in Columns(req[t].kind) : row[f] = Total(View(t), n, f)
             /\ \A p \in Node : p # n /\ p # Parent[n] =>
                  HoldsAt(View(t), Columns(req[t].kind), p),
           View(t)[n] = NoRow =>
             \A p \in Node : p # n => HoldsAt(View(t), Columns(req[t].kind), p)
    PROVE  Apart(t)'
<1>1. Apart(t) /\ TypeOK BY DEF ApartInv, ClimbInv, LockInv, TypeInv
<1>2. CASE Block(t, n) BY <1>2, BlockApart
<1>3. CASE Rollback(t) BY <1>3, ReleaseApart DEF Rollback
<1>4. CASE /\ IF Hit(t, n) THEN row \in Row /\ Store(t, n, row) ELSE Skip(t)
           /\ pc' = [pc EXCEPT ![t] = next]
           /\ cur' = [cur EXCEPT ![t] = n]
           /\ UNCHANGED <<db, req, todo>>
  <2>1. pc'[t] = next /\ cur'[t] = n BY <1>1, <1>4 DEF TypeOK
  <2>2. Seen(t)[n] = NoRow <=> View(t)[n] = NoRow
    BY <1>1 DEF Seen, Apart, Agree
  <2>3. CASE Hit(t, n)
    <3>1. View(t)[n] # NoRow BY <2>3 DEF Hit
    <3>2. row \in Row /\ Store(t, n, row) BY <1>4, <2>3
    <3>3. QED BY <1>4, <2>1, <3>1, <3>2, StoreApart
  <2>4. CASE ~Hit(t, n)
    <3>1. View(t)[n] = NoRow BY <2>2, <2>4 DEF Hit
    <3>2. own' = own /\ want'[t] = NoNode
      BY <1>1, <1>4, <2>4 DEF Skip, TypeOK
    <3>3. QED BY <1>4, <2>1, <3>1, <3>2, SkipApart
  <2>5. QED BY <2>3, <2>4
<1>5. QED BY <1>2, <1>3, <1>4 DEF Update

\* The statements of the two loops write sums, requested values or columns
\* nobody sums.
LEMMA OwnApart ==
    ASSUME EditsApart, ApartInv, NEW t \in Tx,
           Begin(t) \/ Step(t) \/ Fail(t) \/ Victim(t)
    PROVE  Apart(t)'
<1> DEFINE F == Columns(req[t].kind)
<1>1. /\ TypeOK /\ Staged(t) /\ Climbs(t) /\ Apart(t) /\ View(t) \in Table
  BY ViewType DEF ApartInv, ClimbInv, LockInv, TypeInv
<1>2. \A r \in Request : /\ r.kind \in {"update", "lock"} /\ r.node \in Node
                         /\ r.kind = "update" => r \in UpdateRequest
                         /\ r.kind = "lock" => r \in LockRequest
  BY RequestKinds DEF EditsApart, EditsOnly, UpdateRequest, LockRequest
<1>3. pc[t] # "idle" => req[t] \in Request BY <1>1 DEF Climbs
<1>4. \A n \in Node : Parent[n] # n
  BY TreeAssumption
<1>5. CASE Begin(t)
  <2>1. /\ pc'[t] = "write" /\ UNCHANGED <<db, own, want, snap>>
    BY <1>1, <1>2, <1>5 DEF Begin, FirstStep, TypeOK
  <2>2. \A n \in Node : own'[t][n] = Clean
    BY <1>1, <1>5, <2>1 DEF Begin, Climbs
  <2>3. ~Active(t)' BY <2>2 DEF Active
  <2>4. View(t)' = View(t) BY <2>1 DEF View
  <2>5. QED BY <1>1, <2>1, <2>2, <2>3, <2>4 DEF Apart
<1>6. ASSUME pc[t] = "write", NEW row,
             Update(t, req[t].node, row, "derive", req[t].node)
               \/ Update(t, req[t].node, row, "rollup", req[t].node),
             View(t)[req[t].node] # NoRow =>
               \A f \in SumFields \ F : row[f] = View(t)[req[t].node][f]
      PROVE  Apart(t)'
  <2> DEFINE n == req[t].node
  <2>1. n \in Node /\ req[t].kind \in {"update", "lock"} BY <1>2, <1>3, <1>6
  <2>2. Children(View(t), n) = {}
    BY <1>3, <1>6 DEF EditsApart, Children
  <2>3. \A p \in Node : HoldsAt(View(t), F, p)
    BY <1>6, SeenSums DEF Pending
  <2>4. PICK next \in {"derive", "rollup"} : Update(t, n, row, next, n)
    BY <1>6
  <2> HIDE DEF n
  <2>5. n = req[t].node BY DEF n
  <2>6. QED BY <1>6, <2>1, <2>2, <2>3, <2>4, <2>5, UpdateApart
<1>7. CASE UpdateWrite(t)
  <2>1. /\ pc[t] = "write" /\ req[t].kind = "update"
        /\ Update(t, req[t].node, Edited(View(t)[req[t].node], req[t]), "derive", req[t].node)
    BY <1>7 DEF UpdateWrite
  <2>2. req[t].node \in Node BY <1>2, <1>3, <2>1
  <2>3. ASSUME View(t)[req[t].node] # NoRow, NEW f \in SumFields \ F
        PROVE  Edited(View(t)[req[t].node], req[t])[f] = View(t)[req[t].node][f]
    <3>1. f = "lock" BY <2>1 DEF SumFields, Columns
    <3>2. View(t)[req[t].node] \in Row BY <1>1, <2>2, <2>3 DEF Table
    <3>3. QED BY <3>1, <3>2 DEF Row, Edited
  <2>4. QED BY <1>6, <2>1, <2>3
<1>8. CASE LockWrite(t)
  <2> DEFINE row == [View(t)[req[t].node] EXCEPT !.lock = Decimal(req[t].lock)]
  <2>1. /\ pc[t] = "write" /\ req[t].kind = "lock"
        /\ Update(t, req[t].node, row, "rollup", req[t].node)
    BY <1>8 DEF LockWrite
  <2>2. req[t].node \in Node BY <1>2, <1>3, <2>1
  <2>3. ASSUME View(t)[req[t].node] # NoRow, NEW f \in SumFields \ F
        PROVE  row[f] = View(t)[req[t].node][f]
    <3>1. f \in {"pagu", "lalu", "ini"} BY <2>1 DEF SumFields, Columns
    <3>2. View(t)[req[t].node] \in Row BY <1>1, <2>2, <2>3 DEF Table
    <3>3. QED BY <3>1, <3>2 DEF Row
  <2> HIDE DEF row
  <2>4. QED BY <1>6, <2>1, <2>3
<1>9. CASE UpdateDerive(t)
  <2> DEFINE n == cur[t]
             row == Derive(View(t)[n])
  <2>1. /\ n \in Node /\ pc[t] = "derive" /\ Update(t, n, row, "rollup", n)
        /\ req[t].kind \in {"update", "lock"}
    BY <1>1, <1>2, <1>3, <1>9 DEF UpdateDerive, Staged
  <2>2. ASSUME View(t)[n] # NoRow, NEW f \in SumFields
        PROVE  row[f] = View(t)[n][f]
    <3>1. View(t)[n] \in Row BY <1>1, <2>1, <2>2 DEF Table
    <3>2. QED BY <3>1 DEF Row, Derive, SumFields
  <2>3. View(t)[n] # NoRow => Active(t)
    BY <1>1, <2>1, ViewApart DEF Apart
  <2>4. \A p \in Node : p # Parent[n] \/ View(t)[n] = NoRow =>
                          HoldsAt(View(t), F, p)
    BY SeenSums DEF Pending
  <2>5. F \subseteq SumFields BY DEF Columns, SumFields
  <2>6. View(t)[n] # NoRow /\ Children(View(t), n) # {} =>
          \A f \in F : row[f] = Total(View(t), n, f)
    BY <1>4, <2>1, <2>2, <2>4, <2>5 DEF HoldsAt
  <2> HIDE DEF n, row
  <2>7. QED BY <2>1, <2>2, <2>3, <2>4, <2>6, UpdateApart
<1>10. CASE Rollup(t)
  <2> DEFINE n == Parent[cur[t]]
             row == RollupRow(req[t].kind, View(t)[n], Seen(t), n)
             next == IF req[t].kind = "update" THEN "derive" ELSE "rollup"
  <2>1. /\ pc[t] = "rollup" /\ ~AtTop(t) /\ Update(t, n, row, next, n)
        /\ req[t].kind \in {"update", "lock"} /\ cur[t] \in Node
    BY <1>1, <1>2, <1>3, <1>10 DEF Rollup, Staged
  <2>2. n \in Node
    BY <1>1, <2>1, TreeAssumption DEF AtTop, TypeOK, Staged
  <2>3. Active(t)
    <3>1. CASE want[t] # NoNode BY <1>1, <2>1, <3>1 DEF Apart
    <3>2. CASE want[t] = NoNode
      <4>1. View(t)[cur[t]] # NoRow BY <2>1, <3>2 DEF AtTop
      <4>2. QED BY <1>1, <2>1, <4>1, ViewApart DEF Apart
    <3>3. QED BY <3>1, <3>2
  <2>4. Agree(Seen(t), View(t), F)
    <3>1. Agree(View(t), View(t), F) BY DEF Agree
    <3>2. QED BY <1>1, <2>3, <3>1 DEF Seen, Apart
  <2>5. \A f \in F : Total(Seen(t), n, f) = Total(View(t), n, f)
    BY <2>4, SameTotals
  <2>6. ASSUME View(t)[n] # NoRow
        PROVE  /\ \A f \in F : row[f] = Total(Seen(t), n, f)
               /\ \A f \in SumFields \ F : row[f] = View(t)[n][f]
    <3>1. View(t)[n] \in Row BY <1>1, <2>2, <2>6 DEF Table
    <3>2. CASE req[t].kind = "update"
      BY <3>1, <3>2 DEF RollupRow, Row, Columns, SumFields
    <3>3. CASE req[t].kind = "lock"
      BY <3>1, <3>3 DEF RollupRow, Row, Columns, SumFields
    <3>4. QED BY <2>1, <3>2, <3>3
  <2>7. \A p \in Node : p # n => HoldsAt(View(t), F, p)
    BY SeenSums DEF Pending
  <2>8. next \in {"derive", "rollup"} OBVIOUS
  <2> HIDE DEF n, row, next
  <2>9. QED BY <2>1, <2>2, <2>3, <2>5, <2>6, <2>7, <2>8, UpdateApart
<1>11. CASE RollupEnd(t)
  <2>1. /\ pc[t] = "rollup" /\ pc'[t] = "commit" /\ AtTop(t) /\ want[t] = NoNode
        /\ UNCHANGED <<db, own, req, cur, want, snap>>
    BY <1>1, <1>11 DEF RollupEnd, AtTop, TypeOK
  <2>2. View(t)' = View(t) /\ Active(t)' = Active(t) BY <2>1 DEF View, Active
  <2>3. req[t].kind # "delete" BY <1>2, <1>3, <2>1
  <2>4. \A p \in Node : ~Pending(t, p)
    BY <2>1, <2>3, TreeAssumption DEF Pending, AtTop
  <2>5. \A p \in Node : HoldsAt(View(t), F, p) BY <2>4, SeenSums
  <2>6. QED BY <1>1, <2>1, <2>2, <2>5 DEF Apart
<1>12. CASE Commit(t) \/ Fail(t) \/ Victim(t)
  BY <1>12, ReleaseApart DEF Commit, Fail, Victim, Rollback
<1>13. ~ \/ DeleteLookup(t) \/ DeleteWrite(t) \/ Cascade(t) \/ CascadeEnd(t)
         \/ ImportUpsert(t) \/ RolloverSweep(t) \/ WorkEnd(t)
  BY <1>1, <1>2, <1>3 DEF DeleteLookup, DeleteWrite, Cascade, CascadeEnd,
     ImportUpsert, RolloverSweep, WorkEnd, Climbs
<1>14. QED BY <1>5, <1>7, <1>8, <1>9, <1>10, <1>11, <1>12, <1>13 DEF Step

\* A handler to which nothing happens.
LEMMA ApartFrame ==
    ASSUME NEW u \in Tx, Apart(u), db' = db, own'[u] = own[u], pc'[u] = pc[u],
           req'[u] = req[u], cur'[u] = cur[u], want'[u] = want[u], snap'[u] = snap[u]
    PROVE  Apart(u)'
<1>1. View(u)' = View(u) /\ Active(u)' = Active(u) BY DEF View, Active
<1>2. \A p \in Node : Pending(u, p)' = Pending(u, p) BY <1>1 DEF Pending
<1>3. QED BY <1>1, <1>2 DEF Apart

\* What a step of an edit leaves alone.
LEMMA EditFrame ==
    ASSUME TypeInv, NEW t \in Tx, NEW u \in Tx \ {t},
           Begin(t) \/ Step(t) \/ Fail(t) \/ Victim(t)
    PROVE  cur'[u] = cur[u] /\ want'[u] = want[u] /\ snap'[u] = snap[u]
<1>1. CASE Begin(t) BY <1>1 DEF Begin
<1>2. ASSUME NEW n, NEW row, NEW next, NEW at, Update(t, n, row, next, at)
      PROVE  cur'[u] = cur[u] /\ want'[u] = want[u] /\ snap'[u] = snap[u]
  BY <1>2 DEF Update, Block, Store, Skip, Rollback, Release, TypeInv, TypeOK
<1>3. CASE UpdateWrite(t) \/ UpdateDerive(t) \/ LockWrite(t) \/ Rollup(t)
  BY <1>2, <1>3 DEF UpdateWrite, UpdateDerive, LockWrite, Rollup
<1>4. CASE DeleteLookup(t) \/ DeleteWrite(t) \/ Cascade(t) \/ CascadeEnd(t)
  BY <1>4 DEF DeleteLookup, DeleteWrite, Cascade, CascadeEnd, Block, Store,
              Skip, Rollback, Release, TypeInv, TypeOK
<1>5. CASE ImportUpsert(t)
  BY <1>5 DEF ImportUpsert, Block, Store, TypeInv, TypeOK
<1>6. CASE RolloverSweep(t)
  BY <1>6 DEF RolloverSweep, Block, Store, Skip, Rollback, Release, TypeInv, TypeOK
<1>7. CASE RollupEnd(t) \/ WorkEnd(t)
  BY <1>7 DEF RollupEnd, WorkEnd
<1>8. CASE Commit(t) BY <1>8 DEF Commit, Release, TypeInv, TypeOK
<1>9. CASE Fail(t) \/ Victim(t)
  BY <1>9 DEF Fail, Victim, Rollback, Release, TypeInv, TypeOK
<1>10. QED BY <1>1, <1>3, <1>4, <1>5, <1>6, <1>7, <1>8, <1>9 DEF Step

\* Another handler's commit changes no column this one sums, and no row it holds.
LEMMA CommitApart ==
    ASSUME EditsApart, ApartInv, NEW t \in Tx, Commit(t), NEW u \in Tx \ {t}
    PROVE  Apart(u)'
<1>1. /\ TypeInv /\ RowLockExclusive /\ Climbs(t) /\ Climbs(u) /\ Apart(t)
      /\ Apart(u) /\ Staged(u)
  BY DEF ApartInv, ClimbInv, LockInv, TypeInv
<1>2. /\ own'[u] = own[u] /\ pc'[u] = pc[u] /\ req'[u] = req[u]
      /\ cur'[u] = cur[u] /\ want'[u] = want[u] /\ snap'[u] = snap[u]
      /\ db' = View(t)
  BY <1>1, StepFrame, EditFrame DEF Step, Commit
<1>3. CASE ~Active(t) BY <1>1, <1>2, <1>3, ViewApart, ApartFrame
<1>4. CASE Active(t)
  <2>1. Agree(db', db, SumFields \ Columns(req[t].kind)) BY <1>2, ViewApart
  <2>2. \A n \in Node : own[u][n] # Clean => db'[n] = db[n]
    BY <1>1, <1>2 DEF RowLockExclusive, View
  <2>3. Agree(View(u)', View(u), {})
    BY <1>2, <2>1 DEF Agree, View
  <2>4. Active(u)' = Active(u) BY <1>2 DEF Active
  <2>5. ASSUME Active(u)
        PROVE  Agree(View(u)', View(u), Columns(req[u].kind))
    <3>1. req[t] \in Request /\ req[u] \in Request
      BY <1>1, <2>5 DEF Commit, Climbs, Active
    <3>2. /\ req[t].kind \in {"update", "lock"} /\ req[u].kind \in {"update", "lock"}
          /\ req[u].node \in Node
      BY <3>1, RequestKinds DEF EditsApart, EditsOnly, UpdateRequest, LockRequest
    <3>3. req[t].kind # req[u].kind
      <4>1. own[t][req[t].node] # Clean /\ own[u][req[u].node] # Clean
        BY <1>1, <1>4, <2>5 DEF Apart
      <4>2. req[t].node # req[u].node
        BY <1>1, <3>2, <4>1 DEF RowLockExclusive
      <4>3. QED BY <3>1, <4>2 DEF EditsApart
    <3>4. Columns(req[u].kind) \subseteq SumFields \ Columns(req[t].kind)
      BY <3>2, <3>3 DEF Columns, SumFields
    <3>5. QED BY <1>2, <2>1, <3>4 DEF Agree, View
  <2>6. \A n \in Node : own[u][n] # Clean =>
           /\ own[u][n] # NoRow /\ db'[n] # NoRow
           /\ \A f \in SumFields \ Columns(req[u].kind) : own[u][n][f] = db'[n][f]
    BY <1>1, <2>2 DEF Apart
  <2>7. pc[u] \in {"derive", "rollup"} /\ ~Active(u) => db'[cur[u]] = NoRow
    BY <1>1, <2>1 DEF Apart, Staged, Agree
  <2>8. ASSUME want[u] # NoNode
        PROVE  /\ Agree(snap[u], View(u)', {})
               /\ Active(u) => Agree(snap[u], View(u)', Columns(req[u].kind))
    <3>1. Agree(snap[u], View(u)', {}) BY <1>1, <2>3, <2>8 DEF Apart, Agree
    <3>2. ASSUME Active(u)
          PROVE  Agree(snap[u], View(u)', Columns(req[u].kind))
      <4>1. Agree(snap[u], View(u), Columns(req[u].kind)) BY <1>1, <2>8, <3>2 DEF Apart
      <4>2. QED BY <2>5, <3>2, <4>1 DEF Agree
    <3>3. QED BY <3>1, <3>2
  <2>9. ASSUME Active(u), NEW p \in Node, ~Pending(u, p)'
        PROVE  HoldsAt(View(u)', Columns(req[u].kind), p)
    <3>1. ~Pending(u, p)
      BY <1>1, <1>2, <2>3, <2>9 DEF Pending, Staged, Agree
    <3>2. HoldsAt(View(u), Columns(req[u].kind), p) BY <1>1, <2>9, <3>1 DEF Apart
    <3>3. Agree(View(u), View(u)', Columns(req[u].kind)) BY <2>5, <2>9 DEF Agree
    <3>4. QED BY <3>2, <3>3, AgreeHolds
  <2>10. pc[u] = "rollup" /\ want[u] # NoNode => Active(u) BY <1>1 DEF Apart
  <2>11. Active(u) => own[u][req[u].node] # Clean BY <1>1 DEF Apart
  <2>12. QED BY <1>2, <2>4, <2>6, <2>7, <2>8, <2>9, <2>10, <2>11 DEF Apart
<1>5. QED BY <1>3, <1>4

\* What a handler commits is consistent: its own columns by its roll-ups, the
\* others because it has not touched them.
LEMMA CommitConsistent ==
    ASSUME ApartInv, NEW t \in Tx, Commit(t)
    PROVE  ForestConsistent'
<1> DEFINE F == Columns(req[t].kind)
           G == SumFields \ F
<1>1. pc[t] = "commit" /\ db' = View(t) BY DEF Commit
<1>2. ASSUME NEW p \in Node PROVE HoldsAt(db', SumFields, p)
  <2>1. HoldsAt(View(t), F, p) BY <1>1, SeenSums DEF Pending
  <2>2. HoldsAt(db, SumFields, p) BY ConsistentHolds DEF ApartInv
  <2>3. HoldsAt(db, G, p) BY <2>2 DEF HoldsAt
  <2>4. Agree(db, View(t), G) BY ViewApart DEF Agree
  <2> HIDE DEF G
  <2>5. HoldsAt(View(t), G, p) BY <2>3, <2>4, AgreeHolds
  <2>6. SumFields \subseteq F \cup G BY DEF G
  <2>7. QED BY <1>1, <2>1, <2>5, <2>6 DEF HoldsAt
<1>3. QED BY <1>2 DEF ForestConsistent, HoldsAt, SumsHold, SumFields

LEMMA ApartInvNext == EditsApart /\ ApartInv /\ [Next]_vars => ApartInv'
<1> SUFFICES ASSUME EditsApart, ApartInv, [Next]_vars PROVE ApartInv'
  OBVIOUS
<1>1. ClimbInv' BY ClimbInvNext DEF EditsApart, ApartInv
<1>2. CASE UNCHANGED vars
  <2>1. ForestConsistent'
    BY <1>2 DEF vars, ApartInv, ForestConsistent, SumsHold, Total, Children
  <2>2. \A u \in Tx : Apart(u)' BY <1>2, ApartFrame DEF vars, ApartInv
  <2>3. QED BY <1>1, <2>1, <2>2 DEF ApartInv
<1>3. ASSUME NEW t \in Tx, Begin(t) \/ Step(t) \/ Fail(t) \/ Victim(t)
      PROVE  ApartInv'
  <2>1. Apart(t)' BY <1>3, OwnApart
  <2>2. TypeInv BY DEF ApartInv, ClimbInv, LockInv
  <2>3. CASE Commit(t)
    BY <1>1, <2>1, <2>3, CommitApart, CommitConsistent DEF ApartInv
  <2>4. CASE ~Commit(t)
    <3>1. db' = db
      BY <1>3, <2>4 DEF Step, Begin, UpdateWrite, UpdateDerive, LockWrite, Rollup,
         RollupEnd, DeleteLookup, DeleteWrite, Cascade, CascadeEnd, ImportUpsert,
         RolloverSweep, WorkEnd, Fail, Victim, Update, Block, Rollback
    <3>2. ForestConsistent'
      BY <3>1 DEF ApartInv, ForestConsistent, SumsHold, Total, Children
    <3>3. \A u \in Tx \ {t} : Apart(u)'
      BY <1>3, <2>2, <3>1, StepFrame, EditFrame, ApartFrame DEF ApartInv
    <3>4. QED BY <1>1, <2>1, <3>2, <3>3 DEF ApartInv
  <2>5. QED BY <2>3, <2>4
<1>4. QED BY <1>2, <1>3 DEF Next

\* From a consistent table.
LEMMA StartedApart ==
    ASSUME NEW T \in Table, Started(T),
           \A p \in Node : T[p] # NoRow /\ Children(T, p) # {} => SumsHold("all", T, p)
    PROVE  ApartInv
<1>1. ClimbInv BY StartedLockInv DEF Started, ClimbInv, Climbs
<1>2. ForestConsistent BY DEF Started, ForestConsistent
<1>3. ASSUME NEW t \in Tx PROVE Apart(t)
  <2>1. /\ \A n \in Node : own[t][n] = Clean
        /\ pc[t] = "idle" /\ want[t] = NoNode
    BY DEF Started
  <2>2. ~Active(t) BY <2>1 DEF Active
  <2>3. QED BY <2>1, <2>2 DEF Apart
<1>4. QED BY <1>1, <1>2, <1>3 DEF ApartInv

\* Any number of pagu edits of one leaf beside lock edits of one leaf, on any
\* tree and from any consistent table: every parent holds the sums of its
\* children at every commit, although each roll-up that waited sums over the
\* snapshot of before it waited.
THEOREM EditsAgree ==
    ASSUME EditsApart, NEW T \in Table,
           \A p \in Node : T[p] # NoRow /\ Children(T, p) # {} => SumsHold("all", T, p)
    PROVE  SeededAt(T) => []ForestConsistent
<1>1. Started(T) => ApartInv BY StartedApart
<1>2. ApartInv /\ [Next]_vars => ApartInv' BY ApartInvNext
<1>3. ApartInv => ForestConsistent BY DEF ApartInv
<1>4. QED BY <1>1, <1>2, <1>3, PTL DEF SeededAt

-----------------------------------------------------------------------------
(* One handler at a time.  A handler climbs from the row it changed: the    *)
(* rows it has changed lie at or below the node it stands on, and the       *)
(* parent of each but that node has been given the sums of its children.    *)

OneHandler == \A t, u \in Tx : t = u

Summed(kind) == IF kind = "delete" THEN SumFields ELSE Columns(kind)
SumsAt(T, F, p) == \A f \in F : T[p][f] = Total(T, p, f)

\* c is a changed row whose parent is a row, and its roll-up is not to come.
Passed(t, c) ==
    /\ own[t][c] # Clean /\ Parent[c] # NoNode /\ View(t)[Parent[c]] # NoRow
    /\ pc[t] # "commit" => c # cur[t]

Rolling(t) ==
    /\ want[t] = NoNode
    /\ req[t].kind \in {"update", "lock", "delete"} =>
         /\ pc[t] \in {"lookup", "write"} => ~Active(t)
         /\ pc[t] \in {"derive", "rollup", "cascade"} =>
              \A c \in Node : own[t][c] # Clean => Depth[cur[t]] <= Depth[c]
         /\ pc[t] = "cascade" =>
              \A c \in Node : own[t][c] # Clean =>
                c = cur[t] \/ (Parent[c] # NoNode /\ own[t][Parent[c]] = NoRow)
         /\ pc[t] \in {"derive", "rollup", "commit"} =>
              \A c \in Node : Passed(t, c) =>
                /\ own[t][Parent[c]] # Clean
                /\ SumsAt(View(t), Summed(req[t].kind), Parent[c])

RollInv == ForestInv /\ \A t \in Tx : Rolling(t)

\* Alone, a statement does not wait: it writes its row if there is one.
LEMMA OneUpdate ==
    ASSUME OneHandler, TypeInv, NEW t \in Tx, want[t] = NoNode, NEW n \in Node,
           NEW row, NEW next, NEW at, Update(t, n, row, next, at), ~Rollback(t)
    PROVE  /\ pc'[t] = next /\ cur'[t] = at /\ req'[t] = req[t] /\ want'[t] = NoNode
           /\ db' = db
           /\ IF View(t)[n] # NoRow
              THEN /\ row \in Row /\ own'[t] = Replaced(own[t], n, row)
                   /\ View(t)' = Replaced(View(t), n, row)
              ELSE own'[t] = own[t] /\ View(t)' = View(t)
<1>1. Ready(t, n) /\ (Hit(t, n) <=> View(t)[n] # NoRow)
  BY DEF OneHandler, Ready, Free, Hit, Seen
<1>2. /\ IF Hit(t, n) THEN row \in Row /\ Store(t, n, row) ELSE Skip(t)
      /\ pc' = [pc EXCEPT ![t] = next]
      /\ cur' = [cur EXCEPT ![t] = at]
      /\ UNCHANGED <<db, req, todo>>
  BY <1>1 DEF Update
<1>3. /\ pc'[t] = next /\ cur'[t] = at /\ req'[t] = req[t] /\ want'[t] = NoNode
      /\ db' = db
  BY <1>2 DEF TypeInv, TypeOK, Store, Skip
<1>4. CASE View(t)[n] # NoRow
  <2>1. row \in Row /\ own'[t] = Replaced(own[t], n, row)
    BY <1>1, <1>2, <1>4 DEF TypeInv, TypeOK, Store, Replaced
  <2>2. row # Clean BY <2>1, ValueAssumption
  <2>3. own[t] \in [Node -> Row \cup {NoRow, Clean}] /\ View(t) \in Table
    BY ViewType DEF TypeInv, TypeOK
  <2>4. \A m \in Node : View(t)'[m] = Replaced(View(t), n, row)[m]
    BY <1>2, <2>1, <2>2, <2>3 DEF View, Table, Replaced
  <2>5. View(t)' = [m \in Node |-> View(t)'[m]] BY DEF View
  <2>6. View(t)' = Replaced(View(t), n, row)
    BY <2>3, <2>4, <2>5 DEF Table, Replaced
  <2>7. QED BY <1>3, <1>4, <2>1, <2>6
<1>5. CASE View(t)[n] = NoRow
  BY <1>1, <1>2, <1>3, <1>5 DEF Skip, View
<1>6. QED BY <1>4, <1>5

\* A handler that has let go of everything has nothing to roll up.
LEMMA ReleaseRolling ==
    ASSUME TypeInv, NEW t \in Tx, Release(t)
    PROVE  Rolling(t)'
  BY DEF TypeInv, TypeOK, Release, Rolling, NoRequest

\* The statement on the node itself.
LEMMA WriteRolling ==
    ASSUME OneHandler, RollInv, NEW t \in Tx, NEW n \in Node, NEW row,
           NEW next \in {"derive", "rollup"}, Update(t, n, row, next, n),
           pc[t] = "write", ~Rollback(t)
    PROVE  Rolling(t)'
<1>1. /\ TypeInv /\ want[t] = NoNode
      /\ \A c \in Node : own[t][c] = Clean
  BY DEF RollInv, ForestInv, LockInv, Rolling, Kinded, Active
<1>2. /\ pc'[t] = next /\ cur'[t] = n /\ want'[t] = NoNode
      /\ own'[t] = own[t] \/ own'[t] = Replaced(own[t], n, row)
  <2>1. CASE View(t)[n] # NoRow BY <1>1, <2>1, OneUpdate
  <2>2. CASE View(t)[n] = NoRow BY <1>1, <2>2, OneUpdate
  <2>3. QED BY <2>1, <2>2
<1>6. \A c \in Node : own'[t][c] # Clean => c = n
  BY <1>1, <1>2 DEF TypeInv, TypeOK, Replaced
<1>3. Depth[n] <= Depth[n] BY TreeAssumption
<1>4. \A c \in Node : ~Passed(t, c)' BY <1>2, <1>6 DEF Passed
<1>5. QED BY <1>2, <1>6, <1>3, <1>4 DEF Rolling

\* The derived columns are summed by nobody.
LEMMA DeriveRolling ==
    ASSUME OneHandler, RollInv, NEW t \in Tx, UpdateDerive(t), ~Rollback(t)
    PROVE  Rolling(t)'
<1> DEFINE n == cur[t]
           row == Derive(View(t)[n])
<1>1. /\ TypeInv /\ Rolling(t) /\ View(t) \in Table /\ n \in Node
      /\ pc[t] = "derive" /\ req[t].kind = "update" /\ want[t] = NoNode
      /\ Update(t, n, row, "rollup", n)
  BY ViewType DEF RollInv, ForestInv, LockInv, TypeInv, Staged, Kinded,
     UpdateDerive, Rolling
<1>2. /\ pc'[t] = "rollup" /\ cur'[t] = n /\ want'[t] = NoNode /\ req'[t] = req[t]
      /\ IF View(t)[n] # NoRow
         THEN /\ row \in Row /\ own'[t] = Replaced(own[t], n, row)
              /\ View(t)' = Replaced(View(t), n, row)
         ELSE own'[t] = own[t] /\ View(t)' = View(t)
  <2> HIDE DEF n, row
  <2>1. CASE View(t)[n] # NoRow BY <1>1, <2>1, OneUpdate
  <2>2. CASE View(t)[n] = NoRow BY <1>1, <2>2, OneUpdate
  <2>3. QED BY <2>1, <2>2
<1>3. own[t] \in [Node -> Row \cup {NoRow, Clean}] BY <1>1 DEF TypeInv, TypeOK
<1>4. ASSUME View(t)[n] # NoRow, NEW f \in SumFields
      PROVE  row[f] = View(t)[n][f]
  <2>1. View(t)[n] \in Row BY <1>1, <1>4 DEF Table
  <2>2. QED BY <2>1 DEF Row, Derive, SumFields
<1> HIDE DEF n, row
<1>5. Agree(View(t), View(t)', SumFields)
  BY <1>1, <1>2, <1>4, ValueAssumption DEF Agree, Table, Replaced
<1>6. \A c \in Node : c # n => own'[t][c] = own[t][c]
  BY <1>2, <1>3 DEF Replaced
<1>7. \A c \in Node : own[t][c] # Clean => own'[t][c] # Clean
  BY <1>2, <1>3, ValueAssumption DEF Replaced
<1>8. ASSUME NEW c \in Node, Passed(t, c)'
      PROVE  /\ own'[t][Parent[c]] # Clean
             /\ SumsAt(View(t)', Summed(req'[t].kind), Parent[c])
  <2>1. Parent[c] \in Node BY <1>8, TreeAssumption DEF Passed
  <2>2. Passed(t, c)
    BY <1>1, <1>2, <1>5, <1>6, <1>8, <2>1 DEF Passed, Agree, n
  <2>3. /\ own[t][Parent[c]] # Clean
        /\ SumsAt(View(t), Summed(req[t].kind), Parent[c])
    BY <1>1, <2>2 DEF Rolling
  <2>4. Summed(req[t].kind) \subseteq SumFields
    BY DEF Summed, Columns, SumFields
  <2>5. View(t)[Parent[c]] # NoRow BY <2>2 DEF Passed
  <2>6. SumsAt(View(t)', Summed(req[t].kind), Parent[c])
    BY <1>5, <2>1, <2>3, <2>4, <2>5, SameTotals DEF SumsAt, Agree
  <2>7. QED BY <1>2, <1>7, <2>1, <2>3, <2>6
<1>9. \A c \in Node : own'[t][c] # Clean => Depth[cur'[t]] <= Depth[c]
  BY <1>1, <1>2, <1>6, TreeAssumption DEF Rolling, n
<1>10. QED BY <1>1, <1>2, <1>8, <1>9 DEF Rolling

\* The parent is given the sums of its children and becomes the current node;
\* no changed row has its parent's parent for a parent.
LEMMA RollupRolling ==
    ASSUME OneHandler, RollInv, NEW t \in Tx, Rollup(t), ~Rollback(t)
    PROVE  Rolling(t)'
<1> DEFINE n == Parent[cur[t]]
           kind == req[t].kind
           row == RollupRow(kind, View(t)[n], Seen(t), n)
           next == IF kind = "update" THEN "derive" ELSE "rollup"
           F == Summed(kind)
<1>1. /\ TypeInv /\ Rolling(t) /\ View(t) \in Table /\ cur[t] \in Node
      /\ pc[t] = "rollup" /\ kind \in {"update", "lock", "delete"}
      /\ want[t] = NoNode /\ ~AtTop(t) /\ Update(t, n, row, next, n)
  BY ViewType DEF RollInv, ForestInv, LockInv, TypeInv, Staged, Kinded,
     Rollup, Rolling
<1>2. n \in Node /\ Depth[n] < Depth[cur[t]]
  BY <1>1, TreeAssumption DEF AtTop
<1>3. /\ pc'[t] = next /\ cur'[t] = n /\ want'[t] = NoNode /\ req'[t] = req[t]
      /\ IF View(t)[n] # NoRow
         THEN /\ row \in Row /\ own'[t] = Replaced(own[t], n, row)
              /\ View(t)' = Replaced(View(t), n, row)
         ELSE own'[t] = own[t] /\ View(t)' = View(t)
  <2> HIDE DEF n, row, next
  <2>1. CASE View(t)[n] # NoRow BY <1>1, <1>2, <2>1, OneUpdate
  <2>2. CASE View(t)[n] = NoRow BY <1>1, <1>2, <2>2, OneUpdate
  <2>3. QED BY <2>1, <2>2
<1>4. own[t] \in [Node -> Row \cup {NoRow, Clean}] BY <1>1 DEF TypeInv, TypeOK
<1>5. Depth \in [Node -> Nat] BY TreeAssumption
<1>6. \A c \in Node : own[t][c] # Clean => Depth[cur[t]] <= Depth[c]
  BY <1>1 DEF Rolling
<1>7. \A c \in Node : c # n => own'[t][c] = own[t][c]
  BY <1>3, <1>4 DEF Replaced
<1>8. \A c \in Node : own[t][c] # Clean => own'[t][c] # Clean
  BY <1>2, <1>3, <1>4, ValueAssumption DEF Replaced
<1>9. \A c \in Node : own'[t][c] # Clean => Depth[n] <= Depth[c]
  BY <1>1, <1>2, <1>5, <1>6, <1>7
<1>10. ASSUME View(t)[n] # NoRow PROVE \A f \in F : row[f] = Total(View(t), n, f)
  <2>1. View(t)[n] \in Row /\ Seen(t) = View(t)
    BY <1>1, <1>2, <1>10 DEF Table, Seen
  <2>2. CASE kind = "update"
    BY <2>1, <2>2 DEF RollupRow, Row, Summed, Columns, SumFields
  <2>3. CASE kind = "lock"
    BY <2>1, <2>3 DEF RollupRow, Row, Summed, Columns, SumFields
  <2>4. CASE kind = "delete"
    BY <2>1, <2>4 DEF RollupRow, Row, Summed, Columns, SumFields
  <2>5. QED BY <1>1, <2>2, <2>3, <2>4
<1>11. Parent[n] # n BY <1>2, TreeAssumption
<1> HIDE DEF row, next, F
<1>12. ASSUME NEW c \in Node, Passed(t, c)'
       PROVE  own'[t][Parent[c]] # Clean /\ SumsAt(View(t)', F, Parent[c])
  <2> DEFINE q == Parent[c]
  <2>1. q \in Node /\ own'[t][c] # Clean /\ c # n /\ View(t)'[q] # NoRow
    BY <1>1, <1>3, <1>12, TreeAssumption DEF Passed, next
  <2>2. own[t][c] # Clean BY <1>7, <2>1
  <2>3. CASE q = n
    <3>1. View(t)[n] # NoRow BY <1>3, <2>1, <2>3
    <3>2. /\ own'[t][n] = row /\ row \in Row
          /\ View(t)' = Replaced(View(t), n, row)
      BY <1>2, <1>3, <1>4, <3>1 DEF Replaced
    <3>3. View(t)'[n] = row BY <1>1, <1>2, <3>2, ReplacedRow
    <3>4. \A f \in F : Total(View(t)', n, f) = Total(View(t), n, f)
      BY <1>1, <1>2, <1>11, <3>2, StoredTotals
    <3>5. QED BY <1>10, <2>3, <3>1, <3>2, <3>3, <3>4, ValueAssumption DEF SumsAt
  <2>4. CASE q # n
    <3>1. c # cur[t] BY <2>4 DEF n, q
    <3>2. View(t)'[q] = View(t)[q]
      BY <1>1, <1>2, <1>3, <2>1, <2>4, ReplacedRow
    <3>3. Passed(t, c)
      BY <1>12, <2>1, <2>2, <3>1, <3>2 DEF Passed, q
    <3>4. own[t][q] # Clean /\ SumsAt(View(t), F, q)
      BY <1>1, <3>3 DEF Rolling, F
    <3>5. Depth[cur[t]] <= Depth[q] BY <1>6, <2>1, <3>4
    <3>6. q # Parent[n]
      <4>1. Parent[n] # NoNode => Parent[n] \in Node /\ Depth[Parent[n]] < Depth[n]
        BY <1>2, TreeAssumption
      <4>2. NoNode \notin Node BY TreeAssumption
      <4>3. QED BY <1>1, <1>2, <1>5, <2>1, <3>5, <4>1, <4>2
    <3>7. SumsAt(View(t)', F, q)
      <4>1. CASE View(t)[n] # NoRow
        <5>1. row \in Row /\ View(t)' = Replaced(View(t), n, row)
          BY <1>3, <4>1
        <5>2. \A f \in F : Total(View(t)', q, f) = Total(View(t), q, f)
          BY <1>1, <1>2, <2>1, <3>6, <5>1, StoredTotals
        <5>3. QED BY <3>2, <3>4, <5>2 DEF SumsAt
      <4>2. CASE View(t)[n] = NoRow
        BY <1>3, <3>4, <4>2
      <4>3. QED BY <4>1, <4>2
    <3>8. QED BY <1>8, <2>1, <3>4, <3>7
  <2>5. QED BY <2>3, <2>4
<1>13. pc'[t] \in {"derive", "rollup"} BY <1>3 DEF next
<1>14. QED BY <1>3, <1>9, <1>12, <1>13 DEF Rolling, F

\* At the top there is no parent left to sum.
LEMMA RollupEndRolling ==
    ASSUME RollInv, NEW t \in Tx, RollupEnd(t)
    PROVE  Rolling(t)'
<1>1. /\ Rolling(t) /\ Kinded(t) /\ Family(t)
      /\ pc[t] = "rollup" /\ pc'[t] = "commit" /\ AtTop(t) /\ want[t] = NoNode
      /\ UNCHANGED <<db, own, req, cur, want, snap>>
  BY DEF RollInv, ForestInv, LockInv, TypeInv, TypeOK, RollupEnd, AtTop
<1>2. View(t)' = View(t) BY <1>1 DEF View
<1>3. ASSUME NEW c \in Node, Passed(t, c)' PROVE Passed(t, c)
  <2>1. /\ own[t][c] # Clean /\ Parent[c] # NoNode /\ View(t)[Parent[c]] # NoRow
    BY <1>1, <1>2, <1>3 DEF Passed
  <2>2. c # cur[t]
    <3>1. SUFFICES ASSUME c = cur[t] PROVE FALSE
      OBVIOUS
    <3>2. req[t].kind # "delete" /\ View(t)[c] = NoRow
      BY <1>1, <2>1, <3>1 DEF AtTop
    <3>3. own[t][c] = NoRow BY <2>1, <3>2 DEF View
    <3>4. QED BY <1>1, <3>2, <3>3 DEF Family
  <2>3. QED BY <2>1, <2>2 DEF Passed
<1>4. QED BY <1>1, <1>2, <1>3 DEF Rolling

\* A delete takes away a row and then those below it.
LEMMA DeleteRolling ==
    ASSUME OneHandler, RollInv, NEW t \in Tx, ~Rollback(t),
           DeleteLookup(t) \/ DeleteWrite(t) \/ Cascade(t) \/ CascadeEnd(t)
    PROVE  Rolling(t)'
<1>1. /\ TypeInv /\ Rolling(t) /\ Kinded(t) /\ want[t] = NoNode
      /\ \A n \in Node : Free(t, n) /\ Ready(t, n)
  BY DEF RollInv, ForestInv, LockInv, Rolling, OneHandler, Free, Ready
<1>2. CASE DeleteLookup(t)
  <2>1. /\ pc[t] = "lookup" /\ pc'[t] = "write"
        /\ UNCHANGED <<db, own, req, cur, want>>
    BY <1>1, <1>2 DEF DeleteLookup, TypeInv, TypeOK
  <2>2. Active(t)' = Active(t) BY <2>1 DEF Active
  <2>3. QED BY <1>1, <2>1, <2>2 DEF Rolling
<1>3. CASE DeleteWrite(t)
  <2> DEFINE n == req[t].node
  <2>1. n \in Node /\ pc[t] = "write" /\ req[t].kind = "delete"
    BY <1>1, <1>3, RequestKinds DEF DeleteWrite, TypeInv, Staged, DeleteRequest
  <2>2. \A c \in Node : own[t][c] = Clean BY <1>1, <2>1 DEF Rolling, Active
  <2>3. /\ Store(t, n, NoRow) \/ Skip(t)
        /\ pc'[t] = "cascade" /\ cur'[t] = n /\ req' = req
    BY <1>1, <1>3, <2>1 DEF DeleteWrite, TypeInv, TypeOK
  <2>4. /\ want'[t] = NoNode
        /\ \A c \in Node : own'[t][c] # Clean => c = n
    BY <1>1, <2>1, <2>2, <2>3 DEF Store, Skip, TypeInv, TypeOK
  <2>5. Depth[n] <= Depth[n] BY <2>1, TreeAssumption
  <2>6. QED BY <2>1, <2>3, <2>4, <2>5 DEF Rolling
<1>4. CASE Cascade(t)
  <2>1. PICK c \in Cascaded(t) : Store(t, c, NoRow) /\ UNCHANGED <<db, pc, req, cur, todo>>
    BY <1>1, <1>4 DEF Cascade, Cascaded
  <2>2. /\ c \in Node /\ Parent[c] \in Node /\ own[t][Parent[c]] = NoRow
        /\ pc[t] = "cascade" /\ req[t].kind = "delete" /\ cur[t] \in Node
    BY <1>1, <1>4, <2>1, TreeAssumption DEF Cascade, Cascaded, Kinded, TypeInv, Staged
  <2>3. /\ own'[t][c] = NoRow /\ want'[t] = NoNode
        /\ \A m \in Node : m # c => own'[t][m] = own[t][m]
    BY <1>1, <2>1, <2>2 DEF Store, TypeInv, TypeOK
  <2>4. Depth[Parent[c]] < Depth[c] /\ Depth \in [Node -> Nat]
    BY <2>2, TreeAssumption
  <2>5. \A m \in Node : own[t][m] # Clean => Depth[cur[t]] <= Depth[m]
    BY <1>1, <2>2 DEF Rolling
  <2>6. Depth[cur[t]] <= Depth[c]
    BY <2>2, <2>4, <2>5, ValueAssumption
  <2>7. \A m \in Node : own[t][m] = NoRow => own'[t][m] = NoRow
    BY <2>3
  <2>8. ASSUME NEW m \in Node, own'[t][m] # Clean
        PROVE  m = cur[t] \/ (Parent[m] # NoNode /\ own'[t][Parent[m]] = NoRow)
    <3>1. CASE m = c BY <2>2, <2>7, <3>1, TreeAssumption
    <3>2. CASE m # c
      <4>1. m = cur[t] \/ (Parent[m] # NoNode /\ own[t][Parent[m]] = NoRow)
        BY <1>1, <2>2, <2>3, <2>8, <3>2 DEF Rolling
      <4>2. Parent[m] # NoNode => Parent[m] \in Node BY TreeAssumption
      <4>3. QED BY <2>7, <4>1, <4>2
    <3>3. QED BY <3>1, <3>2
  <2>9. QED BY <2>1, <2>2, <2>3, <2>5, <2>6, <2>8 DEF Rolling
<1>5. CASE CascadeEnd(t)
  <2>1. /\ pc[t] = "cascade" /\ req[t].kind = "delete"
        /\ pc'[t] = "rollup" /\ want'[t] = NoNode /\ UNCHANGED <<db, own, req, cur>>
    BY <1>1, <1>5 DEF CascadeEnd, Skip, Kinded, TypeInv, TypeOK
  <2>2. View(t)' = View(t) BY <2>1 DEF View
  <2>3. \A c \in Node : ~Passed(t, c)'
    <3>1. SUFFICES ASSUME NEW c \in Node, Passed(t, c)' PROVE FALSE
      OBVIOUS
    <3>2. /\ own[t][c] # Clean /\ Parent[c] # NoNode /\ View(t)[Parent[c]] # NoRow
          /\ c # cur[t]
      BY <2>1, <2>2, <3>1 DEF Passed
    <3>3. own[t][Parent[c]] = NoRow BY <1>1, <2>1, <3>2 DEF Rolling
    <3>4. Parent[c] \in Node BY <3>2, TreeAssumption
    <3>5. QED BY <3>2, <3>3, <3>4, ValueAssumption DEF View
  <2>4. QED BY <1>1, <2>1, <2>3 DEF Rolling
<1>6. QED BY <1>2, <1>3, <1>4, <1>5

\* Imports and rollovers have no parent to sum, and alone do not wait.
LEMMA BatchRolling ==
    ASSUME OneHandler, RollInv, NEW t \in Tx, ~Rollback(t),
           ImportUpsert(t) \/ RolloverSweep(t) \/ WorkEnd(t)
    PROVE  Rolling(t)'
<1>1. /\ TypeInv /\ want[t] = NoNode /\ \A n \in Node : Free(t, n)
      /\ req[t].kind \in {"import", "rollover"}
  BY DEF RollInv, ForestInv, LockInv, Rolling, Kinded, OneHandler, Free,
     ImportUpsert, RolloverSweep, WorkEnd, TypeInv, Staged
<1>2. todo[t] \subseteq Node BY <1>1 DEF TypeInv, TypeOK
<1>3. want'[t] = NoNode /\ req'[t] = req[t]
  BY <1>1, <1>2 DEF ImportUpsert, RolloverSweep, WorkEnd, Store, Skip, TypeInv, TypeOK
<1>4. QED BY <1>1, <1>3 DEF Rolling

\* The handler that takes the step.
LEMMA OwnRolling ==
    ASSUME OneHandler, RollInv, NEW t \in Tx,
           Begin(t) \/ Step(t) \/ Fail(t) \/ Victim(t)
    PROVE  Rolling(t)'
<1>1. /\ TypeInv /\ Rolling(t) /\ Kinded(t)
      /\ pc[t] = "write" => req[t] \in Request
  BY RequestKinds DEF RollInv, ForestInv, LockInv, TypeInv, Staged
<1>2. CASE Rollback(t) BY <1>1, <1>2, ReleaseRolling DEF Rollback
<1>3. CASE Commit(t) BY <1>1, <1>3, ReleaseRolling DEF Commit
<1>4. CASE Begin(t)
  <2>1. pc'[t] \in {"lookup", "write", "upsert", "sweep"}
    BY <1>1, <1>4, RequestKinds DEF Begin, FirstStep, TypeInv, TypeOK
  <2>2. (\A n \in Node : own[t][n] = Clean) /\ own' = own /\ want' = want
    BY <1>1, <1>4 DEF Begin, Kinded
  <2>3. QED BY <1>1, <2>1, <2>2 DEF Rolling, Active
<1>5. CASE ~Rollback(t) /\ UpdateWrite(t)
  <2>1. req[t].node \in Node BY <1>1, <1>5, RequestKinds DEF UpdateWrite, UpdateRequest
  <2>2. QED BY <1>5, <2>1, WriteRolling DEF UpdateWrite
<1>6. CASE ~Rollback(t) /\ LockWrite(t)
  <2>1. req[t].node \in Node BY <1>1, <1>6, RequestKinds DEF LockWrite, LockRequest
  <2>2. QED BY <1>6, <2>1, WriteRolling DEF LockWrite
<1>7. CASE ~Rollback(t) /\ UpdateDerive(t) BY <1>7, DeriveRolling
<1>8. CASE ~Rollback(t) /\ Rollup(t) BY <1>8, RollupRolling
<1>9. CASE RollupEnd(t) BY <1>9, RollupEndRolling
<1>10. CASE /\ ~Rollback(t)
            /\ DeleteLookup(t) \/ DeleteWrite(t) \/ Cascade(t) \/ CascadeEnd(t)
  BY <1>10, DeleteRolling
<1>11. CASE /\ ~Rollback(t)
            /\ ImportUpsert(t) \/ RolloverSweep(t) \/ WorkEnd(t)
  BY <1>11, BatchRolling
<1>12. CASE Fail(t) \/ Victim(t) BY <1>2, <1>12 DEF Fail, Victim
<1>13. QED BY <1>2, <1>3, <1>4, <1>5, <1>6, <1>7, <1>8, <1>9, <1>10, <1>11, <1>12
           DEF Step

LEMMA RollInvNext == OneHandler /\ RollInv /\ [Next]_vars => RollInv'
<1> SUFFICES ASSUME OneHandler, RollInv, [Next]_vars PROVE RollInv'
  OBVIOUS
<1>1. ForestInv' BY ForestInvNext DEF RollInv
<1>2. CASE UNCHANGED vars
  <2>1. ASSUME NEW t \in Tx PROVE Rolling(t)'
    <3>1. View(t)' = View(t) /\ Active(t)' = Active(t)
      BY <1>2 DEF vars, View, Active
    <3>2. \A c \in Node : Passed(t, c)' = Passed(t, c)
      BY <1>2, <3>1 DEF vars, Passed
    <3>3. Rolling(t) BY DEF RollInv
    <3>4. QED BY <1>2, <3>1, <3>2, <3>3 DEF vars, Rolling
  <2>2. QED BY <1>1, <2>1 DEF RollInv
<1>3. ASSUME NEW t \in Tx, Begin(t) \/ Step(t) \/ Fail(t) \/ Victim(t)
      PROVE  RollInv'
  <2>1. Rolling(t)' BY <1>3, OwnRolling
  <2>2. \A u \in Tx : u = t BY DEF OneHandler
  <2>3. QED BY <1>1, <2>1, <2>2 DEF RollInv
<1>4. QED BY <1>2, <1>3 DEF Next

\* One request after another, from any forest: when an edit, a lock or a
\* delete is about to commit, each changed row's parent holds the sums.
THEOREM SumsReachTheTop ==
    ASSUME OneHandler, NEW T \in Table,
           \A n \in Node : T[n] # NoRow /\ Parent[n] # NoNode => T[Parent[n]] # NoRow
    PROVE  SeededAt(T) => []RolledUp
<1>1. Started(T) => RollInv
  <2>1. Started(T) => ForestInv BY StartedForest
  <2>2. Started(T) => \A t \in Tx : Rolling(t)
    BY DEF Started, Rolling, NoRequest
  <2>3. QED BY <2>1, <2>2 DEF RollInv
<1>2. RollInv /\ [Next]_vars => RollInv' BY RollInvNext
<1>3. RollInv => RolledUp
  <2> SUFFICES ASSUME RollInv, NEW t \in Tx, NEW c \in Node, pc[t] = "commit",
                      req[t].kind \in {"update", "lock", "delete"},
                      own[t][c] # Clean, Parent[c] # NoNode,
                      View(t)[Parent[c]] # NoRow
               PROVE  SumsHold(req[t].kind, View(t), Parent[c])
    BY DEF RolledUp
  <2>1. Rolling(t) /\ Passed(t, c) BY DEF RollInv, Passed
  <2>2. SumsAt(View(t), Summed(req[t].kind), Parent[c]) BY <2>1 DEF Rolling
  <2>3. CASE req[t].kind = "update"
    BY <2>2, <2>3 DEF SumsHold, SumsAt, Summed, Columns
  <2>4. CASE req[t].kind = "lock"
    BY <2>2, <2>4 DEF SumsHold, SumsAt, Summed, Columns
  <2>5. CASE req[t].kind = "delete"
    BY <2>2, <2>5 DEF SumsHold, SumsAt, Summed, SumFields
  <2>6. QED BY <2>3, <2>4, <2>5
<1>4. QED BY <1>1, <1>2, <1>3, PTL DEF SeededAt

-----------------------------------------------------------------------------
(* What AnggaranTree makes of a request is a fold over the ancestors of its  *)
(* node; the handlers climb them one statement at a time.                   *)

\* Some number is above every depth.
LEMMA DepthBounded == \E b \in Nat : \A n \in Node : Depth[n] < b
<1> DEFINE G == {s \in SUBSET Node : \E b \in Nat : \A n \in s : Depth[n] < b}
<1>1. IsFiniteSet(Node) /\ Depth \in [Node -> Nat]
  BY TreeAssumption
<1>2. {} \in G
  OBVIOUS
<1>3. ASSUME NEW s \in SUBSET Node, s # {}, \A x \in s : s \ {x} \in G PROVE s \in G
  <2>1. PICK x \in s : TRUE
    BY <1>3
  <2>2. PICK b \in Nat : \A n \in s \ {x} : Depth[n] < b
    BY <1>3
  <2>3. PICK c \in Nat : b <= c /\ Depth[x] < c
    <3>1. Depth[x] \in Nat
      BY <1>1
    <3>2. CASE Depth[x] < b
      BY <3>2
    <3>3. CASE b <= Depth[x]
      <4>1. b <= Depth[x] + 1 /\ Depth[x] < Depth[x] + 1 /\ Depth[x] + 1 \in Nat
        BY <3>1, <3>3
      <4>2. QED BY <4>1
    <3>4. QED BY <3>1, <3>2, <3>3
  <2>4. \A n \in s : Depth[n] < c
    BY <1>1, <2>2, <2>3
  <2>5. QED BY <2>4
<1>4. SUBSET Node \subseteq G
  <2> HIDE DEF G
  <2>1. QED BY <1>1, <1>2, <1>3, FromEmptyUp
<1>5. QED BY <1>4

\* The ancestors of a row, from its parent to the root.
LEMMA AncestorsAre ==
    /\ Atomic!Ancestors \in [Node -> Seq(Node)]
    /\ \A n \in Node : Atomic!Ancestors[n] =
         IF Parent[n] = NoNode THEN <<>> ELSE <<Parent[n]>> \o Atomic!Ancestors[Parent[n]]
<1>0. PICK none \in Seq(Node) : none = <<>>
  <2>1. <<>> \in Seq(Node) OBVIOUS
  <2>2. QED BY <2>1
<1>1. /\ Depth \in [Node -> Nat] /\ NoNode \notin Node
      /\ \A n \in Node : Parent[n] # NoNode => Parent[n] \in Node /\ Depth[Parent[n]] < Depth[n]
  BY TreeAssumption
<1>2. PICK b \in Nat : \A n \in Node : Depth[n] < b
  BY DepthBounded
<1> DEFINE V == [Node -> Seq(Node)]
           Longer(g) == [n \in Node |-> IF Parent[n] = NoNode THEN none
                                        ELSE <<Parent[n]>> \o g[Parent[n]]]
           base == [n \in Node |-> none]
           f == [g \in V |-> Longer(g)]
<1>3. base \in V
  BY <1>0
<1>4. \A g \in V : Longer(g) \in V
  BY <1>1, <1>0
<1>5. f \in [V -> V] /\ \A g \in V : f[g] = Longer(g)
  <2> HIDE DEF Longer, V
  <2>1. QED BY <1>4
<1>6. PICK h \in [0 .. b + 1 -> V] : \A k \in 0 .. b + 1 : h[k] = IF k = 0 THEN base ELSE f[h[k - 1]]
  <2> HIDE DEF V, base, f
  <2>1. b + 1 \in Nat
    BY <1>2
  <2>2. \A m \in Nat : Runs(V, base, f, m) # {}
    BY <1>3, <1>5, Iterated
  <2>3. Runs(V, base, f, b + 1) # {}
    BY <2>1, <2>2
  <2>4. QED BY <2>3 DEF Runs
<1>7. \A k \in 0 .. b : h[k] \in V /\ h[k + 1] = Longer(h[k])
  <2> TAKE k \in 0 .. b
  <2> HIDE DEF V, base, f, Longer
  <2>1. k \in 0 .. b + 1 /\ k + 1 \in 0 .. b + 1 /\ k + 1 # 0 /\ (k + 1) - 1 = k
    BY <1>2
  <2>2. h[k] \in V /\ h[k + 1] = f[h[k]]
    BY <1>6, <2>1
  <2>3. QED BY <1>5, <2>2
<1> HIDE DEF f, base
<1>8. \A k \in 0 .. b, n \in Node :
        h[k + 1][n] = IF Parent[n] = NoNode THEN none ELSE <<Parent[n]>> \o h[k][Parent[n]]
  BY <1>7
<1> HIDE DEF V, Longer
<1> DEFINE S == {k \in Nat : k \in 0 .. b => \A n \in Node : Depth[n] < k => h[k + 1][n] = h[k][n]}
<1>9. 0 \in S
  BY <1>1
<1>10. ASSUME NEW k \in Nat, k \in S PROVE k + 1 \in S
  <2>1. ASSUME k + 1 \in 0 .. b, NEW n \in Node, Depth[n] < k + 1
        PROVE  h[(k + 1) + 1][n] = h[k + 1][n]
    <3>1. k \in 0 .. b
      BY <2>1, <1>2
    <3>2. CASE Parent[n] = NoNode
      BY <3>1, <3>2, <2>1, <1>8
    <3>3. CASE Parent[n] # NoNode
      <4>1. Parent[n] \in Node /\ Depth[Parent[n]] < k
        BY <3>3, <2>1, <1>1
      <4>2. h[k + 1][Parent[n]] = h[k][Parent[n]]
        BY <4>1, <3>1, <1>10
      <4>3. h[(k + 1) + 1][n] = <<Parent[n]>> \o h[k + 1][Parent[n]]
        BY <3>3, <2>1, <1>8
      <4>4. h[k + 1][n] = <<Parent[n]>> \o h[k][Parent[n]]
        BY <3>3, <3>1, <1>8
      <4>5. QED BY <4>2, <4>3, <4>4
    <3>4. QED BY <3>2, <3>3
  <2>2. QED BY <2>1
<1>11. b \in S
  <2> HIDE DEF S
  <2>1. \A k \in Nat : k \in S => k + 1 \in S
    <3> TAKE k \in Nat
    <3> HAVE k \in S
    <3>1. QED BY <1>10
  <2>2. Nat \subseteq S
    BY <1>9, <2>1, FromZeroUp
  <2>3. QED BY <2>2, <1>2
<1>12. \A n \in Node : h[b + 1][n] = h[b][n]
  BY <1>2, <1>11
<1> DEFINE eq(a) == a = [n \in Node |-> IF Parent[n] = NoNode THEN <<>>
                                        ELSE <<Parent[n]>> \o a[Parent[n]]]
<1>13. eq(h[b])
  <2>1. h[b] = [n \in Node |-> h[b][n]]
    BY <1>7, <1>2 DEF V
  <2>2. \A n \in Node : h[b][n] = IF Parent[n] = NoNode THEN <<>>
                                  ELSE <<Parent[n]>> \o h[b][Parent[n]]
    BY <1>0, <1>2, <1>8, <1>12
  <2>3. QED BY <2>1, <2>2
<1>14. eq(Atomic!Ancestors)
  <2>1. Atomic!Ancestors = CHOOSE a : eq(a)
    BY DEF Atomic!Ancestors
  <2> HIDE DEF eq
  <2>2. QED BY <2>1, <1>13
<1>15. PICK A : A = Atomic!Ancestors
  OBVIOUS
<1>16. DOMAIN A = Node /\ \A n \in Node : A[n] = IF Parent[n] = NoNode THEN <<>>
                                  ELSE <<Parent[n]>> \o A[Parent[n]]
  BY <1>14, <1>15
<1> DEFINE Q == {k \in Nat : \A n \in Node : Depth[n] < k => A[n] \in Seq(Node)}
<1>17. 0 \in Q
  BY <1>1
<1>18. \A k \in Nat : k \in Q => k + 1 \in Q
  <2> TAKE k \in Nat
  <2> HAVE k \in Q
  <2>1. ASSUME NEW n \in Node, Depth[n] < k + 1 PROVE A[n] \in Seq(Node)
    <3>1. CASE Parent[n] = NoNode
      <4>1. A[n] = <<>> BY <3>1, <1>16
      <4>2. QED BY <4>1
    <3>2. CASE Parent[n] # NoNode
      <4>1. Parent[n] \in Node /\ Depth[Parent[n]] < k
        BY <3>2, <2>1, <1>1
      <4>2. A[Parent[n]] \in Seq(Node)
        BY <4>1
      <4>3. A[n] = <<Parent[n]>> \o A[Parent[n]]
        BY <3>2, <1>16
      <4>4. QED BY <4>1, <4>2, <4>3
    <3>3. QED BY <3>1, <3>2
  <2>2. QED BY <2>1
<1>19. Nat \subseteq Q
  <2> HIDE DEF Q
  <2>1. QED BY <1>17, <1>18, FromZeroUp
<1>20. \A n \in Node : A[n] \in Seq(Node)
  BY <1>19, <1>2
<1>21. A = [n \in Node |-> A[n]]
  BY <1>14, <1>15
<1>22. A \in [Node -> Seq(Node)]
  <2> HIDE DEF eq, Q
  <2>1. QED BY <1>20, <1>21
<1>23. QED BY <1>15, <1>16, <1>22

Climbing == {"update", "lock", "delete"}

\* The columns may run out of range until a statement stores them.
Wide == [tahun : Tahun, pagu : Int, lock : Int, lalu : Int,
         ini : Int, sd : Int, persen : Int, sisa : Int]
WideTable == [Node -> Wide \cup {NoRow}]

\* A sum over children is an integer.
LEMMA SumIs == \A f : SumFunction(f) = SumOn(f, DOMAIN f)
  BY DEF SumFunction, SumFunctionOnSet, FoldFunctionOnSet, SumOn, MapThenSumSet, MapThenFoldSet

\* What a row totals over its children is an integer, in any table.
LEMMA TotalIsInt ==
    ASSUME NEW T \in WideTable, NEW p, NEW f \in SumFields
    PROVE  Total(T, p, f) \in Int
<1> DEFINE S == Children(T, p)
           g == [c \in S |-> T[c][f]]
<1>1. S \subseteq Node /\ \A c \in S : T[c] \in Wide
  BY DEF Children, WideTable
<1>2. IsFiniteSet(S)
  BY <1>1, TreeAssumption, FS_Subset
<1>3. \A c \in S : T[c][f] \in Int
  BY <1>1 DEF Wide, SumFields
<1>4. DOMAIN g = S /\ \A c \in S : g[c] \in Int
  BY <1>3
<1>5. Total(T, p, f) = SumFunction(g)
  BY DEF Total
<1> HIDE DEF S, g
<1>6. SumOn(g, S) \in Int
  BY <1>2, <1>4, SumTakesAny
<1>7. QED BY <1>4, <1>5, <1>6, SumIs

\* One turn of a loop, in the terms of the handlers.
Turned(kind, T, p) ==
    LET row == RollupRow(kind, T[p], T, p) IN IF kind = "update" THEN Derive(row) ELSE row

\* AnggaranTree computes with the same operators.
LEMMA TotalSame == \A T, p, f : Atomic!Total(T, p, f) = Total(T, p, f)
  BY DEF Atomic!Total, Total, Atomic!Children, Children, Atomic!SumFunction, SumFunction,
     Atomic!SumFunctionOnSet, SumFunctionOnSet, Atomic!FoldFunctionOnSet, FoldFunctionOnSet,
     Atomic!MapThenFoldSet, MapThenFoldSet

\* AnggaranTree derives as the handlers do.
LEMMA DeriveSame == \A row : Atomic!Derive(row) = Derive(row)
  BY DEF Atomic!Derive, Derive, Atomic!Percent, Percent

\* One turn of the loop, spelled out: a row that is not there stays out.
LEMMA RollIs ==
    ASSUME NEW kind \in Climbing, NEW T, NEW p
    PROVE  Atomic!Roll(kind, T, p) =
             IF T[p] = NoRow THEN T ELSE Replaced(T, p, Turned(kind, T, p))
<1>1. Atomic!RollupRow(kind, T[p], T, p) = RollupRow(kind, T[p], T, p)
  BY TotalSame DEF Atomic!RollupRow, RollupRow
<1>2. QED BY <1>1, DeriveSame DEF Atomic!Roll, Atomic!Put, Turned, Replaced

\* Deriving leaves a row one that may be out of the columns' range.
LEMMA DeriveWide == ASSUME NEW row \in Wide PROVE Derive(row) \in Wide
<1>1. /\ row.pagu \in Int /\ row.lalu \in Int /\ row.ini \in Int
  BY DEF Wide
<1>2. \A x \in Int, y \in Int : Percent(x, y) \in Int
  <2>1. ASSUME NEW x \in Int, NEW y \in Int, x > 0
        PROVE  /\ (20000 * y + x) \div (2 * x) \in Int
               /\ -((20000 * (-y) + x) \div (2 * x)) \in Int
    <3>1. 20000 * y + x \in Int /\ 20000 * (-y) + x \in Int /\ 2 * x \in Int /\ 2 * x > 0
      BY <2>1
    <3>2. \A m \in Int, k \in Int : k > 0 => m \div k \in Int
      OBVIOUS
    <3>3. \A m \in Int : -m \in Int
      OBVIOUS
    <3>4. QED BY <3>1, <3>2, <3>3
  <2>2. QED BY <2>1 DEF Percent
<1>3. row.lalu + row.ini \in Int /\ row.pagu - (row.lalu + row.ini) \in Int
  BY <1>1
<1>4. QED BY <1>1, <1>2, <1>3 DEF Wide, Derive

\* A turn keeps a wide table wide, and changes the parent alone.
LEMMA RollWide ==
    ASSUME NEW kind \in Climbing, NEW T \in WideTable, NEW p \in Node
    PROVE  Atomic!Roll(kind, T, p) \in WideTable
<1>1. CASE T[p] = NoRow
  BY <1>1, RollIs
<1>2. CASE T[p] # NoRow
  <2> DEFINE row == RollupRow(kind, T[p], T, p)
  <2>1. T[p] \in Wide
    BY <1>2 DEF WideTable
  <2>2. \A f \in {"pagu", "lock", "lalu", "ini"} : Total(T, p, f) \in Int
    BY TotalIsInt DEF SumFields
  <2>3. row \in Wide
    <3>1. CASE kind = "update" BY <2>1, <2>2, <3>1 DEF RollupRow, Wide
    <3>2. CASE kind = "lock" BY <2>1, <2>2, <3>2 DEF RollupRow, Wide
    <3>3. CASE kind = "delete" BY <2>1, <2>2, <3>3 DEF RollupRow, Wide
    <3>4. QED BY <3>1, <3>2, <3>3 DEF Climbing
  <2> HIDE DEF row
  <2>4. Turned(kind, T, p) \in Wide
    BY <2>3, DeriveWide DEF Turned, row
  <2>5. QED BY <1>2, <2>4, RollIs DEF WideTable, Replaced
<1>3. QED BY <1>1, <1>2

\* The climb of n, one ancestor after the other.
ClimbSteps(kind, T, n) ==
    LET path == Atomic!Ancestors[n]
    IN  {d \in [0 .. Len(path) -> WideTable] :
           \A k \in 0 .. Len(path) :
             d[k] = IF k = 0 THEN T ELSE Atomic!Roll(kind, d[k - 1], path[k])}

\* A climb, taken turn by turn from the left.
LEMMA ClimbStepwise ==
    ASSUME NEW kind \in Climbing, NEW T \in WideTable, NEW node \in Node
    PROVE  \E d \in ClimbSteps(kind, T, node) :
             Atomic!Climb(kind, T, node) = d[Len(Atomic!Ancestors[node])]
<1>1. PICK path \in Seq(Node) : path = Atomic!Ancestors[node]
  BY AncestorsAre
<1>2. PICK n \in Nat : n = Len(path) /\ DOMAIN path = 1 .. n
  OBVIOUS
<1>3. PICK V : V = WideTable
  OBVIOUS
<1>4. PICK f \in [V \X (1 .. n) -> V] :
        \A v \in V, k \in 1 .. n : f[<<v, k>>] = Atomic!Roll(kind, v, path[k])
  <2> DEFINE f == [vx \in V \X (1 .. n) |-> Atomic!Roll(kind, vx[1], path[vx[2]])]
  <2>1. \A v \in V, k \in 1 .. n : Atomic!Roll(kind, v, path[k]) \in V
    <3>1. \A k \in 1 .. n : path[k] \in Node
      BY <1>2
    <3>2. QED BY <1>3, <3>1, RollWide
  <2>2. f \in [V \X (1 .. n) -> V]
    BY <2>1
  <2>3. \A v \in V, k \in 1 .. n : f[<<v, k>>] = Atomic!Roll(kind, v, path[k])
    OBVIOUS
  <2> HIDE DEF f
  <2>4. QED BY <2>2, <2>3
<1> DEFINE eq(r) == r = [s \in SUBSET (1 .. n) |->
               IF s = {} THEN T ELSE Atomic!Roll(kind, r[s \ {Max(s)}], path[Max(s)])]
<1>5. \A s \in SUBSET (1 .. n) : s # {} => Max(s) \in 1 .. n
  BY MaxIsIn
<1>6. PICK g \in LeftFolds(V, T, n, f) : TRUE
  BY <1>3, LeftFolded
<1>7. eq(g)
  <2>1. g = [s \in SUBSET (1 .. n) |-> g[s]] /\ \A s \in SUBSET (1 .. n) : g[s] \in V
    BY <1>6 DEF LeftFolds
  <2>2. ASSUME NEW s \in SUBSET (1 .. n), s # {}
        PROVE  g[s] = Atomic!Roll(kind, g[s \ {Max(s)}], path[Max(s)])
    <3>1. g[s] = f[<<g[s \ {Max(s)}], Max(s)>>]
      BY <2>2, <1>6 DEF LeftFolds
    <3>2. g[s \ {Max(s)}] \in V /\ Max(s) \in 1 .. n
      BY <2>1, <2>2, <1>5
    <3>3. QED BY <3>1, <3>2, <1>4
  <2>3. g[{}] = T
    BY <1>6 DEF LeftFolds
  <2>4. QED BY <2>1, <2>2, <2>3
<1>8. PICK r : eq(r) /\ Atomic!Climb(kind, T, node) = r[1 .. n]
  <2>1. Atomic!Climb(kind, T, node) = (CHOOSE r : eq(r))[1 .. n]
    BY <1>1, <1>2 DEF Atomic!Climb, Atomic!FoldLeft, Atomic!MapThenFoldSet, Atomic!Max, Max
  <2> HIDE DEF eq
  <2>2. eq(CHOOSE r : eq(r))
    BY <1>7
  <2>3. QED BY <2>1, <2>2
<1>9. FoldsLeft(V, T, n, f, r)
  <2>1. r[{}] = T
    BY <1>8
  <2>2. ASSUME NEW s \in SUBSET (1 .. n), s # {}, r[s \ {Max(s)}] \in V
        PROVE  r[s] = f[<<r[s \ {Max(s)}], Max(s)>>]
    <3>1. r[s] = Atomic!Roll(kind, r[s \ {Max(s)}], path[Max(s)])
      BY <1>8, <2>2
    <3>2. QED BY <3>1, <1>4, <1>5, <2>2
  <2>3. QED BY <1>3, <2>1, <2>2 DEF FoldsLeft
<1> HIDE DEF eq
<1>10. PICK d \in LeftSteps(V, T, n, f) : r[1 .. n] = d[n]
  BY <1>9, LeftFoldIs
<1>11. d \in [0 .. n -> V] /\ \A k \in 0 .. n : d[k] = IF k = 0 THEN T ELSE f[<<d[k - 1], k>>]
  BY <1>10 DEF LeftSteps
<1>12. ASSUME NEW k \in 0 .. n, k # 0
       PROVE  d[k] = Atomic!Roll(kind, d[k - 1], path[k])
  <2>1. k \in 1 .. n /\ k - 1 \in 0 .. n
    BY <1>12
  <2>2. QED BY <2>1, <1>4, <1>11, <1>12
<1>13. d \in ClimbSteps(kind, T, node)
  BY <1>1, <1>2, <1>3, <1>11, <1>12 DEF ClimbSteps
<1>14. QED BY <1>1, <1>2, <1>8, <1>10, <1>13

\* A climb begins at the parent and goes on from there.
LEMMA ClimbFirst ==
    ASSUME NEW kind \in Climbing, NEW T \in WideTable, NEW n \in Node
    PROVE  /\ Parent[n] = NoNode => Atomic!Climb(kind, T, n) = T
           /\ Parent[n] # NoNode => Atomic!Climb(kind, T, n) =
                Atomic!Climb(kind, Atomic!Roll(kind, T, Parent[n]), Parent[n])
<1>1. PICK d \in ClimbSteps(kind, T, n) :
         Atomic!Climb(kind, T, n) = d[Len(Atomic!Ancestors[n])]
  BY ClimbStepwise
<1>2. CASE Parent[n] = NoNode
  <2>1. Atomic!Ancestors[n] = <<>>
    BY <1>2, AncestorsAre
  <2>2. Len(Atomic!Ancestors[n]) = 0
    BY <2>1
  <2>3. QED BY <1>1, <1>2, <2>2 DEF ClimbSteps
<1>3. CASE Parent[n] # NoNode
  <2> DEFINE p == Parent[n]
             U == Atomic!Roll(kind, T, p)
  <2>1. p \in Node /\ U \in WideTable
    BY <1>3, TreeAssumption, RollWide
  <2>2. PICK short \in Seq(Node) : short = Atomic!Ancestors[p]
    BY <2>1, AncestorsAre
  <2>3. PICK long \in Seq(Node) : long = Atomic!Ancestors[n]
    BY AncestorsAre
  <2>4. long = <<p>> \o short
    BY <1>3, <2>2, <2>3, AncestorsAre
  <2>5. PICK m \in Nat : m = Len(short)
    BY <2>2
  <2>6. Len(long) = m + 1 /\ long[1] = p /\ \A k \in 1 .. m : long[k + 1] = short[k]
    BY <2>1, <2>4, <2>5
  <2>7. PICK e \in ClimbSteps(kind, U, p) : Atomic!Climb(kind, U, p) = e[m]
    BY <2>1, <2>2, <2>5, ClimbStepwise
  <2>8. \A k \in 0 .. m : e[k] = IF k = 0 THEN U ELSE Atomic!Roll(kind, e[k - 1], short[k])
    BY <2>2, <2>5, <2>7 DEF ClimbSteps
  <2>9. \A k \in 0 .. m + 1 : d[k] = IF k = 0 THEN T ELSE Atomic!Roll(kind, d[k - 1], long[k])
    BY <1>1, <2>3, <2>6 DEF ClimbSteps
  <2> DEFINE S == {k \in Nat : k \in 0 .. m => d[k + 1] = e[k]}
  <2>10. 0 \in S
    <3>1. 0 \in 0 .. m /\ 1 \in 0 .. m + 1
      BY <2>5
    <3>2. e[0] = U /\ d[0] = T /\ d[1] = Atomic!Roll(kind, d[0], long[1])
      BY <3>1, <2>8, <2>9
    <3>3. QED BY <3>2, <2>6
  <2>11. ASSUME NEW k \in Nat, k \in S, k + 1 \in 0 .. m PROVE d[(k + 1) + 1] = e[k + 1]
    <3>1. k \in 0 .. m /\ (k + 1) + 1 \in 0 .. m + 1 /\ k + 1 \in 1 .. m
      BY <2>11, <2>5
    <3>2. e[k + 1] = Atomic!Roll(kind, e[k], short[k + 1])
      BY <3>1, <2>8
    <3>3. d[(k + 1) + 1] = Atomic!Roll(kind, d[k + 1], long[(k + 1) + 1])
      BY <3>1, <2>9
    <3>4. d[k + 1] = e[k]
      BY <3>1, <2>11
    <3>5. QED BY <3>1, <3>2, <3>3, <3>4, <2>6
  <2>12. \A k \in Nat : k \in S => k + 1 \in S
    <3> TAKE k \in Nat
    <3> HAVE k \in S
    <3>1. k + 1 \in Nat OBVIOUS
    <3>2. QED BY <2>11, <3>1
  <2>13. Nat \subseteq S
    <3> HIDE DEF S
    <3>1. QED BY <2>10, <2>12, FromZeroUp
  <2>14. d[m + 1] = e[m]
    BY <2>5, <2>13
  <2>15. QED BY <1>1, <1>3, <2>3, <2>6, <2>7, <2>14
<1>4. QED BY <1>2, <1>3

\* A row is below another if it is that row or its parent is.
LEMMA BelowIs ==
    ASSUME NEW n \in Node, NEW m \in Node
    PROVE  m \in Atomic!Below(n) <=>
             m = n \/ (Parent[m] # NoNode /\ Parent[m] \in Atomic!Below(n))
<1>1. \A k \in Node : k \in Atomic!Below(n) <=> k = n \/ n \in Range(Atomic!Ancestors[k])
  BY DEF Atomic!Below, Atomic!ToSet, Range
<1>2. CASE Parent[m] = NoNode
  <2>1. Atomic!Ancestors[m] = <<>>
    BY <1>2, AncestorsAre
  <2>2. Range(Atomic!Ancestors[m]) = {}
    BY <2>1 DEF Range
  <2>3. QED BY <1>1, <1>2, <2>2
<1>3. CASE Parent[m] # NoNode
  <2>1. Parent[m] \in Node
    BY <1>3, TreeAssumption
  <2>2. PICK short \in Seq(Node) : short = Atomic!Ancestors[Parent[m]]
    BY <2>1, AncestorsAre
  <2>3. Atomic!Ancestors[m] = <<Parent[m]>> \o short
    BY <1>3, <2>2, AncestorsAre
  <2>4. PICK p \in Node : p = Parent[m]
    BY <2>1
  <2>5. PICK long \in Seq(Node) : long = Atomic!Ancestors[m] /\ long = <<p>> \o short
    BY <2>3, <2>4, AncestorsAre
  <2>8. PICK k \in Nat : k = Len(short)
    OBVIOUS
  <2>9. /\ DOMAIN short = 1 .. k /\ DOMAIN long = 1 .. k + 1
        /\ long[1] = p /\ \A j \in 1 .. k : long[j + 1] = short[j]
    BY <2>4, <2>5, <2>8
  <2>10. \A j \in 1 .. k + 1 : j = 1 \/ (j - 1 \in 1 .. k /\ (j - 1) + 1 = j)
    BY <2>8
  <2>11. \A j \in 1 .. k : j + 1 \in 1 .. k + 1
    BY <2>8
  <2>12. 1 \in 1 .. k + 1
    BY <2>8
  <2>6. n \in Range(Atomic!Ancestors[m]) <=> n = Parent[m] \/ n \in Range(short)
    <3>1. ASSUME NEW j \in DOMAIN long, n = long[j] PROVE n = p \/ n \in Range(short)
      <4>1. CASE j = 1
        BY <3>1, <4>1, <2>9
      <4>2. CASE j # 1
        <5>1. j - 1 \in 1 .. k /\ (j - 1) + 1 = j
          BY <4>2, <2>9, <2>10
        <5>2. long[j] = short[j - 1] /\ j - 1 \in DOMAIN short
          BY <5>1, <2>9
        <5>3. QED BY <3>1, <5>2 DEF Range
      <4>3. QED BY <4>1, <4>2
    <3>2. ASSUME n = p \/ n \in Range(short) PROVE \E j \in DOMAIN long : n = long[j]
      BY <3>2, <2>9, <2>11, <2>12 DEF Range
    <3>3. n \in Range(long) <=> n = p \/ n \in Range(short)
      BY <3>1, <3>2 DEF Range
    <3>4. QED BY <3>3, <2>3, <2>4, <2>5
  <2>7. QED BY <1>1, <1>3, <2>1, <2>2, <2>6
<1>4. QED BY <1>2, <1>3

Pruned(T, n) == [m \in Node |-> IF m \in Atomic!Below(n) THEN NoRow ELSE T[m]]

\* What AnggaranTree promises of each request, in the terms of the handlers.
LEMMA ResultIs ==
    ASSUME NEW T \in Table, NEW r, r \in Request
    PROVE  /\ r.kind = "update" => Atomic!Result(T, r) =
                IF T[r.node] = NoRow THEN T
                ELSE Atomic!Climb("update", Replaced(T, r.node, Derive(Edited(T[r.node], r))), r.node)
           /\ r.kind = "lock" => Atomic!Result(T, r) =
                IF T[r.node] = NoRow THEN T
                ELSE Atomic!Climb("lock", Replaced(T, r.node, [T[r.node] EXCEPT !.lock = Decimal(r.lock)]), r.node)
           /\ r.kind = "delete" =>
                Atomic!Result(T, r) = Atomic!Climb("delete", Pruned(T, r.node), r.node)
<1>1. CASE r.kind = "update"
  <2>1. \A row : Atomic!Edited(row, r) = Edited(row, r)
    BY DEF Atomic!Edited, Edited, Atomic!Coalesce, Coalesce, Atomic!Decimal, Decimal
  <2>2. Atomic!Result(T, r) = Atomic!UpdateResult(T, r)
    BY <1>1 DEF Atomic!Result
  <2>3. QED BY <1>1, <2>1, <2>2, DeriveSame DEF Atomic!UpdateResult, Atomic!Put, Replaced
<1>2. CASE r.kind = "lock"
  <2>1. Atomic!Result(T, r) = Atomic!LockResult(T, r)
    BY <1>2 DEF Atomic!Result
  <2>2. Atomic!Decimal(r.lock) = Decimal(r.lock)
    BY DEF Atomic!Decimal, Decimal
  <2>3. QED BY <1>2, <2>1, <2>2 DEF Atomic!LockResult, Replaced
<1>3. CASE r.kind = "delete"
  <2>1. Atomic!Result(T, r) = Atomic!DeleteResult(T, r)
    BY <1>3 DEF Atomic!Result
  <2>2. QED BY <1>3, <2>1 DEF Atomic!DeleteResult, Pruned
<1>4. QED BY <1>1, <1>2, <1>3

\* What the columns hold is wide.
LEMMA TablesAreWide == Row \subseteq Wide /\ Table \subseteq WideTable
<1>1. Row \subseteq Wide
  <2>1. Amount \subseteq Int /\ Persen \subseteq Int
    <3>1. MaxAmount \in Int
      BY ValueAssumption
    <3>2. QED BY <3>1 DEF Amount, Persen
  <2>2. QED BY <2>1 DEF Row, Wide
<1>2. QED BY <1>1 DEF Table, WideTable

\* What is left of the loop makes of T what was promised of the request.
Completes(t, T) == Atomic!Climb(req[t].kind, T, cur[t]) = Atomic!Result(db, req[t])

Promised(t) == View(t) = Atomic!Result(db, req[t])

Serial(t) ==
    /\ pc[t] # "idle" => req[t] \in Request
    /\ pc[t] # "idle" /\ req[t].kind \in {"import", "rollover"} => Batch(t)
    /\ pc[t] \in {"derive", "rollup"} /\ req[t].kind # "delete" /\ View(t)[cur[t]] = NoRow
         => Promised(t)
    /\ pc[t] = "derive" /\ View(t)[cur[t]] # NoRow =>
         Completes(t, Replaced(View(t), cur[t], Derive(View(t)[cur[t]])))
    /\ pc[t] = "rollup" /\ (req[t].kind = "delete" \/ View(t)[cur[t]] # NoRow)
         => Completes(t, View(t))
    /\ pc[t] = "write" /\ req[t].kind = "delete" => db[req[t].node] # NoRow
    /\ pc[t] = "cascade" =>
         /\ cur[t] = req[t].node /\ own[t][cur[t]] = NoRow
         /\ \A c \in Node : own[t][c] # Clean =>
              own[t][c] = NoRow /\ c \in Atomic!Below(cur[t])
    /\ pc[t] \in {"cascade", "rollup"} /\ req[t].kind = "delete" => db[cur[t]] # NoRow
    /\ pc[t] = "commit" /\ req[t].kind \in Climbing => Promised(t)

SerialInv == RollInv /\ \A t \in Tx : Serial(t)

\* Before its first statement a handler sees what is committed.
LEMMA CleanView ==
    ASSUME TypeOK, NEW t \in Tx, \A n \in Node : own[t][n] = Clean
    PROVE  View(t) = db
  BY DEF View, TypeOK, Table

\* The statement on the node itself, and the one on its derived columns.
LEMMA WriteSerial ==
    ASSUME OneHandler, SerialInv, NEW t \in Tx, UpdateWrite(t) \/ LockWrite(t), ~Rollback(t)
    PROVE  Serial(t)'
<1> DEFINE n == req[t].node
           row == IF req[t].kind = "update" THEN Edited(View(t)[n], req[t])
                  ELSE [View(t)[n] EXCEPT !.lock = Decimal(req[t].lock)]
           next == IF req[t].kind = "update" THEN "derive" ELSE "rollup"
<1>1. /\ TypeInv /\ TypeOK /\ Rolling(t) /\ want[t] = NoNode /\ pc[t] = "write"
      /\ req[t] \in Request /\ db \in Table
      /\ req[t].kind \in {"update", "lock"}
  BY DEF SerialInv, Serial, RollInv, ForestInv, LockInv, TypeInv, TypeOK, Rolling,
     UpdateWrite, LockWrite
<1>2. n \in Node /\ Update(t, n, row, next, n)
  BY <1>1, RequestKinds DEF UpdateRequest, LockRequest, UpdateWrite, LockWrite
<1>3. View(t) = db
  BY <1>1, CleanView DEF Rolling, Active
<1>4. /\ pc'[t] = next /\ cur'[t] = n /\ req'[t] = req[t] /\ db' = db
      /\ IF db[n] # NoRow
         THEN row \in Row /\ View(t)' = Replaced(db, n, row)
         ELSE View(t)' = db
  <2> HIDE DEF n, row, next
  <2>1. CASE View(t)[n] # NoRow BY <1>1, <1>2, <1>3, <2>1, OneUpdate
  <2>2. CASE View(t)[n] = NoRow BY <1>1, <1>2, <1>3, <2>2, OneUpdate
  <2>3. QED BY <2>1, <2>2
<1>5. CASE db[n] = NoRow
  <2>1. Atomic!Result(db, req[t]) = db
    BY <1>1, <1>5, ResultIs
  <2>2. View(t)'[n] = NoRow /\ Promised(t)'
    BY <1>4, <1>5, <2>1 DEF Promised
  <2> HIDE DEF row
  <2>3. QED BY <1>1, <1>4, <2>2 DEF Serial
<1>6. CASE db[n] # NoRow
  <2>1. row \in Row /\ row # NoRow /\ View(t)' = Replaced(db, n, row)
    BY <1>4, <1>6, ValueAssumption
  <2>2. View(t)'[n] = row
    BY <1>1, <1>2, <2>1, ReplacedRow
  <2>3. CASE req[t].kind = "update"
    <3>1. Replaced(View(t)', n, Derive(row)) = Replaced(db, n, Derive(row))
      BY <2>1 DEF Replaced
    <3>2. Atomic!Result(db, req[t]) = Atomic!Climb("update", Replaced(db, n, Derive(row)), n)
      BY <1>1, <1>3, <1>6, <2>3, ResultIs
    <3> HIDE DEF row
    <3>3. Completes(t, Replaced(View(t), cur[t], Derive(View(t)[cur[t]])))'
      BY <1>4, <2>2, <2>3, <3>1, <3>2 DEF Completes
    <3>4. QED BY <1>1, <1>4, <2>1, <2>2, <2>3, <3>3 DEF Serial
  <2>4. CASE req[t].kind = "lock"
    <3>1. Atomic!Result(db, req[t]) = Atomic!Climb("lock", Replaced(db, n, row), n)
      BY <1>1, <1>3, <1>6, <2>4, ResultIs
    <3> HIDE DEF row
    <3>2. Completes(t, View(t))'
      BY <1>4, <2>1, <2>4, <3>1 DEF Completes
    <3>3. QED BY <1>1, <1>4, <2>1, <2>2, <2>4, <3>2 DEF Serial
  <2>5. QED BY <1>1, <2>3, <2>4
<1>7. QED BY <1>5, <1>6

\* The derived columns of the node, before the first turn.
LEMMA DeriveSerial ==
    ASSUME OneHandler, SerialInv, NEW t \in Tx, UpdateDerive(t), ~Rollback(t)
    PROVE  Serial(t)'
<1> DEFINE n == cur[t]
           row == Derive(View(t)[n])
<1>1. /\ TypeInv /\ Serial(t) /\ View(t) \in Table /\ n \in Node
      /\ pc[t] = "derive" /\ req[t].kind = "update" /\ want[t] = NoNode
      /\ req[t] \in Request /\ Update(t, n, row, "rollup", n)
  BY ViewType DEF SerialInv, Serial, RollInv, ForestInv, LockInv, TypeInv, Staged, Kinded,
     UpdateDerive, Rolling
<1>2. /\ pc'[t] = "rollup" /\ cur'[t] = n /\ req'[t] = req[t] /\ db' = db
      /\ IF View(t)[n] # NoRow
         THEN row \in Row /\ View(t)' = Replaced(View(t), n, row)
         ELSE View(t)' = View(t)
  <2> HIDE DEF n, row
  <2>1. CASE View(t)[n] # NoRow BY <1>1, <2>1, OneUpdate
  <2>2. CASE View(t)[n] = NoRow BY <1>1, <2>2, OneUpdate
  <2>3. QED BY <2>1, <2>2
<1>3. CASE View(t)[n] # NoRow
  <2>1. Completes(t, Replaced(View(t), n, row))
    BY <1>1, <1>3 DEF Serial
  <2> HIDE DEF row
  <2>2. Completes(t, View(t))'
    BY <1>2, <1>3, <2>1 DEF Completes
  <2>3. View(t)'[n] # NoRow
    BY <1>1, <1>2, <1>3, ReplacedRow, ValueAssumption
  <2>4. QED BY <1>1, <1>2, <2>2, <2>3 DEF Serial
<1>4. CASE View(t)[n] = NoRow
  <2>1. Promised(t)
    BY <1>1, <1>4 DEF Serial
  <2>2. Promised(t)' /\ View(t)'[n] = NoRow
    BY <1>2, <1>4, <2>1 DEF Promised
  <2> HIDE DEF row
  <2>3. QED BY <1>1, <1>2, <2>2 DEF Serial
<1>5. QED BY <1>3, <1>4

\* One turn of the loop: the parent has a row, and its statements are a Roll.
LEMMA RollupSerial ==
    ASSUME OneHandler, SerialInv, NEW t \in Tx, Rollup(t), ~Rollback(t)
    PROVE  Serial(t)'
<1> DEFINE c == cur[t]
           p == Parent[c]
           kind == req[t].kind
           row == RollupRow(kind, View(t)[p], Seen(t), p)
           next == IF kind = "update" THEN "derive" ELSE "rollup"
<1>1. /\ TypeInv /\ ForestInv /\ Serial(t) /\ View(t) \in Table /\ c \in Node
      /\ pc[t] = "rollup" /\ kind \in Climbing /\ req[t] \in Request
      /\ want[t] = NoNode /\ ~AtTop(t) /\ Update(t, p, row, next, p)
  BY ViewType DEF SerialInv, Serial, RollInv, ForestInv, LockInv, TypeInv, Staged, Kinded,
     Rollup, Rolling, Climbing
<1>2. p \in Node /\ p # NoNode
  BY <1>1, TreeAssumption DEF AtTop
<1>3. View(t)[p] # NoRow /\ (kind # "delete" => View(t)[c] # NoRow)
  BY <1>1, <1>2, ViewClosed DEF AtTop
<1>4. /\ pc'[t] = next /\ cur'[t] = p /\ req'[t] = req[t] /\ db' = db
      /\ row \in Row /\ View(t)' = Replaced(View(t), p, row)
  <2> HIDE DEF p, row, next
  <2>1. QED BY <1>1, <1>2, <1>3, OneUpdate
<1>5. Completes(t, View(t))
  BY <1>1, <1>3 DEF Serial
<1>6. Atomic!Result(db, req[t]) = Atomic!Climb(kind, Atomic!Roll(kind, View(t), p), p)
  <2>1. View(t) \in WideTable
    BY <1>1, TablesAreWide
  <2>2. QED BY <1>1, <1>2, <1>5, <2>1, ClimbFirst DEF Completes
<1>7. Seen(t) = View(t)
  BY <1>1 DEF Seen
<1>8. View(t)'[p] = row /\ row # NoRow
  BY <1>1, <1>2, <1>4, ReplacedRow, ValueAssumption
<1>9. kind = "delete" => db[p] # NoRow
  <2>1. kind = "delete" => db[c] # NoRow
    BY <1>1 DEF Serial
  <2>2. QED BY <1>1, <1>2, <2>1 DEF ForestInv, ForestClosed
<1>10. Atomic!Roll(kind, View(t), p) = Replaced(View(t), p, Turned(kind, View(t), p))
  BY <1>1, <1>3, RollIs
<1>11. CASE kind = "update"
  <2>1. Turned(kind, View(t), p) = Derive(row)
    BY <1>7, <1>11 DEF Turned
  <2> HIDE DEF row, p
  <2>2. Replaced(View(t)', p, Derive(row)) = Replaced(View(t), p, Derive(row))
    BY <1>4 DEF Replaced
  <2>3. Completes(t, Replaced(View(t), cur[t], Derive(View(t)[cur[t]])))'
    BY <1>4, <1>6, <1>8, <1>10, <2>1, <2>2 DEF Completes
  <2>4. QED BY <1>1, <1>4, <1>8, <1>11, <2>3 DEF Serial
<1>12. CASE kind # "update"
  <2>1. Turned(kind, View(t), p) = row
    BY <1>7, <1>12 DEF Turned
  <2> HIDE DEF row, p
  <2>2. Completes(t, View(t))'
    BY <1>4, <1>6, <1>10, <2>1 DEF Completes
  <2>3. QED BY <1>1, <1>4, <1>8, <1>9, <1>12, <2>2 DEF Serial, Climbing
<1>13. QED BY <1>11, <1>12

\* The loop ends above a root, or where an edit found no row.
LEMMA RollupEndSerial ==
    ASSUME SerialInv, NEW t \in Tx, RollupEnd(t)
    PROVE  Serial(t)'
<1> DEFINE c == cur[t]
<1>1. /\ TypeInv /\ ForestInv /\ Serial(t) /\ Rolling(t) /\ View(t) \in Table /\ c \in Node
      /\ pc[t] = "rollup" /\ req[t].kind \in Climbing /\ req[t] \in Request
      /\ AtTop(t) /\ pc'[t] = "commit" /\ UNCHANGED <<db, own, req, cur>>
  BY ViewType DEF SerialInv, Serial, RollInv, ForestInv, LockInv, TypeInv, TypeOK, Staged,
     Kinded, RollupEnd, Climbing
<1>2. View(t)' = View(t)
  BY <1>1 DEF View
<1>3. Promised(t)
  <2>1. CASE Parent[c] = NoNode
    <3>1. Atomic!Climb(req[t].kind, View(t), c) = View(t)
      BY <1>1, <2>1, TablesAreWide, ClimbFirst
    <3>2. QED BY <1>1, <3>1 DEF Serial, Completes, Promised
  <2>2. CASE Parent[c] # NoNode /\ req[t].kind # "delete"
    BY <1>1, <2>2 DEF Serial, AtTop
  <2>3. CASE Parent[c] # NoNode /\ req[t].kind = "delete"
    <3>1. /\ Parent[c] \in Node /\ Depth[Parent[c]] < Depth[c]
          /\ Depth[Parent[c]] \in Nat /\ Depth[c] \in Nat
      BY <1>1, <2>3, TreeAssumption
    <3>2. View(t)[Parent[c]] = NoRow
      BY <1>1, <2>3 DEF AtTop
    <3>3. db[Parent[c]] # NoRow
      BY <1>1, <2>3 DEF Serial, ForestInv, ForestClosed
    <3>4. own[t][Parent[c]] # Clean
      BY <3>1, <3>2, <3>3 DEF View
    <3>5. Depth[c] <= Depth[Parent[c]]
      BY <1>1, <2>3, <3>1, <3>4 DEF Rolling
    <3>6. QED BY <3>1, <3>5
  <2>4. QED BY <2>1, <2>2, <2>3
<1>4. Promised(t)'
  BY <1>1, <1>2, <1>3 DEF Promised
<1>5. QED BY <1>1, <1>4 DEF Serial, Climbing

\* When the cascade has ended, what is gone is what lies below the node.
LEMMA CascadeSerial ==
    ASSUME SerialInv, NEW t \in Tx, CascadeEnd(t)
    PROVE  Serial(t)'
<1> DEFINE n == cur[t]
           Gone == Atomic!Below(n)
<1>1. /\ TypeInv /\ ForestClosed /\ Serial(t) /\ View(t) \in Table /\ n \in Node
      /\ db \in Table /\ own[t] \in [Node -> Row \cup {NoRow, Clean}]
      /\ pc[t] = "cascade" /\ req[t].kind = "delete" /\ req[t] \in Request
      /\ Cascaded(t) = {} /\ pc'[t] = "rollup" /\ UNCHANGED <<db, own, req, cur>>
  BY ViewType DEF SerialInv, Serial, RollInv, ForestInv, LockInv, TypeInv, TypeOK, Staged,
     Kinded, CascadeEnd, Skip
<1>2. /\ n = req[t].node /\ own[t][n] = NoRow /\ db[n] # NoRow
      /\ \A c \in Node : own[t][c] # Clean => own[t][c] = NoRow /\ c \in Gone
  BY <1>1 DEF Serial
<1>3. View(t)' = View(t)
  BY <1>1 DEF View
<1>4. \A m \in Node : View(t)[m] = IF own[t][m] = Clean THEN db[m] ELSE own[t][m]
  BY DEF View
<1>5. /\ Depth \in [Node -> Nat]
      /\ \A m \in Node : Parent[m] # NoNode => Parent[m] \in Node /\ Depth[Parent[m]] < Depth[m]
  BY TreeAssumption
<1>6. \A m \in Node : m \in Gone <=> m = n \/ (Parent[m] # NoNode /\ Parent[m] \in Gone)
  BY <1>1, BelowIs
<1> HIDE DEF Gone, n
<1> DEFINE S == {k \in Nat : \A m \in Node : m \in Gone /\ Depth[m] < k => View(t)[m] = NoRow}
<1>7. 0 \in S
  BY <1>5
<1>8. ASSUME NEW k \in Nat, k \in S, NEW m \in Node, m \in Gone, Depth[m] < k + 1
      PROVE  View(t)[m] = NoRow
  <2>1. CASE m = n
    BY <2>1, <1>2, <1>4, ValueAssumption
  <2>2. CASE m # n
    <3>1. /\ Parent[m] # NoNode /\ Parent[m] \in Node /\ Parent[m] \in Gone
          /\ Depth[Parent[m]] < k
      BY <2>2, <1>5, <1>6, <1>8
    <3>2. View(t)[Parent[m]] = NoRow
      BY <3>1, <1>8
    <3>3. CASE own[t][Parent[m]] = NoRow
      BY <3>1, <3>3, <1>1 DEF Cascaded
    <3>4. CASE own[t][Parent[m]] # NoRow
      <4>1. db[Parent[m]] = NoRow
        BY <3>1, <3>2, <3>4, <1>4
      <4>2. db[m] = NoRow
        BY <4>1, <3>1, <1>1 DEF ForestClosed
      <4>3. QED BY <4>2, <1>2, <1>4
    <3>5. QED BY <3>3, <3>4
  <2>3. QED BY <2>1, <2>2
<1>9. \A k \in Nat : k \in S => k + 1 \in S
  BY <1>8
<1>10. Nat \subseteq S
  <2> HIDE DEF S
  <2>1. QED BY <1>7, <1>9, FromZeroUp
<1>11. \A m \in Node : m \in Gone => View(t)[m] = NoRow
  <2> TAKE m \in Node
  <2>1. Depth[m] + 1 \in Nat /\ Depth[m] < Depth[m] + 1
    BY <1>5
  <2>2. Depth[m] + 1 \in S
    BY <2>1, <1>10
  <2>3. QED BY <2>1, <2>2
<1>12. \A m \in Node : m \notin Gone => View(t)[m] = db[m]
  BY <1>2, <1>4
<1>13. View(t) = Pruned(db, n)
  BY <1>1, <1>11, <1>12 DEF Pruned, Table, Gone
<1>14. Completes(t, View(t))'
  <2>1. Atomic!Result(db, req[t]) = Atomic!Climb("delete", Pruned(db, req[t].node), req[t].node)
    BY <1>1, ResultIs
  <2>2. cur'[t] = req[t].node /\ req'[t] = req[t] /\ db' = db /\ View(t)' = Pruned(db, req[t].node)
    BY <1>1, <1>2, <1>3, <1>13 DEF n
  <2>3. QED BY <1>1, <2>1, <2>2 DEF Completes
<1>15. QED BY <1>1, <1>2, <1>14 DEF Serial, n

\* The delete takes the node, and its cascade the rows below it.
LEMMA DeleteSerial ==
    ASSUME OneHandler, SerialInv, NEW t \in Tx, ~Rollback(t),
           DeleteLookup(t) \/ DeleteWrite(t) \/ Cascade(t)
    PROVE  Serial(t)'
<1>1. /\ TypeInv /\ TypeOK /\ Rolling(t) /\ Kinded(t) /\ Serial(t) /\ want[t] = NoNode
      /\ own[t] \in [Node -> Row \cup {NoRow, Clean}]
      /\ \A n \in Node : Free(t, n) /\ Ready(t, n)
  BY DEF SerialInv, RollInv, ForestInv, LockInv, TypeInv, TypeOK, Rolling, OneHandler, Free, Ready
<1>2. pc[t] # "idle" /\ req[t] \in Request
  BY <1>1 DEF DeleteLookup, DeleteWrite, Cascade, Serial
<1>3. CASE DeleteLookup(t)
  <2>1. /\ pc[t] = "lookup" /\ req[t].kind = "delete" /\ View(t)[req[t].node] # NoRow
        /\ pc'[t] = "write" /\ UNCHANGED <<db, own, req, cur>>
    BY <1>1, <1>3 DEF DeleteLookup, TypeInv, TypeOK, Kinded
  <2>2. View(t) = db
    BY <1>1, <2>1, CleanView DEF Rolling, Active
  <2>3. QED BY <1>2, <2>1, <2>2 DEF Serial
<1>4. CASE DeleteWrite(t)
  <2> DEFINE n == req[t].node
  <2>1. n \in Node /\ pc[t] = "write" /\ req[t].kind = "delete" /\ db[n] # NoRow
    BY <1>1, <1>2, <1>4, RequestKinds DEF DeleteWrite, DeleteRequest, Serial
  <2>2. \A c \in Node : own[t][c] = Clean
    BY <1>1, <2>1 DEF Rolling, Active
  <2>3. View(t) = db
    BY <1>1, <2>2, CleanView
  <2>4. Hit(t, n)
    BY <1>1, <2>1, <2>3 DEF Hit, Seen
  <2>5. /\ Store(t, n, NoRow)
        /\ pc'[t] = "cascade" /\ cur'[t] = n /\ req' = req /\ db' = db
    BY <1>1, <1>4, <2>1, <2>4 DEF DeleteWrite, TypeOK
  <2>6. own'[t][n] = NoRow /\ \A c \in Node : own'[t][c] # Clean => c = n
    BY <1>1, <2>1, <2>2, <2>5 DEF Store, TypeOK
  <2>7. n \in Atomic!Below(n)
    BY <2>1, BelowIs
  <2>8. QED BY <1>2, <2>1, <2>5, <2>6, <2>7 DEF Serial
<1>5. CASE Cascade(t)
  <2>1. PICK c \in Cascaded(t) : Store(t, c, NoRow) /\ UNCHANGED <<db, pc, req, cur, todo>>
    BY <1>1, <1>5 DEF Cascade, Cascaded
  <2>2. /\ c \in Node /\ Parent[c] \in Node /\ Parent[c] # NoNode /\ own[t][Parent[c]] = NoRow
        /\ pc[t] = "cascade" /\ req[t].kind = "delete" /\ cur[t] \in Node
    BY <1>1, <1>5, <2>1, TreeAssumption DEF Cascade, Cascaded, Kinded, TypeInv, Staged
  <2>3. /\ own'[t][c] = NoRow
        /\ \A m \in Node : m # c => own'[t][m] = own[t][m]
    BY <1>1, <2>1, <2>2 DEF Store, TypeOK
  <2>4. Parent[c] \in Atomic!Below(cur[t])
    BY <1>1, <2>2, ValueAssumption DEF Serial
  <2>5. c \in Atomic!Below(cur[t])
    BY <2>2, <2>4, BelowIs
  <2>6. /\ cur[t] = req[t].node /\ own'[t][cur[t]] = NoRow
        /\ \A m \in Node : own'[t][m] # Clean =>
             own'[t][m] = NoRow /\ m \in Atomic!Below(cur[t])
    BY <1>1, <2>2, <2>3, <2>5 DEF Serial
  <2>7. db[cur[t]] # NoRow
    BY <1>1, <2>2 DEF Serial
  <2>8. QED BY <1>2, <2>1, <2>2, <2>6, <2>7 DEF Serial
<1>6. QED BY <1>3, <1>4, <1>5

\* A request arrives, and finds nothing done.
LEMMA BeginSerial ==
    ASSUME SerialInv, NEW t \in Tx, Begin(t)
    PROVE  Serial(t)'
<1>1. /\ TypeInv /\ Kinded(t) /\ Serial(t) /\ pc[t] = "idle" /\ own' = own /\ db' = db
      /\ req'[t] \in Request /\ pc'[t] = FirstStep(req'[t].kind)
  BY DEF SerialInv, RollInv, ForestInv, LockInv, TypeInv, TypeOK, Begin
<1>2. Batch(t)
  BY <1>1 DEF Batch, Kinded
<1>3. ASSUME IsBatch(req'[t]) PROVE Batch(t)'
  <2>1. ~Commit(t)
    BY <1>1 DEF Commit
  <2>2. QED BY <1>1, <1>2, <1>3, <2>1, OwnBatch
<1>4. pc'[t] \in {"lookup", "write", "upsert", "sweep"} /\ (req'[t].kind = "delete" => pc'[t] = "lookup")
  BY <1>1, RequestKinds DEF FirstStep
<1>5. QED BY <1>1, <1>3, <1>4 DEF Serial, IsBatch

\* An import or a roll-over goes on as it does beside others.
LEMMA BatchSerial ==
    ASSUME SerialInv, NEW t \in Tx, ~Rollback(t),
           ImportUpsert(t) \/ RolloverSweep(t) \/ WorkEnd(t)
    PROVE  Serial(t)'
<1>1. /\ TypeInv /\ Kinded(t) /\ Serial(t) /\ pc[t] \in {"upsert", "sweep"}
      /\ req[t] \in Request /\ req[t].kind \in {"import", "rollover"}
  BY DEF SerialInv, Serial, RollInv, ForestInv, LockInv, Kinded, ImportUpsert, RolloverSweep,
     WorkEnd, TypeInv, Staged
<1>2. Batch(t) /\ ~Commit(t) /\ ~Begin(t)
  BY <1>1 DEF Serial, Commit, Begin
<1>3. Batch(t)'
  BY <1>1, <1>2, OwnBatch DEF Step
<1>4. req'[t] = req[t] /\ pc'[t] \in {"upsert", "sweep", "commit"}
  BY <1>1 DEF ImportUpsert, RolloverSweep, WorkEnd, Block, Store, Skip, TypeInv, TypeOK
<1>5. QED BY <1>1, <1>3, <1>4 DEF Serial, Climbing

\* Every step of a handler keeps what its climb still owes.
LEMMA OwnSerial ==
    ASSUME OneHandler, SerialInv, NEW t \in Tx,
           Begin(t) \/ Step(t) \/ Fail(t) \/ Victim(t)
    PROVE  Serial(t)'
<1>1. ASSUME Release(t) PROVE Serial(t)'
  <2>1. pc'[t] = "idle"
    BY <1>1 DEF SerialInv, RollInv, ForestInv, LockInv, TypeInv, TypeOK, Release
  <2>2. QED BY <2>1 DEF Serial
<1>2. CASE Rollback(t) \/ Commit(t) \/ Fail(t) \/ Victim(t)
  BY <1>1, <1>2 DEF Rollback, Commit, Fail, Victim
<1>3. CASE Begin(t)
  BY <1>3, BeginSerial
<1>4. CASE ~Rollback(t) /\ (UpdateWrite(t) \/ LockWrite(t))
  BY <1>4, WriteSerial
<1>5. CASE ~Rollback(t) /\ UpdateDerive(t)
  BY <1>5, DeriveSerial
<1>6. CASE ~Rollback(t) /\ Rollup(t)
  BY <1>6, RollupSerial
<1>7. CASE RollupEnd(t)
  BY <1>7, RollupEndSerial
<1>8. CASE ~Rollback(t) /\ (DeleteLookup(t) \/ DeleteWrite(t) \/ Cascade(t))
  BY <1>8, DeleteSerial
<1>9. CASE CascadeEnd(t)
  BY <1>9, CascadeSerial
<1>10. CASE ~Rollback(t) /\ (ImportUpsert(t) \/ RolloverSweep(t) \/ WorkEnd(t))
  BY <1>10, BatchSerial
<1>11. QED BY <1>2, <1>3, <1>4, <1>5, <1>6, <1>7, <1>8, <1>9, <1>10 DEF Step

\* What is committed is what the request promises.
LEMMA CommitSerial ==
    ASSUME SerialInv, NEW t \in Tx, Commit(t)
    PROVE  Atomic!Next
<1>1. Serial(t) /\ pc[t] = "commit" /\ db' = View(t) /\ req[t] \in Request
  BY DEF SerialInv, Serial, Commit
<1>2. CASE req[t].kind \in Climbing
  BY <1>1, <1>2 DEF Serial, Promised, Atomic!Next
<1>3. CASE req[t].kind \notin Climbing
  <2>1. req[t].kind \in {"import", "rollover"}
    BY <1>1, <1>3, RequestKinds DEF Climbing
  <2>2. Batch(t)
    BY <1>1, <2>1 DEF Serial
  <2>3. QED BY <2>2, CommitAtomic
<1>4. QED BY <1>2, <1>3

\* So does every step of the system.
LEMMA SerialInvNext ==
    OneHandler /\ SerialInv /\ [Next]_vars => SerialInv' /\ [Atomic!Next]_db
<1> SUFFICES ASSUME OneHandler, SerialInv, [Next]_vars
             PROVE  SerialInv' /\ [Atomic!Next]_db
  OBVIOUS
<1>1. RollInv'
  BY RollInvNext DEF SerialInv
<1>2. CASE UNCHANGED vars
  <2>1. ASSUME NEW t \in Tx PROVE Serial(t)'
    <3>1. View(t)' = View(t)
      BY <1>2 DEF vars, View
    <3>2. Batch(t)' = Batch(t)
      BY <1>2 DEF vars, Batch, Due, Made
    <3>3. Serial(t)
      BY DEF SerialInv
    <3>4. QED BY <1>2, <3>1, <3>2, <3>3 DEF vars, Serial, Promised, Completes
  <2>2. QED BY <1>1, <1>2, <2>1 DEF SerialInv, vars
<1>3. ASSUME NEW t \in Tx, Begin(t) \/ Step(t) \/ Fail(t) \/ Victim(t)
      PROVE  SerialInv' /\ [Atomic!Next]_db
  <2>1. Serial(t)' /\ \A u \in Tx : u = t
    BY <1>3, OwnSerial DEF OneHandler
  <2>2. CASE Commit(t)
    BY <1>1, <2>1, <2>2, CommitSerial DEF SerialInv
  <2>3. CASE ~Commit(t)
    <3>1. db' = db
      BY <1>3, <2>3 DEF Step, Begin, UpdateWrite, UpdateDerive, LockWrite, Rollup,
         RollupEnd, DeleteLookup, DeleteWrite, Cascade, CascadeEnd, ImportUpsert,
         RolloverSweep, WorkEnd, Fail, Victim, Update, Block, Rollback
    <3>2. QED BY <1>1, <2>1, <3>1 DEF SerialInv
  <2>4. QED BY <2>2, <2>3
<1>4. QED BY <1>2, <1>3 DEF Next

\* One request after another, from the empty table: the statements of each
\* handler add up to the one step AnggaranTree promises, for every tree, every
\* kind of request and failure at any statement (anggaran.go, all handlers).
THEOREM HandlersKeepTheirPromise ==
    ASSUME OneHandler
    PROVE  Spec => Serializable
<1>1. Init => SerialInv /\ Atomic!Init
  <2> SUFFICES ASSUME Init PROVE SerialInv /\ Atomic!Init
    OBVIOUS
  <2>1. EmptyTable \in Table /\ Started(EmptyTable)
    BY DEF EmptyTable, Table, Init
  <2>2. ForestInv
    BY <2>1, StartedForest DEF EmptyTable
  <2>3. \A t \in Tx : Rolling(t) /\ Serial(t)
    BY <2>1 DEF Started, Rolling, Serial, NoRequest
  <2>4. Atomic!Init
    BY <2>1 DEF Started, Atomic!Init, Atomic!EmptyTable, EmptyTable
  <2>5. QED BY <2>2, <2>3, <2>4 DEF SerialInv, RollInv
<1>2. SerialInv /\ [Next]_vars => SerialInv' /\ [Atomic!Next]_db
  BY SerialInvNext
<1>3. QED BY <1>1, <1>2, PTL DEF Spec, Serializable, Atomic!Spec

-----------------------------------------------------------------------------
(* Edits of different columns again: not only the sums are right.  What a   *)
(* handler commits is what AnggaranTree makes of its request and of the     *)
(* table as it is then, whatever has been committed beside its climb.       *)

\* The rows from n to its root.
Line(n) == {p \in Node : n \in Atomic!Below(p)}

\* A line goes on to the parent, row by row, and rises.
LEMMA LineGoesUp ==
    ASSUME NEW n \in Node, NEW m \in Line(n)
    PROVE  /\ Depth[m] <= Depth[n]
           /\ Parent[m] # NoNode => Parent[m] \in Line(n)
           /\ m # n => \E c \in Line(n) : Parent[c] = m
<1> DEFINE Good(x, y) == /\ Depth[y] <= Depth[x]
                         /\ Parent[y] # NoNode => Parent[y] \in Line(x)
                         /\ y # x => \E c \in Line(x) : Parent[c] = y
           Q == {k \in Nat : \A x \in Node : Depth[x] < k => \A y \in Line(x) : Good(x, y)}
<1>1. /\ Depth \in [Node -> Nat]
      /\ \A x \in Node : Parent[x] # NoNode => Parent[x] \in Node /\ Depth[Parent[x]] < Depth[x]
  BY TreeAssumption
<1>2. \A x \in Node, y \in Node :
         y \in Line(x) <=> x = y \/ (Parent[x] # NoNode /\ y \in Line(Parent[x]))
  BY BelowIs DEF Line
<1>3. \A x \in Node : Line(x) \subseteq Node
  BY DEF Line
<1>4. 0 \in Q
  BY <1>1
<1>5. ASSUME NEW k \in Nat, k \in Q, NEW x \in Node, Depth[x] < k + 1, NEW y \in Line(x)
      PROVE  Good(x, y)
  <2>1. CASE y = x
    <3>1. Parent[x] # NoNode => Parent[x] \in Line(x)
      BY <1>1, <1>2
    <3>2. QED BY <2>1, <3>1, <1>1
  <2>2. CASE y # x
    <3>1. Parent[x] # NoNode /\ y \in Line(Parent[x]) /\ y \in Node
      BY <2>2, <1>2, <1>3, <1>5
    <3>2. Parent[x] \in Node /\ Depth[Parent[x]] < Depth[x] /\ Depth[Parent[x]] < k
      BY <3>1, <1>1, <1>5
    <3>3. Good(Parent[x], y)
      BY <3>1, <3>2, <1>5
    <3>4. Line(Parent[x]) \subseteq Line(x) /\ x \in Line(x)
      BY <3>1, <3>2, <1>2, <1>3
    <3>5. \E c \in Line(x) : Parent[c] = y
      BY <3>3, <3>4
    <3>6. Depth[y] \in Nat /\ Depth[x] \in Nat /\ Depth[Parent[x]] \in Nat
      BY <3>1, <3>2, <1>1
    <3>7. QED BY <3>2, <3>3, <3>4, <3>5, <3>6
  <2>3. QED BY <2>1, <2>2
<1>6. \A k \in Nat : k \in Q => k + 1 \in Q
  <2> TAKE k \in Nat
  <2> HAVE k \in Q
  <2>1. k + 1 \in Nat OBVIOUS
  <2> HIDE DEF Good
  <2>2. QED BY <1>5, <2>1
<1>7. Nat \subseteq Q
  <2> HIDE DEF Q
  <2>1. QED BY <1>4, <1>6, FromZeroUp
<1>8. Depth[n] + 1 \in Nat /\ Depth[n] < Depth[n] + 1
  BY <1>1
<1>9. QED BY <1>7, <1>8

\* A turn for a row that is computed over the children it has in S.
TurnedOver(kind, row, S, p) ==
    LET new == RollupRow(kind, row, S, p) IN IF kind = "update" THEN Derive(new) ELSE new

\* S, but with the rows of T above n.
Above(T, S, n) == [m \in Node |-> IF m # n /\ m \in Line(n) THEN T[m] ELSE S[m]]

\* The rows above node are those of T with the sums of S.
Settled(kind, T, S, node) ==
    \A p \in Line(node) \ {node} : T[p] # NoRow /\ S[p] = TurnedOver(kind, T[p], S, p)

\* One turn settles one row more.
LEMMA RollSettles ==
    ASSUME NEW kind \in Climbing, NEW T \in Table, NEW S \in Table, NEW node \in Node,
           Settled(kind, T, S, node), NEW n \in Line(node), Parent[n] # NoNode
    PROVE  Atomic!Roll(kind, Above(T, S, n), Parent[n]) = Above(T, S, Parent[n])
<1> DEFINE p == Parent[n]
           U == Above(T, S, n)
           V == Above(T, S, p)
<1>1. n \in Node /\ p \in Node /\ p # n /\ Depth[p] < Depth[n] /\ Depth[n] \in Nat /\ Depth[p] \in Nat
  BY TreeAssumption DEF Line
<1>2. p \in Line(n) /\ p \in Line(node) /\ n \notin Line(p)
  <2>1. p \in Line(n)
    BY <1>1, BelowIs DEF Line
  <2>2. p \in Line(node)
    BY <1>1, LineGoesUp
  <2>3. n \in Line(p) => Depth[n] <= Depth[p]
    BY <1>1, LineGoesUp
  <2>4. QED BY <1>1, <2>1, <2>2, <2>3
<1>3. \A m \in Node : m # n => (m \in Line(n) <=> m \in Line(p))
  BY <1>1, BelowIs DEF Line
<1>4. p # node
  <2>1. Depth[n] <= Depth[node]
    BY LineGoesUp
  <2>2. QED BY <1>1, <2>1
<1>5. U[p] = T[p] /\ T[p] # NoRow /\ S[p] = TurnedOver(kind, T[p], S, p)
  BY <1>1, <1>2, <1>4 DEF Above, Settled
<1>6. \A c \in Node : Parent[c] = p => U[c] = S[c]
  <2> SUFFICES ASSUME NEW c \in Node, Parent[c] = p, c # n, c \in Line(n) PROVE FALSE
    BY DEF Above
  <2>1. c \in Line(p)
    BY <1>3
  <2>2. Depth[c] <= Depth[p]
    BY <1>1, <2>1, LineGoesUp
  <2>3. Depth[p] < Depth[c] /\ Depth[c] \in Nat
    BY <1>1, TreeAssumption
  <2>4. QED BY <1>1, <2>2, <2>3
<1> HIDE DEF U, V
<1>7. Children(U, p) = Children(S, p)
  BY <1>6 DEF Children
<1>8. \A f : Total(U, p, f) = Total(S, p, f)
  <2> TAKE f
  <2>1. [c \in Children(U, p) |-> U[c][f]] = [c \in Children(S, p) |-> S[c][f]]
    BY <1>6, <1>7 DEF Children
  <2>2. QED BY <2>1 DEF Total
<1>9. Turned(kind, U, p) = S[p]
  <2>1. RollupRow(kind, U[p], U, p) = RollupRow(kind, T[p], S, p)
    <3>1. RollupRow(kind, T[p], U, p) = RollupRow(kind, T[p], S, p)
      <4>1. /\ Total(U, p, "pagu") = Total(S, p, "pagu") /\ Total(U, p, "lock") = Total(S, p, "lock")
            /\ Total(U, p, "lalu") = Total(S, p, "lalu") /\ Total(U, p, "ini") = Total(S, p, "ini")
        BY <1>8
      <4>2. QED BY <4>1 DEF RollupRow
    <3>2. QED BY <1>5, <3>1
  <2>2. QED BY <1>5, <2>1 DEF Turned, TurnedOver
<1>10. Atomic!Roll(kind, U, p) = Replaced(U, p, S[p])
  BY <1>5, <1>9, RollIs
<1>11. \A m \in Node : V[m] = IF m = p THEN S[p] ELSE U[m]
  BY <1>1, <1>2, <1>3 DEF U, V, Above
<1>12. V = [m \in Node |-> V[m]] /\ DOMAIN U = Node
  BY DEF U, V, Above
<1>13. V = [U EXCEPT ![p] = S[p]]
  BY <1>1, <1>11, <1>12
<1>14. QED BY <1>10, <1>13 DEF Replaced, U, V

\* A climb through rows that are settled ends at S.
LEMMA ClimbSettles ==
    ASSUME NEW kind \in Climbing, NEW T \in Table, NEW S \in Table, NEW node \in Node,
           Settled(kind, T, S, node)
    PROVE  Atomic!Climb(kind, Above(T, S, node), node) = S
<1> DEFINE Q == {k \in Nat : \A n \in Line(node) : Depth[n] < k =>
                               Atomic!Climb(kind, Above(T, S, n), n) = S}
<1>1. /\ Depth \in [Node -> Nat] /\ Line(node) \subseteq Node
      /\ \A n \in Node : Parent[n] # NoNode => Parent[n] \in Node /\ Depth[Parent[n]] < Depth[n]
  BY TreeAssumption DEF Line
<1>2. \A n \in Node : Above(T, S, n) \in WideTable
  <2>1. \A n \in Node : Above(T, S, n) \in Table
    BY DEF Above, Table
  <2>2. QED BY <2>1, TablesAreWide
<1>3. 0 \in Q
  BY <1>1
<1>4. ASSUME NEW k \in Nat, k \in Q, NEW n \in Line(node), Depth[n] < k + 1
      PROVE  Atomic!Climb(kind, Above(T, S, n), n) = S
  <2>1. n \in Node
    BY <1>1
  <2>2. CASE Parent[n] = NoNode
    <3>1. \A m \in Node : m \in Line(n) => m = n
      BY <2>1, <2>2, BelowIs DEF Line
    <3>2. Above(T, S, n) = S
      BY <3>1 DEF Above, Table
    <3>3. QED BY <2>1, <2>2, <3>2, <1>2, ClimbFirst
  <2>3. CASE Parent[n] # NoNode
    <3> DEFINE p == Parent[n]
    <3>1. p \in Line(node) /\ Depth[p] < k
      BY <2>1, <2>3, <1>1, <1>4, LineGoesUp
    <3>2. Atomic!Climb(kind, Above(T, S, p), p) = S
      BY <3>1, <1>4
    <3>3. Atomic!Roll(kind, Above(T, S, n), p) = Above(T, S, p)
      BY <2>3, RollSettles
    <3>4. Atomic!Climb(kind, Above(T, S, n), n)
            = Atomic!Climb(kind, Atomic!Roll(kind, Above(T, S, n), p), p)
      BY <2>1, <2>3, <1>2, ClimbFirst
    <3>5. QED BY <3>2, <3>3, <3>4
  <2>4. QED BY <2>2, <2>3
<1>5. \A k \in Nat : k \in Q => k + 1 \in Q
  <2> TAKE k \in Nat
  <2> HAVE k \in Q
  <2>1. k + 1 \in Nat OBVIOUS
  <2>2. QED BY <1>4, <2>1
<1>6. Nat \subseteq Q
  <2> HIDE DEF Q
  <2>1. QED BY <1>3, <1>5, FromZeroUp
<1>7. Depth[node] + 1 \in Nat /\ Depth[node] < Depth[node] + 1 /\ node \in Line(node)
  BY <1>1, BelowIs DEF Line
<1>8. QED BY <1>6, <1>7

\* The row a handler makes of n before it derives: what is asked for at its
\* node, other sums above.
Asked(t, n) ==
    LET new == own[t][n]
        r == req[t]
    IN  IF r.kind = "update"
        THEN IF n = r.node THEN Edited(db[n], r)
             ELSE [db[n] EXCEPT !.pagu = new.pagu, !.lalu = new.lalu, !.ini = new.ini]
        ELSE [db[n] EXCEPT !.lock = IF n = r.node THEN Decimal(r.lock) ELSE new.lock]

Written(t, n) ==
    IF req[t].kind = "update" /\ ~(pc[t] = "derive" /\ n = cur[t]) THEN Derive(Asked(t, n)) ELSE Asked(t, n)

\* A handler holds its node and the rows above it up to the one it stands on.
Traced(t) ==
    /\ Active(t) =>
         /\ cur[t] \in Line(req[t].node)
         /\ \A n \in Node : own[t][n] # Clean <=>
              n \in Line(req[t].node) /\ (n = cur[t] \/ n \notin Line(cur[t]))
         /\ \A n \in Node : own[t][n] # Clean => own[t][n] = Written(t, n)
         /\ pc[t] = "derive" => req[t].kind = "update"
         /\ pc[t] = "commit" => Parent[cur[t]] = NoNode
    /\ pc[t] \in {"derive", "rollup", "commit"} /\ ~Active(t) => db[req[t].node] = NoRow

TraceInv == ApartInv /\ ForestInv /\ \A t \in Tx : Traced(t)

\* The requests of these handlers, and the row each is about.
LEMMA EditKinds ==
    ASSUME EditsApart, ApartInv, NEW t \in Tx, pc[t] # "idle"
    PROVE  /\ req[t] \in Request /\ req[t].kind \in {"update", "lock"} /\ req[t].node \in Node
           /\ req[t].kind = "update" => req[t] \in UpdateRequest
           /\ req[t].kind = "lock" => req[t] \in LockRequest
<1>1. req[t] \in Request
  BY DEF ApartInv, ClimbInv, Climbs
<1>2. QED BY <1>1, RequestKinds DEF EditsApart, EditsOnly, UpdateRequest, LockRequest

\* A statement waits, fails, or writes its row if there is one.
LEMMA EditOutcomes ==
    ASSUME ApartInv, NEW t \in Tx, NEW n \in Node, NEW row,
           NEW next \in {"derive", "rollup"}, Update(t, n, row, next, n)
    PROVE  \/ UNCHANGED <<db, own, pc, req, cur>>
           \/ Release(t) /\ db' = db
           \/ /\ pc'[t] = next /\ cur'[t] = n /\ req' = req /\ db' = db
              /\ IF View(t)[n] # NoRow
                 THEN own'[t] = Replaced(own[t], n, row) /\ row # Clean
                 ELSE own'[t] = own[t]
<1>1. Apart(t) /\ TypeOK BY DEF ApartInv, ClimbInv, LockInv, TypeInv
<1>2. CASE Block(t, n) BY <1>2 DEF Block
<1>3. CASE Rollback(t) BY <1>3 DEF Rollback
<1>4. CASE /\ IF Hit(t, n) THEN row \in Row /\ Store(t, n, row) ELSE Skip(t)
           /\ pc' = [pc EXCEPT ![t] = next]
           /\ cur' = [cur EXCEPT ![t] = n]
           /\ UNCHANGED <<db, req, todo>>
  <2>1. pc'[t] = next /\ cur'[t] = n BY <1>1, <1>4 DEF TypeOK
  <2>2. Seen(t)[n] = NoRow <=> View(t)[n] = NoRow
    BY <1>1 DEF Seen, Apart, Agree
  <2>3. Hit(t, n) <=> View(t)[n] # NoRow BY <2>2 DEF Hit
  <2>4. CASE Hit(t, n)
    <3>1. own'[t] = Replaced(own[t], n, row) /\ row # Clean
      BY <1>1, <1>4, <2>4, ValueAssumption DEF Store, Replaced, TypeOK
    <3>2. QED BY <1>4, <2>1, <2>3, <2>4, <3>1
  <2>5. CASE ~Hit(t, n)
    <3>1. own'[t] = own[t]
      BY <1>4, <2>5 DEF Skip
    <3>2. QED BY <1>4, <2>1, <2>3, <2>5, <3>1
  <2>6. QED BY <2>4, <2>5
<1>5. QED BY <1>2, <1>3, <1>4 DEF Update

\* A handler whose request has ended holds nothing.
LEMMA ReleaseTraced ==
    ASSUME ApartInv, NEW t \in Tx, Release(t)
    PROVE  Traced(t)'
<1>1. TypeOK BY DEF ApartInv, ClimbInv, LockInv, TypeInv
<1>2. pc'[t] = "idle" /\ \A n \in Node : own'[t][n] = Clean
  BY <1>1 DEF TypeOK, Release
<1>3. ~Active(t)' BY <1>2 DEF Active
<1>4. QED BY <1>2, <1>3 DEF Traced

\* What others commit is of no row a handler holds.
LEMMA TracedFrame ==
    ASSUME NEW u \in Tx, Traced(u),
           own'[u] = own[u], pc'[u] = pc[u], req'[u] = req[u], cur'[u] = cur[u],
           \A n \in Node : own[u][n] # Clean => db'[n] = db[n],
           pc[u] \in {"derive", "rollup", "commit"} /\ db[req[u].node] = NoRow
             => db'[req[u].node] = NoRow
    PROVE  Traced(u)'
<1>1. Active(u)' = Active(u) BY DEF Active
<1>2. \A n \in Node : own[u][n] # Clean => Written(u, n)' = Written(u, n)
  BY DEF Written, Asked
<1>3. QED BY <1>1, <1>2 DEF Traced

\* The statement on the node itself.
LEMMA WriteTraced ==
    ASSUME EditsApart, TraceInv, NEW t \in Tx, UpdateWrite(t) \/ LockWrite(t)
    PROVE  Traced(t)'
<1>1. pc[t] = "write" /\ ApartInv
  BY DEF UpdateWrite, LockWrite, TraceInv
<1>2. PICK n \in Node : n = req[t].node
  BY <1>1, EditKinds
<1> DEFINE row == IF req[t].kind = "update" THEN Edited(View(t)[n], req[t])
                  ELSE [View(t)[n] EXCEPT !.lock = Decimal(req[t].lock)]
           next == IF req[t].kind = "update" THEN "derive" ELSE "rollup"
<1>3. ApartInv /\ TypeOK /\ Climbs(t) /\ Traced(t)
  BY DEF TraceInv, ApartInv, ClimbInv, LockInv, TypeInv
<1>4. /\ pc[t] = "write" /\ next \in {"derive", "rollup"} /\ req[t].kind \in {"update", "lock"}
      /\ Update(t, n, row, next, n)
  BY <1>2 DEF UpdateWrite, LockWrite
<1>5. n \in Node /\ req[t].kind \in {"update", "lock"}
  BY <1>3, <1>4, EditKinds
<1>6. /\ \A m \in Node : own[t][m] = Clean
      /\ own[t] \in [Node -> Row \cup {NoRow, Clean}]
  BY <1>3, <1>4 DEF Climbs, TypeOK
<1>7. View(t)[n] = db[n] /\ ~Active(t)
  BY <1>5, <1>6 DEF View, Active
<1>8. n \in Line(n)
  BY <1>5, BelowIs DEF Line
<1>9. CASE UNCHANGED <<db, own, pc, req, cur>>
  BY <1>3, <1>9, TracedFrame
<1>10. CASE Release(t)
  BY <1>3, <1>10, ReleaseTraced
<1>11. CASE /\ pc'[t] = next /\ cur'[t] = n /\ req' = req /\ db' = db
           /\ IF View(t)[n] # NoRow
              THEN own'[t] = Replaced(own[t], n, row) /\ row # Clean
              ELSE own'[t] = own[t]
  <2>1. CASE View(t)[n] = NoRow
    <3>1. own'[t] = own[t] /\ db'[req'[t].node] = NoRow
      BY <1>7, <1>11, <1>2, <2>1
    <3>2. ~Active(t)'
      BY <1>7, <3>1 DEF Active
    <3>3. QED BY <3>1, <3>2 DEF Traced
  <2>2. CASE View(t)[n] # NoRow
    <3>1. /\ own'[t][n] = row /\ row # Clean
          /\ \A m \in Node : m # n => own'[t][m] = Clean
      BY <1>5, <1>6, <1>11, <2>2 DEF Replaced
    <3>2. Active(t)'
      BY <1>5, <3>1 DEF Active
    <3>3. row = Written(t, n)'
      BY <1>4, <1>7, <1>11, <1>2 DEF Written, Asked
    <3> HIDE DEF row
    <3>4. \A m \in Node : own'[t][m] # Clean <=> m \in Line(n) /\ (m = n \/ m \notin Line(n))
      BY <1>8, <3>1
    <3>5. /\ cur'[t] \in Line(n)
          /\ pc'[t] = "derive" => req'[t].kind = "update"
          /\ pc'[t] # "commit"
      BY <1>4, <1>8, <1>11
    <3>6. ASSUME NEW m \in Node, own'[t][m] # Clean PROVE own'[t][m] = Written(t, m)'
      <4>1. m = n
        BY <3>1, <3>6
      <4>2. QED BY <4>1, <3>1, <3>3
    <3>7. cur'[t] = n /\ req'[t].node = n
      BY <1>11, <1>2
    <3> HIDE DEF next
    <3>8. QED BY <3>2, <3>4, <3>5, <3>6, <3>7 DEF Traced
  <2>3. QED BY <2>1, <2>2
<1> HIDE DEF row, next
<1>12. QED BY <1>3, <1>4, <1>5, <1>9, <1>10, <1>11, EditOutcomes

\* The derived columns of the row the handler stands on.
LEMMA DeriveTraced ==
    ASSUME EditsApart, TraceInv, NEW t \in Tx, UpdateDerive(t)
    PROVE  Traced(t)'
<1>1. pc[t] = "derive" /\ TypeInv
  BY DEF UpdateDerive, TraceInv, ApartInv, ClimbInv, LockInv
<1>2. PICK n \in Node : n = cur[t]
  BY <1>1 DEF TypeInv, Staged
<1> DEFINE row == Derive(View(t)[n])
<1>3. /\ ApartInv /\ TypeOK /\ Climbs(t) /\ Traced(t) /\ Staged(t) /\ Apart(t)
      /\ pc[t] = "derive" /\ Update(t, n, row, "rollup", n)
  BY <1>2 DEF UpdateDerive, TraceInv, ApartInv, ClimbInv, LockInv, TypeInv
<1>4. n \in Node /\ req[t].node \in Node /\ own[t] \in [Node -> Row \cup {NoRow, Clean}] /\ db \in Table
  BY <1>3, EditKinds DEF Staged, TypeOK
<1>5. CASE UNCHANGED <<db, own, pc, req, cur>>
  BY <1>2, <1>3, <1>5, TracedFrame
<1>6. CASE Release(t)
  BY <1>2, <1>3, <1>6, ReleaseTraced
<1>7. CASE /\ pc'[t] = "rollup" /\ cur'[t] = n /\ req' = req /\ db' = db
           /\ IF View(t)[n] # NoRow
              THEN own'[t] = Replaced(own[t], n, row) /\ row # Clean
              ELSE own'[t] = own[t]
  <2>1. CASE ~Active(t)
    <3>1. View(t)[n] = NoRow
      BY <1>2, <1>3, <2>1, ViewApart DEF Apart
    <3>2. own'[t] = own[t]
      BY <1>2, <1>7, <3>1
    <3>3. ~Active(t)'
      BY <2>1, <3>2 DEF Active
    <3>4. db[req[t].node] = NoRow
      BY <1>2, <1>3, <2>1 DEF Traced
    <3>5. QED BY <1>2, <1>7, <3>3, <3>4 DEF Traced
  <2>2. CASE Active(t)
    <3>1. /\ req[t].kind = "update" /\ n \in Line(req[t].node) /\ own[t][n] # Clean
          /\ own[t][n] = Written(t, n)
      BY <1>2, <1>3, <1>4, <2>2 DEF Traced
    <3>2. own[t][n] = Asked(t, n)
      BY <1>2, <1>3, <3>1 DEF Written
    <3>3. View(t)[n] = own[t][n] /\ own[t][n] # NoRow /\ own[t][n] \in Row
      BY <1>2, <1>3, <1>4, <3>1 DEF View, Apart
    <3>4. /\ own'[t][n] = Derive(own[t][n]) /\ own'[t][n] # Clean
          /\ \A m \in Node : m # n => own'[t][m] = own[t][m]
      BY <1>2, <1>4, <1>7, <3>3 DEF Replaced
    <3>5. Asked(t, n)' = Asked(t, n)
      <4>1. /\ Derive(own[t][n]).pagu = own[t][n].pagu /\ Derive(own[t][n]).lalu = own[t][n].lalu
            /\ Derive(own[t][n]).ini = own[t][n].ini
        BY <1>2, <3>3 DEF Derive, Row
      <4>2. QED BY <1>2, <1>7, <3>1, <3>4, <4>1 DEF Asked
    <3>6. own'[t][n] = Written(t, n)'
      BY <1>2, <1>7, <3>1, <3>2, <3>4, <3>5 DEF Written
    <3>7. ASSUME NEW m \in Node, own'[t][m] # Clean, m # n
          PROVE  own'[t][m] = Written(t, m)'
      <4>1. own'[t][m] = own[t][m] /\ own[t][m] = Written(t, m)
        BY <1>2, <1>3, <2>2, <3>4, <3>7 DEF Traced
      <4>2. Asked(t, m)' = Asked(t, m)
        BY <1>2, <1>7, <4>1 DEF Asked
      <4>3. QED BY <1>2, <1>3, <1>7, <3>1, <3>7, <4>1, <4>2 DEF Written
    <3>8. \A m \in Node : own'[t][m] # Clean <=> own[t][m] # Clean
      BY <1>2, <3>1, <3>4
    <3>9. \A m \in Node : own'[t][m] # Clean => own'[t][m] = Written(t, m)'
      <4> SUFFICES ASSUME NEW m \in Node, own'[t][m] # Clean PROVE own'[t][m] = Written(t, m)'
        OBVIOUS
      <4>1. CASE m = n BY <4>1, <3>6
      <4>2. CASE m # n BY <4>2, <3>7
      <4>3. QED BY <4>1, <4>2
    <3>10. Active(t)'
      BY <1>2, <1>4, <3>4 DEF Active
    <3>11. cur'[t] = cur[t] /\ req'[t] = req[t] /\ pc'[t] = "rollup"
      BY <1>2, <1>7
    <3>12. \A m \in Node : own[t][m] # Clean <=>
             m \in Line(req[t].node) /\ (m = cur[t] \/ m \notin Line(cur[t]))
      BY <1>2, <1>3, <2>2 DEF Traced
    <3>13. QED BY <1>2, <3>1, <3>8, <3>9, <3>10, <3>11, <3>12 DEF Traced
  <2>3. QED BY <2>1, <2>2
<1> HIDE DEF row
<1>8. QED BY <1>2, <1>3, <1>4, <1>5, <1>6, <1>7, EditOutcomes

\* A handler that goes on holds a row, and the row above it is there.
LEMMA GoesOn ==
    ASSUME EditsApart, TraceInv, NEW t \in Tx, pc[t] = "rollup", ~AtTop(t)
    PROVE  /\ Active(t) /\ cur[t] \in Node /\ own[t][cur[t]] # Clean
           /\ Parent[cur[t]] \in Node /\ View(t)[Parent[cur[t]]] # NoRow
<1>1. /\ ApartInv /\ TypeOK /\ Traced(t) /\ Staged(t) /\ Apart(t) /\ db \in Table
  BY DEF TraceInv, ApartInv, ClimbInv, LockInv, TypeInv, TypeOK
<1>2. /\ req[t].kind \in {"update", "lock"} /\ cur[t] \in Node
  BY <1>1, EditKinds DEF Staged
<1>3. Active(t)
  <2>1. CASE want[t] # NoNode BY <1>1, <2>1 DEF Apart
  <2>2. CASE want[t] = NoNode
    <3>1. View(t)[cur[t]] # NoRow BY <1>2, <2>2 DEF AtTop
    <3>2. QED BY <1>1, <3>1, ViewApart DEF Apart
  <2>3. QED BY <2>1, <2>2
<1>4. own[t][cur[t]] # Clean
  BY <1>1, <1>2, <1>3 DEF Traced
<1>5. View(t)[cur[t]] # NoRow /\ db[cur[t]] # NoRow
  BY <1>1, <1>2, <1>4 DEF Apart, View
<1>6. Parent[cur[t]] \in Node
  BY <1>1, <1>2, TreeAssumption DEF AtTop, Staged, TypeOK
<1>7. db[Parent[cur[t]]] # NoRow
  BY <1>2, <1>5, <1>6, TreeAssumption DEF TraceInv, ForestInv, ForestClosed
<1>8. View(t)[Parent[cur[t]]] # NoRow
  BY <1>1, <1>6, <1>7 DEF View, Apart
<1>9. QED BY <1>2, <1>3, <1>4, <1>6, <1>8

\* One turn: the row above is the handler's, and it stands on it.
LEMMA RollupTraced ==
    ASSUME EditsApart, TraceInv, NEW t \in Tx, Rollup(t)
    PROVE  Traced(t)'
<1>1. /\ ApartInv /\ TypeOK /\ Traced(t) /\ Apart(t) /\ db \in Table
      /\ pc[t] = "rollup" /\ ~AtTop(t)
  BY DEF Rollup, TraceInv, ApartInv, ClimbInv, LockInv, TypeInv, TypeOK
<1>2. PICK n \in Node : n = cur[t]
  BY <1>1, GoesOn
<1>3. PICK p \in Node : p = Parent[n] /\ View(t)[p] # NoRow
  BY <1>1, <1>2, GoesOn
<1>4. PICK node \in Node : node = req[t].node
  BY <1>1, EditKinds
<1>5. /\ Active(t) /\ own[t][n] # Clean /\ own[t][node] # Clean
      /\ req[t].kind \in {"update", "lock"} /\ own[t] \in [Node -> Row \cup {NoRow, Clean}]
  BY <1>1, <1>2, <1>4, GoesOn, EditKinds DEF Apart, TypeOK
<1> DEFINE row == RollupRow(req[t].kind, View(t)[p], Seen(t), p)
           next == IF req[t].kind = "update" THEN "derive" ELSE "rollup"
<1>6. Update(t, p, row, next, p) /\ next \in {"derive", "rollup"}
  BY <1>2, <1>3 DEF Rollup
<1>7. CASE UNCHANGED <<db, own, pc, req, cur>>
  BY <1>1, <1>7, TracedFrame
<1>8. CASE Release(t)
  BY <1>1, <1>8, ReleaseTraced
<1>9. /\ n \in Line(node)
      /\ \A m \in Node : own[t][m] # Clean <=> m \in Line(node) /\ (m = n \/ m \notin Line(n))
      /\ \A m \in Node : own[t][m] # Clean => own[t][m] = Written(t, m)
  BY <1>1, <1>2, <1>4, <1>5 DEF Traced
<1>10. /\ p \in Line(node) /\ p \in Line(n) /\ p # n /\ n \notin Line(p)
       /\ \A m \in Node : m # n => (m \in Line(n) <=> m \in Line(p))
  <2>1. p # n /\ Parent[n] # NoNode /\ Depth[p] < Depth[n] /\ Depth[p] \in Nat /\ Depth[n] \in Nat
    BY <1>3, TreeAssumption
  <2>2. \A m \in Node : m \in Line(n) <=> n = m \/ m \in Line(p)
    BY <1>3, <2>1, BelowIs DEF Line
  <2>3. \A m \in Node : m \in Line(m)
    BY BelowIs DEF Line
  <2>4. p \in Line(node)
    BY <1>3, <1>9, <2>1, LineGoesUp
  <2>5. n \in Line(p) => Depth[n] <= Depth[p]
    BY LineGoesUp
  <2>6. QED BY <2>1, <2>2, <2>3, <2>4, <2>5
<1>11. own[t][p] = Clean /\ p # node
  BY <1>5, <1>9, <1>10
<1>12. View(t)[p] = db[p] /\ db[p] \in Row
  BY <1>1, <1>3, <1>11 DEF View, Table
<1>13. CASE /\ pc'[t] = next /\ cur'[t] = p /\ req' = req /\ db' = db
            /\ IF View(t)[p] # NoRow
               THEN own'[t] = Replaced(own[t], p, row) /\ row # Clean
               ELSE own'[t] = own[t]
  <2>1. /\ own'[t][p] = row /\ row # Clean
        /\ \A m \in Node : m # p => own'[t][m] = own[t][m]
    BY <1>3, <1>5, <1>13 DEF Replaced
  <2>2. Active(t)'
    BY <2>1 DEF Active
  <2>3. row = Written(t, p)'
    <3>1. row = Asked(t, p)'
      <4>1. CASE req[t].kind = "update"
        <5>1. row = [db[p] EXCEPT !.pagu = row.pagu, !.lalu = row.lalu, !.ini = row.ini]
          BY <1>12, <4>1 DEF RollupRow, Row
        <5> HIDE DEF row
        <5>2. QED BY <1>4, <1>11, <1>13, <2>1, <4>1, <5>1 DEF Asked
      <4>2. CASE req[t].kind = "lock"
        <5>1. row = [db[p] EXCEPT !.lock = row.lock]
          BY <1>12, <4>2 DEF RollupRow, Row
        <5> HIDE DEF row
        <5>2. QED BY <1>4, <1>11, <1>13, <2>1, <4>2, <5>1 DEF Asked
      <4>3. QED BY <1>5, <4>1, <4>2
    <3>2. Written(t, p)' = Asked(t, p)'
      BY <1>5, <1>13 DEF Written
    <3>3. QED BY <3>1, <3>2
  <2> HIDE DEF row
  <2>4. ASSUME NEW m \in Node, own'[t][m] # Clean PROVE own'[t][m] = Written(t, m)'
    <3>1. CASE m = p
      BY <2>1, <2>3, <3>1
    <3>2. CASE m # p
      <4>1. own'[t][m] = own[t][m] /\ own[t][m] = Written(t, m)
        BY <1>9, <2>1, <2>4, <3>2
      <4>2. Asked(t, m)' = Asked(t, m)
        BY <1>13, <4>1 DEF Asked
      <4>3. Written(t, m)' = Written(t, m)
        BY <1>1, <1>13, <3>2, <4>2 DEF Written
      <4>4. QED BY <4>1, <4>3
    <3>3. QED BY <3>1, <3>2
  <2>5. \A m \in Node : own'[t][m] # Clean <=> m \in Line(node) /\ (m = p \/ m \notin Line(p))
    BY <1>9, <1>10, <1>11, <2>1
  <2>6. /\ cur'[t] = p /\ req'[t].node = node /\ pc'[t] # "commit"
        /\ pc'[t] = "derive" => req'[t].kind = "update"
    BY <1>4, <1>5, <1>13
  <2>7. QED BY <1>10, <2>2, <2>4, <2>5, <2>6 DEF Traced
<1> HIDE DEF row, next
<1>14. QED BY <1>1, <1>6, <1>7, <1>8, <1>13, EditOutcomes

\* The loop of a handler that holds a row ends at the root.
LEMMA RollupEndTraced ==
    ASSUME EditsApart, TraceInv, NEW t \in Tx, RollupEnd(t)
    PROVE  Traced(t)'
<1>1. /\ ApartInv /\ TypeOK /\ Traced(t) /\ Staged(t) /\ Apart(t)
      /\ pc[t] = "rollup" /\ pc'[t] = "commit" /\ AtTop(t)
      /\ UNCHANGED <<db, own, req, cur>>
  BY DEF RollupEnd, TraceInv, ApartInv, ClimbInv, LockInv, TypeInv, TypeOK
<1>2. cur[t] \in Node /\ req[t].kind # "delete"
  BY <1>1, EditKinds DEF Staged
<1>3. Active(t)' = Active(t)
  BY <1>1 DEF Active
<1>4. Active(t) => Parent[cur[t]] = NoNode
  <2> SUFFICES ASSUME Active(t) PROVE Parent[cur[t]] = NoNode
    OBVIOUS
  <2>1. own[t][cur[t]] # Clean
    BY <1>1, <1>2 DEF Traced
  <2>2. View(t)[cur[t]] # NoRow
    BY <1>1, <1>2, <2>1 DEF View, Apart
  <2>3. QED BY <1>1, <1>2, <2>2 DEF AtTop
<1>5. \A n \in Node : Written(t, n)' = Written(t, n)
  BY <1>1 DEF Written, Asked
<1>6. QED BY <1>1, <1>3, <1>4, <1>5 DEF Traced

\* Every step of a handler.
LEMMA OwnTraced ==
    ASSUME EditsApart, TraceInv, NEW t \in Tx,
           Begin(t) \/ Step(t) \/ Fail(t) \/ Victim(t)
    PROVE  Traced(t)'
<1>1. ApartInv /\ TypeOK /\ Staged(t) /\ Climbs(t)
  BY DEF TraceInv, ApartInv, ClimbInv, LockInv, TypeInv
<1>2. CASE Begin(t)
  <2>1. \A r \in Request : r.kind \in {"update", "lock"}
    BY RequestKinds DEF EditsApart, EditsOnly, UpdateRequest, LockRequest
  <2>2. pc'[t] = "write" /\ own' = own /\ pc[t] = "idle"
    BY <1>1, <1>2, <2>1 DEF Begin, FirstStep, TypeOK
  <2>3. ~Active(t)'
    BY <1>1, <2>2 DEF Climbs, Active
  <2>4. QED BY <2>2, <2>3 DEF Traced
<1>3. CASE Commit(t) \/ Fail(t) \/ Victim(t)
  BY <1>1, <1>3, ReleaseTraced DEF Commit, Fail, Victim, Rollback
<1>4. CASE UpdateWrite(t) \/ LockWrite(t)
  BY <1>4, WriteTraced
<1>5. CASE UpdateDerive(t) BY <1>5, DeriveTraced
<1>6. CASE Rollup(t) BY <1>6, RollupTraced
<1>7. CASE RollupEnd(t) BY <1>7, RollupEndTraced
<1>8. ~ \/ DeleteLookup(t) \/ DeleteWrite(t) \/ Cascade(t) \/ CascadeEnd(t)
        \/ ImportUpsert(t) \/ RolloverSweep(t) \/ WorkEnd(t)
  <2>1. pc[t] # "idle" => req[t].kind \in {"update", "lock"}
    BY <1>1, EditKinds
  <2>2. QED BY <1>1, <2>1 DEF DeleteLookup, DeleteWrite, Cascade, CascadeEnd,
       ImportUpsert, RolloverSweep, WorkEnd, Climbs
<1>9. QED BY <1>2, <1>3, <1>4, <1>5, <1>6, <1>7, <1>8 DEF Step

\* A commit takes away no row and changes none that another handler holds.
LEMMA OthersTraced ==
    ASSUME EditsApart, TraceInv, NEW t \in Tx, Begin(t) \/ Step(t) \/ Fail(t) \/ Victim(t),
           NEW u \in Tx \ {t}
    PROVE  Traced(u)'
<1>1. /\ ApartInv /\ TypeInv /\ RowLockExclusive /\ Traced(u)
  BY DEF TraceInv, ApartInv, ClimbInv, LockInv
<1>2. /\ own'[u] = own[u] /\ pc'[u] = pc[u] /\ req'[u] = req[u] /\ cur'[u] = cur[u]
      /\ ~Commit(t) => db' = db
  BY <1>1, StepFrame, EditFrame
<1>3. CASE ~Commit(t)
  BY <1>1, <1>2, <1>3, TracedFrame
<1>4. CASE Commit(t)
  <2>1. db' = View(t)
    BY <1>4 DEF Commit
  <2>2. \A n \in Node : own[u][n] # Clean => db'[n] = db[n]
    BY <1>1, <2>1 DEF RowLockExclusive, View
  <2>3. \A n \in Node : db[n] = NoRow => db'[n] = NoRow
    BY <1>1, <2>1, ViewApart DEF Agree
  <2>4. pc[u] \in {"derive", "rollup", "commit"} => req[u].node \in Node
    BY <1>1, EditKinds
  <2>5. QED BY <1>1, <1>2, <2>2, <2>3, <2>4, TracedFrame
<1>5. QED BY <1>3, <1>4

\* What a handler that holds a row commits: settled above its node, the rows of
\* now beside the line.
LEMMA CommitSettled ==
    ASSUME EditsApart, TraceInv, NEW t \in Tx, pc[t] = "commit", Active(t)
    PROVE  /\ Settled(req[t].kind, db, View(t), req[t].node)
           /\ db[req[t].node] # NoRow
           /\ View(t)[req[t].node] =
                IF req[t].kind = "update" THEN Derive(Edited(db[req[t].node], req[t]))
                ELSE [db[req[t].node] EXCEPT !.lock = Decimal(req[t].lock)]
           /\ \A n \in Node : n \notin Line(req[t].node) => View(t)[n] = db[n]
<1>1. /\ ApartInv /\ TypeOK /\ Traced(t) /\ Apart(t) /\ db \in Table /\ View(t) \in Table
  BY ViewType DEF TraceInv, ApartInv, ClimbInv, LockInv, TypeInv, TypeOK
<1>2. PICK node \in Node : node = req[t].node
  BY <1>1, EditKinds
<1>3. req[t].kind \in {"update", "lock"}
  BY <1>1, EditKinds
<1>4. /\ Parent[cur[t]] = NoNode /\ cur[t] \in Line(node)
      /\ \A n \in Node : own[t][n] # Clean => own[t][n] = Written(t, n)
      /\ \A n \in Node : own[t][n] # Clean <=> n \in Line(node) /\ (n = cur[t] \/ n \notin Line(cur[t]))
  BY <1>1, <1>2 DEF Traced
<1>5. \A n \in Node : own[t][n] # Clean <=> n \in Line(node)
  <2>1. cur[t] \in Node
    BY <1>4 DEF Line
  <2>2. \A n \in Node : n \in Line(cur[t]) => n = cur[t]
    BY <1>4, <2>1, BelowIs DEF Line
  <2>3. QED BY <1>4, <2>2
<1>6. \A n \in Node : /\ n \in Line(node) => View(t)[n] = own[t][n] /\ db[n] # NoRow
                      /\ n \notin Line(node) => View(t)[n] = db[n]
  BY <1>1, <1>5 DEF View, Apart
<1>7. node \in Line(node)
  BY BelowIs DEF Line
<1>8. ASSUME NEW p \in Line(node), p # node
      PROVE  View(t)[p] = TurnedOver(req[t].kind, db[p], View(t), p)
  <2>1. p \in Node /\ own[t][p] # Clean /\ View(t)[p] = own[t][p] /\ db[p] \in Row
        /\ View(t)[p] # NoRow
    BY <1>1, <1>5, <1>6, <1>8 DEF Line, Table, Apart
  <2>2. Children(View(t), p) # {}
    <3>1. PICK c \in Line(node) : Parent[c] = p
      BY <1>8, LineGoesUp
    <3>2. c \in Node /\ View(t)[c] # NoRow
      BY <1>1, <1>5, <1>6, <3>1 DEF Line, Apart
    <3>3. QED BY <3>1, <3>2 DEF Children
  <2>3. \A f \in Columns(req[t].kind) : own[t][p][f] = Total(View(t), p, f)
    <3>1. ~Pending(t, p) BY DEF Pending
    <3>2. HoldsAt(View(t), Columns(req[t].kind), p)
      BY <1>1, <2>1, <3>1, SeenSums
    <3>3. QED BY <2>1, <2>2, <3>2 DEF HoldsAt
  <2>4. own[t][p] = Written(t, p)
    BY <1>4, <2>1
  <2>5. CASE req[t].kind = "update"
    <3>1. /\ own[t][p].pagu = Total(View(t), p, "pagu") /\ own[t][p].lalu = Total(View(t), p, "lalu")
          /\ own[t][p].ini = Total(View(t), p, "ini")
      BY <2>3, <2>5 DEF Columns
    <3>2. Asked(t, p) = RollupRow("update", db[p], View(t), p)
      BY <1>2, <1>8, <2>5, <3>1 DEF Asked, RollupRow
    <3>3. own[t][p] = Derive(Asked(t, p))
      BY <2>4, <2>5 DEF Written
    <3>4. QED BY <2>1, <2>5, <3>2, <3>3 DEF TurnedOver
  <2>6. CASE req[t].kind = "lock"
    <3>1. own[t][p].lock = Total(View(t), p, "lock")
      BY <2>3, <2>6 DEF Columns
    <3>2. Asked(t, p) = RollupRow("lock", db[p], View(t), p)
      BY <1>2, <1>8, <2>6, <3>1 DEF Asked, RollupRow
    <3>3. own[t][p] = Asked(t, p)
      BY <2>4, <2>6 DEF Written
    <3>4. QED BY <2>1, <2>6, <3>2, <3>3 DEF TurnedOver
  <2>7. QED BY <1>3, <2>5, <2>6
<1>9. Settled(req[t].kind, db, View(t), node)
  <2>1. \A p \in Line(node) : db[p] # NoRow
    BY <1>6 DEF Line
  <2>2. QED BY <1>8, <2>1 DEF Settled
<1>10. View(t)[node] = IF req[t].kind = "update" THEN Derive(Edited(db[node], req[t]))
                       ELSE [db[node] EXCEPT !.lock = Decimal(req[t].lock)]
  BY <1>2, <1>4, <1>5, <1>6, <1>7 DEF Written, Asked
<1>11. QED BY <1>2, <1>6, <1>7, <1>9, <1>10

\* A commit is one step of AnggaranTree.
LEMMA EditCommits ==
    ASSUME EditsApart, TraceInv, NEW t \in Tx, Commit(t)
    PROVE  Atomic!Next
<1>1. /\ ApartInv /\ TypeOK /\ Traced(t) /\ db \in Table /\ View(t) \in Table
      /\ pc[t] = "commit" /\ db' = View(t)
  BY ViewType DEF Commit, TraceInv, ApartInv, ClimbInv, LockInv, TypeInv, TypeOK
<1>2. req[t] \in Request /\ req[t].kind \in {"update", "lock"} /\ req[t].node \in Node
  BY <1>1, EditKinds
<1>3. PICK node \in Node : node = req[t].node
  BY <1>2
<1>4. PICK kind \in Climbing : kind = req[t].kind
  BY <1>2 DEF Climbing
<1>5. PICK T \in Table : T = db
  BY <1>1
<1>6. PICK S \in Table : S = View(t)
  BY <1>1
<1>7. Atomic!Result(T, req[t]) = S
  <2>1. CASE ~Active(t)
    <3>1. T[node] = NoRow /\ S = T
      BY <1>1, <1>3, <1>5, <1>6, <2>1, ViewApart DEF Traced
    <3>2. QED BY <1>2, <1>3, <3>1, ResultIs
  <2>2. CASE Active(t)
    <3>1. /\ Settled(kind, T, S, node) /\ T[node] # NoRow
          /\ S[node] = IF kind = "update" THEN Derive(Edited(T[node], req[t]))
                       ELSE [T[node] EXCEPT !.lock = Decimal(req[t].lock)]
          /\ \A n \in Node : n \notin Line(node) => S[n] = T[n]
      BY <1>1, <1>3, <1>4, <1>5, <1>6, <2>2, CommitSettled
    <3>2. Above(T, S, node) = Replaced(T, node, S[node])
      <4>1. \A n \in Node : Above(T, S, node)[n] = IF n = node THEN S[node] ELSE T[n]
        BY <3>1 DEF Above
      <4>2. Above(T, S, node) = [n \in Node |-> IF n = node THEN S[node] ELSE T[n]]
        BY <4>1 DEF Above
      <4>3. QED BY <4>2 DEF Replaced, Table
    <3>3. Atomic!Climb(kind, Replaced(T, node, S[node]), node) = S
      BY <3>1, <3>2, ClimbSettles
    <3>4. Atomic!Result(T, req[t]) = Atomic!Climb(kind, Replaced(T, node, S[node]), node)
      <4>1. CASE kind = "update"
        BY <1>2, <1>3, <1>4, <3>1, <4>1, ResultIs
      <4>2. CASE kind = "lock"
        <5>1. S[node] = [T[node] EXCEPT !.lock = Decimal(req[t].lock)]
          BY <3>1, <4>2
        <5>2. Atomic!Result(T, req[t]) =
                Atomic!Climb("lock", Replaced(T, node, [T[node] EXCEPT !.lock = Decimal(req[t].lock)]), node)
          BY <1>2, <1>3, <1>4, <3>1, <4>2, ResultIs
        <5>3. QED BY <4>2, <5>1, <5>2
      <4>3. QED BY <1>2, <1>4, <4>1, <4>2
    <3>5. QED BY <3>3, <3>4
  <2>3. QED BY <2>1, <2>2
<1>8. QED BY <1>1, <1>2, <1>5, <1>6, <1>7 DEF Atomic!Next

\* Every step of the system.
LEMMA TraceInvNext ==
    EditsApart /\ TraceInv /\ [Next]_vars => TraceInv' /\ [Atomic!Next]_db
<1> SUFFICES ASSUME EditsApart, TraceInv, [Next]_vars PROVE TraceInv' /\ [Atomic!Next]_db
  OBVIOUS
<1>1. ApartInv' /\ ForestInv'
  BY ApartInvNext, ForestInvNext DEF TraceInv
<1>2. CASE UNCHANGED vars
  <2>1. \A t \in Tx : Traced(t)'
    BY <1>2, TracedFrame DEF vars, TraceInv
  <2>2. QED BY <1>1, <1>2, <2>1 DEF TraceInv, vars
<1>3. ASSUME NEW t \in Tx, Begin(t) \/ Step(t) \/ Fail(t) \/ Victim(t)
      PROVE  TraceInv' /\ [Atomic!Next]_db
  <2>1. \A u \in Tx : Traced(u)'
    <3>1. Traced(t)' BY <1>3, OwnTraced
    <3>2. \A u \in Tx \ {t} : Traced(u)' BY <1>3, OthersTraced
    <3>3. QED BY <3>1, <3>2
  <2>2. CASE Commit(t)
    BY <1>1, <2>1, <2>2, EditCommits DEF TraceInv
  <2>3. CASE ~Commit(t)
    <3>1. db' = db
      BY <1>3, <2>3 DEF Step, Begin, UpdateWrite, UpdateDerive, LockWrite, Rollup,
         RollupEnd, DeleteLookup, DeleteWrite, Cascade, CascadeEnd, ImportUpsert,
         RolloverSweep, WorkEnd, Fail, Victim, Update, Block, Rollback
    <3>2. QED BY <1>1, <2>1, <3>1 DEF TraceInv
  <2>4. QED BY <2>2, <2>3
<1>4. QED BY <1>2, <1>3 DEF Next

\* Any number of pagu edits of one leaf beside lock edits of one leaf, from any
\* consistent forest: at each commit the table changes as AnggaranTree says of that
\* one request, so no edit loses what another has committed during its climb.
THEOREM EditsAtomic ==
    ASSUME EditsApart, NEW T \in Table,
           \A p \in Node : T[p] # NoRow /\ Children(T, p) # {} => SumsHold("all", T, p),
           \A n \in Node : T[n] # NoRow /\ Parent[n] # NoNode => T[Parent[n]] # NoRow
    PROVE  SeededAt(T) => AtomicSteps
<1>1. Started(T) => TraceInv
  <2> SUFFICES ASSUME Started(T) PROVE TraceInv
    OBVIOUS
  <2>1. ForestInv BY StartedForest
  <2>2. ApartInv BY StartedApart
  <2>3. \A t \in Tx : Traced(t) BY DEF Started, Traced, Active
  <2>4. QED BY <2>1, <2>2, <2>3 DEF TraceInv
<1>2. TraceInv /\ [Next]_vars => TraceInv' /\ [Atomic!Next]_db
  BY TraceInvNext
<1>3. QED BY <1>1, <1>2, PTL DEF SeededAt, AtomicSteps

=============================================================================
