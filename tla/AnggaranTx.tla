----------------------------- MODULE AnggaranTx -----------------------------
(***************************************************************************)
(* The budget tree (table anggaran_node) and the request handlers of        *)
(* backend/internal/api/handlers/anggaran.go that change it, each running   *)
(* its SQL statements one at a time in a PostgreSQL transaction at the      *)
(* default isolation level, READ COMMITTED.                                 *)
(*                                                                         *)
(* A written row stays locked until its transaction ends.  A statement that *)
(* meets a locked row waits, then updates the newest version of that row,   *)
(* while its subqueries still read the snapshot it started with.  A         *)
(* statement that computes a value out of the range of its column fails,    *)
(* and its transaction with it.                                             *)
(***************************************************************************)
EXTENDS AnggaranData

CONSTANT Tx    \* handlers that may run at the same time

VARIABLES
    db,      \* the committed rows
    own,     \* own[t][n]: the row version t has written, Clean if none
    pc,      \* pc[t]: the statement t runs next
    req,     \* req[t]: the request t serves
    cur,     \* cur[t]: currNode of the roll-up loop
    todo,    \* todo[t]: rows an import or a rollover has still to write
    want,    \* want[t]: the row t's statement waits for, NoNode if it runs
    snap     \* snap[t]: the snapshot of the statement that waits

vars == <<db, own, pc, req, cur, todo, want, snap>>

-----------------------------------------------------------------------------
(* What a transaction sees, and row locks.                                 *)

\* READ COMMITTED: a statement starts on the committed rows and its own writes.
View(t) == [n \in Node |-> IF own[t][n] = Clean THEN db[n] ELSE own[t][n]]

\* The snapshot of the running statement: a statement that has waited for a
\* row lock evaluates its subqueries on the snapshot it started with.
Seen(t) == IF want[t] = NoNode THEN View(t) ELSE snap[t]

\* A written row stays locked until its transaction ends.
Free(t, n) == \A u \in Tx \ {t} : own[u][n] = Clean

\* UPDATE or DELETE by id finds the row in its snapshot and locks it; it
\* touches the row if no other transaction has deleted it in the meantime.
Ready(t, n) == Seen(t)[n] = NoRow \/ Free(t, n)
Hit(t, n) == Seen(t)[n] # NoRow /\ View(t)[n] # NoRow

-----------------------------------------------------------------------------
(* The end of a transaction.                                               *)

Release(t) ==
    /\ own' = [own EXCEPT ![t] = [n \in Node |-> Clean]]
    /\ pc' = [pc EXCEPT ![t] = "idle"]
    /\ cur' = [cur EXCEPT ![t] = NoNode]
    /\ todo' = [todo EXCEPT ![t] = {}]
    /\ want' = [want EXCEPT ![t] = NoNode]
    /\ snap' = [snap EXCEPT ![t] = EmptyTable]
    /\ req' = [req EXCEPT ![t] = NoRequest]

Rollback(t) == Release(t) /\ UNCHANGED db

Commit(t) ==
    /\ pc[t] = "commit"
    /\ db' = View(t)
    /\ Release(t)

\* The client goes away, the connection or a statement fails, the server stops.
Fail(t) == pc[t] # "idle" /\ Rollback(t)

-----------------------------------------------------------------------------
(* One statement on row n.                                                 *)

Block(t, n) ==
    /\ want[t] = NoNode
    /\ want' = [want EXCEPT ![t] = n]
    /\ snap' = [snap EXCEPT ![t] = View(t)]
    /\ UNCHANGED <<db, own, pc, req, cur, todo>>

Store(t, n, row) ==
    /\ own' = [own EXCEPT ![t][n] = row]
    /\ want' = [want EXCEPT ![t] = NoNode]
    /\ snap' = [snap EXCEPT ![t] = EmptyTable]

Skip(t) ==
    /\ want' = [want EXCEPT ![t] = NoNode]
    /\ snap' = [snap EXCEPT ![t] = EmptyTable]
    /\ UNCHANGED own

\* Variant: no range check of the computed columns.
UpdateUnchecked(t, n, row, next, at) ==
    \/ ~Ready(t, n) /\ Block(t, n)
    \/ /\ Ready(t, n)
       /\ IF Hit(t, n) THEN Store(t, n, row) ELSE Skip(t)
       /\ pc' = [pc EXCEPT ![t] = next]
       /\ cur' = [cur EXCEPT ![t] = at]
       /\ UNCHANGED <<db, req, todo>>

\* UPDATE anggaran_node SET ... WHERE id = n: the new version of the row, and
\* the step after it.  Blocked by a lock, without a row to touch, out of range.
Update(t, n, row, next, at) ==
    \/ ~Ready(t, n) /\ Block(t, n)
    \/ /\ Ready(t, n)
       /\ IF Hit(t, n) THEN row \in Row /\ Store(t, n, row) ELSE Skip(t)
       /\ pc' = [pc EXCEPT ![t] = next]
       /\ cur' = [cur EXCEPT ![t] = at]
       /\ UNCHANGED <<db, req, todo>>
    \/ Ready(t, n) /\ Hit(t, n) /\ row \notin Row /\ Rollback(t)

-----------------------------------------------------------------------------
(* The handlers.  A definition whose comment says "Variant" is a plausible *)
(* slip in the one that follows it; no specification uses it.              *)

FirstStep(kind) ==
    CASE kind = "update" -> "write" [] kind = "lock" -> "write"
      [] kind = "delete" -> "lookup" [] kind = "import" -> "upsert"
      [] kind = "rollover" -> "sweep"

\* pool.Begin.  The rollover's only statement takes its rows from the
\* snapshot it starts on.
Begin(t) ==
    /\ pc[t] = "idle"
    /\ \E r \in Request :
         /\ req' = [req EXCEPT ![t] = r]
         /\ pc' = [pc EXCEPT ![t] = FirstStep(r.kind)]
         /\ todo' = [todo EXCEPT ![t] =
               CASE r.kind = "import" -> DOMAIN r.file
                 [] r.kind = "rollover" -> {n \in Node : db[n] # NoRow}
                 [] OTHER -> {}]
    /\ UNCHANGED <<db, own, cur, want, snap>>

\* Variant: the root is locked before the node.
UpdateWriteRootFirst(t) ==
    LET r == req[t]
        root == CHOOSE n \in Node : Parent[n] = NoNode
    IN  /\ pc[t] = "write" /\ r.kind = "update"
        /\ IF own[t][root] = Clean
           THEN Update(t, root, View(t)[root], "write", NoNode)
           ELSE Update(t, r.node, Edited(View(t)[r.node], r), "derive", r.node)

\* UpdateAnggaranNode: the requested columns of the node itself.
UpdateWrite(t) ==
    LET r == req[t]
    IN  /\ pc[t] = "write" /\ r.kind = "update"
        /\ Update(t, r.node, Edited(View(t)[r.node], r), "derive", r.node)

\* Variant: the loop stops at the node.
UpdateDeriveOnce(t) ==
    /\ pc[t] = "derive"
    /\ Update(t, cur[t], Derive(View(t)[cur[t]]), "commit", cur[t])

\* Variant: the row to derive from is read outside the transaction.
UpdateDeriveFromPool(t) ==
    LET new == Derive(db[cur[t]])
    IN  /\ pc[t] = "derive"
        /\ Update(t, cur[t], [View(t)[cur[t]] EXCEPT !.sd = new.sd, !.sisa = new.sisa,
                                                     !.persen = new.persen], "rollup", cur[t])

\* UpdateAnggaranNode, first statement of the loop: the derived columns.
UpdateDerive(t) ==
    /\ pc[t] = "derive"
    /\ Update(t, cur[t], Derive(View(t)[cur[t]]), "rollup", cur[t])

\* UpdateLockPagu: lock_pagu of the node itself.
LockWrite(t) ==
    LET r == req[t]
    IN  /\ pc[t] = "write" /\ r.kind = "lock"
        /\ Update(t, r.node, [View(t)[r.node] EXCEPT !.lock = Decimal(r.lock)],
                  "rollup", r.node)

\* The loop ends at a root, or when the SELECT of parent_id finds no row: it
\* reads the current node, and in DeleteAnggaranNode (where the current node
\* is gone) its parent.
AtTop(t) ==
    LET n == cur[t]
    IN  /\ want[t] = NoNode
        /\ Parent[n] # NoNode =>
             View(t)[IF req[t].kind = "delete" THEN Parent[n] ELSE n] = NoRow

RollupEnd(t) ==
    /\ pc[t] = "rollup" /\ AtTop(t)
    /\ pc' = [pc EXCEPT ![t] = "commit"]
    /\ UNCHANGED <<db, own, req, cur, todo, want, snap>>

\* Variant: the sums are read outside the transaction.
RollupFromPool(t) ==
    LET p == Parent[cur[t]]
        kind == req[t].kind
    IN  /\ pc[t] = "rollup" /\ ~AtTop(t)
        /\ Update(t, p, RollupRow(kind, View(t)[p], db, p),
                  IF kind = "update" THEN "derive" ELSE "rollup", p)

\* Variant: the whole row is written back as it was first read.
RollupStaleRow(t) ==
    LET p == Parent[cur[t]]
        kind == req[t].kind
    IN  /\ pc[t] = "rollup" /\ ~AtTop(t)
        /\ Update(t, p, RollupRow(kind, Seen(t)[p], Seen(t), p),
                  IF kind = "update" THEN "derive" ELSE "rollup", p)

\* The roll-up statement of the three handlers; only UpdateAnggaranNode then
\* recomputes the derived columns.
Rollup(t) ==
    LET p == Parent[cur[t]]
        kind == req[t].kind
    IN  /\ pc[t] = "rollup" /\ ~AtTop(t)
        /\ Update(t, p, RollupRow(kind, View(t)[p], Seen(t), p),
                  IF kind = "update" THEN "derive" ELSE "rollup", p)

\* Variant: the 404 answer leaves the transaction open.
DeleteLookupOpen(t) ==
    /\ pc[t] = "lookup"
    /\ pc' = [pc EXCEPT ![t] = IF View(t)[req[t].node] = NoRow THEN "open" ELSE "write"]
    /\ UNCHANGED <<db, own, req, cur, todo, want, snap>>

\* DeleteAnggaranNode: SELECT parent_id, 404 if there is no row.
DeleteLookup(t) ==
    /\ pc[t] = "lookup"
    /\ \/ View(t)[req[t].node] = NoRow /\ Rollback(t)
       \/ /\ View(t)[req[t].node] # NoRow
          /\ pc' = [pc EXCEPT ![t] = "write"]
          /\ UNCHANGED <<db, own, req, cur, todo, want, snap>>

\* DELETE FROM anggaran_node WHERE id = node
DeleteWrite(t) ==
    LET n == req[t].node
    IN  /\ pc[t] = "write" /\ req[t].kind = "delete"
        /\ \/ ~Ready(t, n) /\ Block(t, n)
           \/ /\ Ready(t, n)
              /\ IF Hit(t, n) THEN Store(t, n, NoRow) ELSE Skip(t)
              /\ pc' = [pc EXCEPT ![t] = "cascade"]
              /\ cur' = [cur EXCEPT ![t] = n]
              /\ UNCHANGED <<db, req, todo>>

\* ON DELETE CASCADE: rows the foreign key's trigger still has to delete.
Cascaded(t) == {c \in Node : /\ Parent[c] # NoNode /\ own[t][Parent[c]] = NoRow
                             /\ View(t)[c] # NoRow}

Cascade(t) ==
    /\ pc[t] = "cascade"
    /\ \E c \in Cascaded(t) :
         /\ want[t] \in {NoNode, c}
         /\ \/ ~Free(t, c) /\ Block(t, c)
            \/ /\ Free(t, c) /\ Store(t, c, NoRow)
               /\ UNCHANGED <<db, pc, req, cur, todo>>

\* Variant: no ON DELETE CASCADE.
CascadeEndEarly(t) ==
    /\ pc[t] = "cascade"
    /\ pc' = [pc EXCEPT ![t] = "rollup"]
    /\ Skip(t)
    /\ UNCHANGED <<db, req, cur, todo>>

CascadeEnd(t) ==
    /\ pc[t] = "cascade" /\ Cascaded(t) = {}
    /\ pc' = [pc EXCEPT ![t] = "rollup"]
    /\ Skip(t)
    /\ UNCHANGED <<db, req, cur, todo>>

\* Variant: the upserts run outside the transaction.
ImportUpsertFromPool(t) ==
    /\ pc[t] = "upsert"
    /\ \E n \in todo[t] :
         /\ Parent[n] \notin todo[t] /\ Free(t, n)
         /\ db' = [db EXCEPT ![n] = Upserted(@, req[t].file[n], req[t].tahun)]
         /\ todo' = [todo EXCEPT ![t] = @ \ {n}]
         /\ UNCHANGED <<own, pc, req, cur, want, snap>>

\* ImportAnggaranData, ConfirmAnggaranImport: a node after its parent.
ImportUpsert(t) ==
    /\ pc[t] = "upsert"
    /\ \E n \in todo[t] :
         /\ Parent[n] \notin todo[t] /\ want[t] \in {NoNode, n}
         /\ \/ ~Free(t, n) /\ Block(t, n)
            \/ /\ Free(t, n) /\ Store(t, n, Upserted(View(t)[n], req[t].file[n], req[t].tahun))
               /\ todo' = [todo EXCEPT ![t] = @ \ {n}]
               /\ UNCHANGED <<db, pc, req, cur>>

\* RolloverAnggaran: one UPDATE of all rows, in the order of the scan.
RolloverSweep(t) ==
    /\ pc[t] = "sweep"
    /\ \E n \in todo[t] :
         LET row == View(t)[n]
             new == RolledOver(row)
         IN  /\ want[t] \in {NoNode, n}
             /\ \/ ~Free(t, n) /\ Block(t, n)
                \/ /\ Free(t, n)
                   /\ IF row # NoRow THEN new \in Row /\ Store(t, n, new) ELSE Skip(t)
                   /\ todo' = [todo EXCEPT ![t] = @ \ {n}]
                   /\ UNCHANGED <<db, pc, req, cur>>
                \/ Free(t, n) /\ row # NoRow /\ new \notin Row /\ Rollback(t)

WorkEnd(t) ==
    /\ pc[t] \in {"upsert", "sweep"} /\ todo[t] = {}
    /\ pc' = [pc EXCEPT ![t] = "commit"]
    /\ UNCHANGED <<db, own, req, cur, todo, want, snap>>

-----------------------------------------------------------------------------
(* Deadlock detection, and the specification.                              *)

\* t's statement waits for a row that u holds.
WaitsFor(t, u) == u # t /\ want[t] # NoNode /\ own[u][want[t]] # Clean

Deadlocked(t) ==
    \E S \in SUBSET Tx :
        /\ t \in S
        /\ \A s \in S : /\ \E u \in S : WaitsFor(s, u)
                        /\ \E u \in S : WaitsFor(u, s)

\* deadlock_timeout: PostgreSQL fails the statement of one of them.
Victim(t) == Deadlocked(t) /\ Rollback(t)

Started(table) ==
    /\ db = table
    /\ own = [t \in Tx |-> [n \in Node |-> Clean]]
    /\ pc = [t \in Tx |-> "idle"]
    /\ req = [t \in Tx |-> NoRequest]
    /\ cur = [t \in Tx |-> NoNode]
    /\ todo = [t \in Tx |-> {}]
    /\ want = [t \in Tx |-> NoNode]
    /\ snap = [t \in Tx |-> EmptyTable]

\* The migrations leave the table empty.
Init == Started(EmptyTable)

Step(t) ==
    \/ UpdateWrite(t) \/ UpdateDerive(t) \/ LockWrite(t)
    \/ Rollup(t) \/ RollupEnd(t)
    \/ DeleteLookup(t) \/ DeleteWrite(t) \/ Cascade(t) \/ CascadeEnd(t)
    \/ ImportUpsert(t) \/ RolloverSweep(t) \/ WorkEnd(t)
    \/ Commit(t)

Next == \E t \in Tx : Begin(t) \/ Step(t) \/ Fail(t) \/ Victim(t)

Spec == Init /\ [][Next]_vars

\* A statement that can run does, a waiter gets the row in its turn (the lock
\* queue is first come, first served), and the detector finds each deadlock.
Fairness == \A t \in Tx : SF_vars(Step(t)) /\ WF_vars(Victim(t))

FairSpec == Spec /\ Fairness

-----------------------------------------------------------------------------
(* Properties.                                                             *)

Stage == {"idle", "lookup", "write", "derive", "rollup", "cascade",
          "upsert", "sweep", "commit"}

\* Type correctness: what every transaction carries and the shape of the rows.
TypeOK ==
    /\ db \in Table
    /\ own \in [Tx -> [Node -> Row \cup {NoRow, Clean}]]
    /\ pc \in [Tx -> Stage]
    /\ req \in [Tx -> Request \cup {NoRequest}]
    /\ cur \in [Tx -> Node \cup {NoNode}]
    /\ todo \in [Tx -> SUBSET Node]
    /\ want \in [Tx -> Node \cup {NoNode}]
    /\ snap \in [Tx -> Table]

\* Every committed row has fresh derived columns, whatever edits, imports and
\* rollovers run at the same time (UpdateAnggaranNode's derive statement after
\* each roll-up, RolloverAnggaran's "safe" reliance on realisasi_sd_periode).
\* DeleteAnggaranNode rolls up without deriving and breaks it.
DerivedFresh == \A n \in Node : db[n] # NoRow => Fresh(db[n])

\* The sums a handler of this kind leaves in the parent of a row it changed.
SumsHold(kind, T, p) ==
    \A f \in CASE kind = "lock" -> {"lock"}
               [] kind = "update" -> {"pagu", "lalu", "ini"}
               [] OTHER -> {"pagu", "lock", "lalu", "ini"} :
        T[p][f] = Total(T, p, f)

\* When UpdateAnggaranNode, UpdateLockPagu or DeleteAnggaranNode is about to
\* commit, the parent of each row it changed holds the sums over its children,
\* so the change has reached every ancestor.
RolledUp ==
    \A t \in Tx, c \in Node :
        (/\ pc[t] = "commit" /\ req[t].kind \in {"update", "lock", "delete"}
         /\ own[t][c] # Clean /\ Parent[c] # NoNode
         /\ View(t)[Parent[c]] # NoRow)
        => SumsHold(req[t].kind, View(t), Parent[c])

\* The committed tree as a whole: each row with children holds their sums.
ForestConsistent ==
    \A p \in Node : db[p] # NoRow /\ Children(db, p) # {}
                        => SumsHold("all", db, p)

\* parent_id refers to a row: an import that inserts below a node and a delete
\* that cascades through it leave no node without its ancestors.
ForestClosed ==
    \A n \in Node : db[n] # NoRow /\ Parent[n] # NoNode => db[Parent[n]] # NoRow

\* Edits lock rows from the leaf to the root, so they never deadlock.
NoDeadlock == \A t \in Tx : ~Deadlocked(t)

\* A handler that has begun ends: it commits or it is rolled back.
HandlersEnd == \A t \in Tx : pc[t] # "idle" ~> pc[t] = "idle"

\* A confirmed import has saved the nodes of its file as nodes of its budget
\* year (ImportPreviewModal.tsx reports them so, ConfirmAnggaranImport).
ImportedYear ==
    [][\A t \in Tx : pc[t] = "commit" /\ req[t].kind = "import" /\ Commit(t)
         => \A n \in DOMAIN req[t].file : db'[n].tahun = req[t].tahun]_vars

\* The handlers, statement by statement, implement requests that are atomic:
\* the committed table changes as if requests ran one after the other.
Atomic == INSTANCE AnggaranTree
Serializable == Atomic!Spec
AtomicSteps == [][Atomic!Next]_db

=============================================================================
