---------------------------- MODULE PreviewTree ----------------------------
(***************************************************************************)
(* The list of preview nodes of an import: what the editor does to it       *)
(* (frontend ImportPreviewModal.tsx) and how it is saved (backend           *)
(* handlers/anggaran.go).                                                   *)
(*                                                                         *)
(* A node is known by its temp_id, its place in the file; parent 0 is the   *)
(* empty parent_temp_id.  Of the amounts the tree needs pagu, lock, the     *)
(* realisation sd and the balance sisa; realisasi_lalu, realisasi_ini and   *)
(* persentase are only ever set to 0 together with sd.  A row of the table  *)
(* is known by its key path, the codes from the root down.                  *)
(* Amounts are numbers here: a text that is none counts as 0 in the editor  *)
(* (parseFloat(...) || 0, ImportPreviewModal.tsx:224-227) as in the save    *)
(* (mustDecimalNumeric, anggaran.go:337; see AnggaranData).                 *)
(***************************************************************************)
EXTENDS Integers, Sequences, FiniteSets, FiniteSetsExt, SequencesExt, Functions

CONSTANTS Kode, Blank, Top, MaxRows

Node == [id : 1 .. MaxRows, parent : 0 .. MaxRows, level : 0 .. Top,
         kode : Kode \cup {Blank}, pagu : Int, lock : Int, sd : Int, sisa : Int]

ASSUME PreviewAssumption == Blank \notin Kode /\ Top \in Nat /\ MaxRows \in Nat

IsLocked(n) == n.pagu > 0 /\ n.lock >= n.pagu
NormalizeByLock(n) == IF IsLocked(n) THEN [n EXCEPT !.sd = 0, !.sisa = n.pagu] ELSE n
Normalized(list) == [k \in DOMAIN list |-> NormalizeByLock(list[k])]

Ids(list) == {n.id : n \in ToSet(list)}
Kids(list, i) == {n.id : n \in {m \in ToSet(list) : m.parent = i}}
Shown(list, i) == CHOOSE n \in ToSet(list) : n.id = i

\* A node and all below it, found a generation at a time.
Below(list, i) ==
    LET reach[k \in 0 .. Len(list)] ==
          IF k = 0 THEN {i}
          ELSE reach[k - 1] \cup UNION {Kids(list, j) : j \in reach[k - 1]}
    IN  reach[Len(list)]

----------------------------------------------------------------------------
(* The editor. *)

\* The nodes of a list that are not among the given ones, in their order.
Without(list, gone) ==
    LET Keep(kept, n) == IF n.id \in gone THEN kept ELSE Append(kept, n)
    IN  FoldLeft(Keep, <<>>, list)

\* What a plausible bug would make of Deleted: one generation only.
DeletedShallow(list, i) == Without(list, {i} \cup Kids(list, i))

Deleted(list, i) == Without(list, Below(list, i))

\* ... of Reparented: the node is taken out and pushed below its new parent.
ReparentedLast(list, i, p) ==
    IF p \in Below(list, i) THEN list
    ELSE Append(Without(list, {i}), [Shown(list, i) EXCEPT !.parent = p])

Reparented(list, i, p) ==
    IF p \in Below(list, i) THEN list
    ELSE [k \in DOMAIN list |->
            IF list[k].id = i THEN [list[k] EXCEPT !.parent = p] ELSE list[k]]

Updated(list, i, field, value) ==
    [k \in DOMAIN list |->
       IF list[k].id = i THEN [list[k] EXCEPT ![field] = value] ELSE list[k]]

\* ... of Recalculated: the lock is judged by the pagu of before the sum.
RecalculatedOldLock(list) ==
    LET calc[i \in Ids(list)] ==
          LET n    == Shown(list, i)
              kids == Kids(list, i)
              pagu == IF kids = {} THEN n.pagu ELSE MapThenSumSet(LAMBDA c : calc[c].pagu, kids)
              real == IF IsLocked(n) THEN 0
                      ELSE IF kids = {} THEN n.sd
                      ELSE MapThenSumSet(LAMBDA c : calc[c].sd, kids)
          IN  [n EXCEPT !.pagu = pagu, !.sd = real, !.sisa = pagu - real]
    IN  [k \in DOMAIN list |-> calc[list[k].id]]

\* Bottom up: an inner node takes the sums of its children, a locked one no
\* realisation.
Recalculated(list) ==
    LET calc[i \in Ids(list)] ==
          LET n    == Shown(list, i)
              kids == Kids(list, i)
              m    == IF kids = {} THEN n
                      ELSE [n EXCEPT
                              !.pagu = MapThenSumSet(LAMBDA c : calc[c].pagu, kids),
                              !.sd   = MapThenSumSet(LAMBDA c : calc[c].sd, kids)]
              real == IF IsLocked(m) THEN 0 ELSE m.sd
          IN  [m EXCEPT !.sd = real, !.sisa = m.pagu - real]
    IN  [k \in DOMAIN list |-> calc[list[k].id]]

----------------------------------------------------------------------------
(* Saving: nodes are upserted in the order of the list.  A transaction has  *)
(* the rows it wrote and the row each temp_id went to.                      *)

Amounts(n) == [pagu |-> n.pagu, lock |-> n.lock, sd |-> n.sd, sisa |-> n.sisa]
NothingSaved == [at |-> <<>>, rows |-> <<>>]

\* What is in f, and of g what f leaves.
Over(f, g) == [x \in DOMAIN f \cup DOMAIN g |-> IF x \in DOMAIN f THEN f[x] ELSE g[x]]
Just(x, y) == [z \in {x} |-> y]

KeyOf(tx, n) == Append(IF n.parent \in DOMAIN tx.at THEN tx.at[n.parent] ELSE <<>>, n.kode)

\* What a plausible bug would make of Upserted: ON CONFLICT DO NOTHING.
UpsertedKeepOld(tx, n) ==
    [at |-> Over(Just(n.id, KeyOf(tx, n)), tx.at),
     rows |-> Over(tx.rows, Just(KeyOf(tx, n), Amounts(n)))]

Upserted(tx, n) ==
    [at |-> Over(Just(n.id, KeyOf(tx, n)), tx.at),
     rows |-> Over(Just(KeyOf(tx, n), Amounts(n)), tx.rows)]

=============================================================================
