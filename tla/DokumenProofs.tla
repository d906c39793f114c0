--------------------------- MODULE DokumenProofs ----------------------------
(***************************************************************************)
(* For every set of uploads, reorders and contents: the documents of a node  *)
(* can be downloaded, are listed in the order they came in, and stay in the  *)
(* order the last reorder gave them (Dokumen).                              *)
(***************************************************************************)
EXTENDS Dokumen, FiniteSetTheorems, FunctionTheorems, WellFoundedInduction, TLAPS

RowRecord == [live : BOOLEAN, order : Nat, born : Nat]
MoveRecord == [at : {"idle", "open", "ended"}, list : Seq(Sender), done : Nat]

DokTypeOK ==
    /\ row \in [Sender -> RowRecord]
    /\ clock \in Nat
    /\ upload \in [Sender -> {"idle", "save", "insert", "order", "write", "done", "failed"}]
    /\ place \in [Sender -> Nat]
    /\ move \in [Mover -> MoveRecord]
    /\ older \in [Sender -> SUBSET Sender]

\* The list a reorder works through names no document twice.
MoveSound ==
    \A m \in Mover : \A i, j \in 1 .. Len(move[m].list) :
        move[m].list[i] = move[m].list[j] => i = j

\* An upload that has got as far as its row.
Inserted(d) == upload[d] \notin {"idle", "save", "insert"}

MovesInserted ==
    /\ \A m \in Mover : \A i \in 1 .. Len(move[m].list) : Inserted(move[m].list[i])
    /\ \A d \in Live : Inserted(d)

DokShape == DokTypeOK /\ MoveSound /\ MovesInserted

-----------------------------------------------------------------------------
(* The greatest of finitely many numbers.                                  *)

LEMMA Smallest ==
    ASSUME NEW D \in SUBSET Nat, D # {}
    PROVE  \E d \in D : \A e \in D : d <= e
<1> DEFINE R == {ss \in Nat \X Nat : ss[1] < ss[2]}
<1>1. IsWellFoundedOn(R, Nat)
  BY NatLessThanWellFounded DEF OpToRel
<1>2. PICK d \in D : \A e \in D : <<e, d>> \notin R
  <2> HIDE DEF R
  <2>1. QED BY <1>1, WFMin
<1>3. ASSUME NEW e \in D PROVE d <= e
  <2>1. d \in Nat /\ e \in Nat OBVIOUS
  <2>2. ~(e < d) BY <1>2, <2>1
  <2>3. QED BY <2>1, <2>2
<1>4. QED BY <1>3

\* By the smallest counterexample: take an element away from it.
LEMMA Greatest ==
    ASSUME NEW S, IsFiniteSet(S), S # {}, NEW f \in [S -> Nat]
    PROVE  \E s \in S : \A t \in S : f[t] <= f[s]
<1> DEFINE HasTop(A) == \E s \in A : \A t \in A : f[t] <= f[s]
           Bad == {A \in SUBSET S : A # {} /\ ~HasTop(A)}
           Sizes == {Cardinality(A) : A \in Bad}
<1>1. SUFFICES ASSUME Bad # {} PROVE FALSE
  OBVIOUS
<1>2. \A A \in SUBSET S : IsFiniteSet(A) /\ Cardinality(A) \in Nat
  BY FS_Subset, FS_CardinalityType
<1>3. Sizes \in SUBSET Nat /\ Sizes # {}
  BY <1>1, <1>2
<1>4. PICK c \in Sizes : \A e \in Sizes : c <= e
  <2> HIDE DEF Sizes
  <2>1. QED BY <1>3, Smallest
<1>5. PICK A \in Bad : Cardinality(A) = c
  BY <1>4
<1>6. PICK x \in A : TRUE
  OBVIOUS
<1> DEFINE B == A \ {x}
<1>7. Cardinality(B) = c - 1 /\ c \in Nat
  BY <1>2, <1>5, <1>6, FS_RemoveElement
<1>8. B \notin Bad
  <2>1. ASSUME B \in Bad PROVE FALSE
    <3>1. Cardinality(B) \in Sizes
      BY <2>1
    <3>2. c <= c - 1
      BY <1>4, <1>7, <3>1
    <3>3. QED BY <1>7, <3>2
  <2>2. QED BY <2>1
<1>9. CASE B = {}
  <2>1. A = {x}
    BY <1>9
  <2>2. f[x] \in Nat
    OBVIOUS
  <2>3. HasTop(A)
    BY <2>1, <2>2
  <2>4. QED BY <2>3
<1>10. CASE B # {}
  <2>1. PICK s \in B : \A t \in B : f[t] <= f[s]
    BY <1>8, <1>10
  <2>2. /\ f[s] \in Nat /\ f[x] \in Nat
        /\ \A t \in A : f[t] \in Nat /\ (t = x \/ t \in B)
    OBVIOUS
  <2>3. CASE f[x] <= f[s]
    BY <2>1, <2>2, <2>3
  <2>4. CASE f[s] <= f[x]
    <3>1. \A t \in A : f[t] <= f[x]
      BY <2>1, <2>2, <2>4
    <3>2. QED BY <3>1
  <2>5. QED BY <2>2, <2>3, <2>4
<1>11. QED BY <1>9, <1>10

\* The place an upload computes is below every other document's.
LEMMA NextPlaceIsLast ==
    ASSUME DokTypeOK, NEW d \in Sender
    PROVE  /\ NextPlace(d) \in Nat
           /\ \A e \in Live \ {d} : row[e].order < NextPlace(d)
<1> DEFINE S == Live \ {d}
           others == {row[e].order : e \in S}
           f == [e \in S |-> row[e].order]
<1>1. IsFiniteSet(S)
  BY SenderAssumption, FS_Subset DEF Live
<1>2. \A e \in S : row[e].order \in Nat
  BY DEF Live, DokTypeOK, RowRecord
<1>3. CASE S = {}
  BY <1>3 DEF NextPlace
<1>4. CASE S # {}
  <2>1. f \in [S -> Nat]
    BY <1>2
  <2>2. PICK s \in S : \A t \in S : f[t] <= f[s]
    <3> HIDE DEF S, f
    <3>1. QED BY <1>1, <1>4, <2>1, Greatest
  <2> DEFINE top == row[s].order
  <2>3. top \in others /\ top \in Nat /\ \A k \in others : k \in Nat /\ top >= k
    BY <1>2, <2>2
  <2>4. \A x \in others : (\A k \in others : x >= k) => x = top
    <3> HIDE DEF others, top
    <3>1. QED BY <2>3
  <2>5. Max(others) = top
    <3> HIDE DEF others, top
    <3>1. QED BY <2>3, <2>4 DEF Max
  <2>6. others # {}
    BY <2>3
  <2>7. NextPlace(d) = top + 1
    <3>1. NextPlace(d) = IF others = {} THEN 0 ELSE Max(others) + 1
      BY Zenon DEF NextPlace
    <3> HIDE DEF others, top
    <3>2. QED BY <2>5, <2>6, <3>1
  <2>8. QED BY <1>2, <2>3, <2>7
<1>5. QED BY <1>3, <1>4

-----------------------------------------------------------------------------
(* The shape of the variables, and what a reorder works on.                *)

\* A list from SetToSeqs is a sequence that names its documents once each.
LEMMA ListFacts ==
    ASSUME NEW S \in SUBSET Sender, NEW list \in SetToSeqs(S)
    PROVE  /\ list \in Seq(S) /\ list \in Seq(Sender) /\ Len(list) = Cardinality(S)
           /\ \A i, j \in 1 .. Len(list) : list[i] = list[j] => i = j
           /\ \A i \in 1 .. Len(list) : PlaceOf(list, list[i]) = i
           /\ \A d \in S : \E i \in 1 .. Len(list) : list[i] = d
<1>1. Cardinality(S) \in Nat
  BY SenderAssumption, FS_Subset, FS_CardinalityType
<1>2. /\ list \in [1 .. Cardinality(S) -> S]
      /\ \A i, j \in 1 .. Cardinality(S) : i # j => list[i] # list[j]
  BY Zenon DEF SetToSeqs
<1>3. list \in Seq(S) /\ Len(list) = Cardinality(S)
  BY <1>1, <1>2
<1>4. list \in Seq(Sender)
  BY <1>1, <1>2
<1>5. ASSUME NEW i \in 1 .. Len(list) PROVE PlaceOf(list, list[i]) = i
  BY <1>2, <1>3, <1>5 DEF PlaceOf
<1>6. \A d \in S : \E i \in 1 .. Cardinality(S) : list[i] = d
  <2>1. list \in Injection(1 .. Cardinality(S), S)
    BY <1>2, Fun_IsInj
  <2>2. Cardinality(1 .. Cardinality(S)) = Cardinality(S) /\ IsFiniteSet(S)
    <3>1. ASSUME NEW n \in Nat PROVE Cardinality(1 .. n) = n
      <4>1. Cardinality(1 .. n) = IF 1 > n THEN 0 ELSE n - 1 + 1
        BY FS_Interval
      <4>2. QED BY <4>1
    <3>2. IsFiniteSet(S)
      BY SenderAssumption, FS_Subset
    <3>3. QED BY <1>1, <3>1, <3>2
  <2>3. list \in Surjection(1 .. Cardinality(S), S)
    BY <2>1, <2>2, FS_Injection
  <2>4. QED BY <2>3 DEF Surjection
<1>7. QED BY <1>2, <1>3, <1>4, <1>5, <1>6

\* Some uploads are over, in the order they came in.
DokStart(here, list, b) ==
    /\ kept = IF here = {} THEN {} ELSE {b}
    /\ told = here \X {b} /\ over = here
    /\ row = [d \in Sender |-> IF d \notin here THEN NoRow ELSE
                [live |-> TRUE, order |-> PlaceOf(list, d) - 1, born |-> PlaceOf(list, d)]]
    /\ clock = Len(list)
    /\ upload = [d \in Sender |-> IF d \in here THEN "done" ELSE "idle"]
    /\ place = [d \in Sender |-> 0]
    /\ move = [m \in Mover |-> [at |-> "idle", list |-> <<>>, done |-> 0]]
    /\ older = [d \in Sender |-> {}]
    /\ standing = {}

LEMMA DokShapeInit ==
    ASSUME NEW here \in SUBSET Sender, NEW list \in SetToSeqs(here), NEW b \in Blob,
           DokStart(here, list, b)
    PROVE  DokShape
<1> USE DEF DokStart
<1>1. Len(list) \in Nat /\ \A d \in here : PlaceOf(list, d) \in 1 .. Len(list)
  BY ListFacts
<1>2. row \in [Sender -> RowRecord]
  BY <1>1 DEF RowRecord, NoRow
<1>3. DokTypeOK
  BY <1>1, <1>2 DEF DokTypeOK, MoveRecord
<1>4. MoveSound /\ \A m \in Mover : \A i \in 1 .. Len(move[m].list) : Inserted(move[m].list[i])
  BY DEF MoveSound
<1>5. \A d \in Live : Inserted(d)
  BY DEF Live, NoRow, Inserted
<1>6. QED BY <1>3, <1>4, <1>5 DEF DokShape, MovesInserted

\* The steps of one upload.
UploadStep(d) ==
    \/ UploadStart(d) \/ SaveRefused(d) \/ UploadFails(d)
    \/ Saved(d) \/ Insert(d) \/ OrderRead(d) \/ OrderWrite(d)

LEMMA DokShapeUpload ==
    ASSUME DokShape, NEW d \in Sender, UploadStep(d)
    PROVE  DokShape'
<1> USE DEF DokShape
<1>1. /\ UNCHANGED move
      /\ upload' \in [Sender -> {"idle", "save", "insert", "order", "write", "done", "failed"}]
      /\ upload[d] \notin {"done", "failed"}
      /\ \A e \in Sender : Inserted(e) => Inserted(e)'
  BY DEF UploadStep, UploadStart, SaveRefused, UploadFails, Saved, Insert, OrderRead, OrderWrite,
         DokTypeOK, Inserted
<1>2. /\ row' \in [Sender -> RowRecord] /\ clock' \in Nat
      /\ \A e \in Sender : row'[e].live => row[e].live \/ Inserted(e)'
  <2>1. CASE Insert(d)
    BY <2>1 DEF Insert, DokTypeOK, RowRecord, Inserted
  <2>2. CASE OrderWrite(d)
    BY <2>2 DEF OrderWrite, DokTypeOK, RowRecord, Inserted
  <2>3. CASE ~Insert(d) /\ ~OrderWrite(d)
    BY <2>3 DEF UploadStep, UploadStart, SaveRefused, UploadFails, Saved, OrderRead, DokTypeOK
  <2>4. QED BY <2>1, <2>2, <2>3
<1>3. place' \in [Sender -> Nat]
  BY NextPlaceIsLast
  DEF UploadStep, UploadStart, SaveRefused, UploadFails, Saved, Insert, OrderRead, OrderWrite, DokTypeOK
<1>4. older' \in [Sender -> SUBSET Sender]
  BY DEF UploadStep, UploadStart, SaveRefused, UploadFails, Saved, Insert, OrderRead, OrderWrite,
         DokTypeOK, Live
<1>5. DokTypeOK'
  BY <1>1, <1>2, <1>3, <1>4 DEF DokTypeOK
<1>6. MoveSound'
  BY <1>1 DEF MoveSound
<1>7. \A m \in Mover : move[m].list \in Seq(Sender)
  BY DEF DokTypeOK, MoveRecord
<1>8. MovesInserted'
  BY <1>1, <1>2, <1>7 DEF MovesInserted, Live
<1>9. QED BY <1>5, <1>6, <1>8

\* The steps of one reorder.
MoveStep(m) == MoveStart(m) \/ MoveFails(m) \/ MoveRow(m) \/ MoveCommit(m)

LEMMA DokShapeMove ==
    ASSUME DokShape, NEW m \in Mover, MoveStep(m)
    PROVE  DokShape'
<1> USE DEF DokShape
<1>1. PICK r \in MoveRecord :
         /\ move' = [move EXCEPT ![m] = r]
         /\ \A i, j \in 1 .. Len(r.list) : r.list[i] = r.list[j] => i = j
         /\ \A i \in 1 .. Len(r.list) : Inserted(r.list[i])
  <2>1. /\ move \in [Mover -> MoveRecord]
        /\ \A i, j \in 1 .. Len(move[m].list) : move[m].list[i] = move[m].list[j] => i = j
        /\ \A i \in 1 .. Len(move[m].list) : Inserted(move[m].list[i])
    BY DEF DokTypeOK, MoveSound, MovesInserted
  <2>2. CASE MoveStart(m)
    <3>1. PICK list \in SetToSeqs(Live) :
             move' = [move EXCEPT ![m] = [at |-> "open", list |-> list, done |-> 0]]
      BY <2>2 DEF MoveStart
    <3>2. /\ list \in Seq(Live) /\ list \in Seq(Sender)
          /\ \A i, j \in 1 .. Len(list) : list[i] = list[j] => i = j
      BY ListFacts DEF Live
    <3>3. \A i \in 1 .. Len(list) : Inserted(list[i])
      BY <3>2 DEF MovesInserted
    <3> DEFINE r == [at |-> "open", list |-> list, done |-> 0]
    <3>4. r \in MoveRecord /\ r.list = list
      BY <3>2 DEF MoveRecord
    <3>5. QED BY <3>1, <3>2, <3>3, <3>4
  <2>3. CASE MoveFails(m) \/ MoveRow(m) \/ MoveCommit(m)
    <3> DEFINE ended == [move[m] EXCEPT !.at = "ended"]
               onward == [move[m] EXCEPT !.done = @ + 1]
    <3>1. /\ ended \in MoveRecord /\ ended.list = move[m].list
          /\ onward \in MoveRecord /\ onward.list = move[m].list
      <4>1. move[m] \in MoveRecord
        BY <2>1
      <4>2. ended \in MoveRecord /\ ended.list = move[m].list
        BY <4>1 DEF MoveRecord
      <4>3. onward \in MoveRecord /\ onward.list = move[m].list
        BY <4>1 DEF MoveRecord
      <4>4. QED BY <4>2, <4>3
    <3>2. move' = [move EXCEPT ![m] = ended] \/ move' = [move EXCEPT ![m] = onward]
      <4>1. CASE MoveFails(m)
        BY <4>1 DEF MoveFails
      <4>2. CASE MoveRow(m)
        BY <4>2 DEF MoveRow
      <4>3. CASE MoveCommit(m)
        BY <4>3 DEF MoveCommit
      <4>4. QED BY <2>3, <4>1, <4>2, <4>3
    <3> HIDE DEF ended, onward
    <3>3. CASE move' = [move EXCEPT ![m] = ended]
      BY <2>1, <3>1, <3>3
    <3>4. CASE move' = [move EXCEPT ![m] = onward]
      BY <2>1, <3>1, <3>4
    <3>5. QED BY <3>2, <3>3, <3>4
  <2>4. QED BY <2>2, <2>3 DEF MoveStep
<1>2. move' \in [Mover -> MoveRecord] /\ move'[m] = r /\ \A n \in Mover \ {m} : move'[n] = move[n]
  BY <1>1 DEF DokTypeOK
<1>3. UNCHANGED <<clock, upload, place>> /\ older' \in [Sender -> SUBSET Sender]
  BY DEF MoveStep, MoveStart, MoveFails, MoveRow, MoveCommit, DokTypeOK
<1>4. /\ row' \in [Sender -> RowRecord]
      /\ \A d \in Sender : row'[d].live = row[d].live
  <2>1. CASE MoveCommit(m)
    <3> DEFINE list == move[m].list
    <3>1. list \in Seq(Sender) /\ \A i, j \in 1 .. Len(list) : list[i] = list[j] => i = j
      BY DEF DokTypeOK, MoveRecord, MoveSound
    <3>2. \A d \in Sender : Contains(list, d) => PlaceOf(list, d) - 1 \in Nat
      BY <3>1 DEF Contains, PlaceOf
    <3>3. row' = [d \in Sender |->
             IF Contains(list, d) THEN [row[d] EXCEPT !.order = PlaceOf(list, d) - 1] ELSE row[d]]
      BY <2>1 DEF MoveCommit
    <3> HIDE DEF list
    <3>4. QED BY <3>2, <3>3 DEF DokTypeOK, RowRecord
  <2>2. CASE ~MoveCommit(m)
    BY <2>2 DEF MoveStep, MoveStart, MoveFails, MoveRow, DokTypeOK
  <2>3. QED BY <2>1, <2>2
<1>5. DokTypeOK'
  BY <1>2, <1>3, <1>4 DEF DokTypeOK
<1>6. MoveSound'
  BY <1>1, <1>2 DEF MoveSound
<1>7. MovesInserted'
  BY <1>1, <1>2, <1>3, <1>4 DEF MovesInserted, Inserted, Live
<1>8. QED BY <1>5, <1>6, <1>7

LEMMA DokShapeDelete ==
    ASSUME DokShape, NEW d \in Sender, DeleteDocument(d)
    PROVE  DokShape'
<1> USE DEF DokShape
<1>1. /\ row' \in [Sender -> RowRecord]
      /\ \A e \in Sender : row'[e].live => row[e].live
  BY DEF DeleteDocument, DokTypeOK, RowRecord
<1>2. DokTypeOK'
  BY <1>1 DEF DeleteDocument, DokTypeOK
<1>3. QED
  BY <1>1, <1>2 DEF DeleteDocument, MoveSound, MovesInserted, Inserted, Live

\* A step of the handlers is one of these.
LEMMA DokSteps ==
    ASSUME [DokNext]_dokVars
    PROVE  \/ \E d \in Sender : UploadStep(d) \/ DeleteDocument(d)
           \/ \E m \in Mover : MoveStep(m)
           \/ /\ kept \subseteq kept' /\ kept' \subseteq kept \cup Blob /\ told' = told
              /\ UNCHANGED <<row, clock, upload, place, move, older, standing>>
  BY DEF DokNext, DokCommand, DokReply, UploadStep, MoveStep, StoreKeeps, Keep, dokVars, storeVars

LEMMA DokShapeNext == DokShape /\ [DokNext]_dokVars => DokShape'
<1> SUFFICES ASSUME DokShape, [DokNext]_dokVars PROVE DokShape'
  OBVIOUS
<1>1. CASE UNCHANGED <<row, clock, upload, place, move, older, standing>>
  BY <1>1 DEF DokShape, DokTypeOK, MoveSound, MovesInserted, Inserted, Live
<1>2. QED
  BY <1>1, DokSteps, DokShapeUpload, DokShapeMove, DokShapeDelete

-----------------------------------------------------------------------------
(* Every listed document can be downloaded.                                *)

\* An upload that is about to insert its row has been told a hash, and so has
\* every document that is listed.
FilesTold ==
    \A d \in Sender : row[d].live \/ upload[d] = "insert" => \E b \in kept : <<d, b>> \in told

LEMMA FilesToldUpload ==
    ASSUME DokShape, FilesTold, NEW d \in Sender, UploadStep(d)
    PROVE  FilesTold'
<1> USE DEF DokShape, DokTypeOK
<1>1. kept' = kept /\ told \subseteq told'
  BY DEF UploadStep, UploadStart, SaveRefused, UploadFails, Saved, Insert, OrderRead, OrderWrite,
         Refuse, Tell, storeVars
<1>2. \A e \in Sender : (\E b \in kept : <<e, b>> \in told) => \E b \in kept' : <<e, b>> \in told'
  BY <1>1
<1>3. CASE Saved(d)
  <2>1. PICK b \in Blob : Tell(d, b)
    BY <1>3 DEF Saved
  <2>2. b \in kept' /\ <<d, b>> \in told'
    BY <2>1 DEF Tell
  <2>3. UNCHANGED row /\ \A e \in Sender \ {d} : upload'[e] = upload[e]
    BY <1>3 DEF Saved
  <2>4. QED BY <1>2, <2>2, <2>3 DEF FilesTold
<1>4. CASE Insert(d)
  <2>1. upload[d] = "insert"
    BY <1>4 DEF Insert
  <2>2. \A e \in Sender \ {d} : row'[e] = row[e] /\ upload'[e] = upload[e]
    BY <1>4 DEF Insert
  <2>3. QED BY <1>2, <2>1, <2>2 DEF FilesTold
<1>5. CASE ~Saved(d) /\ ~Insert(d)
  <2>1. \A e \in Sender : /\ row'[e].live => row[e].live
                          /\ upload'[e] = "insert" => upload[e] = "insert"
    BY <1>5 DEF UploadStep, UploadStart, SaveRefused, UploadFails, OrderRead, OrderWrite, RowRecord
  <2>2. QED BY <1>2, <2>1 DEF FilesTold
<1>6. QED BY <1>3, <1>4, <1>5

LEMMA FilesToldNext == DokShape /\ FilesTold /\ [DokNext]_dokVars => FilesTold'
<1> SUFFICES ASSUME DokShape, FilesTold, [DokNext]_dokVars PROVE FilesTold'
  OBVIOUS
<1>1. ASSUME NEW m \in Mover, MoveStep(m) PROVE FilesTold'
  <2>1. UNCHANGED <<kept, told, upload>>
    BY <1>1 DEF MoveStep, MoveStart, MoveFails, MoveRow, MoveCommit, storeVars
  <2>2. \A e \in Sender : row'[e].live = row[e].live
    <3>1. CASE MoveCommit(m)
      BY <3>1 DEF MoveCommit, DokShape, DokTypeOK, RowRecord
    <3>2. CASE ~MoveCommit(m)
      BY <1>1, <3>2 DEF MoveStep, MoveStart, MoveFails, MoveRow
    <3>3. QED BY <3>1, <3>2
  <2>3. QED BY <2>1, <2>2 DEF FilesTold
<1>2. ASSUME NEW d \in Sender, DeleteDocument(d) PROVE FilesTold'
  <2>1. UNCHANGED <<kept, told, upload>>
    BY <1>2 DEF DeleteDocument, storeVars
  <2>2. \A e \in Sender : row'[e].live => row[e].live
    BY <1>2 DEF DeleteDocument, DokShape, DokTypeOK, RowRecord
  <2>3. QED BY <2>1, <2>2 DEF FilesTold
<1>3. CASE kept \subseteq kept' /\ told' = told /\ UNCHANGED <<row, upload>>
  BY <1>3 DEF FilesTold
<1>4. QED BY <1>1, <1>2, <1>3, DokSteps, FilesToldUpload

-----------------------------------------------------------------------------
(* The order of the list.                                                  *)

\* What an upload found when it began stays above the place it has computed,
\* and then above its row.
BelowOlder ==
    \A d \in Sender : \A e \in older[d] :
        /\ upload[e] = "done" /\ e # d
        /\ row[e].live /\ upload[d] = "write" => row[e].order < place[d]
        /\ row[e].live /\ upload[d] = "done" => row[e].order < row[d].order

LEMMA BelowOlderUpload ==
    ASSUME DokShape, BelowOlder, NEW d \in Sender, UploadStep(d)
    PROVE  BelowOlder'
<1> USE DEF DokShape, DokTypeOK
<1>1. CASE UploadStart(d)
  <2>1. /\ upload[d] = "idle" /\ upload' = [upload EXCEPT ![d] = "save"]
        /\ older' = [older EXCEPT ![d] = {e \in Live : upload[e] = "done"}]
        /\ UNCHANGED <<row, place>>
    BY <1>1 DEF UploadStart
  <2>2. ASSUME NEW e \in older'[d] PROVE upload'[e] = "done" /\ e # d
    BY <2>1, <2>2 DEF Live
  <2>3. QED BY <2>1, <2>2 DEF BelowOlder
<1>2. CASE Insert(d)
  <2>1. upload[d] = "insert" /\ UNCHANGED <<place, older>>
    BY <1>2 DEF Insert
  <2>2. upload' = [upload EXCEPT ![d] = "order"] /\ \A e \in Sender \ {d} : row'[e] = row[e]
    BY <1>2 DEF Insert
  <2>3. \A x \in Sender : d \notin older[x]
    BY <2>1 DEF BelowOlder
  <2>4. QED BY <2>1, <2>2, <2>3 DEF BelowOlder
<1>3. CASE OrderRead(d)
  <2>1. /\ upload[d] = "order" /\ upload' = [upload EXCEPT ![d] = "write"]
        /\ place' = [place EXCEPT ![d] = NextPlace(d)]
        /\ UNCHANGED <<row, older>>
    BY <1>3 DEF OrderRead
  <2>2. \A e \in Live \ {d} : row[e].order < NextPlace(d)
    BY NextPlaceIsLast
  <2>3. QED BY <2>1, <2>2 DEF BelowOlder, Live
<1>4. CASE OrderWrite(d)
  <2>1. /\ upload[d] = "write" /\ upload' = [upload EXCEPT ![d] = "done"]
        /\ row' = [row EXCEPT ![d].order = place[d]]
        /\ UNCHANGED <<place, older>>
    BY <1>4 DEF OrderWrite
  <2>2. row'[d].order = place[d] /\ \A e \in Sender \ {d} : row'[e] = row[e]
    BY <2>1 DEF RowRecord
  <2>3. \A x \in Sender : d \notin older[x]
    BY <2>1 DEF BelowOlder
  <2>4. QED BY <2>1, <2>2, <2>3 DEF BelowOlder
<1>5. CASE Saved(d) \/ SaveRefused(d) \/ UploadFails(d)
  <2>1. /\ upload[d] # "done" /\ upload'[d] \in {"insert", "failed"}
        /\ \A e \in Sender \ {d} : upload'[e] = upload[e]
        /\ UNCHANGED <<row, place, older>>
    BY <1>5 DEF Saved, SaveRefused, UploadFails
  <2>2. QED BY <2>1 DEF BelowOlder
<1>6. QED BY <1>1, <1>2, <1>3, <1>4, <1>5 DEF UploadStep

LEMMA BelowOlderNext == DokShape /\ BelowOlder /\ [DokNext]_dokVars => BelowOlder'
<1> SUFFICES ASSUME DokShape, BelowOlder, [DokNext]_dokVars PROVE BelowOlder'
  OBVIOUS
<1>1. ASSUME NEW m \in Mover, MoveStep(m) PROVE BelowOlder'
  <2>1. CASE MoveCommit(m)
    BY <2>1 DEF MoveCommit, BelowOlder
  <2>2. CASE ~MoveCommit(m)
    BY <1>1, <2>2 DEF MoveStep, MoveStart, MoveFails, MoveRow, BelowOlder
  <2>3. QED BY <2>1, <2>2
<1>2. ASSUME NEW d \in Sender, DeleteDocument(d) PROVE BelowOlder'
  <2>1. /\ \A e \in Sender : row'[e].order = row[e].order /\ (row'[e].live => row[e].live)
        /\ UNCHANGED <<upload, place, older>>
    BY <1>2 DEF DeleteDocument, DokShape, DokTypeOK, RowRecord
  <2>2. older \in [Sender -> SUBSET Sender]
    BY DEF DokShape, DokTypeOK
  <2>3. QED BY <2>1, <2>2 DEF BelowOlder
<1>3. CASE UNCHANGED <<row, upload, place, older>>
  BY <1>3 DEF BelowOlder
<1>4. QED BY <1>1, <1>2, <1>3, DokSteps, BelowOlderUpload

\* The pairs of the last reorder still have their order, deleted or not.
StandingOrdered ==
    /\ standing \subseteq Sender \X Sender
    /\ \A p \in standing : /\ Inserted(p[1]) /\ Inserted(p[2])
                           /\ row[p[1]].order < row[p[2]].order

LEMMA StandingUpload ==
    ASSUME DokShape, StandingOrdered, NEW d \in Sender, UploadStep(d)
    PROVE  StandingOrdered'
<1> USE DEF DokShape, DokTypeOK
<1>1. \A e \in Sender : Inserted(e) => Inserted(e)'
  BY DEF UploadStep, UploadStart, SaveRefused, UploadFails, Saved, Insert, OrderRead, OrderWrite,
         Inserted
<1>2. CASE Insert(d)
  <2>1. ~Inserted(d) /\ UNCHANGED standing /\ \A e \in Sender \ {d} : row'[e] = row[e]
    BY <1>2 DEF Insert, Inserted
  <2>2. QED BY <1>1, <2>1 DEF StandingOrdered
<1>3. CASE OrderWrite(d)
  <2>1. /\ standing' = {p \in standing : d \notin {p[1], p[2]}}
        /\ \A e \in Sender \ {d} : row'[e] = row[e]
    BY <1>3 DEF OrderWrite
  <2>2. QED BY <1>1, <2>1 DEF StandingOrdered
<1>4. CASE ~Insert(d) /\ ~OrderWrite(d)
  <2>1. UNCHANGED <<row, standing>>
    BY <1>4 DEF UploadStep, UploadStart, SaveRefused, UploadFails, Saved, OrderRead
  <2>2. QED BY <1>1, <2>1 DEF StandingOrdered
<1>5. QED BY <1>2, <1>3, <1>4

\* The commit writes the places of the list, one each.
LEMMA StandingCommit ==
    ASSUME DokShape, NEW m \in Mover, MoveCommit(m)
    PROVE  StandingOrdered'
<1> DEFINE list == move[m].list
<1>1. list \in Seq(Sender)
  BY DEF DokShape, DokTypeOK, MoveRecord
<1>2. \A d \in Range(list) : Contains(list, d) /\ d \in Sender /\ Inserted(d)
  BY <1>1 DEF Range, Contains, DokShape, MovesInserted
<1>3. \A d \in Range(list) : PlaceOf(list, d) \in 1 .. Len(list)
  BY <1>2 DEF Contains, PlaceOf
<1>4. /\ UNCHANGED upload
      /\ standing' = {p \in Range(list) \X Range(list) : PlaceOf(list, p[1]) < PlaceOf(list, p[2])}
      /\ row' = [d \in Sender |->
             IF Contains(list, d) THEN [row[d] EXCEPT !.order = PlaceOf(list, d) - 1] ELSE row[d]]
  BY DEF MoveCommit
<1>5. row \in [Sender -> RowRecord] /\ Len(list) \in Nat
  BY <1>1 DEF DokShape, DokTypeOK
<1> HIDE DEF list
<1>6. \A d \in Range(list) : row'[d].order = PlaceOf(list, d) - 1
  BY <1>2, <1>4, <1>5 DEF RowRecord
<1>7. QED
  BY <1>2, <1>3, <1>4, <1>5, <1>6 DEF StandingOrdered, Inserted

LEMMA StandingNext == DokShape /\ StandingOrdered /\ [DokNext]_dokVars => StandingOrdered'
<1> SUFFICES ASSUME DokShape, StandingOrdered, [DokNext]_dokVars PROVE StandingOrdered'
  OBVIOUS
<1>1. ASSUME NEW m \in Mover, MoveStep(m), ~MoveCommit(m) PROVE StandingOrdered'
  BY <1>1 DEF MoveStep, MoveStart, MoveFails, MoveRow, StandingOrdered, Inserted
<1>2. ASSUME NEW d \in Sender, DeleteDocument(d) PROVE StandingOrdered'
  <2>1. /\ \A e \in Sender : row'[e].order = row[e].order
        /\ UNCHANGED <<upload, standing>>
    BY <1>2 DEF DeleteDocument, DokShape, DokTypeOK, RowRecord
  <2>2. QED BY <2>1 DEF StandingOrdered, Inserted
<1>3. CASE UNCHANGED <<row, upload, standing>>
  BY <1>3 DEF StandingOrdered, Inserted
<1>4. QED BY <1>1, <1>2, <1>3, DokSteps, StandingUpload, StandingCommit

-----------------------------------------------------------------------------
(* The theorems.                                                           *)

DokInv == DokShape /\ FilesTold /\ BelowOlder /\ StandingOrdered

LEMMA DokInitInv == DokInit => DokInv
<1> SUFFICES ASSUME NEW here \in SUBSET Sender, NEW list \in SetToSeqs(here), NEW b \in Blob,
                    DokStart(here, list, b)
             PROVE  DokInv
  BY DEF DokInit, DokStart
<1>1. DokShape
  BY DokShapeInit
<1>2. FilesTold
  BY DEF DokStart, FilesTold, NoRow
<1>3. BelowOlder /\ StandingOrdered
  BY DEF DokStart, BelowOlder, StandingOrdered
<1>4. QED BY <1>1, <1>2, <1>3 DEF DokInv

LEMMA DokInvNext == DokInv /\ [DokNext]_dokVars => DokInv'
  BY DokShapeNext, FilesToldNext, BelowOlderNext, StandingNext DEF DokInv

LEMMA DokInvMeans == DokInv => ListedIsKept /\ UploadComesLast /\ ReorderStands
<1> SUFFICES ASSUME DokInv PROVE ListedIsKept /\ UploadComesLast /\ ReorderStands
  OBVIOUS
<1>1. ListedIsKept
  BY DEF DokInv, FilesTold, ListedIsKept, Live
<1>2. UploadComesLast
  BY DEF DokInv, BelowOlder, UploadComesLast, Live, Before
<1>3. ReorderStands
  BY DEF DokInv, StandingOrdered, ReorderStands, Before
<1>4. QED BY <1>1, <1>2, <1>3

\* Every listed document can be downloaded whole, whatever fails between the
\* storage service and the table (anggaran.go:575, 591).
THEOREM ListedStaysKept == DokSpec => []ListedIsKept
<1>1. DokInv => ListedIsKept BY DokInvMeans
<1>2. QED BY <1>1, DokInitInv, DokInvNext, PTL DEF DokSpec

\* A finished upload is listed below everything that was there when it began
\* (anggaran.go:614-624), for any number of uploads that cross.
THEOREM UploadsComeLast == DokSpec => []UploadComesLast
<1>1. DokInv => UploadComesLast BY DokInvMeans
<1>2. QED BY <1>1, DokInitInv, DokInvNext, PTL DEF DokSpec

\* The list shows the last reorder that committed, never a mixture of two that
\* overlapped (anggaran.go:660-684).
THEOREM ReordersStand == DokSpec => []ReorderStands
<1>1. DokInv => ReorderStands BY DokInvMeans
<1>2. QED BY <1>1, DokInitInv, DokInvNext, PTL DEF DokSpec

\* To the handlers the storage service does only what it promises (BlobStore):
\* what CasProofs shows of the service is all they rely on (anggaran.go:575).
THEOREM HandlersUseThePromise == DokSpec => [][StoreNext]_storeVars
<1>1. ASSUME [DokNext]_dokVars PROVE [StoreNext]_storeVars
  <2>1. ASSUME NEW d \in Sender, UploadStep(d) PROVE [StoreNext]_storeVars
    BY <2>1
    DEF UploadStep, UploadStart, SaveRefused, UploadFails, Saved, Insert, OrderRead, OrderWrite,
        StoreNext
  <2>2. ASSUME NEW m \in Mover, MoveStep(m) PROVE [StoreNext]_storeVars
    BY <2>2 DEF MoveStep, MoveStart, MoveFails, MoveRow, MoveCommit
  <2>3. ASSUME NEW d \in Sender, DeleteDocument(d) PROVE [StoreNext]_storeVars
    BY <2>3 DEF DeleteDocument
  <2>4. CASE StoreKeeps
    BY <2>4 DEF StoreKeeps, StoreNext
  <2>5. CASE UNCHANGED dokVars
    BY <2>5 DEF dokVars
  <2>6. QED
    BY <1>1, <2>1, <2>2, <2>3, <2>4, <2>5 DEF DokNext, DokCommand, DokReply, UploadStep, MoveStep
<1>2. QED BY <1>1, PTL DEF DokSpec
=============================================================================
