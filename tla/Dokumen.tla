------------------------------ MODULE Dokumen -------------------------------
(***************************************************************************)
(* The evidence documents of one budget node: UploadBuktiAnggaran stores    *)
(* the file, inserts the row and gives it its place in three steps of their *)
(* own; ReorderAnggaranDokumen rewrites the places row by row in a          *)
(* transaction; documents are deleted softly.  The files are in a BlobStore.*)
(* An upload and the document it makes have one name.                      *)
(***************************************************************************)
EXTENDS BlobStore, Integers, Sequences, FiniteSetsExt, SequencesExt

CONSTANT Mover      \* calls of ReorderAnggaranDokumen

ASSUME SenderAssumption == IsFiniteSet(Sender)

VARIABLES
    row,       \* the committed rows of anggaran_dokumen_bukti
    clock,     \* rows inserted so far: created_at
    upload,    \* what each upload does next
    place,     \* the sort order an upload has computed
    move,      \* the reorders: what each does next, with its list
    older,     \* history: the documents that were there before an upload began
    standing   \* history: <<a, b>>: the last reorder that committed put a before
               \* b, and no upload has written the order of either since

dokVars == <<storeVars, row, clock, upload, place, move, older, standing>>

NoRow == [live |-> FALSE, order |-> 0, born |-> 0]

PlaceOf(list, d) == CHOOSE i \in 1 .. Len(list) : list[i] = d

\* Some uploads are over, and nothing has been moved or deleted since.
DokInit ==
    \E here \in SUBSET Sender : \E list \in SetToSeqs(here) : \E b \in Blob :
      /\ kept = IF here = {} THEN {} ELSE {b}
      /\ told = here \X {b} /\ over = here
      /\ row = [d \in Sender |-> IF d \notin here THEN NoRow ELSE
                  [live |-> TRUE, order |-> PlaceOf(list, d) - 1, born |-> PlaceOf(list, d)]]
      /\ clock = Len(list)
      /\ upload = [d \in Sender |-> IF d \in here THEN "done" ELSE "idle"]
      /\ place = [d \in Sender |-> 0]
      /\ move = [m \in Mover |-> [at |-> "idle", list |-> <<>>, done |-> 0]]
      /\ older = [d \in Sender |-> {}]
      /\ standing = {}

Live == {d \in Sender : row[d].live}

\* ORDER BY sort_order, created_at
Before(a, b) ==
    \/ row[a].order < row[b].order
    \/ row[a].order = row[b].order /\ row[a].born < row[b].born

\* The rows an open reorder has updated.
Locked(d) ==
    \E m \in Mover : /\ move[m].at = "open"
                     /\ \E i \in 1 .. move[m].done : move[m].list[i] = d

-----------------------------------------------------------------------------
(* UploadBuktiAnggaran.                                                    *)

UploadStart(d) ==
    /\ upload[d] = "idle"
    /\ upload' = [upload EXCEPT ![d] = "save"]
    /\ older' = [older EXCEPT ![d] = {e \in Live : upload[e] = "done"}]
    /\ UNCHANGED <<storeVars, row, clock, place, move, standing>>

\* Variant: the row goes in before the storage service has answered.
SavedEarly(d) ==
    /\ upload[d] = "save"
    /\ upload' = [upload EXCEPT ![d] = "insert"]
    /\ UNCHANGED <<storeVars, row, clock, place, move, older, standing>>

\* cas.Save answers with the hash.
Saved(d) ==
    /\ upload[d] = "save"
    /\ \E b \in Blob : Tell(d, b)
    /\ upload' = [upload EXCEPT ![d] = "insert"]
    /\ UNCHANGED <<row, clock, place, move, older, standing>>

SaveRefused(d) ==
    /\ upload[d] = "save"
    /\ Refuse({d})
    /\ upload' = [upload EXCEPT ![d] = "failed"]
    /\ UNCHANGED <<row, clock, place, move, older, standing>>

Insert(d) ==
    /\ upload[d] = "insert"
    /\ clock' = clock + 1
    /\ row' = [row EXCEPT ![d] = [live |-> TRUE, order |-> 0, born |-> clock']]
    /\ upload' = [upload EXCEPT ![d] = "order"]
    /\ UNCHANGED <<storeVars, place, move, older, standing>>

\* Variant: the place is looked for among the rows of another node.
NextPlaceLost(d) == 0

NextPlace(d) ==
    LET others == {row[e].order : e \in Live \ {d}}
    IN  IF others = {} THEN 0 ELSE Max(others) + 1

\* The snapshot of the order statement; it may still have to wait for the row.
OrderRead(d) ==
    /\ upload[d] = "order"
    /\ place' = [place EXCEPT ![d] = NextPlace(d)]
    /\ upload' = [upload EXCEPT ![d] = "write"]
    /\ UNCHANGED <<storeVars, row, clock, move, older, standing>>

\* The order is written and committed; a deleted row takes it too.
OrderWrite(d) ==
    /\ upload[d] = "write"
    /\ ~Locked(d)
    /\ row' = [row EXCEPT ![d].order = place[d]]
    /\ standing' = {p \in standing : d \notin {p[1], p[2]}}
    /\ upload' = [upload EXCEPT ![d] = "done"]
    /\ UNCHANGED <<storeVars, clock, place, move, older>>

\* A statement fails or the client goes away: the row, if there is one, stays.
UploadFails(d) ==
    /\ upload[d] \in {"insert", "order", "write"}
    /\ upload' = [upload EXCEPT ![d] = "failed"]
    /\ UNCHANGED <<storeVars, row, clock, place, move, older, standing>>

-----------------------------------------------------------------------------
(* ReorderAnggaranDokumen and DeleteDocument.                              *)

\* A panel sends the documents it has listed, in a new order.
MoveStart(m) ==
    /\ move[m].at = "idle"
    /\ Live # {}
    /\ \E list \in SetToSeqs(Live) :
         move' = [move EXCEPT ![m] = [at |-> "open", list |-> list, done |-> 0]]
    /\ UNCHANGED <<storeVars, row, clock, upload, place, older, standing>>

\* Variant: each statement commits by itself.
MoveRowAlone(m) ==
    LET d == move[m].list[move[m].done + 1] IN
    /\ move[m].at = "open" /\ move[m].done < Len(move[m].list)
    /\ row[d].live
    /\ row' = [row EXCEPT ![d].order = move[m].done]
    /\ move' = [move EXCEPT ![m].done = @ + 1]
    /\ UNCHANGED <<storeVars, clock, upload, place, older, standing>>

\* The next UPDATE waits for the row; a row that is gone is a 404.
MoveRow(m) ==
    LET d == move[m].list[move[m].done + 1] IN
    /\ move[m].at = "open" /\ move[m].done < Len(move[m].list)
    /\ ~Locked(d)
    /\ move' = IF row[d].live THEN [move EXCEPT ![m].done = @ + 1]
                             ELSE [move EXCEPT ![m].at = "ended"]
    /\ UNCHANGED <<storeVars, row, clock, upload, place, older, standing>>

MoveCommit(m) ==
    LET list == move[m].list IN
    /\ move[m].at = "open" /\ move[m].done = Len(list)
    /\ row' = [d \in Sender |->
         IF Contains(list, d) THEN [row[d] EXCEPT !.order = PlaceOf(list, d) - 1]
                              ELSE row[d]]
    /\ move' = [move EXCEPT ![m].at = "ended"]
    /\ standing' = {p \in Range(list) \X Range(list) : PlaceOf(list, p[1]) < PlaceOf(list, p[2])}
    /\ older' = [d \in Sender |-> {}]
    /\ UNCHANGED <<storeVars, clock, upload, place>>

\* The transaction fails, or the deadlock detector picks it.
MoveFails(m) ==
    /\ move[m].at = "open"
    /\ move' = [move EXCEPT ![m].at = "ended"]
    /\ UNCHANGED <<storeVars, row, clock, upload, place, older, standing>>

\* The check and the soft delete; a second one in between changes nothing more.
DeleteDocument(d) ==
    /\ row[d].live /\ ~Locked(d)
    /\ row' = [row EXCEPT ![d].live = FALSE]
    /\ UNCHANGED <<storeVars, clock, upload, place, move, older, standing>>

\* The storage service, for these uploads and everybody else's.
StoreKeeps == /\ \E b \in Blob \ kept : Keep(b)
              /\ UNCHANGED <<row, clock, upload, place, move, older, standing>>

\* What users do and what goes wrong; a run bounds their number.
DokCommand ==
    \/ StoreKeeps
    \/ \E d \in Sender : UploadStart(d) \/ SaveRefused(d) \/ UploadFails(d) \/ DeleteDocument(d)
    \/ \E m \in Mover : MoveStart(m) \/ MoveFails(m)

DokReply ==
    \/ \E d \in Sender : Saved(d) \/ Insert(d) \/ OrderRead(d) \/ OrderWrite(d)
    \/ \E m \in Mover : MoveRow(m) \/ MoveCommit(m)

DokNext == DokCommand \/ DokReply

DokSpec == DokInit /\ [][DokNext]_dokVars

-----------------------------------------------------------------------------
\* Every listed document can be downloaded whole, whatever fails between the
\* storage service and the table (anggaran.go:575, 591).
ListedIsKept ==
    \A d \in Live : \E b \in kept : <<d, b>> \in told

\* A finished upload is listed below everything that was there when it began,
\* unless somebody reordered the list meanwhile (anggaran.go:614-624).
UploadComesLast ==
    \A d \in Live : upload[d] = "done" => \A e \in older[d] \cap Live : Before(e, d)

\* The list shows the last reorder that was answered, never a mixture of two
\* that overlapped (anggaran.go:660-684).
ReorderStands ==
    \A p \in standing : {p[1], p[2]} \subseteq Live => Before(p[1], p[2])
=============================================================================
