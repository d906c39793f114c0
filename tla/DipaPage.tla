------------------------------ MODULE DipaPage ------------------------------
(***************************************************************************)
(* The page of the DIPA and RKKS documents: a list for the period of the    *)
(* filter, an upload for a period of its own, and deletes.  An upload makes *)
(* a row of its own each time, so one that is tried again makes two.        *)
(***************************************************************************)
EXTENDS QueryCache, FiniteSets

CONSTANTS
    File,        \* files that may be chosen
    PdfFile,     \* those of them whose name ends in .pdf
    Slot,        \* a year, a month and a revision
    DipaId       \* bound: rows that may be made

ASSUME FileAssumption == PdfFile \subseteq File

VARIABLES
    dipa,        \* dipa[s]: the rows of the table for a period
    dipaMade,    \* ids that were given to a row
    dipaCache,   \* useDipaDokumen, one entry for each period
    filter,      \* tahun, bulan, revisi
    picked,      \* uploadFile
    uploadSlot,  \* uploadTahun, uploadBulan, uploadRevisi
    dipaUpload,  \* the upload in flight
    dipaDelete,  \* deleteTarget and the delete in flight
    due          \* history: due[s]: answered uploads the list has to show

dipaVars == <<dipa, dipaMade, dipaCache, filter, picked, uploadSlot, dipaUpload, dipaDelete, due>>

NoFile == "no file"
NoDipa == "no row"
NoUpload == [at |-> "idle", doc |-> NoDipa, slot |-> CHOOSE s \in Slot : TRUE]
NoDelete == [at |-> "idle", target |-> NoDipa, doc |-> NoDipa]

DipaInit ==
    /\ dipa = [s \in Slot |-> {}] /\ dipaMade = {}
    /\ \E s \in Slot :
         /\ filter = s /\ uploadSlot = s
         /\ dipaCache = [t \in Slot |-> IF t = s THEN Fetch(EmptyEntry({})) ELSE EmptyEntry({})]
    /\ picked = NoFile
    /\ dipaUpload = NoUpload /\ dipaDelete = NoDelete
    /\ due = [s \in Slot |-> {}]

AllDipa == UNION {dipa[s] : s \in Slot}

-----------------------------------------------------------------------------
(* The page.                                                               *)

ChooseFilter(s) ==
    /\ dipaDelete.target = NoDipa /\ s # filter
    /\ filter' = s
    /\ dipaCache' = [dipaCache EXCEPT ![s] = Observe(@)]
    /\ UNCHANGED <<dipa, dipaMade, picked, uploadSlot, dipaUpload, dipaDelete, due>>

ChooseUploadSlot(s) ==
    /\ dipaDelete.target = NoDipa /\ s # uploadSlot
    /\ uploadSlot' = s
    /\ UNCHANGED <<dipa, dipaMade, dipaCache, filter, picked, dipaUpload, dipaDelete, due>>

\* pickFile: another kind of file leaves what was picked before.
PickFile(f) ==
    /\ dipaDelete.target = NoDipa
    /\ f \in PdfFile /\ f # picked
    /\ picked' = f
    /\ UNCHANGED <<dipa, dipaMade, dipaCache, filter, uploadSlot, dipaUpload, dipaDelete, due>>

\* Unggah Dokumen is disabled without a file and while one is under way.
HandleUpload ==
    /\ dipaDelete.target = NoDipa
    /\ picked # NoFile /\ dipaUpload.at = "idle"
    /\ dipaUpload' = [at |-> "sent", doc |-> NoDipa, slot |-> uploadSlot]
    /\ UNCHANGED <<dipa, dipaMade, dipaCache, filter, picked, uploadSlot, dipaDelete, due>>

\* The dialog lies over the page.
AskDipaDelete(d) ==
    /\ dipaDelete.target = NoDipa
    /\ dipaCache[filter].has /\ d \in dipaCache[filter].data
    /\ dipaDelete' = [dipaDelete EXCEPT !.target = d]
    /\ UNCHANGED <<dipa, dipaMade, dipaCache, filter, picked, uploadSlot, dipaUpload, due>>

\* Batal waits for the delete, a click beside the dialog does not.
LeaveDipaDelete ==
    /\ dipaDelete.target # NoDipa
    /\ dipaDelete' = [dipaDelete EXCEPT !.target = NoDipa]
    /\ UNCHANGED <<dipa, dipaMade, dipaCache, filter, picked, uploadSlot, dipaUpload, due>>

HandleDelete ==
    /\ dipaDelete.target # NoDipa /\ dipaDelete.at = "idle"
    /\ dipaDelete' = [dipaDelete EXCEPT !.at = "sent", !.doc = dipaDelete.target]
    /\ UNCHANGED <<dipa, dipaMade, dipaCache, filter, picked, uploadSlot, dipaUpload, due>>

-----------------------------------------------------------------------------
(* The handlers.                                                           *)

MakeRow(d, s) ==
    /\ dipa' = [dipa EXCEPT ![s] = @ \cup {d}]
    /\ dipaMade' = dipaMade \cup {d}

\* UploadDipaDokumen: the file goes to the storage service, then its row is made.
UploadDipaDokumen ==
    /\ dipaUpload.at = "sent"
    /\ \E d \in DipaId \ dipaMade :
         /\ MakeRow(d, dipaUpload.slot)
         /\ dipaUpload' = [dipaUpload EXCEPT !.at = "done", !.doc = d]
    /\ UNCHANGED <<dipaCache, filter, picked, uploadSlot, dipaDelete, due>>

\* The row goes, the file stays; a document that is gone is a 404.
DeleteDipaDokumen ==
    /\ dipaDelete.at = "sent"
    /\ dipaDelete' = [dipaDelete EXCEPT !.at = IF dipaDelete.doc \in AllDipa THEN "done" ELSE "refused"]
    /\ dipa' = [s \in Slot |-> dipa[s] \ {dipaDelete.doc}]
    /\ due' = [s \in Slot |-> due[s] \ {dipaDelete.doc}]
    /\ UNCHANGED <<dipaMade, dipaCache, filter, picked, uploadSlot, dipaUpload>>

\* Another user uploads a document, or an upload given up here ends late.
OtherUploadsDipa(d, s) ==
    /\ d \notin dipaMade
    /\ MakeRow(d, s)
    /\ UNCHANGED <<dipaCache, filter, picked, uploadSlot, dipaUpload, dipaDelete, due>>

\* Another user deletes a document, or a delete given up here ends late.
OtherDeletesDipa(d) ==
    /\ d \in AllDipa
    /\ dipa' = [s \in Slot |-> dipa[s] \ {d}]
    /\ due' = [s \in Slot |-> due[s] \ {d}]
    /\ UNCHANGED <<dipaMade, dipaCache, filter, picked, uploadSlot, dipaUpload, dipaDelete>>

-----------------------------------------------------------------------------
(* The answers.                                                            *)

\* Variant: only the list on the screen is told.
RefreshShownDipa ==
    dipaCache' = [dipaCache EXCEPT ![filter] = Refetch(Invalidate(@, TRUE))]

\* invalidateQueries for ['dipa-dokumen'], whatever the period.
RefreshDipa ==
    dipaCache' = [s \in Slot |-> Invalidate(dipaCache[s], s = filter)]

\* The list has to show the document while it is there, unless the upload overtook
\* the list's own request: one in the first load, or left while it was fetched.
DueNow(u) ==
    LET e == dipaCache[u.slot] IN
    due' = IF u.doc \notin AllDipa \/ Overtaken(e, u.slot = filter, u.doc \notin e.ans)
             THEN due ELSE [due EXCEPT ![u.slot] = @ \cup {u.doc}]

\* The answer clears the file picked by then.
UploadAnswered ==
    /\ dipaUpload.at = "done"
    /\ RefreshDipa /\ DueNow(dipaUpload)
    /\ picked' = NoFile
    /\ dipaUpload' = NoUpload
    /\ UNCHANGED <<dipa, dipaMade, filter, uploadSlot, dipaDelete>>

\* Refused, or an answer lost: the file stays picked.
UploadLost ==
    /\ dipaUpload.at # "idle"
    /\ dipaUpload' = NoUpload
    /\ UNCHANGED <<dipa, dipaMade, dipaCache, filter, picked, uploadSlot, dipaDelete, due>>

DipaDeleteAnswered ==
    /\ dipaDelete.at = "done"
    /\ RefreshDipa
    /\ dipaDelete' = NoDelete
    /\ UNCHANGED <<dipa, dipaMade, filter, picked, uploadSlot, dipaUpload, due>>

\* catch { /* noop */ }: the dialog stays.
DipaDeleteFails ==
    /\ dipaDelete.at # "idle"
    /\ dipaDelete' = [dipaDelete EXCEPT !.at = "idle"]
    /\ UNCHANGED <<dipa, dipaMade, dipaCache, filter, picked, uploadSlot, dipaUpload, due>>

DipaRead(s) ==
    /\ dipaCache[s].fetch = "sent"
    /\ dipaCache' = [dipaCache EXCEPT ![s] = ServerReads(@, dipa[s])]
    /\ UNCHANGED <<dipa, dipaMade, filter, picked, uploadSlot, dipaUpload, dipaDelete, due>>

DipaLands(s) ==
    /\ dipaCache[s].fetch = "read"
    /\ dipaCache' = [dipaCache EXCEPT ![s] = Land(@)]
    /\ UNCHANGED <<dipa, dipaMade, filter, picked, uploadSlot, dipaUpload, dipaDelete, due>>

DipaLost(s) ==
    /\ dipaCache[s].fetch \in {"sent", "read"}
    /\ dipaCache' = [dipaCache EXCEPT ![s] = Lose(@)]
    /\ UNCHANGED <<dipa, dipaMade, filter, picked, uploadSlot, dipaUpload, dipaDelete, due>>

\* What users do and what gets lost; a run bounds their number.
DipaCommand ==
    \/ HandleUpload \/ LeaveDipaDelete \/ HandleDelete \/ UploadLost \/ DipaDeleteFails
    \/ \E s \in Slot : ChooseFilter(s) \/ ChooseUploadSlot(s) \/ DipaLost(s)
    \/ \E f \in File : PickFile(f)
    \/ \E d \in DipaId : AskDipaDelete(d) \/ OtherDeletesDipa(d) \/ \E s \in Slot : OtherUploadsDipa(d, s)

DipaReply ==
    \/ UploadDipaDokumen \/ DeleteDipaDokumen
    \/ UploadAnswered \/ DipaDeleteAnswered
    \/ \E s \in Slot : DipaRead(s) \/ DipaLands(s)

DipaSpec == DipaInit /\ [][DipaCommand \/ DipaReply]_dipaVars

-----------------------------------------------------------------------------
\* A list at rest on the screen shows every upload that was answered and not
\* deleted since, though the period of an upload is not the period of the list.
\* Excepted is an upload answered while a request the server had read before it
\* was under way for a list in its first load or off the screen, which is not
\* sent again
\* (useDipaDokumen.ts:51-53, AnggaranImportPage.tsx:59).
DipaListed ==
    AtRest(dipaCache[filter]) => due[filter] \subseteq dipaCache[filter].data
=============================================================================
