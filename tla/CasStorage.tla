----------------------------- MODULE CasStorage -----------------------------
(***************************************************************************)
(* The storage service: StorageServer.UploadStream feeds the chunks of a    *)
(* stream through a pipe to a goroutine that runs CASStorage.Save, which    *)
(* copies them to a temporary file, shrinks a PDF, and publishes the result *)
(* under its SHA-256.  The backend's CASStorage.Save is the other end of    *)
(* the stream.  The file system outlives a crash of the service.           *)
(***************************************************************************)
EXTENDS Naturals, FiniteSets

CONSTANTS
    Upload,    \* calls of the backend's Save
    Content,   \* files that may be uploaded
    Pdf,       \* those that Ghostscript can shrink
    Parts      \* chunks of a file

ASSUME CasAssumption == Pdf \subseteq Content /\ Parts \in Nat

\* A blob and its hash: the first chunks of a file, shrunk or as they came.
Key == [of : Content, parts : 0 .. Parts, small : BOOLEAN]
NoKey == [of |-> "nothing"]

VARIABLES
    disk,      \* disk[k]: the file under the hash of k
    client,    \* the caller's side of the stream
    sent,      \* chunks that have reached the handler
    handler,   \* the handler of the stream
    save,      \* the goroutine that runs Save
    blob       \* what Save has in its temporary file

casVars == <<disk, client, sent, handler, save, blob>>

CasInit ==
    /\ disk = [k \in Key |-> "absent"]
    /\ client = [u \in Upload |-> "idle"]
    /\ sent = [u \in Upload |-> 0]
    /\ handler = [u \in Upload |-> "none"]
    /\ save = [u \in Upload |-> "none"]
    /\ blob = [u \in Upload |-> NoKey]

-----------------------------------------------------------------------------
(* The stream.                                                             *)

Connect(u, c) ==
    /\ client[u] = "idle"
    /\ client' = [client EXCEPT ![u] = "sending"]
    /\ handler' = [handler EXCEPT ![u] = "recv"]
    /\ blob' = [blob EXCEPT ![u] = [of |-> c, parts |-> 0, small |-> FALSE]]
    /\ UNCHANGED <<disk, sent, save>>

\* Variant: what comes after the last chunk counts as one more.
ReceivePast(u) ==
    /\ client[u] = "sending" /\ handler[u] = "recv" /\ sent[u] <= Parts
    /\ handler' = [handler EXCEPT ![u] = "write"]
    /\ sent' = [sent EXCEPT ![u] = @ + 1]
    /\ save' = [save EXCEPT ![u] = IF @ = "none" THEN "copy" ELSE @]
    /\ UNCHANGED <<disk, client, blob>>

\* A chunk arrives: startSave, and pw.Write waits for the reader.
Receive(u) ==
    /\ client[u] = "sending" /\ handler[u] = "recv" /\ sent[u] < Parts
    /\ handler' = [handler EXCEPT ![u] = "write"]
    /\ sent' = [sent EXCEPT ![u] = @ + 1]
    /\ save' = [save EXCEPT ![u] = IF @ = "none" THEN "copy" ELSE @]
    /\ UNCHANGED <<disk, client, blob>>

\* The end of the stream: pw.Close, and the handler waits for Save.
CloseStream(u) ==
    /\ client[u] = "sending" /\ handler[u] = "recv" /\ sent[u] = Parts
    /\ client' = [client EXCEPT ![u] = "waiting"]
    /\ handler' = [handler EXCEPT ![u] = "result"]
    /\ save' = [save EXCEPT ![u] = IF @ = "none" THEN "copy" ELSE @]
    /\ UNCHANGED <<disk, sent, blob>>

\* The caller gives up, or its connection breaks.
Leave(u) ==
    /\ client[u] \in {"sending", "waiting"}
    /\ client' = [client EXCEPT ![u] = "failed"]
    /\ UNCHANGED <<disk, sent, handler, save, blob>>

\* Variant: the pipe is closed as after a complete stream.
RecvErrorAsEnd(u) ==
    /\ client[u] = "failed" /\ handler[u] = "recv"
    /\ handler' = [handler EXCEPT ![u] = "result"]
    /\ UNCHANGED <<disk, client, sent, save, blob>>

\* Recv fails: pw.CloseWithError, and the handler is gone.
RecvError(u) ==
    /\ client[u] = "failed" /\ handler[u] = "recv"
    /\ handler' = [handler EXCEPT ![u] = "broken"]
    /\ UNCHANGED <<disk, client, sent, save, blob>>

\* Variant: a Save that failed is not reported on errChan.
AnswerSaved(u) ==
    /\ handler[u] = "result" /\ save[u] = "saved"
    /\ handler' = [handler EXCEPT ![u] = "none"]
    /\ client' = [client EXCEPT ![u] = IF @ = "waiting" THEN "ok" ELSE @]
    /\ UNCHANGED <<disk, sent, save, blob>>

\* The result of Save comes through errChan and is sent back.
Answer(u) ==
    /\ handler[u] = "result" /\ save[u] \in {"saved", "failed"}
    /\ handler' = [handler EXCEPT ![u] = "none"]
    /\ client' = [client EXCEPT ![u] =
         IF @ # "waiting" THEN @ ELSE IF save[u] = "saved" THEN "ok" ELSE "failed"]
    /\ UNCHANGED <<disk, sent, save, blob>>

-----------------------------------------------------------------------------
(* CASStorage.Save.                                                        *)

SaveTo(u, step) == save' = [save EXCEPT ![u] = step]

\* io.Copy takes the chunk the handler is writing.
Copy(u) ==
    /\ handler[u] = "write" /\ save[u] = "copy"
    /\ handler' = [handler EXCEPT ![u] = "recv"]
    /\ blob' = [blob EXCEPT ![u].parts = @ + 1]
    /\ UNCHANGED <<disk, client, sent, save>>

\* io.Copy meets the end of the pipe, or the error it was closed with.
CopyEnd(u) ==
    /\ save[u] = "copy"
    /\ \/ handler[u] = "result" /\ SaveTo(u, "digest")
       \/ handler[u] = "broken" /\ SaveTo(u, "failed")
    /\ UNCHANGED <<disk, client, sent, handler, blob>>

\* compressPDF, when it succeeds and helps; then the hash of the result.
Digest(u) ==
    /\ save[u] = "digest"
    /\ \E small \in BOOLEAN :
         /\ small => blob[u].of \in Pdf
         /\ blob' = [blob EXCEPT ![u].small = small]
    /\ SaveTo(u, "stat")
    /\ UNCHANGED <<disk, client, sent, handler>>

\* Content that is there already is not written again.
Stat(u) ==
    /\ save[u] = "stat"
    /\ SaveTo(u, IF disk[blob[u]] = "absent" THEN "put" ELSE "saved")
    /\ UNCHANGED <<disk, client, sent, handler, blob>>

\* Variant: the content is written in place.
PutInPlace(u) ==
    /\ save[u] = "put"
    /\ disk' = [disk EXCEPT ![blob[u]] = "partial"]
    /\ SaveTo(u, "publish")
    /\ UNCHANGED <<client, sent, handler, blob>>

\* The content is written to a temporary file of its own.
Put(u) ==
    /\ save[u] = "put"
    /\ SaveTo(u, "publish")
    /\ UNCHANGED <<disk, client, sent, handler, blob>>

Publish(u) ==
    /\ save[u] = "publish"
    /\ disk' = [disk EXCEPT ![blob[u]] = "whole"]
    /\ SaveTo(u, "saved")
    /\ UNCHANGED <<client, sent, handler, blob>>

\* A step of Save fails.  A failed copy may leave the handler in pw.Write, for
\* nobody reads the pipe any more; a failed rename over a blob that is there
\* does no harm.
SaveFails(u) ==
    /\ save[u] \in {"copy", "digest", "stat", "put", "publish"}
    /\ SaveTo(u, IF save[u] = "publish" /\ disk[blob[u]] # "absent"
                   THEN "saved" ELSE "failed")
    /\ handler' \in {handler,
         [handler EXCEPT ![u] = IF save[u] = "copy" /\ @ = "write" THEN "recv" ELSE @]}
    /\ UNCHANGED <<disk, client, sent, blob>>

\* The service stops and comes back with its disk; every open stream breaks.
CasCrash ==
    /\ \E u \in Upload : handler[u] # "none" \/ save[u] # "none"
    /\ client' = [u \in Upload |->
         IF client[u] \in {"sending", "waiting"} THEN "failed" ELSE client[u]]
    /\ handler' = [u \in Upload |-> "none"]
    /\ save' = [u \in Upload |-> "none"]
    /\ UNCHANGED <<disk, sent, blob>>

\* Steps that need nobody else.  RecvError is not one: a caller that returns
\* early leaves its stream open (services/cas_storage.go:30, 57).
Progress(u) ==
    \/ Receive(u) \/ CloseStream(u) \/ Answer(u)
    \/ Copy(u) \/ CopyEnd(u) \/ Digest(u) \/ Stat(u) \/ Put(u) \/ Publish(u)

CasNext ==
    \/ \E u \in Upload :
         \/ \E c \in Content : Connect(u, c)
         \/ Progress(u) \/ Leave(u) \/ RecvError(u) \/ SaveFails(u)
    \/ CasCrash

CasSpec == CasInit /\ [][CasNext]_casVars

-----------------------------------------------------------------------------
CasTypeOK ==
    /\ disk \in [Key -> {"absent", "partial", "whole"}]
    /\ client \in [Upload -> {"idle", "sending", "waiting", "ok", "failed"}]
    /\ sent \in [Upload -> 0 .. Parts]
    /\ handler \in [Upload -> {"none", "recv", "write", "result", "broken"}]
    /\ save \in [Upload -> {"none", "copy", "digest", "stat", "put", "publish",
                            "saved", "failed"}]
    /\ blob \in [Upload -> Key \cup {NoKey}]

\* Whatever breaks off, fails or crashes, and whoever else uploads the same
\* content: a file under a hash is the whole of what the hash names, and that is
\* a complete upload, never the first chunks of one (cas_storage.go:119-145,
\* server.go:53-56).
NoTornBlob ==
    \A k \in Key : disk[k] # "absent" => disk[k] = "whole" /\ k.parts = Parts

\* The service keeps the promise of BlobStore to every caller of Save.
Store == INSTANCE BlobStore WITH
    Blob <- Key,
    Sender <- Upload,
    kept <- {k \in Key : disk[k] = "whole"},
    told <- {<<u, blob[u]>> : u \in {v \in Upload : client[v] = "ok"}},
    over <- {u \in Upload : client[u] \in {"ok", "failed"}}

KeepsPromise == Store!StoreSpec

\* The handler waits in pw.Write for a reader that is gone (server.go:65).
Stuck(u) == handler[u] = "write" /\ save[u] = "failed"

\* Every upload ends, with its hash or with an error, unless its Save failed
\* while the handler still had a chunk to write (server.go:65, 75).
UploadsEnd ==
    \A u \in Upload : client[u] \in {"sending", "waiting"}
        ~> client[u] \in {"ok", "failed"} \/ Stuck(u)
=============================================================================
