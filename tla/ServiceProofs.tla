---------------------------- MODULE ServiceProofs ----------------------------
(***************************************************************************)
(* Theorems about the two parts MCService puts side by side:                *)
(*   - CasStorage, for every set of uploads and contents and every number   *)
(*     of chunks;                                                           *)
(*   - AuthStore, for every set of tokens, owners and calls: the user on    *)
(*     the screen is the user of the cookie, as long as the cookie changes  *)
(*     by this tab only.                                                    *)
(***************************************************************************)
EXTENDS CasStorage, AuthStore, TLAPS

----------------------------------------------------------------------------
(* The storage service. *)

\* The chunks Save has been given: all that arrived but the one being written.
Taken(u) == IF handler[u] = "write" THEN sent[u] - 1 ELSE sent[u]

\* What the steps of one upload know of each other.
UploadInv(u) ==
    /\ client[u] = "idle" => handler[u] = "none" /\ save[u] = "none" /\ sent[u] = 0
    /\ client[u] # "idle" => blob[u] \in Key
    /\ client[u] = "ok" => handler[u] = "none" /\ save[u] \in {"none", "saved"}
    /\ handler[u] = "write" => sent[u] > 0 /\ save[u] # "none"
    /\ handler[u] \in {"recv", "write"} => save[u] \in {"none", "copy", "failed"}
    /\ handler[u] = "result" => save[u] # "none" /\ sent[u] = Parts
    /\ save[u] = "copy" => handler[u] # "none"
    /\ save[u] \in {"digest", "stat", "put", "publish"} => handler[u] = "result"
    /\ save[u] \in {"none", "copy"} /\ handler[u] # "none" => blob[u].parts = Taken(u)
    /\ save[u] \in {"digest", "stat", "put", "publish", "saved"} => blob[u].parts = Parts
    /\ save[u] = "saved" \/ client[u] = "ok" => disk[blob[u]] = "whole"

CasInv == CasTypeOK /\ NoTornBlob /\ \A u \in Upload : UploadInv(u)

-----------------------------------------------------------------------------
(* The type of the variables.                                              *)

LEMMA KeyParts ==
    ASSUME NEW k \in Key
    PROVE  /\ k.of \in Content /\ k.parts \in 0 .. Parts /\ k.small \in BOOLEAN
           /\ \A n \in 0 .. Parts : [k EXCEPT !.parts = n] \in Key
           /\ \A b \in BOOLEAN : /\ [k EXCEPT !.small = b] \in Key
                                /\ [k EXCEPT !.small = b].parts = k.parts
           /\ \A n \in 0 .. Parts : [k EXCEPT !.parts = n].parts = n
  BY DEF Key

LEMMA CasInitInv == CasInit => CasInv
  BY CasAssumption DEF CasInit, CasInv, CasTypeOK, NoTornBlob, UploadInv

\* A step of one upload that leaves the disk alone keeps what the others know.
LEMMA OthersKeep ==
    ASSUME CasInv, NEW u \in Upload, NEW v \in Upload \ {u},
           \A k \in Key : disk[k] = "whole" => disk'[k] = "whole",
           client'[v] = client[v], sent'[v] = sent[v], handler'[v] = handler[v],
           save'[v] = save[v], blob'[v] = blob[v]
    PROVE  UploadInv(v)'
  BY DEF CasInv, UploadInv, Taken, CasTypeOK

\* The steps of the stream.
LEMMA StreamStep ==
    ASSUME CasInv, NEW u \in Upload,
           \/ \E c \in Content : Connect(u, c)
           \/ Receive(u) \/ CloseStream(u) \/ Leave(u) \/ RecvError(u) \/ Answer(u)
    PROVE  CasInv'
<1> USE CasAssumption DEF CasInv
<1>1. UNCHANGED disk /\ NoTornBlob'
  BY DEF Connect, Receive, CloseStream, Leave, RecvError, Answer, NoTornBlob
<1>2. \A v \in Upload \ {u} : UploadInv(v)'
  BY <1>1, OthersKeep
     DEF Connect, Receive, CloseStream, Leave, RecvError, Answer, CasTypeOK
<1>3. CASE \E c \in Content : Connect(u, c)
  <2>1. PICK c \in Content : Connect(u, c) BY <1>3
  <2>2. [of |-> c, parts |-> 0, small |-> FALSE] \in Key BY DEF Key
  <2>3. CasTypeOK' BY <2>1, <2>2 DEF Connect, CasTypeOK
  <2>4. UploadInv(u)' BY <2>1, <2>2 DEF Connect, CasTypeOK, UploadInv, Taken
  <2>5. QED BY <1>1, <1>2, <2>3, <2>4
<1>4. CASE Receive(u)
  <2>1. CasTypeOK' BY <1>4 DEF Receive, CasTypeOK
  <2>2. UploadInv(u)' BY <1>4 DEF Receive, CasTypeOK, UploadInv, Taken
  <2>3. QED BY <1>1, <1>2, <2>1, <2>2
<1>5. CASE CloseStream(u)
  <2>1. CasTypeOK' BY <1>5 DEF CloseStream, CasTypeOK
  <2>2. UploadInv(u)' BY <1>5 DEF CloseStream, CasTypeOK, UploadInv, Taken
  <2>3. QED BY <1>1, <1>2, <2>1, <2>2
<1>6. CASE Leave(u)
  <2>1. CasTypeOK' BY <1>6 DEF Leave, CasTypeOK
  <2>2. UploadInv(u)' BY <1>6 DEF Leave, CasTypeOK, UploadInv, Taken
  <2>3. QED BY <1>1, <1>2, <2>1, <2>2
<1>7. CASE RecvError(u)
  <2>1. CasTypeOK' BY <1>7 DEF RecvError, CasTypeOK
  <2>2. UploadInv(u)' BY <1>7 DEF RecvError, CasTypeOK, UploadInv, Taken
  <2>3. QED BY <1>1, <1>2, <2>1, <2>2
<1>8. CASE Answer(u)
  <2>1. CasTypeOK' BY <1>8 DEF Answer, CasTypeOK
  <2>2. UploadInv(u)' BY <1>8 DEF Answer, CasTypeOK, UploadInv, Taken
  <2>3. QED BY <1>1, <1>2, <2>1, <2>2
<1>9. QED BY <1>3, <1>4, <1>5, <1>6, <1>7, <1>8

\* The steps of Save.
LEMMA SaveStep ==
    ASSUME CasInv, NEW u \in Upload,
           \/ Copy(u) \/ CopyEnd(u) \/ Digest(u) \/ Stat(u) \/ Put(u)
           \/ Publish(u) \/ SaveFails(u)
    PROVE  CasInv'
<1> USE CasAssumption DEF CasInv
<1>1. client[u] # "idle" /\ blob[u] \in Key
  BY DEF Copy, CopyEnd, Digest, Stat, Put, Publish, SaveFails, UploadInv, CasTypeOK
<1>2. \A k \in Key : disk[k] = "whole" => disk'[k] = "whole"
  BY <1>1 DEF Copy, CopyEnd, Digest, Stat, Put, Publish, SaveFails, CasTypeOK
<1>3. \A v \in Upload \ {u} : UploadInv(v)'
  <2>1. SUFFICES ASSUME NEW v \in Upload \ {u}
                 PROVE  UploadInv(v)'
    OBVIOUS
  <2>2. /\ client'[v] = client[v] /\ sent'[v] = sent[v] /\ handler'[v] = handler[v]
        /\ save'[v] = save[v] /\ blob'[v] = blob[v]
    BY DEF Copy, CopyEnd, Digest, Stat, Put, Publish, SaveFails, SaveTo, CasTypeOK
  <2>3. QED BY <1>2, <2>2, OthersKeep
<1>4. CASE Copy(u)
  <2>1. sent[u] \in 0 .. Parts /\ blob[u].parts = sent[u] - 1 /\ sent[u] > 0
    BY <1>4 DEF Copy, UploadInv, Taken, CasTypeOK
  <2>2. blob' = [blob EXCEPT ![u] = [blob[u] EXCEPT !.parts = sent[u]]]
    <3>1. blob[u].parts + 1 = sent[u] BY <2>1
    <3>2. blob' = [blob EXCEPT ![u] = [blob[u] EXCEPT !.parts = blob[u].parts + 1]]
      BY <1>4 DEF Copy
    <3>3. QED BY <3>1, <3>2
  <2>3. [blob[u] EXCEPT !.parts = sent[u]] \in Key /\ blob'[u] \in Key
        /\ blob'[u].parts = sent[u]
    BY <1>1, <2>1, <2>2, KeyParts DEF CasTypeOK
  <2>4. CasTypeOK' BY <1>4, <2>2, <2>3 DEF Copy, CasTypeOK
  <2>5. UploadInv(u)' BY <1>4, <2>1, <2>3 DEF Copy, CasTypeOK, UploadInv, Taken
  <2>6. NoTornBlob' BY <1>4 DEF Copy, NoTornBlob
  <2>7. QED BY <1>3, <2>4, <2>5, <2>6
<1>5. CASE CopyEnd(u)
  <2>1. CasTypeOK' BY <1>5 DEF CopyEnd, SaveTo, CasTypeOK
  <2>2. UploadInv(u)' BY <1>5 DEF CopyEnd, SaveTo, CasTypeOK, UploadInv, Taken
  <2>3. NoTornBlob' BY <1>5 DEF CopyEnd, NoTornBlob
  <2>4. QED BY <1>3, <2>1, <2>2, <2>3
<1>6. CASE Digest(u)
  <2>1. PICK small \in BOOLEAN : blob' = [blob EXCEPT ![u] = [blob[u] EXCEPT !.small = small]]
    BY <1>6 DEF Digest, CasTypeOK
  <2>2. [blob[u] EXCEPT !.small = small] \in Key /\ blob'[u] \in Key
        /\ blob'[u].parts = blob[u].parts
    BY <1>1, <2>1, KeyParts DEF CasTypeOK
  <2>3. CasTypeOK' BY <1>6, <2>1, <2>2 DEF Digest, SaveTo, CasTypeOK
  <2>4. UploadInv(u)' BY <1>6, <2>2 DEF Digest, SaveTo, CasTypeOK, UploadInv, Taken
  <2>5. NoTornBlob' BY <1>6 DEF Digest, NoTornBlob
  <2>6. QED BY <1>3, <2>3, <2>4, <2>5
<1>7. CASE Stat(u)
  <2>1. CasTypeOK' BY <1>7 DEF Stat, SaveTo, CasTypeOK
  <2>2. UploadInv(u)'
    BY <1>1, <1>7 DEF Stat, SaveTo, CasTypeOK, UploadInv, Taken, NoTornBlob
  <2>3. NoTornBlob' BY <1>7 DEF Stat, NoTornBlob
  <2>4. QED BY <1>3, <2>1, <2>2, <2>3
<1>8. CASE Put(u)
  <2>1. CasTypeOK' BY <1>8 DEF Put, SaveTo, CasTypeOK
  <2>2. UploadInv(u)' BY <1>8 DEF Put, SaveTo, CasTypeOK, UploadInv, Taken
  <2>3. NoTornBlob' BY <1>8 DEF Put, NoTornBlob
  <2>4. QED BY <1>3, <2>1, <2>2, <2>3
<1>9. CASE Publish(u)
  <2>1. CasTypeOK' BY <1>9 DEF Publish, SaveTo, CasTypeOK
  <2>2. UploadInv(u)' BY <1>1, <1>9 DEF Publish, SaveTo, CasTypeOK, UploadInv, Taken
  <2>3. NoTornBlob' BY <1>1, <1>9 DEF Publish, NoTornBlob, CasTypeOK, UploadInv
  <2>4. QED BY <1>3, <2>1, <2>2, <2>3
<1>10. CASE SaveFails(u)
  <2>1. CasTypeOK' BY <1>10 DEF SaveFails, SaveTo, CasTypeOK
  <2>2. UploadInv(u)'
    BY <1>1, <1>10 DEF SaveFails, SaveTo, CasTypeOK, UploadInv, Taken, NoTornBlob
  <2>3. NoTornBlob' BY <1>10 DEF SaveFails, NoTornBlob
  <2>4. QED BY <1>3, <2>1, <2>2, <2>3
<1>11. QED BY <1>4, <1>5, <1>6, <1>7, <1>8, <1>9, <1>10

LEMMA CrashStep == CasInv /\ CasCrash => CasInv'
  BY CasAssumption DEF CasInv, CasCrash, CasTypeOK, NoTornBlob, UploadInv, Taken

LEMMA CasStep == CasInv /\ [CasNext]_casVars => CasInv'
<1> SUFFICES ASSUME CasInv, [CasNext]_casVars
             PROVE  CasInv'
  OBVIOUS
<1>1. CASE CasCrash BY <1>1, CrashStep
<1>2. CASE UNCHANGED casVars
  BY <1>2 DEF casVars, CasInv, CasTypeOK, NoTornBlob, UploadInv, Taken
<1>3. CASE \E u \in Upload : \/ \E c \in Content : Connect(u, c)
                            \/ Progress(u) \/ Leave(u) \/ RecvError(u) \/ SaveFails(u)
  BY <1>3, StreamStep, SaveStep DEF Progress
<1>4. QED BY <1>1, <1>2, <1>3 DEF CasNext

\* The variables keep their types, for every set of uploads and contents.
THEOREM CasTypeCorrect == CasSpec => []CasTypeOK
<1>1. CasInv => CasTypeOK BY DEF CasInv
<1>2. QED BY <1>1, CasInitInv, CasStep, PTL DEF CasSpec

\* Under a hash there is the whole content or nothing, after any crash and with
\* any number of uploads of the same content at once.
THEOREM BlobsWhole == CasSpec => []NoTornBlob
<1>1. CasInv => NoTornBlob BY DEF CasInv
<1>2. QED BY <1>1, CasInitInv, CasStep, PTL DEF CasSpec

-----------------------------------------------------------------------------
(* CasStorage implements BlobStore.                                        *)

Finished(u) == client[u] \in {"ok", "failed"}

\* The first state is that of the store.
LEMMA CasInitStore == CasInit => Store!StoreInit
  BY DEF CasInit, Store!StoreInit

\* A step that publishes nothing and ends no call is nothing to the store.
LEMMA Unseen ==
    ASSUME UNCHANGED disk,
           \A v \in Upload :
               /\ (client'[v] = "ok") <=> (client[v] = "ok")
               /\ Finished(v)' <=> Finished(v)
               /\ client[v] = "ok" => blob'[v] = blob[v]
    PROVE  UNCHANGED Store!storeVars
<1>1. {k \in Key : disk'[k] = "whole"} = {k \in Key : disk[k] = "whole"} OBVIOUS
<1>2. {v \in Upload : client'[v] = "ok"} = {v \in Upload : client[v] = "ok"} OBVIOUS
<1>3. {<<v, blob'[v]>> : v \in {w \in Upload : client'[w] = "ok"}}
        = {<<v, blob[v]>> : v \in {w \in Upload : client[w] = "ok"}}
  BY <1>2
<1>4. {v \in Upload : client'[v] \in {"ok", "failed"}}
        = {v \in Upload : client[v] \in {"ok", "failed"}}
  BY DEF Finished
<1>5. QED BY <1>1, <1>3, <1>4 DEF Store!storeVars

\* Calls that end with an error.
LEMMA RefuseMaps ==
    ASSUME NEW S \in SUBSET Upload,
           \A v \in S : client[v] \in {"sending", "waiting"},
           \A v \in Upload : client'[v] = IF v \in S THEN "failed" ELSE client[v],
           UNCHANGED <<disk, blob>>
    PROVE  Store!Refuse(S)
<1>1. S \cap {v \in Upload : client[v] \in {"ok", "failed"}} = {} OBVIOUS
<1>2. {v \in Upload : client'[v] \in {"ok", "failed"}}
        = {v \in Upload : client[v] \in {"ok", "failed"}} \cup S
  OBVIOUS
<1>3. {v \in Upload : client'[v] = "ok"} = {v \in Upload : client[v] = "ok"} OBVIOUS
<1>4. {<<v, blob'[v]>> : v \in {w \in Upload : client'[w] = "ok"}}
        = {<<v, blob[v]>> : v \in {w \in Upload : client[w] = "ok"}}
  BY <1>3
<1>5. QED BY <1>1, <1>2, <1>4 DEF Store!Refuse

\* The answer of a Save that worked gives out a hash whose blob is there.
LEMMA TellMaps ==
    ASSUME CasInv, NEW u \in Upload, Answer(u), client[u] = "waiting", save[u] = "saved"
    PROVE  Store!Tell(u, blob[u]) /\ blob[u] \in Key
<1>1. UploadInv(u) /\ blob[u] \in Key /\ disk[blob[u]] = "whole"
  BY DEF CasInv, UploadInv
<1>2. client' = [client EXCEPT ![u] = "ok"] /\ UNCHANGED <<disk, blob>>
  BY DEF Answer
<1>3. {v \in Upload : client'[v] = "ok"} = {v \in Upload : client[v] = "ok"} \cup {u}
  BY <1>2 DEF CasInv, CasTypeOK
<1>4. {<<v, blob'[v]>> : v \in {w \in Upload : client'[w] = "ok"}}
        = {<<v, blob[v]>> : v \in {w \in Upload : client[w] = "ok"}} \cup {<<u, blob[u]>>}
  BY <1>2, <1>3
<1>5. {v \in Upload : client'[v] \in {"ok", "failed"}}
        = {v \in Upload : client[v] \in {"ok", "failed"}} \cup {u}
  BY <1>2 DEF CasInv, CasTypeOK
<1>6. u \notin {v \in Upload : client[v] \in {"ok", "failed"}} OBVIOUS
<1>7. QED BY <1>1, <1>2, <1>4, <1>5, <1>6 DEF Store!Tell

LEMMA KeepMaps ==
    ASSUME CasInv, NEW u \in Upload, Publish(u)
    PROVE  Store!Keep(blob[u]) /\ blob[u] \in Key
<1>1. blob[u] \in Key BY DEF CasInv, UploadInv, Publish
<1>2. disk' = [disk EXCEPT ![blob[u]] = "whole"] /\ UNCHANGED <<client, blob>>
  BY DEF Publish
<1>3. {k \in Key : disk'[k] = "whole"} = {k \in Key : disk[k] = "whole"} \cup {blob[u]}
  BY <1>1, <1>2 DEF CasInv, CasTypeOK
<1>4. QED BY <1>1, <1>2, <1>3 DEF Store!Keep

LEMMA CasStepStore ==
    CasInv /\ [CasNext]_casVars => [Store!StoreNext]_(Store!storeVars)
<1> SUFFICES ASSUME CasInv, [CasNext]_casVars
             PROVE  Store!StoreNext \/ UNCHANGED Store!storeVars
  OBVIOUS
<1>1. CASE UNCHANGED casVars
  BY <1>1, Unseen DEF casVars, Finished
<1>2. CASE CasCrash
  <2>1. PICK S \in SUBSET Upload : S = {v \in Upload : client[v] \in {"sending", "waiting"}}
    OBVIOUS
  <2>2. Store!Refuse(S)
    <3>1. \A v \in Upload : client'[v] = IF v \in S THEN "failed" ELSE client[v]
      BY <1>2, <2>1 DEF CasCrash
    <3>2. UNCHANGED <<disk, blob>> BY <1>2 DEF CasCrash
    <3>3. QED BY <2>1, <3>1, <3>2, RefuseMaps
  <2>3. QED BY <2>2 DEF Store!StoreNext
<1>3. ASSUME NEW u \in Upload, \E c \in Content : Connect(u, c)
      PROVE  UNCHANGED Store!storeVars
  BY <1>3, Unseen DEF Connect, Finished, CasInv, CasTypeOK
<1>4. ASSUME NEW u \in Upload, Receive(u) \/ RecvError(u)
      PROVE  UNCHANGED Store!storeVars
  BY <1>4, Unseen DEF Receive, RecvError, Finished
<1>5. ASSUME NEW u \in Upload, CloseStream(u)
      PROVE  UNCHANGED Store!storeVars
  BY <1>5, Unseen DEF CloseStream, Finished, CasInv, CasTypeOK
<1>6. ASSUME NEW u \in Upload, Leave(u)
      PROVE  Store!StoreNext
  <2>1. Store!Refuse({u}) BY <1>6, RefuseMaps DEF Leave, CasInv, CasTypeOK
  <2>2. QED BY <2>1 DEF Store!StoreNext
<1>7. ASSUME NEW u \in Upload, Answer(u)
      PROVE  Store!StoreNext \/ UNCHANGED Store!storeVars
  <2>1. CASE client[u] # "waiting"
    BY <1>7, <2>1, Unseen DEF Answer, Finished, CasInv, CasTypeOK
  <2>2. CASE client[u] = "waiting" /\ save[u] = "saved"
    BY <1>7, <2>2, TellMaps DEF Store!StoreNext, Store!Tell
  <2>3. CASE client[u] = "waiting" /\ save[u] # "saved"
    <3>1. Store!Refuse({u}) BY <1>7, <2>3, RefuseMaps DEF Answer, CasInv, CasTypeOK
    <3>2. QED BY <3>1 DEF Store!StoreNext
  <2>4. QED BY <2>1, <2>2, <2>3
<1>8. ASSUME NEW u \in Upload, Copy(u) \/ Digest(u)
      PROVE  UNCHANGED Store!storeVars
  <2>1. client[u] # "ok" BY <1>8 DEF Copy, Digest, CasInv, UploadInv
  <2>2. QED BY <1>8, <2>1, Unseen DEF Copy, Digest, Finished, CasInv, CasTypeOK
<1>9. ASSUME NEW u \in Upload, CopyEnd(u) \/ Stat(u) \/ Put(u) \/ SaveFails(u)
      PROVE  UNCHANGED Store!storeVars
  BY <1>9, Unseen DEF CopyEnd, Stat, Put, SaveFails, Finished
<1>10. ASSUME NEW u \in Upload, Publish(u)
       PROVE  Store!StoreNext
  BY <1>10, KeepMaps DEF Store!StoreNext, Store!Keep
<1>11. QED
  BY <1>1, <1>2, <1>3, <1>4, <1>5, <1>6, <1>7, <1>8, <1>9, <1>10 DEF CasNext, Progress

\* The service implements the store it promises to be: a hash is given out only
\* for content that is there, and it stays there, whatever fails (UploadStream
\* and Save against BlobStore).
THEOREM CasImplementsStore == CasSpec => KeepsPromise
  BY CasInitInv, CasStep, CasInitStore, CasStepStore, PTL
     DEF CasSpec, KeepsPromise, Store!StoreSpec

----------------------------------------------------------------------------
(* The browser's side of a session. *)

\* The types of the variables.
Cookie == Token \cup {NoCookie}
Changer == {ThisTab, OtherTab, Time}
CallRecord == [kind : {"free", "me", "login", "logout", "logout401", "page"},
               cookie : Cookie, status : {0, 200, 401, 503}, token : Cookie]

AuthTypeOK ==
    /\ live \subseteq Token /\ spent \subseteq Token /\ jar \in Cookie
    /\ jarBy \in Changer
    /\ booted \in BOOLEAN /\ loading \in BOOLEAN /\ handled \in BOOLEAN
    /\ calls \in [Call -> CallRecord]

\* Before the store is initialized only checkAuth is under way, and nobody is
\* shown.
BeforeBoot ==
    ~booted =>
        /\ user = Nobody
        /\ \A c \in Call : calls[c].kind \in {"free", "me"}

\* What a call in flight carries: checkAuth was sent with the cookie the browser
\* still has, unless it ran out or another tab changed it.
CallSound(c) ==
    /\ calls[c].kind = "me" => ~booted
    /\ calls[c].kind = "me" /\ jarBy = ThisTab => calls[c].cookie = jar
    /\ calls[c].kind = "me" /\ jarBy = Time => jar = NoCookie
    /\ calls[c].kind = "me" /\ calls[c].status = 200 => calls[c].cookie \in Token
    /\ calls[c].kind = "login" /\ calls[c].status = 200 => calls[c].token \in Token

\* checkAuth runs once at a time.
OneBoot == \A c, d \in Call : calls[c].kind = "me" /\ calls[d].kind = "me" => c = d

AuthInv ==
    /\ AuthTypeOK
    /\ BeforeBoot
    /\ OneBoot
    /\ \A c \in Call : CallSound(c)
    /\ StoreFollowsJar

LEMMA Changers == /\ ThisTab \in Changer /\ OtherTab \in Changer /\ Time \in Changer
                  /\ ThisTab # Time /\ OtherTab # Time /\ ThisTab # OtherTab
  BY DEF Changer, ThisTab, OtherTab, Time

LEMMA FreeFacts == Free \in CallRecord /\ Free.kind = "free"
  BY DEF Free, CallRecord, Cookie

LEMMA SentFacts ==
    ASSUME jar \in Cookie, NEW kind \in {"me", "login", "logout", "logout401", "page"}
    PROVE  /\ Sent(kind) \in CallRecord
           /\ Sent(kind).kind = kind /\ Sent(kind).cookie = jar /\ Sent(kind).status = 0
  BY DEF Sent, CallRecord, Cookie

LEMMA AuthInitInv == AuthInit => AuthInv
<1> SUFFICES ASSUME AuthInit PROVE AuthInv
  OBVIOUS
<1>1. \A c \in Call : calls[c] = Free
  BY DEF AuthInit
<1>2. AuthTypeOK
  BY FreeFacts DEF AuthInit, AuthTypeOK, Cookie, Changer
<1>3. QED
  BY <1>1, <1>2, FreeFacts DEF AuthInit, AuthInv, BeforeBoot, OneBoot, CallSound, StoreFollowsJar

\* Calls go out.
LEMMA AuthSendStep ==
    ASSUME AuthInv, NEW c \in Call,
           Boot(c) \/ SubmitLogin(c) \/ Keluar(c) \/ PageCall(c)
    PROVE  AuthInv'
<1>1. PICK k \in {"me", "login", "logout", "page"} :
         /\ calls' = [calls EXCEPT ![c] = Sent(k)]
         /\ k = "me" => ~booted /\ ~InFlight("me")
         /\ k # "me" => booted
  BY DEF Boot, SubmitLogin, Keluar, PageCall
<1>2. /\ UNCHANGED <<live, spent, jar, user, booted, handled>> /\ loading' \in BOOLEAN
      /\ jarBy' \in Changer
      /\ k = "me" => jarBy' = ThisTab
      /\ k # "me" => jarBy' = jarBy
  <2>0. calls'[c] = Sent(k) /\ Sent(k).kind = k
    BY <1>1, SentFacts DEF AuthInv, AuthTypeOK
  <2>1. CASE Boot(c)
    BY <1>1, <2>1, <2>0 DEF Boot, AuthInv, AuthTypeOK, Changer
  <2>2. CASE ~Boot(c)
    BY <1>1, <2>2, <2>0 DEF SubmitLogin, Keluar, PageCall, AuthInv, AuthTypeOK
  <2>3. QED BY <2>1, <2>2
<1>3. /\ Sent(k) \in CallRecord
      /\ Sent(k).kind = k /\ Sent(k).cookie = jar /\ Sent(k).status = 0
  BY SentFacts DEF AuthInv, AuthTypeOK
<1>4. AuthTypeOK'
  BY <1>1, <1>2, <1>3 DEF AuthInv, AuthTypeOK, Cookie, CallRecord
<1>5. calls'[c] = Sent(k) /\ \A d \in Call \ {c} : calls'[d] = calls[d]
  BY <1>1 DEF AuthInv, AuthTypeOK
<1>6. BeforeBoot'
  BY <1>1, <1>2, <1>3, <1>5 DEF AuthInv, BeforeBoot
<1>7. OneBoot'
  BY <1>1, <1>3, <1>5 DEF AuthInv, OneBoot, InFlight
<1>8. ASSUME NEW d \in Call PROVE CallSound(d)'
  <2>1. CASE k = "me"
    <3>1. d # c => calls'[d].kind # "me"
      BY <1>1, <1>5, <2>1 DEF InFlight
    <3>2. CASE d = c
      BY <1>1, <1>2, <1>3, <1>5, <2>1, <3>2, Changers DEF CallSound
    <3>3. CASE d # c
      BY <1>2, <1>5, <3>1, <3>3 DEF AuthInv, CallSound
    <3>4. QED BY <3>2, <3>3
  <2>2. CASE k # "me"
    BY <1>1, <1>2, <1>3, <1>5, <2>2 DEF AuthInv, CallSound
  <2>3. QED BY <2>1, <2>2
<1>9. QED
  <2>1. k = "me" => user' = Nobody
    BY <1>1, <1>2 DEF AuthInv, BeforeBoot
  <2>2. StoreFollowsJar'
    BY <1>2, <2>1 DEF AuthInv, StoreFollowsJar
  <2>3. QED BY <1>4, <1>6, <1>7, <1>8, <2>2 DEF AuthInv

\* The server answers.
LEMMA ReplyFacts ==
    ASSUME AuthInv, NEW c \in Call, NEW status \in {200, 401, 503}, NEW token \in Cookie,
           Reply(c, status, token)
    PROVE  /\ calls' \in [Call -> CallRecord]
           /\ calls'[c].kind = calls[c].kind /\ calls'[c].cookie = calls[c].cookie
           /\ calls'[c].status = status /\ calls'[c].token = token
           /\ \A d \in Call \ {c} : calls'[d] = calls[d]
<1>1. calls \in [Call -> CallRecord]
  BY DEF AuthInv, AuthTypeOK
<1> DEFINE r == [kind |-> calls[c].kind, cookie |-> calls[c].cookie,
                 status |-> status, token |-> token]
<1>2. r \in CallRecord
  BY <1>1 DEF CallRecord
<1>3. calls' = [calls EXCEPT ![c] = r]
  BY DEF Reply
<1> HIDE DEF r
<1>4. calls' \in [Call -> CallRecord] /\ calls'[c] = r /\ \A d \in Call \ {c} : calls'[d] = calls[d]
  BY <1>1, <1>2, <1>3
<1>5. QED BY <1>4 DEF r

LEMMA AuthAnswerStep ==
    ASSUME AuthInv, NEW c \in Call, Answers(c)
    PROVE  AuthInv'
<1>1. PICK status \in {200, 401, 503}, token \in Cookie :
         /\ Reply(c, status, token)
         /\ status = 200 /\ calls[c].kind = "me" => calls[c].cookie \in live
         /\ status = 200 /\ calls[c].kind = "login" => token \in Token
  <2> NoCookie \in Cookie /\ Token \subseteq Cookie
    BY DEF Cookie
  <2>1. CASE GuardedAnswer(c)
    BY <2>1 DEF GuardedAnswer
  <2>2. CASE LoginAnswer(c)
    BY <2>2 DEF LoginAnswer
  <2>3. CASE LogoutAnswer(c)
    BY <2>3 DEF LogoutAnswer
  <2>4. QED BY <2>1, <2>2, <2>3 DEF Answers
<1>2. /\ live' \subseteq Token /\ spent' \subseteq Token
      /\ UNCHANGED <<jar, jarBy, user, booted, loading, handled>>
  BY DEF Answers, GuardedAnswer, LoginAnswer, LogoutAnswer, AuthInv, AuthTypeOK
<1>3. /\ calls' \in [Call -> CallRecord]
      /\ calls'[c].kind = calls[c].kind /\ calls'[c].cookie = calls[c].cookie
      /\ calls'[c].status = status /\ calls'[c].token = token
      /\ \A d \in Call \ {c} : calls'[d] = calls[d]
  BY <1>1, ReplyFacts
<1>4. live \subseteq Token
  BY DEF AuthInv, AuthTypeOK
<1>5. AuthTypeOK' /\ BeforeBoot' /\ OneBoot' /\ StoreFollowsJar'
  BY <1>2, <1>3 DEF AuthInv, AuthTypeOK, BeforeBoot, OneBoot, StoreFollowsJar
<1>6. ASSUME NEW d \in Call PROVE CallSound(d)'
  BY <1>1, <1>2, <1>3, <1>4 DEF AuthInv, CallSound
<1>7. QED BY <1>5, <1>6 DEF AuthInv

\* What apiFetch leaves behind: the call is over, or it has become the logout
\* after a 401.
LEMMA SettleFacts ==
    ASSUME AuthInv, NEW c \in Call, NEW status, Settle(c, status)
    PROVE  /\ calls' \in [Call -> CallRecord] /\ handled' \in BOOLEAN
           /\ calls'[c].kind \in {"free", "logout401"}
           /\ calls'[c].kind = "logout401" => status = 401
           /\ \A d \in Call \ {c} : calls'[d] = calls[d]
<1>1. /\ Free \in CallRecord /\ Free.kind = "free"
      /\ Sent("logout401") \in CallRecord /\ Sent("logout401").kind = "logout401"
  BY FreeFacts, SentFacts DEF AuthInv, AuthTypeOK
<1>2. CASE status = 401 /\ ~handled
  BY <1>1, <1>2 DEF Settle, AuthInv, AuthTypeOK
<1>3. CASE ~(status = 401 /\ ~handled)
  BY <1>1, <1>3 DEF Settle, AuthInv, AuthTypeOK
<1>4. QED BY <1>2, <1>3

\* checkAuth is over: the user it found is that of the cookie it was sent with,
\* which the browser still has.
LEMMA MeEndsStep ==
    ASSUME AuthInv, NEW c \in Call, NEW status, status = calls[c].status \/ status = 0,
           MeEnds(c, status)
    PROVE  AuthInv'
<1>1. Settle(c, status) /\ booted' /\ calls[c].kind = "me" /\ UNCHANGED <<jar, jarBy>>
  BY DEF MeEnds
<1>2. /\ calls' \in [Call -> CallRecord] /\ handled' \in BOOLEAN
      /\ calls'[c].kind \in {"free", "logout401"}
      /\ \A d \in Call \ {c} : calls'[d] = calls[d]
  BY <1>1, SettleFacts
<1>3. AuthTypeOK'
  BY <1>2 DEF MeEnds, AuthInv, AuthTypeOK
<1>4. \A d \in Call : calls'[d].kind # "me"
  BY <1>1, <1>2 DEF AuthInv, OneBoot
<1>5. \A d \in Call : CallSound(d)'
  BY <1>1, <1>2, <1>4 DEF AuthInv, CallSound
<1>6. status = 200 => /\ jarBy = ThisTab => jar # NoCookie /\ calls[c].cookie = jar
                      /\ jarBy = Time => jar = NoCookie
  BY <1>1, TokenAssumption DEF AuthInv, CallSound
<1>7. StoreFollowsJar'
  <2>1. CASE status = 200
    <3>1. user' = Owner[calls[c].cookie] /\ jar' = jar /\ jarBy' = jarBy
      BY <2>1 DEF MeEnds
    <3>2. QED BY <1>6, <2>1, <3>1 DEF StoreFollowsJar
  <2>2. CASE status # 200
    BY <2>2 DEF MeEnds, StoreFollowsJar
  <2>3. QED BY <2>1, <2>2
<1>8. QED
  BY <1>1, <1>3, <1>4, <1>5, <1>7 DEF AuthInv, BeforeBoot, OneBoot

\* A login's answer brings the cookie and the user together.
LEMMA LoginEndsStep ==
    ASSUME AuthInv, NEW c \in Call, NEW status, status = calls[c].status \/ status = 0,
           LoginEnds(c, status)
    PROVE  AuthInv'
<1>1. Settle(c, status) /\ calls[c].kind = "login" /\ UNCHANGED booted
  BY DEF LoginEnds
<1>2. /\ calls' \in [Call -> CallRecord] /\ handled' \in BOOLEAN
      /\ calls'[c].kind \in {"free", "logout401"}
      /\ \A d \in Call \ {c} : calls'[d] = calls[d]
  BY <1>1, SettleFacts
<1>3. booted
  BY <1>1 DEF AuthInv, BeforeBoot
<1>4. status = 200 => calls[c].token \in Token
  BY <1>1 DEF AuthInv, CallSound
<1>5. AuthTypeOK'
  <2>1. jar' \in Cookie
    BY <1>4 DEF LoginEnds, AuthInv, AuthTypeOK, Cookie
  <2>2. jarBy' \in Changer
    BY Changers DEF LoginEnds, AuthInv, AuthTypeOK
  <2>3. QED
    BY <1>2, <2>1, <2>2 DEF LoginEnds, AuthInv, AuthTypeOK
<1>6. \A d \in Call : calls'[d].kind # "me"
  BY <1>2, <1>3 DEF AuthInv, CallSound
<1>7. \A d \in Call : CallSound(d)'
  BY <1>1, <1>2, <1>6 DEF AuthInv, CallSound
<1>8. StoreFollowsJar'
  <2>1. CASE status = 200
    BY <1>4, <2>1, TokenAssumption, Changers DEF LoginEnds, StoreFollowsJar
  <2>2. CASE status # 200
    BY <2>2 DEF LoginEnds, AuthInv, StoreFollowsJar
  <2>3. QED BY <2>1, <2>2
<1>9. QED
  BY <1>1, <1>3, <1>5, <1>6, <1>7, <1>8 DEF AuthInv, BeforeBoot, OneBoot

LEMMA PageEndsStep ==
    ASSUME AuthInv, NEW c \in Call, NEW status, PageEnds(c, status)
    PROVE  AuthInv'
<1>1. /\ Settle(c, status) /\ calls[c].kind = "page"
      /\ UNCHANGED <<live, spent, jar, jarBy, user, booted, loading>>
  BY DEF PageEnds
<1>2. /\ calls' \in [Call -> CallRecord] /\ handled' \in BOOLEAN
      /\ calls'[c].kind \in {"free", "logout401"}
      /\ \A d \in Call \ {c} : calls'[d] = calls[d]
  BY <1>1, SettleFacts
<1>3. booted
  BY <1>1 DEF AuthInv, BeforeBoot
<1>4. QED
  BY <1>1, <1>2, <1>3 DEF AuthInv, AuthTypeOK, BeforeBoot, OneBoot, CallSound, StoreFollowsJar

\* A page loaded anew knows nobody and has no call under way.
LEMMA ReloadedStep ==
    ASSUME AuthInv, Reloaded, live' \subseteq Token, spent' \subseteq Token,
           jar' \in Cookie, jarBy' \in Changer
    PROVE  AuthInv'
<1>1. calls' \in [Call -> CallRecord] /\ \A d \in Call : calls'[d] = Free
  BY FreeFacts DEF Reloaded
<1>2. QED
  BY <1>1, FreeFacts
  DEF Reloaded, AuthInv, AuthTypeOK, BeforeBoot, OneBoot, CallSound, StoreFollowsJar

LEMMA LogoutEndsStep ==
    ASSUME AuthInv, NEW c \in Call, NEW status, LogoutEnds(c, status)
    PROVE  AuthInv'
<1>1. /\ calls[c].kind \in {"logout", "logout401"}
      /\ UNCHANGED <<live, spent>>
      /\ jar' \in Cookie /\ jarBy' \in Changer
  BY Changers DEF LogoutEnds, DropCookie, AuthInv, AuthTypeOK, Cookie
<1>2. CASE Reloaded
  BY <1>1, <1>2, ReloadedStep DEF AuthInv, AuthTypeOK
<1>3. CASE /\ user' = Nobody /\ loading' = FALSE
           /\ calls' = [calls EXCEPT ![c] = Free]
           /\ UNCHANGED <<booted, handled>>
  <2>1. /\ calls' \in [Call -> CallRecord] /\ calls'[c].kind = "free"
        /\ \A d \in Call \ {c} : calls'[d] = calls[d]
    BY <1>3, FreeFacts DEF AuthInv, AuthTypeOK
  <2>2. booted
    BY <1>1 DEF AuthInv, BeforeBoot
  <2>3. QED
    BY <1>1, <1>3, <2>1, <2>2
    DEF AuthInv, AuthTypeOK, BeforeBoot, OneBoot, CallSound, StoreFollowsJar
<1>4. QED BY <1>2, <1>3 DEF LogoutEnds

\* Answers arrive.
LEMMA AuthEndStep ==
    ASSUME AuthInv, NEW c \in Call, NEW status, status = calls[c].status \/ status = 0,
           Ends(c, status)
    PROVE  AuthInv'
  BY MeEndsStep, LoginEndsStep, PageEndsStep, LogoutEndsStep DEF Ends

LEMMA AuthStep == AuthInv /\ [AuthCommand \/ AuthReply]_authVars => AuthInv'
<1> SUFFICES ASSUME AuthInv, [AuthCommand \/ AuthReply]_authVars PROVE AuthInv'
  OBVIOUS
<1>1. ASSUME NEW c \in Call, Lost(c) PROVE AuthInv'
  BY <1>1, AuthEndStep DEF Lost
<1>2. ASSUME NEW c \in Call, Arrives(c) PROVE AuthInv'
  BY <1>2, AuthEndStep DEF Arrives
<1>3. CASE UserReloads
  BY <1>3, ReloadedStep DEF UserReloads, AuthInv, AuthTypeOK
<1>4. ASSUME NEW t \in Token, TokenEnds(t) PROVE AuthInv'
  BY <1>4 DEF TokenEnds, AuthInv, AuthTypeOK, BeforeBoot, OneBoot, CallSound, StoreFollowsJar
<1>5. CASE CookieExpires \/ OtherTabLogsOut \/ \E t \in Token : OtherTabLogsIn(t)
  <2>1. /\ live' \subseteq Token /\ spent' \subseteq Token /\ jar' \in Cookie
        /\ jarBy' = OtherTab \/ (jarBy' = Time /\ jar' = NoCookie)
        /\ UNCHANGED <<user, booted, loading, calls, handled>>
    BY <1>5, Changers
    DEF CookieExpires, OtherTabLogsOut, OtherTabLogsIn, AuthInv, AuthTypeOK, Cookie
  <2>2. QED
    BY <2>1, Changers DEF AuthInv, AuthTypeOK, BeforeBoot, OneBoot, CallSound, StoreFollowsJar
<1>6. CASE TimerFires
  BY <1>6 DEF TimerFires, AuthInv, AuthTypeOK, BeforeBoot, OneBoot, CallSound, StoreFollowsJar
<1>7. CASE UNCHANGED authVars
  BY <1>7 DEF authVars, AuthInv, AuthTypeOK, BeforeBoot, OneBoot, CallSound, StoreFollowsJar
<1>8. ASSUME NEW c \in Call,
             SubmitLogin(c) \/ Keluar(c) \/ Boot(c) \/ PageCall(c) \/ Answers(c)
      PROVE  AuthInv'
  BY <1>8, AuthSendStep, AuthAnswerStep
<1>9. CASE AuthCommand
  BY <1>1, <1>3, <1>4, <1>5, <1>8, <1>9 DEF AuthCommand
<1>10. CASE AuthReply
  BY <1>2, <1>6, <1>8, <1>10 DEF AuthReply
<1>11. QED BY <1>7, <1>9, <1>10

\* The user the pages show is the user of the session cookie, whichever logins,
\* logouts, reloads and lost answers of this tab cross, as long as the cookie
\* neither ran out nor was changed by another tab (authStore.ts:50-76).
THEOREM StoreOfTheCookie == AuthSpec => []StoreFollowsJar
<1>1. AuthInit => AuthInv BY AuthInitInv
<1>2. AuthInv /\ [AuthCommand \/ AuthReply]_authVars => AuthInv' BY AuthStep
<1>3. AuthInv => StoreFollowsJar BY DEF AuthInv
<1>4. QED BY <1>1, <1>2, <1>3, PTL DEF AuthSpec

==============================================================================
