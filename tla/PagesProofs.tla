---------------------------- MODULE PagesProofs -----------------------------
(***************************************************************************)
(* The pages and the query cache, for every set of users, documents, periods *)
(* and calls: what a page at rest shows, what a save stores, and what a      *)
(* snapshot copies; for every answer, that the tree on the screen has each   *)
(* row and each amount once; and for every pair of files, that their rows    *)
(* are merged right.                                                       *)
(***************************************************************************)
EXTENDS ArsipPanel, Snapshots, UsersPage, DipaPage, BudgetPage, MergeView, DokumenProofs, FoldTheorems

-----------------------------------------------------------------------------
(* An entry of the query cache (QueryCache), whatever values V it holds.    *)

Entry(V) == [has : BOOLEAN, data : V, valid : BOOLEAN, fetch : {"idle", "sent", "read"},
             ans : V, tried : {0, 1}, failed : BOOLEAN]

\* An entry is fetched only when it is not valid, and is valid once it landed.
EntryOK(e) == /\ e.fetch # "idle" => ~e.valid
              /\ e.valid => e.has

\* What is at rest on the screen is valid: a shown entry that is invalidated is
\* fetched at once, and one whose fetch fails is marked.
ShownOK(e) == AtRest(e) => e.valid

\* What a step of the page does to an entry: it never answers a request, and an
\* entry that is valid afterwards has not been touched.
Untold(old, new) ==
    /\ new.fetch = "read" => old.fetch = "read" /\ new.ans = old.ans
    /\ new.fetch = "idle" /\ new.valid => new = old

LEMMA UntoldTransitive ==
    ASSUME NEW a, NEW b, NEW c, Untold(a, b), Untold(b, c) PROVE Untold(a, c)
  BY DEF Untold

LEMMA FetchFacts ==
    ASSUME NEW V, NEW e \in Entry(V)
    PROVE  /\ Fetch(e) \in Entry(V)
           /\ Fetch(e).fetch = "sent" /\ Fetch(e).valid = e.valid /\ Fetch(e).data = e.data
           /\ Fetch(e).has = e.has
  BY DEF Entry, Fetch

LEMMA ObserveFacts ==
    ASSUME NEW V, NEW e \in Entry(V), EntryOK(e)
    PROVE  /\ Observe(e) \in Entry(V) /\ EntryOK(Observe(e)) /\ ShownOK(Observe(e))
           /\ Observe(e).fetch # "sent" => Observe(e) = e
           /\ Untold(e, Observe(e)) /\ (e.fetch = "idle" /\ ~e.valid => Observe(e).fetch = "sent")
           /\ Observe(e).data = e.data
<1>1. CASE e.fetch = "idle" /\ ~(e.has /\ e.valid)
  BY <1>1, FetchFacts DEF Observe, EntryOK, ShownOK, AtRest, Untold
<1>2. CASE ~(e.fetch = "idle" /\ ~(e.has /\ e.valid))
  BY <1>2 DEF Observe, EntryOK, ShownOK, AtRest, Untold
<1>3. QED BY <1>1, <1>2

LEMMA InvalidateFacts ==
    ASSUME NEW V, NEW e \in Entry(V), NEW shown \in BOOLEAN
    PROVE  /\ Invalidate(e, shown) \in Entry(V) /\ EntryOK(Invalidate(e, shown))
           /\ ~Invalidate(e, shown).valid /\ Invalidate(e, shown).data = e.data
           /\ shown => ShownOK(Invalidate(e, shown))
           /\ shown /\ (e.has \/ e.fetch = "idle") => Invalidate(e, shown).fetch = "sent"
           /\ Invalidate(e, shown).fetch = "sent" \/
                /\ Invalidate(e, shown).fetch = e.fetch
                /\ Invalidate(e, shown).ans = e.ans
           /\ Untold(e, Invalidate(e, shown))
<1> DEFINE s == [e EXCEPT !.valid = FALSE]
<1>1. /\ s \in Entry(V) /\ ~s.valid /\ s.data = e.data /\ s.ans = e.ans
      /\ s.has = e.has /\ s.fetch = e.fetch
  BY DEF Entry
<1>2. Invalidate(e, shown) = IF shown /\ (s.has \/ s.fetch = "idle") THEN Fetch(s) ELSE s
  BY DEF Invalidate, Refetch
<1> HIDE DEF s
<1>3. e.fetch \in {"idle", "sent", "read"}
  BY DEF Entry
<1>4. CASE shown /\ (s.has \/ s.fetch = "idle")
  BY <1>1, <1>2, <1>4, FetchFacts DEF EntryOK, ShownOK, AtRest, Untold
<1>5. CASE ~(shown /\ (s.has \/ s.fetch = "idle"))
  BY <1>1, <1>2, <1>3, <1>5 DEF EntryOK, ShownOK, AtRest, Untold
<1>6. QED BY <1>4, <1>5

LEMMA ReadFacts ==
    ASSUME NEW V, NEW e \in Entry(V), EntryOK(e), e.fetch = "sent", NEW v \in V
    PROVE  /\ ServerReads(e, v) \in Entry(V) /\ EntryOK(ServerReads(e, v)) /\ ShownOK(ServerReads(e, v))
           /\ ServerReads(e, v).fetch = "read" /\ ServerReads(e, v).ans = v
           /\ ServerReads(e, v).data = e.data
  BY DEF Entry, EntryOK, ShownOK, AtRest, ServerReads

LEMMA LandFacts ==
    ASSUME NEW V, NEW e \in Entry(V)
    PROVE  /\ Land(e) \in Entry(V) /\ EntryOK(Land(e)) /\ ShownOK(Land(e))
           /\ Land(e).fetch = "idle" /\ Land(e).data = e.ans
  BY DEF Entry, EntryOK, ShownOK, AtRest, Land

LEMMA LoseFacts ==
    ASSUME NEW V, NEW e \in Entry(V), EntryOK(e), e.fetch # "idle"
    PROVE  /\ Lose(e) \in Entry(V) /\ EntryOK(Lose(e)) /\ ShownOK(Lose(e))
           /\ Lose(e).fetch # "read" /\ ~Lose(e).valid /\ Lose(e).data = e.data
<1>1. CASE e.tried = 0
  BY <1>1 DEF Entry, EntryOK, ShownOK, AtRest, Lose
<1>2. CASE e.tried # 0
  BY <1>2 DEF Entry, EntryOK, ShownOK, AtRest, Lose
<1>3. QED BY <1>1, <1>2

-----------------------------------------------------------------------------
(* DipaPage: the lists of the periods.                                     *)

DipaTypeOK ==
    /\ dipa \in [Slot -> SUBSET DipaId] /\ dipaMade \subseteq DipaId
    /\ dipaCache \in [Slot -> Entry(SUBSET DipaId)]
    /\ filter \in Slot /\ uploadSlot \in Slot
    /\ picked \in File \cup {NoFile}
    /\ dipaUpload \in [at : {"idle", "sent", "done"}, doc : DipaId \cup {NoDipa}, slot : Slot]
    /\ due \in [Slot -> SUBSET DipaId]

\* What is due is in the table, in an answer on its way, and in a valid list.
DipaFresh(e, s) ==
    /\ EntryOK(e)
    /\ e.fetch = "read" => due[s] \subseteq e.ans
    /\ e.fetch = "idle" /\ e.valid => due[s] \subseteq e.data
    /\ s = filter => ShownOK(e)

\* An upload that is done has its row in its period, unless it was deleted.
UploadStored ==
    dipaUpload.at = "done" =>
        /\ dipaUpload.doc \in dipaMade
        /\ dipaUpload.doc \in AllDipa => dipaUpload.doc \in dipa[dipaUpload.slot]

DipaInv ==
    /\ DipaTypeOK
    /\ UploadStored
    /\ \A s \in Slot : due[s] \subseteq dipa[s] /\ DipaFresh(dipaCache[s], s)

LEMMA EmptyEntryFacts ==
    ASSUME NEW V, NEW v \in V
    PROVE  /\ EmptyEntry(v) \in Entry(V) /\ EmptyEntry(v).fetch = "idle"
           /\ EmptyEntry(v).has = FALSE /\ EmptyEntry(v).valid = FALSE /\ EmptyEntry(v).data = v
  BY DEF EmptyEntry, Entry

LEMMA DipaInitInv == DipaInit => DipaInv
<1> SUFFICES ASSUME DipaInit PROVE DipaInv
  OBVIOUS
<1>1. PICK s \in Slot :
         /\ filter = s /\ uploadSlot = s
         /\ dipaCache = [t \in Slot |-> IF t = s THEN Fetch(EmptyEntry({})) ELSE EmptyEntry({})]
  BY DEF DipaInit
<1> DEFINE e == EmptyEntry({})
<1>2. /\ e \in Entry(SUBSET DipaId) /\ e.fetch = "idle" /\ e.has = FALSE /\ e.valid = FALSE
  BY EmptyEntryFacts
<1>3. /\ Fetch(e) \in Entry(SUBSET DipaId)
      /\ Fetch(e).fetch = "sent" /\ Fetch(e).valid = FALSE
  BY <1>2, FetchFacts
<1> HIDE DEF e
<1>4. dipaCache \in [Slot -> Entry(SUBSET DipaId)] /\ \A t \in Slot : dipaCache[t] \in {e, Fetch(e)}
  BY <1>1, <1>2, <1>3 DEF e
<1>5. filter \in Slot /\ dipaCache[filter] = Fetch(e)
  BY <1>1 DEF e
<1>6. DipaTypeOK
  <2>1. NoUpload.slot \in Slot /\ NoUpload.at = "idle" /\ NoUpload.doc = NoDipa
    BY <1>1 DEF NoUpload
  <2>2. NoUpload \in [at : {"idle", "sent", "done"}, doc : DipaId \cup {NoDipa}, slot : Slot]
    BY <2>1 DEF NoUpload
  <2>3. dipa \in [Slot -> SUBSET DipaId] /\ due \in [Slot -> SUBSET DipaId]
    BY DEF DipaInit
  <2>4. QED BY <1>1, <1>4, <2>1, <2>2, <2>3 DEF DipaInit, DipaTypeOK
<1>7. \A t \in Slot : due[t] = {} /\ DipaFresh(dipaCache[t], t)
  BY <1>2, <1>3, <1>4, <1>5 DEF DipaInit, DipaFresh, EntryOK, ShownOK, AtRest
<1>8. UploadStored
  BY DEF DipaInit, UploadStored, NoUpload
<1>9. QED BY <1>6, <1>7, <1>8 DEF DipaInv

\* Steps that leave the lists and the table alone.
LEMMA DipaQuiet ==
    ASSUME DipaInv, UNCHANGED <<dipa, dipaMade, dipaCache, filter, due>>,
           \/ \E s \in Slot : ChooseUploadSlot(s)
           \/ \E f \in File : PickFile(f)
           \/ \E d \in DipaId : AskDipaDelete(d)
           \/ HandleUpload \/ LeaveDipaDelete \/ HandleDelete \/ UploadLost \/ DipaDeleteFails
           \/ UNCHANGED dipaVars
    PROVE  DipaInv'
<1>1. DipaTypeOK' /\ (dipaUpload' = dipaUpload \/ dipaUpload'.at # "done")
  <2>1. CASE HandleUpload
    BY <2>1 DEF HandleUpload, DipaInv, DipaTypeOK
  <2>2. CASE UploadLost
    BY <2>2 DEF UploadLost, NoUpload, DipaInv, DipaTypeOK
  <2>3. CASE (\E s \in Slot : ChooseUploadSlot(s)) \/ \E f \in File : PickFile(f)
    BY <2>3, FileAssumption DEF ChooseUploadSlot, PickFile, DipaInv, DipaTypeOK
  <2>4. CASE \/ \E d \in DipaId : AskDipaDelete(d)
             \/ LeaveDipaDelete \/ HandleDelete \/ DipaDeleteFails \/ UNCHANGED dipaVars
    BY <2>4 DEF AskDipaDelete, LeaveDipaDelete, HandleDelete, DipaDeleteFails, dipaVars, DipaInv, DipaTypeOK
  <2>5. QED BY <2>1, <2>2, <2>3, <2>4
<1>2. UploadStored'
  BY <1>1 DEF DipaInv, UploadStored, AllDipa
<1>3. \A s \in Slot : due'[s] \subseteq dipa'[s] /\ DipaFresh(dipaCache[s], s)'
  BY DEF DipaInv, DipaFresh
<1>4. QED BY <1>1, <1>2, <1>3 DEF DipaInv

\* Steps of one entry.
LEMMA DipaEntryStep ==
    ASSUME DipaInv, NEW s \in Slot, DipaRead(s) \/ DipaLands(s) \/ DipaLost(s) \/ ChooseFilter(s)
    PROVE  DipaInv'
<1> DEFINE e == dipaCache[s]
<1>1. /\ e \in Entry(SUBSET DipaId) /\ dipa[s] \in SUBSET DipaId
      /\ due[s] \subseteq dipa[s] /\ DipaFresh(e, s)
  BY DEF DipaInv, DipaTypeOK
<1>2. PICK new \in Entry(SUBSET DipaId) :
         /\ dipaCache' = [dipaCache EXCEPT ![s] = new]
         /\ EntryOK(new) /\ ShownOK(new)
         /\ new.fetch = "read" => due[s] \subseteq new.ans
         /\ new.fetch = "idle" /\ new.valid => due[s] \subseteq new.data
  <2>1. CASE DipaRead(s)
    <3>1. dipaCache' = [dipaCache EXCEPT ![s] = ServerReads(e, dipa[s])] /\ e.fetch = "sent"
      BY <2>1 DEF DipaRead
    <3> HIDE DEF e
    <3>2. /\ ServerReads(e, dipa[s]) \in Entry(SUBSET DipaId)
          /\ EntryOK(ServerReads(e, dipa[s])) /\ ShownOK(ServerReads(e, dipa[s]))
          /\ ServerReads(e, dipa[s]).fetch = "read" /\ ServerReads(e, dipa[s]).ans = dipa[s]
      BY <1>1, <3>1, ReadFacts DEF DipaFresh
    <3>3. QED BY <1>1, <3>1, <3>2
  <2>2. CASE DipaLands(s)
    <3>1. dipaCache' = [dipaCache EXCEPT ![s] = Land(e)] /\ e.fetch = "read"
      BY <2>2 DEF DipaLands
    <3> HIDE DEF e
    <3>2. QED BY <1>1, <3>1, LandFacts DEF DipaFresh
  <2>3. CASE DipaLost(s)
    <3>1. dipaCache' = [dipaCache EXCEPT ![s] = Lose(e)] /\ e.fetch # "idle"
      BY <2>3 DEF DipaLost
    <3> HIDE DEF e
    <3>2. QED BY <1>1, <3>1, LoseFacts DEF DipaFresh
  <2>4. CASE ChooseFilter(s)
    <3>1. dipaCache' = [dipaCache EXCEPT ![s] = Observe(e)]
      BY <2>4 DEF ChooseFilter
    <3> HIDE DEF e
    <3>2. Observe(e) \in Entry(SUBSET DipaId) /\ EntryOK(Observe(e)) /\ ShownOK(Observe(e))
      BY <1>1, ObserveFacts DEF DipaFresh
    <3>3. Observe(e).fetch = "sent" \/ Observe(e) = e
      BY <1>1, ObserveFacts DEF DipaFresh
    <3>4. QED BY <1>1, <3>1, <3>2, <3>3 DEF DipaFresh
  <2>5. QED BY <2>1, <2>2, <2>3, <2>4
<1>3. /\ dipaCache'[s] = new /\ dipaCache' \in [Slot -> Entry(SUBSET DipaId)]
      /\ \A t \in Slot \ {s} : dipaCache'[t] = dipaCache[t]
  BY <1>2 DEF DipaInv, DipaTypeOK
<1>4. /\ UNCHANGED <<dipa, dipaMade, picked, uploadSlot, dipaUpload, due>>
      /\ filter' = filter \/ filter' = s
  BY DEF DipaRead, DipaLands, DipaLost, ChooseFilter
<1>5. DipaTypeOK' /\ UploadStored'
  <2>1. DipaTypeOK'
    BY <1>3, <1>4 DEF DipaInv, DipaTypeOK
  <2>2. UploadStored'
    BY <1>4 DEF DipaInv, UploadStored, AllDipa
  <2>3. QED BY <2>1, <2>2
<1>6. ASSUME NEW t \in Slot PROVE DipaFresh(dipaCache[t], t)' /\ due'[t] \subseteq dipa'[t]
  BY <1>2, <1>3, <1>4 DEF DipaInv, DipaFresh
<1>7. QED BY <1>5, <1>6 DEF DipaInv

\* Rows come and go; what is deleted is no longer due.
LEMMA DipaTableStep ==
    ASSUME DipaInv, \/ UploadDipaDokumen \/ DeleteDipaDokumen
                    \/ \E d \in DipaId : OtherDeletesDipa(d) \/ \E s \in Slot : OtherUploadsDipa(d, s)
    PROVE  DipaInv'
<1>1. ASSUME NEW d \in DipaId, d \notin dipaMade, NEW s \in Slot, MakeRow(d, s),
             \/ UNCHANGED dipaUpload
             \/ dipaUpload.slot = s /\ dipaUpload' = [dipaUpload EXCEPT !.at = "done", !.doc = d],
             UNCHANGED <<dipaCache, filter, picked, uploadSlot, due>>
      PROVE  DipaInv'
  <2>1. /\ dipa' \in [Slot -> SUBSET DipaId] /\ dipaMade' = dipaMade \cup {d}
        /\ dipa'[s] = dipa[s] \cup {d} /\ \A r \in Slot \ {s} : dipa'[r] = dipa[r]
    BY <1>1 DEF MakeRow, DipaInv, DipaTypeOK
  <2>2. DipaTypeOK'
    BY <1>1, <2>1 DEF DipaInv, DipaTypeOK
  <2>3. UploadStored'
    <3>1. CASE UNCHANGED dipaUpload
      <4>1. AllDipa' \subseteq AllDipa \cup {d}
        BY <2>1 DEF AllDipa
      <4>2. dipaUpload.slot \in Slot
        BY DEF DipaInv, DipaTypeOK
      <4>3. QED BY <1>1, <2>1, <3>1, <4>1, <4>2 DEF DipaInv, UploadStored
    <3>2. CASE dipaUpload.slot = s /\ dipaUpload' = [dipaUpload EXCEPT !.at = "done", !.doc = d]
      BY <2>1, <3>2 DEF UploadStored, DipaInv, DipaTypeOK
    <3>3. QED BY <1>1, <3>1, <3>2
  <2>4. \A r \in Slot : due'[r] \subseteq dipa'[r]
    BY <1>1, <2>1 DEF DipaInv
  <2>5. QED BY <1>1, <2>2, <2>3, <2>4 DEF DipaInv, DipaFresh
<1>2. ASSUME NEW d, /\ dipa' = [s \in Slot |-> dipa[s] \ {d}]
                    /\ due' = [s \in Slot |-> due[s] \ {d}]
                    /\ UNCHANGED <<dipaMade, dipaCache, filter, picked, uploadSlot, dipaUpload>>
      PROVE  DipaInv'
  <2>1. DipaTypeOK'
    BY <1>2 DEF DipaInv, DipaTypeOK
  <2>2. UploadStored'
    <3>1. \A x \in AllDipa' : x \in AllDipa /\ x # d
      BY <1>2 DEF AllDipa
    <3>2. QED BY <1>2, <3>1 DEF DipaInv, DipaTypeOK, UploadStored
  <2>3. \A t \in Slot : due'[t] \subseteq dipa'[t] /\ due'[t] \subseteq due[t]
    BY <1>2 DEF DipaInv
  <2>4. QED BY <1>2, <2>1, <2>2, <2>3 DEF DipaInv, DipaFresh
<1>3. CASE UploadDipaDokumen
  <2>1. PICK d \in DipaId \ dipaMade :
          /\ MakeRow(d, dipaUpload.slot)
          /\ dipaUpload' = [dipaUpload EXCEPT !.at = "done", !.doc = d]
          /\ UNCHANGED <<dipaCache, filter, picked, uploadSlot, due>>
    BY <1>3 DEF UploadDipaDokumen
  <2>2. dipaUpload.slot \in Slot
    BY DEF DipaInv, DipaTypeOK
  <2>3. QED BY <1>1, <2>1, <2>2
<1>4. ASSUME NEW d \in DipaId, NEW s \in Slot, OtherUploadsDipa(d, s) PROVE DipaInv'
  BY <1>1, <1>4 DEF OtherUploadsDipa
<1>5. QED BY <1>2, <1>3, <1>4 DEF DeleteDipaDokumen, OtherDeletesDipa

\* An answer: every list is invalid until it is fetched again, and the one on the
\* screen is fetched at once.
LEMMA DipaAnswerStep ==
    ASSUME DipaInv, UploadAnswered \/ DipaDeleteAnswered
    PROVE  DipaInv'
<1>1. \A s \in Slot : dipaCache[s] \in Entry(SUBSET DipaId) /\ DipaFresh(dipaCache[s], s)
  BY DEF DipaInv, DipaTypeOK
<1>2. /\ dipaCache' = [s \in Slot |-> Invalidate(dipaCache[s], s = filter)]
      /\ UNCHANGED <<dipa, dipaMade, filter, uploadSlot>>
  BY DEF UploadAnswered, DipaDeleteAnswered, RefreshDipa
<1>3. ASSUME NEW s \in Slot
      PROVE  LET old == dipaCache[s]
                 new == dipaCache'[s]
             IN  /\ new \in Entry(SUBSET DipaId) /\ EntryOK(new) /\ ~new.valid
                 /\ s = filter => ShownOK(new)
                 /\ s = filter /\ (old.has \/ old.fetch = "idle") => new.fetch = "sent"
                 /\ new.fetch = "sent" \/ (new.fetch = old.fetch /\ new.ans = old.ans)
  <2> DEFINE old == dipaCache[s]
             shown == s = filter
  <2>1. shown \in BOOLEAN /\ dipaCache'[s] = Invalidate(old, shown)
    BY <1>2
  <2>2. old \in Entry(SUBSET DipaId)
    BY <1>1
  <2> HIDE DEF old, shown
  <2>3. /\ Invalidate(old, shown) \in Entry(SUBSET DipaId) /\ EntryOK(Invalidate(old, shown))
        /\ ~Invalidate(old, shown).valid
        /\ shown => ShownOK(Invalidate(old, shown))
        /\ shown /\ (old.has \/ old.fetch = "idle") => Invalidate(old, shown).fetch = "sent"
        /\ Invalidate(old, shown).fetch = "sent" \/
             /\ Invalidate(old, shown).fetch = old.fetch
             /\ Invalidate(old, shown).ans = old.ans
    BY <2>1, <2>2, InvalidateFacts
  <2>4. QED BY <2>1, <2>3 DEF old, shown
<1> DEFINE Seen(t, docs) ==
             dipaCache[t].fetch = "read" =>
                 docs \subseteq dipaCache[t].ans \/ (dipaCache[t].has /\ t = filter)
<1>4. PICK u \in Slot, new \in SUBSET DipaId :
         /\ due' = [due EXCEPT ![u] = @ \cup new]
         /\ new \subseteq dipa[u]
         /\ Seen(u, new)
  <2>1. CASE UploadAnswered /\ due' # due
    <3> DEFINE docs == {dipaUpload.doc}
               at == dipaUpload.slot
    <3>1. /\ dipaUpload.at = "done" /\ dipaUpload.doc \in AllDipa
          /\ due' = [due EXCEPT ![at] = @ \cup docs]
          /\ ~Overtaken(dipaCache[at], at = filter, dipaUpload.doc \notin dipaCache[at].ans)
      BY <2>1 DEF UploadAnswered, DueNow
    <3>2. at \in Slot /\ dipaUpload.doc \in AllDipa /\ dipaUpload.doc \in dipa[at]
      BY <3>1 DEF DipaInv, DipaTypeOK, UploadStored
    <3>3. docs \subseteq dipa[at] /\ docs \in SUBSET DipaId
      BY <3>2 DEF DipaInv, DipaTypeOK
    <3>4. Seen(at, docs)
      BY <3>1 DEF Overtaken
    <3>5. due' = [due EXCEPT ![at] = @ \cup docs]
      BY <3>1
    <3> HIDE DEF docs, at, Seen
    <3>6. QED BY <3>2, <3>3, <3>4, <3>5
  <2>2. CASE due' = due
    <3>1. due' = [due EXCEPT ![filter] = @ \cup {}] /\ filter \in Slot
      BY <2>2 DEF DipaInv, DipaTypeOK
    <3>2. {} \subseteq dipa[filter] /\ Seen(filter, {}) /\ {} \in SUBSET DipaId
      OBVIOUS
    <3> HIDE DEF Seen
    <3>3. QED BY <3>1, <3>2
  <2>3. QED BY <2>1, <2>2 DEF DipaDeleteAnswered
<1>5. /\ due' \in [Slot -> SUBSET DipaId] /\ due'[u] = due[u] \cup new
      /\ \A s \in Slot \ {u} : due'[s] = due[s]
  BY <1>4 DEF DipaInv, DipaTypeOK
<1>6. DipaTypeOK' /\ UploadStored'
  <2>1. dipaCache' \in [Slot -> Entry(SUBSET DipaId)]
    BY <1>2, <1>3
  <2>2. /\ dipaUpload' = NoUpload \/ dipaUpload' = dipaUpload
        /\ picked' \in File \cup {NoFile}
    BY DEF UploadAnswered, DipaDeleteAnswered, DipaInv, DipaTypeOK
  <2>3. /\ NoUpload \in [at : {"idle", "sent", "done"}, doc : DipaId \cup {NoDipa}, slot : Slot]
        /\ NoUpload.at = "idle"
    BY DEF NoUpload, DipaInv, DipaTypeOK
  <2>4. UploadStored'
    BY <1>2, <2>2, <2>3 DEF DipaInv, UploadStored, AllDipa
  <2> HIDE DEF NoUpload
  <2>5. dipaUpload' = NoUpload \/ dipaUpload' = dipaUpload
    BY <2>2
  <2>6. QED BY <1>2, <1>5, <2>1, <2>2, <2>3, <2>4, <2>5 DEF DipaInv, DipaTypeOK
<1>7. ASSUME NEW s \in Slot PROVE due'[s] \subseteq dipa'[s] /\ DipaFresh(dipaCache[s], s)'
  <2>1. due'[s] \subseteq dipa'[s]
    BY <1>2, <1>4, <1>5 DEF DipaInv
  <2>2. dipaCache'[s].fetch = "read" => due'[s] \subseteq dipaCache'[s].ans
    BY <1>1, <1>3, <1>4, <1>5 DEF DipaFresh
  <2>3. QED BY <1>2, <1>3, <2>1, <2>2 DEF DipaFresh
<1>8. QED BY <1>6, <1>7 DEF DipaInv

LEMMA DipaNext == DipaInv /\ [DipaCommand \/ DipaReply]_dipaVars => DipaInv'
<1> SUFFICES ASSUME DipaInv, [DipaCommand \/ DipaReply]_dipaVars PROVE DipaInv'
  OBVIOUS
<1>1. CASE \/ \E s \in Slot : ChooseUploadSlot(s)
           \/ \E f \in File : PickFile(f)
           \/ \E d \in DipaId : AskDipaDelete(d)
           \/ HandleUpload \/ LeaveDipaDelete \/ HandleDelete \/ UploadLost \/ DipaDeleteFails
           \/ UNCHANGED dipaVars
  <2>1. UNCHANGED <<dipa, dipaMade, dipaCache, filter, due>>
    BY <1>1 DEF ChooseUploadSlot, PickFile, AskDipaDelete, HandleUpload, LeaveDipaDelete,
                HandleDelete, UploadLost, DipaDeleteFails, dipaVars
  <2>2. QED BY <1>1, <2>1, DipaQuiet
<1>2. QED
  BY <1>1, DipaEntryStep, DipaTableStep, DipaAnswerStep DEF DipaCommand, DipaReply

\* A list at rest on the screen shows the uploads that were answered, whichever
\* periods were chosen meanwhile and whichever fetches failed, but for an upload
\* answered while the list's own request, read before it, was in its first load or
\* off the screen
\* (useDipaDokumen.ts:51-53, AnggaranImportPage.tsx:59).
THEOREM DipaAlwaysListed == DipaSpec => []DipaListed
<1>1. DipaInv => DipaListed
  BY DEF DipaInv, DipaTypeOK, DipaFresh, DipaListed, ShownOK, AtRest
<1>2. QED BY <1>1, DipaInitInv, DipaNext, PTL DEF DipaSpec

-----------------------------------------------------------------------------
(* BudgetPage: the trees of the periods.                                   *)

Row == [pagu : Nat, lock : Nat, real : Nat]
Tree == [row : Row, edition : Nat]
Put == [save : Nat, part : {"pagu", "lock", "real", "delete"}, row : Row,
        at : {"sent", "done", "lost"}, edition : Nat]
Import == [at : {"idle", "confirm", "saved", "snapshot", "taken"}, masa : Masa \cup {NoChoice},
           edition : Nat]

ServerTypeOK ==
    /\ nodeRow \in Row /\ apart \in BOOLEAN /\ budgetEdition \in Nat
    /\ taken \in [Masa -> Tree]

PageTypeOK ==
    /\ treeCache \in [TreeKey -> Entry(Tree)]
    /\ takenCache \in Entry(SUBSET Masa)
    /\ bulan \in Month /\ revisi \in Masa \cup {NoChoice}
    /\ owedTree \in [TreeKey -> Nat]

EditTypeOK ==
    /\ edit \in [open : BOOLEAN, row : Row]
    /\ submits \in Nat
    /\ puts \subseteq Put
    /\ importing \in Import
    /\ importing.at # "idle" => importing.masa \in Masa

\* What a tree owes is at the server, in an answer on its way, and in a valid tree.
TreeFresh(e, k) ==
    /\ EntryOK(e)
    /\ e.fetch = "read" => owedTree[k] <= e.ans.edition
    /\ e.fetch = "idle" /\ e.valid => owedTree[k] <= e.data.edition
    /\ k = Derived => ShownOK(e)

\* An edition that a call or an import has seen is one the server had.
Seen ==
    /\ \A k \in Masa : taken[k].edition <= budgetEdition
    /\ \A p \in puts : p.at = "done" => p.edition <= budgetEdition
    /\ importing.at = "saved" => importing.edition <= budgetEdition
    /\ importing.at = "taken" => importing.edition <= taken[importing.masa].edition

TreesFresh ==
    \A k \in TreeKey : owedTree[k] <= ServerTree(k).edition /\ TreeFresh(treeCache[k], k)

BudgetInv == ServerTypeOK /\ PageTypeOK /\ EditTypeOK /\ Seen /\ TreesFresh

\* The period that is shown, as a function of the filters and the list.
DerivedFrom(b, r, available) ==
    IF r # NoChoice THEN r
    ELSE IF b = NowMonth THEN LiveKey
    ELSE LET mine == {k \in available : k[1] = b}
         IN  IF mine = {} THEN <<b, 1>>
             ELSE CHOOSE k \in mine : \A j \in mine : TextRank(j[2]) <= TextRank(k[2])

LEMMA DerivedIs ==
    /\ Derived = DerivedFrom(bulan, revisi, takenCache.data)
    /\ Derived' = DerivedFrom(bulan', revisi', takenCache'.data)
  BY DEF Derived, DerivedFrom, Available

LEMMA MasaFacts == NoChoice \notin TreeKey /\ LiveKey \notin Masa
  BY MasaAssumption DEF TreeKey, NoChoice, LiveKey

LEMMA TextRankIs == \A n \in 0 .. 99 : TextRank(n) \in Nat
<1> SUFFICES ASSUME NEW n \in 0 .. 99 PROVE TextRank(n) \in Nat
  OBVIOUS
<1>1. n \div 10 \in 0 .. 9 /\ n % 10 \in 0 .. 9
  OBVIOUS
<1> DEFINE d == n \div 10
           u == n % 10
<1>2. TextRank(n) = IF n < 10 THEN 11 * n ELSE 11 * d + 1 + u
  BY DEF TextRank
<1> HIDE DEF d, u
<1>3. d \in 0 .. 9 /\ u \in 0 .. 9
  BY <1>1 DEF d, u
<1>4. QED BY <1>2, <1>3

LEMMA DerivedFacts ==
    ASSUME NEW b \in Month, NEW r \in Masa \cup {NoChoice}, NEW available \in SUBSET Masa
    PROVE  /\ DerivedFrom(b, r, available) \in TreeKey
           /\ r \in Masa => DerivedFrom(b, r, available) = r
           /\ r = NoChoice /\ b = NowMonth => DerivedFrom(b, r, available) = LiveKey
<1> DEFINE mine == {k \in available : k[1] = b}
           f == [k \in mine |-> TextRank(k[2])]
<1>1. CASE r # NoChoice \/ b = NowMonth
  BY <1>1, MasaFacts DEF DerivedFrom, TreeKey
<1>2. CASE r = NoChoice /\ b # NowMonth
  <2>1. NoChoice \notin Masa
    BY MasaFacts DEF TreeKey
  <2>2. CASE mine = {}
    <3>1. <<b, 1>> \in Masa
      BY <1>2, MasaAssumption DEF Month
    <3>2. DerivedFrom(b, r, available) = <<b, 1>>
      BY <1>2, <2>2 DEF DerivedFrom
    <3>3. QED BY <1>2, <2>1, <3>1, <3>2 DEF TreeKey
  <2>3. CASE mine # {}
    <3>1. IsFiniteSet(mine) /\ f \in [mine -> Nat]
      <4>1. \A k \in mine : TextRank(k[2]) \in Nat
        BY MasaAssumption, TextRankIs
      <4>2. QED BY <4>1, MasaAssumption, FS_Subset
    <3>2. PICK k \in mine : \A j \in mine : f[j] <= f[k]
      <4> HIDE DEF mine, f
      <4>1. QED BY <2>3, <3>1, Greatest
    <3>3. \A j \in mine : TextRank(j[2]) <= TextRank(k[2])
      BY <3>2
    <3>4. DerivedFrom(b, r, available) \in mine
      <4>1. DerivedFrom(b, r, available) = CHOOSE x \in mine : \A j \in mine : TextRank(j[2]) <= TextRank(x[2])
        BY <1>2, <2>3 DEF DerivedFrom
      <4> HIDE DEF mine
      <4>2. QED BY <3>3, <4>1
    <3>5. QED BY <1>2, <2>1, <3>4 DEF TreeKey
  <2>4. QED BY <2>2, <2>3
<1>3. QED BY <1>1, <1>2

LEMMA BudgetInitInv == BudgetInit => BudgetInv
<1> SUFFICES ASSUME BudgetInit PROVE BudgetInv
  OBVIOUS
<1>1. NoTree \in Tree /\ NoTree.edition = 0 /\ ZeroRow \in Row
  BY DEF NoTree, Tree, ZeroRow, Row
<1>2. ServerTypeOK /\ \A k \in Masa : taken[k].edition <= 1
  BY <1>1, RowAssumption DEF BudgetInit, ServerTypeOK, Tree, Row
<1> DEFINE e == EmptyEntry(NoTree)
           none == EmptyEntry({})
<1>3. e \in Entry(Tree) /\ e.fetch = "idle" /\ e.has = FALSE /\ e.valid = FALSE
  BY <1>1, EmptyEntryFacts
<1>4. Fetch(e) \in Entry(Tree) /\ Fetch(e).fetch = "sent" /\ Fetch(e).valid = FALSE
  BY <1>3, FetchFacts
<1>5. none \in Entry(SUBSET Masa) /\ Fetch(none) \in Entry(SUBSET Masa)
  BY EmptyEntryFacts, FetchFacts
<1>6. treeCache = [k \in TreeKey |-> IF k = LiveKey THEN Fetch(e) ELSE e] /\ takenCache = Fetch(none)
  BY DEF BudgetInit
<1> HIDE DEF e, none
<1>7. PageTypeOK
  BY <1>3, <1>4, <1>5, <1>6 DEF BudgetInit, PageTypeOK, Month
<1>8. EditTypeOK
  BY <1>1 DEF BudgetInit, EditTypeOK, NoImport, Import
<1>9. Seen
  BY <1>2 DEF BudgetInit, Seen, NoImport
<1>10. Derived = LiveKey
  BY <1>7, DerivedIs, DerivedFacts DEF BudgetInit, PageTypeOK, Entry
<1>11. \A k \in TreeKey : owedTree[k] = 0 /\ 0 <= ServerTree(k).edition
  BY <1>2 DEF BudgetInit, ServerTree, ServerTypeOK, Tree, TreeKey
<1>12. \A k \in TreeKey : TreeFresh(treeCache[k], k)
  BY <1>3, <1>4, <1>6, <1>10 DEF TreeFresh, EntryOK, ShownOK, AtRest
<1>13. QED BY <1>2, <1>7, <1>8, <1>9, <1>11, <1>12 DEF BudgetInv, TreesFresh

\* Steps of the page and of the server: no request is answered, and what a tree
\* owes anew is in no valid tree, and in the answer on its way.
LEMMA TreesStep ==
    ASSUME TreesFresh, PageTypeOK, PageTypeOK', ServerTypeOK, ServerTypeOK',
           \A k \in TreeKey : EntryOK(treeCache'[k]) /\ Untold(treeCache[k], treeCache'[k]),
           ShownOK(treeCache'[Derived']),
           \A k \in TreeKey : ServerTree(k).edition <= ServerTree(k)'.edition,
           \A k \in TreeKey :
             \/ owedTree'[k] = owedTree[k]
             \/ /\ owedTree'[k] <= ServerTree(k).edition
                /\ treeCache'[k].fetch = "read" => owedTree'[k] <= treeCache'[k].ans.edition
                /\ ~treeCache'[k].valid
    PROVE  TreesFresh'
<1> SUFFICES ASSUME NEW k \in TreeKey
             PROVE  (owedTree[k] <= ServerTree(k).edition)' /\ TreeFresh(treeCache[k], k)'
  BY DEF TreesFresh
<1>1. owedTree[k] <= ServerTree(k).edition /\ TreeFresh(treeCache[k], k)
  BY DEF TreesFresh
<1>2. owedTree[k] \in Nat /\ owedTree'[k] \in Nat
  BY DEF PageTypeOK
<1>3. ServerTree(k).edition \in Nat /\ ServerTree(k)'.edition \in Nat
  BY DEF ServerTypeOK, ServerTree, Tree, TreeKey
<1>4. owedTree'[k] <= ServerTree(k)'.edition
  BY <1>1, <1>2, <1>3
<1>5. treeCache'[k].fetch = "read" => owedTree'[k] <= treeCache'[k].ans.edition
  BY <1>1 DEF TreeFresh, Untold
<1>6. treeCache'[k].fetch = "idle" /\ treeCache'[k].valid => owedTree'[k] <= treeCache'[k].data.edition
  BY <1>1 DEF TreeFresh, Untold
<1>7. QED BY <1>4, <1>5, <1>6 DEF TreeFresh

LEMMA MaxOfTwo ==
    ASSUME NEW a \in Nat, NEW b \in Nat
    PROVE  Max({a, b}) \in {a, b}
<1>1. CASE a >= b
  BY <1>1 DEF Max
<1>2. CASE b >= a
  BY <1>2 DEF Max
<1>3. QED BY <1>1, <1>2

\* Typing: what is stored is a row.
LEMMA WrittenRow ==
    ASSUME ServerTypeOK, NEW p \in Put PROVE Written(p) \in Row
  BY DEF ServerTypeOK, Put, Written, Row

LEMMA StoredRow ==
    ASSUME NEW r \in Row PROVE ToStore(r) \in Row /\ (LockActive(ToStore(r)) => ToStore(r).real = 0)
  BY DEF ToStore, LockActive, Row

\* Steps that leave the trees on the screen alone.
LEMMA BudgetQuiet ==
    ASSUME BudgetInv, UNCHANGED <<treeCache, takenCache, bulan, revisi, owedTree>>,
           ServerTypeOK', EditTypeOK', Seen',
           budgetEdition <= budgetEdition', \A k \in Masa : taken[k].edition <= taken'[k].edition
    PROVE  BudgetInv'
<1>1. PageTypeOK'
  BY DEF BudgetInv, PageTypeOK
<1>2. Derived' = Derived
  BY DerivedIs
<1>3. \A k \in TreeKey : ServerTree(k).edition <= ServerTree(k)'.edition
  BY DEF ServerTree, TreeKey
<1>4. \A k \in TreeKey : EntryOK(treeCache'[k]) /\ Untold(treeCache[k], treeCache'[k])
  BY DEF BudgetInv, TreesFresh, TreeFresh, Untold
<1>5. ShownOK(treeCache'[Derived'])
  <2>1. Derived \in TreeKey
    BY DerivedIs, DerivedFacts DEF BudgetInv, PageTypeOK, Entry
  <2>2. QED BY <1>2, <2>1 DEF BudgetInv, TreesFresh, TreeFresh
<1>6. TreesFresh'
  BY <1>1, <1>3, <1>4, <1>5, TreesStep DEF BudgetInv
<1>7. QED BY <1>1, <1>6 DEF BudgetInv

LEMMA EditSteps ==
    ASSUME BudgetInv, \/ OpenEdit \/ CloseEdit \/ SubmitEdit \/ ConfirmDeleteNode \/ ImportFails
                      \/ \E r \in RowSet : FillEdit(r)
                      \/ \E p \in puts : PutFails(p)
                      \/ \E k \in Masa : ImportSent(k)
    PROVE  BudgetInv'
<1>1. UNCHANGED <<treeCache, takenCache, bulan, revisi, owedTree, nodeRow, apart, budgetEdition, taken>>
  BY DEF OpenEdit, CloseEdit, SubmitEdit, ConfirmDeleteNode, ImportFails, FillEdit, PutFails, ImportSent,
         pageVars, serverVars, saveVars
<1>2. ServerTypeOK'
  BY <1>1 DEF BudgetInv, ServerTypeOK
<1>3. Derived \in TreeKey
  BY DerivedIs, DerivedFacts DEF BudgetInv, PageTypeOK, Entry
<1>4. edit' \in [open : BOOLEAN, row : Row]
  <2>1. edit \in [open : BOOLEAN, row : Row]
    BY DEF BudgetInv, EditTypeOK
  <2>2. CASE OpenEdit
    <3>1. ShownTree.data.row \in Row
      BY <1>3 DEF ShownTree, BudgetInv, PageTypeOK, Entry, Tree
    <3>2. QED BY <2>2, <3>1 DEF OpenEdit
  <2>3. CASE \E r \in RowSet : FillEdit(r)
    BY <2>1, <2>3, RowAssumption DEF FillEdit, Row
  <2>4. CASE CloseEdit
    BY <2>1, <2>4 DEF CloseEdit
  <2>5. CASE UNCHANGED edit
    BY <2>1, <2>5
  <2>6. QED
    BY <2>2, <2>3, <2>4, <2>5
    DEF SubmitEdit, ConfirmDeleteNode, ImportFails, PutFails, ImportSent, pageVars
<1>5. submits' \in Nat /\ puts' \subseteq Put /\ \A p \in puts' : p.at = "done" => p \in puts
  <2>1. submits \in Nat /\ puts \subseteq Put /\ edit.row \in Row
    BY DEF BudgetInv, EditTypeOK
  <2>2. CASE SubmitEdit
    <3>1. ToStore(edit.row) \in Row /\ submits' \in Nat
      BY <2>1, <2>2, StoredRow DEF SubmitEdit
    <3>2. \A part \in {"pagu", "lock", "real"} :
             /\ PutCall(submits', part, ToStore(edit.row)) \in Put
             /\ PutCall(submits', part, ToStore(edit.row)).at = "sent"
      BY <3>1 DEF PutCall, Put
    <3>3. PICK parts \in SUBSET {"pagu", "lock", "real"} :
             puts' = puts \cup {PutCall(submits', part, ToStore(edit.row)) : part \in parts}
      BY <2>2 DEF SubmitEdit
    <3>4. QED BY <2>1, <3>1, <3>2, <3>3
  <2>3. CASE ConfirmDeleteNode
    <3>1. PutCall(0, "delete", ZeroRow) \in Put /\ PutCall(0, "delete", ZeroRow).at = "sent"
      BY DEF PutCall, Put, ZeroRow, Row
    <3>2. QED BY <2>1, <2>3, <3>1 DEF ConfirmDeleteNode
  <2>4. CASE \E p \in puts : PutFails(p)
    <3>1. PICK p \in puts : PutFails(p)
      BY <2>4
    <3>2. [p EXCEPT !.at = "lost"] \in Put /\ [p EXCEPT !.at = "lost"].at # "done"
      BY <2>1 DEF Put
    <3>3. submits' = submits
      BY <3>1 DEF PutFails
    <3>4. QED BY <2>1, <3>1, <3>2, <3>3 DEF PutFails
  <2>5. CASE UNCHANGED <<submits, puts>>
    BY <2>1, <2>5
  <2>6. QED
    BY <2>2, <2>3, <2>4, <2>5 DEF OpenEdit, CloseEdit, FillEdit, ImportFails, ImportSent, saveVars
<1>6. \/ importing' = importing
      \/ importing' \in Import /\ importing'.at = "idle"
      \/ importing' \in Import /\ importing'.at = "confirm" /\ importing'.masa \in Masa
  <2>1. CASE ImportFails
    BY <2>1 DEF ImportFails, NoImport, Import
  <2>2. CASE \E k \in Masa : ImportSent(k)
    <3>1. NoImport \in Import
      BY DEF NoImport, Import
    <3> HIDE DEF NoImport
    <3>2. QED BY <2>2, <3>1 DEF ImportSent, Import
  <2>3. CASE UNCHANGED importing
    BY <2>3
  <2>4. QED
    BY <2>1, <2>2, <2>3
    DEF OpenEdit, CloseEdit, SubmitEdit, ConfirmDeleteNode, FillEdit, PutFails, pageVars
<1>7. EditTypeOK' /\ Seen'
  BY <1>1, <1>4, <1>5, <1>6 DEF BudgetInv, EditTypeOK, Seen
<1>8. QED
  BY <1>1, <1>2, <1>7, BudgetQuiet DEF BudgetInv, ServerTypeOK, Tree

\* The server changes the row, or copies the table.
LEMMA BudgetServerSteps ==
    ASSUME BudgetInv, \/ \E p \in puts : PutApplies(p)
                      \/ \E r \in RowSet : OtherEdits(r) \/ ImportApplies(r)
                      \/ SnapshotApplies \/ \E k \in Masa : OtherTakes(k)
    PROVE  BudgetInv'
<1>1. /\ UNCHANGED <<treeCache, takenCache, bulan, revisi, owedTree, apart, submits>>
      /\ edit' = edit
  BY DEF PutApplies, OtherEdits, ImportApplies, SnapshotApplies, OtherTakes, pageVars, serverVars, saveVars
<1>2. /\ nodeRow \in Row /\ budgetEdition \in Nat /\ taken \in [Masa -> Tree]
      /\ \A k \in Masa : taken[k].edition \in Nat /\ taken[k].edition <= budgetEdition
  BY DEF BudgetInv, ServerTypeOK, Seen, Tree
<1>3. CASE \E k \in Masa : OtherTakes(k)
  <2>1. PICK k \in Masa : OtherTakes(k)
    BY <1>3
  <2>2. [row |-> nodeRow, edition |-> budgetEdition] \in Tree
    BY <1>2 DEF Tree
  <2>3. /\ taken' = [taken EXCEPT ![k] = [row |-> nodeRow, edition |-> budgetEdition]]
        /\ UNCHANGED <<nodeRow, budgetEdition, puts, importing>>
    BY <2>1 DEF OtherTakes, ServerTree, pageVars, saveVars
  <2>4. /\ taken' \in [Masa -> Tree]
        /\ \A j \in Masa : taken[j].edition <= taken'[j].edition /\ taken'[j].edition <= budgetEdition
    BY <1>2, <2>2, <2>3
  <2>5. ServerTypeOK' /\ EditTypeOK'
    BY <1>1, <1>2, <2>3, <2>4 DEF BudgetInv, ServerTypeOK, EditTypeOK
  <2>6. Seen'
    <3>1. importing.at = "taken" => /\ importing.masa \in Masa /\ importing.edition \in Nat
                                    /\ importing.edition <= taken[importing.masa].edition
      BY DEF BudgetInv, Seen, EditTypeOK, Import
    <3>2. \A j \in Masa : taken'[j].edition \in Nat
      BY <2>4 DEF Tree
    <3>3. importing.at = "taken" => importing.edition <= taken'[importing.masa].edition
      BY <1>2, <2>4, <3>1, <3>2
    <3>4. QED BY <2>3, <2>4, <3>3 DEF BudgetInv, Seen
  <2>7. QED BY <1>1, <1>2, <2>3, <2>4, <2>5, <2>6, BudgetQuiet
<1>4. CASE SnapshotApplies
  <2>1. /\ importing.at = "snapshot" /\ importing.masa \in Masa
        /\ taken' = [taken EXCEPT ![importing.masa] = [row |-> nodeRow, edition |-> budgetEdition]]
        /\ importing' = [importing EXCEPT !.at = "taken", !.edition = budgetEdition]
        /\ UNCHANGED <<nodeRow, budgetEdition, puts>>
    BY <1>4 DEF SnapshotApplies, ServerTree, BudgetInv, EditTypeOK, saveVars
  <2>2. [row |-> nodeRow, edition |-> budgetEdition] \in Tree
    BY <1>2 DEF Tree
  <2>3. /\ taken' \in [Masa -> Tree]
        /\ \A k \in Masa : taken[k].edition <= taken'[k].edition /\ taken'[k].edition <= budgetEdition
        /\ taken'[importing.masa].edition = budgetEdition
    BY <1>2, <2>1, <2>2
  <2>4. /\ importing' \in Import /\ importing'.masa = importing.masa
        /\ importing'.edition = budgetEdition /\ importing'.at = "taken"
    BY <1>2, <2>1 DEF Import, BudgetInv, EditTypeOK
  <2>5. ServerTypeOK' /\ EditTypeOK'
    BY <1>1, <1>2, <2>1, <2>3, <2>4 DEF BudgetInv, ServerTypeOK, EditTypeOK
  <2>6. Seen'
    BY <1>2, <2>1, <2>3, <2>4 DEF BudgetInv, Seen
  <2>7. QED BY <1>1, <1>2, <2>1, <2>3, <2>5, <2>6, BudgetQuiet
<1>5. CASE ~SnapshotApplies /\ ~\E k \in Masa : OtherTakes(k)
  <2>1. nodeRow' \in Row /\ budgetEdition' = budgetEdition + 1 /\ taken' = taken
    <3>1. CASE \E p \in puts : PutApplies(p)
      <4>1. PICK p \in puts : PutApplies(p)
        BY <3>1
      <4>2. Written(p) \in Row
        BY WrittenRow DEF BudgetInv, EditTypeOK
      <4>3. QED BY <4>1, <4>2 DEF PutApplies, Changed
    <3>2. CASE \E r \in RowSet : OtherEdits(r) \/ ImportApplies(r)
      BY <3>2, RowAssumption DEF OtherEdits, ImportApplies, Changed, Row
    <3>3. QED BY <1>5, <3>1, <3>2
  <2>2. /\ puts' \subseteq Put
        /\ \A q \in puts' : q.at = "done" => q \in puts \/ q.edition = budgetEdition'
    <3>1. CASE \E p \in puts : PutApplies(p)
      <4>1. PICK p \in puts : PutApplies(p)
        BY <3>1
      <4> DEFINE q == [p EXCEPT !.at = "done", !.edition = budgetEdition']
      <4>2. p \in Put /\ budgetEdition' \in Nat
        BY <1>2, <2>1 DEF BudgetInv, EditTypeOK
      <4>3. q \in Put /\ q.edition = budgetEdition'
        BY <4>2 DEF Put
      <4>4. puts' \subseteq (puts \ {p}) \cup {q}
        BY <4>1 DEF PutApplies
      <4> HIDE DEF q
      <4>5. QED BY <4>3, <4>4 DEF BudgetInv, EditTypeOK
    <3>2. CASE puts' = puts
      BY <3>2 DEF BudgetInv, EditTypeOK
    <3>3. QED BY <1>5, <3>1, <3>2 DEF OtherEdits, ImportApplies
  <2>3. \/ importing' = importing
        \/ /\ importing' \in Import /\ importing'.at = "saved" /\ importing'.masa \in Masa
           /\ importing'.edition = budgetEdition'
    <3>1. CASE \E r \in RowSet : ImportApplies(r)
      <4>1. /\ importing.at = "confirm" /\ importing \in Import /\ importing.masa \in Masa
            /\ importing' = [importing EXCEPT !.at = "saved", !.edition = budgetEdition']
        BY <3>1 DEF ImportApplies, BudgetInv, EditTypeOK
      <4>2. budgetEdition' \in Nat
        BY <1>2, <2>1
      <4>3. QED BY <4>1, <4>2 DEF Import
    <3>2. CASE importing' = importing
      BY <3>2
    <3>3. QED BY <1>5, <3>1, <3>2 DEF PutApplies, OtherEdits, pageVars
  <2>4. ServerTypeOK' /\ EditTypeOK'
    BY <1>1, <1>2, <2>1, <2>2, <2>3 DEF BudgetInv, ServerTypeOK, EditTypeOK
  <2>5. Seen'
    <3>1. \A p \in puts : p.edition \in Nat
      BY DEF BudgetInv, EditTypeOK, Put
    <3>2. importing.edition \in Nat
      BY DEF BudgetInv, EditTypeOK, Import
    <3>3. \A k \in Masa : taken'[k].edition <= budgetEdition'
      BY <1>2, <2>1
    <3>4. \A p \in puts' : p.at = "done" => p.edition <= budgetEdition'
      BY <1>2, <2>1, <2>2, <3>1 DEF BudgetInv, Seen
    <3>5. /\ importing'.at = "saved" => importing'.edition <= budgetEdition'
          /\ importing'.at = "taken" => importing'.edition <= taken'[importing'.masa].edition
      BY <1>2, <2>1, <2>3, <3>2 DEF BudgetInv, Seen
    <3>6. QED BY <3>3, <3>4, <3>5 DEF Seen
  <2>6. QED BY <1>1, <1>2, <2>1, <2>4, <2>5, BudgetQuiet
<1>6. QED BY <1>3, <1>4, <1>5

\* Steps that leave the server and the calls alone.
LEMMA BudgetSame ==
    ASSUME BudgetInv, UNCHANGED <<serverVars, apart, submits, puts>>,
           PageTypeOK', edit' \in [open : BOOLEAN, row : Row],
           importing' = importing \/ importing' = NoImport,
           TreesFresh'
    PROVE  BudgetInv'
<1>1. NoImport \in Import /\ NoImport.at = "idle"
  BY DEF NoImport, Import
<1> HIDE DEF NoImport
<1>2. QED
  BY <1>1 DEF BudgetInv, ServerTypeOK, EditTypeOK, Seen, serverVars

\* One tree is answered for, or its answer is lost.
LEMMA TreeSteps ==
    ASSUME BudgetInv, NEW k \in TreeKey, TreeRead(k) \/ TreeLands(k) \/ TreeLost(k)
    PROVE  BudgetInv'
<1> DEFINE e == treeCache[k]
<1>1. /\ e \in Entry(Tree) /\ ServerTree(k) \in Tree /\ EntryOK(e)
      /\ owedTree[k] <= ServerTree(k).edition
      /\ e.fetch = "read" => owedTree[k] <= e.ans.edition
  BY DEF BudgetInv, PageTypeOK, TreesFresh, TreeFresh, ServerTypeOK, ServerTree, Tree, TreeKey
<1>2. /\ UNCHANGED <<serverVars, apart, takenCache, pageVars, saveVars, owedTree>>
      /\ Derived' = Derived
  BY DerivedIs DEF TreeRead, TreeLands, TreeLost, pageVars
<1>3. PICK new \in Entry(Tree) :
         /\ treeCache' = [treeCache EXCEPT ![k] = new]
         /\ EntryOK(new) /\ ShownOK(new)
         /\ new.fetch = "read" => owedTree[k] <= new.ans.edition
         /\ new.fetch = "idle" /\ new.valid => owedTree[k] <= new.data.edition
  <2>1. CASE TreeRead(k)
    <3>1. treeCache' = [treeCache EXCEPT ![k] = ServerReads(e, ServerTree(k))] /\ e.fetch = "sent"
      BY <2>1 DEF TreeRead
    <3> HIDE DEF e
    <3>2. QED BY <1>1, <3>1, ReadFacts
  <2>2. CASE TreeLands(k)
    <3>1. treeCache' = [treeCache EXCEPT ![k] = Land(e)] /\ e.fetch = "read"
      BY <2>2 DEF TreeLands
    <3> HIDE DEF e
    <3>2. QED BY <1>1, <3>1, LandFacts
  <2>3. CASE TreeLost(k)
    <3>1. treeCache' = [treeCache EXCEPT ![k] = Lose(e)] /\ e.fetch # "idle"
      BY <2>3 DEF TreeLost
    <3> HIDE DEF e
    <3>2. QED BY <1>1, <3>1, LoseFacts
  <2>4. QED BY <2>1, <2>2, <2>3
<1>4. /\ treeCache' \in [TreeKey -> Entry(Tree)] /\ treeCache'[k] = new
      /\ \A j \in TreeKey \ {k} : treeCache'[j] = treeCache[j]
  BY <1>3 DEF BudgetInv, PageTypeOK
<1>5. PageTypeOK'
  BY <1>2, <1>4 DEF BudgetInv, PageTypeOK, pageVars
<1>6. \A j \in TreeKey : ServerTree(j)' = ServerTree(j)
  BY <1>2 DEF ServerTree, serverVars
<1>7. ASSUME NEW j \in TreeKey
      PROVE  (owedTree[j] <= ServerTree(j).edition)' /\ TreeFresh(treeCache[j], j)'
  BY <1>2, <1>3, <1>4, <1>6 DEF BudgetInv, TreesFresh, TreeFresh
<1>8. TreesFresh'
  BY <1>7 DEF TreesFresh
<1>9. QED BY <1>2, <1>5, <1>8, BudgetSame DEF pageVars, saveVars, BudgetInv, EditTypeOK

\* Every tree after invalidateQueries, which fetches the one on the screen.
Told == [j \in TreeKey |-> Invalidate(treeCache[j], j = Derived)]

LEMMA ToldFacts ==
    ASSUME BudgetInv
    PROVE  /\ Told \in [TreeKey -> Entry(Tree)]
           /\ \A j \in TreeKey :
                /\ EntryOK(Told[j]) /\ Untold(treeCache[j], Told[j]) /\ ~Told[j].valid
                /\ j = Derived /\ treeCache[j].has => Told[j].fetch = "sent"
           /\ ShownOK(Told[Derived])
<1>1. ASSUME NEW j \in TreeKey
      PROVE  /\ Told[j] \in Entry(Tree)
             /\ EntryOK(Told[j]) /\ Untold(treeCache[j], Told[j]) /\ ~Told[j].valid
             /\ j = Derived /\ treeCache[j].has => Told[j].fetch = "sent"
             /\ j = Derived => ShownOK(Told[j])
  <2> DEFINE old == treeCache[j]
             shown == j = Derived
             new == Told[j]
  <2>1. shown \in BOOLEAN /\ new = Invalidate(old, shown) /\ old \in Entry(Tree)
    BY DEF Told, BudgetInv, PageTypeOK
  <2>2. shown <=> j = Derived
    OBVIOUS
  <2> HIDE DEF old, shown, new
  <2>3. new \in Entry(Tree) /\ EntryOK(new) /\ Untold(old, new) /\ ~new.valid
    BY <2>1, InvalidateFacts
  <2>4. shown /\ (old.has \/ old.fetch = "idle") => new.fetch = "sent"
    BY <2>1, InvalidateFacts
  <2>5. shown => ShownOK(new)
    BY <2>1, InvalidateFacts
  <2>6. QED BY <2>2, <2>3, <2>4, <2>5 DEF old, new
<1>2. Derived \in TreeKey
  BY DerivedIs, DerivedFacts DEF BudgetInv, PageTypeOK, Entry
<1>3. Told \in [TreeKey -> Entry(Tree)]
  <2> DEFINE T(j) == Invalidate(treeCache[j], j = Derived)
  <2>1. Told = [j \in TreeKey |-> T(j)] /\ \A j \in TreeKey : T(j) = Told[j]
    BY DEF Told
  <2> HIDE DEF T
  <2>2. QED BY <1>1, <2>1
<1>4. QED BY <1>1, <1>2, <1>3

LEMMA TakenToldFacts ==
    ASSUME BudgetInv
    PROVE  /\ Invalidate(takenCache, TRUE) \in Entry(SUBSET Masa)
           /\ Invalidate(takenCache, TRUE).data = takenCache.data
  BY InvalidateFacts DEF BudgetInv, PageTypeOK

\* n is in the answer on its way to a tree, unless that is dropped when the tree
\* is invalidated.
InTime(j, n) ==
    treeCache[j].fetch = "read" /\ ~(treeCache[j].has /\ j = Derived) => n <= treeCache[j].ans.edition

\* What OweTree adds is at the server, and in time.
LEMMA OwedFacts ==
    ASSUME BudgetInv, NEW k \in TreeKey, NEW e \in Nat, OweTree(k, e),
           e <= ServerTree(k).edition
    PROVE  /\ owedTree' \in [TreeKey -> Nat]
           /\ \A j \in TreeKey :
                \/ owedTree'[j] = owedTree[j]
                \/ owedTree'[j] <= ServerTree(j).edition /\ InTime(j, owedTree'[j])
<1>1. owedTree \in [TreeKey -> Nat] /\ owedTree[k] <= ServerTree(k).edition
  BY DEF BudgetInv, PageTypeOK, TreesFresh
<1>2. Max({owedTree[k], e}) \in {owedTree[k], e}
  BY <1>1, MaxOfTwo
<1> DEFINE m == Max({owedTree[k], e})
<1>3. \/ owedTree' = owedTree
      \/ /\ owedTree' = [owedTree EXCEPT ![k] = m]
         /\ ~Overtaken(treeCache[k], k = Derived, treeCache[k].ans.edition < e)
  BY DEF OweTree
<1>4. /\ m \in Nat /\ m <= ServerTree(k).edition
      /\ ~Overtaken(treeCache[k], k = Derived, treeCache[k].ans.edition < e) => InTime(k, m)
  <2>1. treeCache[k].fetch = "read" => owedTree[k] <= treeCache[k].ans.edition
    BY DEF BudgetInv, TreesFresh, TreeFresh
  <2>2. treeCache[k].ans.edition \in Nat
    BY DEF BudgetInv, PageTypeOK, Entry, Tree
  <2>3. QED BY <1>1, <1>2, <2>1, <2>2 DEF Overtaken, InTime
<1> HIDE DEF m
<1>5. QED BY <1>1, <1>3, <1>4

\* What the trees become when all of them are invalidated and the one that is
\* shown next, k, is fetched unless it is valid.
LEMMA ToldThenShown ==
    ASSUME BudgetInv, PageTypeOK', ServerTypeOK', NEW k \in TreeKey, Derived' = k,
           \/ treeCache' = [Told EXCEPT ![k] = Observe(@)]
           \/ treeCache' = Told /\ k = Derived,
           \A j \in TreeKey : ServerTree(j).edition <= ServerTree(j)'.edition,
           \A j \in TreeKey :
             \/ owedTree'[j] = owedTree[j]
             \/ owedTree'[j] <= ServerTree(j).edition /\ InTime(j, owedTree'[j])
    PROVE  TreesFresh'
<1> DEFINE stale == Told[k]
<1>1. /\ stale \in Entry(Tree) /\ EntryOK(stale) /\ ~stale.valid
      /\ Untold(treeCache[k], stale) /\ (k = Derived => ShownOK(stale))
      /\ k = Derived /\ treeCache[k].has => stale.fetch = "sent"
  BY ToldFacts
<1>2. /\ Observe(stale) \in Entry(Tree) /\ EntryOK(Observe(stale)) /\ ShownOK(Observe(stale))
      /\ Untold(stale, Observe(stale))
      /\ Observe(stale).fetch = "sent" \/ Observe(stale) = stale
  <2> HIDE DEF stale
  <2>1. QED BY <1>1, ObserveFacts
<1>3. Untold(treeCache[k], Observe(stale))
  BY <1>1, <1>2, UntoldTransitive
<1>4. /\ EntryOK(treeCache'[k]) /\ ShownOK(treeCache'[k]) /\ Untold(treeCache[k], treeCache'[k])
      /\ k = Derived /\ treeCache[k].has => treeCache'[k].fetch = "sent"
      /\ \A j \in TreeKey \ {k} : treeCache'[j] = Told[j]
  <2>1. CASE treeCache' = [Told EXCEPT ![k] = Observe(@)]
    <3>1. treeCache'[k] = Observe(stale) /\ \A j \in TreeKey \ {k} : treeCache'[j] = Told[j]
      BY <2>1, ToldFacts
    <3> HIDE DEF stale
    <3>2. QED BY <1>1, <1>2, <1>3, <3>1
  <2>2. CASE treeCache' = Told /\ k = Derived
    BY <1>1, <2>2
  <2>3. QED BY <2>1, <2>2
<1>5. ~treeCache'[k].valid
  <2>1. CASE treeCache' = [Told EXCEPT ![k] = Observe(@)]
    <3>1. treeCache'[k] = Observe(stale)
      BY <2>1, ToldFacts
    <3>2. ~Observe(stale).valid
      <4> HIDE DEF stale
      <4>1. QED BY <1>1, FetchFacts DEF Observe
    <3>3. QED BY <3>1, <3>2
  <2>2. CASE treeCache' = Told /\ k = Derived
    BY <1>1, <2>2
  <2>3. QED BY <2>1, <2>2
<1>6. \A j \in TreeKey : EntryOK(treeCache'[j]) /\ Untold(treeCache[j], treeCache'[j])
  BY <1>4, ToldFacts
<1>7. \A j \in TreeKey :
        \/ owedTree'[j] = owedTree[j]
        \/ /\ owedTree'[j] <= ServerTree(j).edition
           /\ treeCache'[j].fetch = "read" => owedTree'[j] <= treeCache'[j].ans.edition
           /\ ~treeCache'[j].valid
  <2>1. \A j \in TreeKey : /\ ~treeCache'[j].valid
                           /\ treeCache[j].has /\ j = Derived => treeCache'[j].fetch = "sent"
    BY <1>4, <1>5, ToldFacts
  <2>2. QED BY <1>6, <2>1 DEF InTime, Untold
<1>8. QED BY <1>4, <1>6, <1>7, TreesStep DEF BudgetInv

\* Perbarui and the answers of a call and of an import, the page staying where
\* it is.
LEMMA RefreshSteps ==
    ASSUME BudgetInv, RefreshAll(Derived), UNCHANGED <<serverVars, apart, bulan, revisi>>,
           \/ UNCHANGED owedTree
           \/ \E e \in Nat : e <= budgetEdition /\ OweTree(LiveKey, e)
    PROVE  PageTypeOK' /\ TreesFresh'
<1>1. treeCache' = Told /\ takenCache' = Invalidate(takenCache, TRUE)
  BY DEF RefreshAll, Told
<1>2. takenCache' \in Entry(SUBSET Masa) /\ Derived' = Derived
  BY <1>1, TakenToldFacts, DerivedIs
<1>3. LiveKey \in TreeKey /\ ServerTree(LiveKey).edition = budgetEdition
  BY DEF TreeKey, ServerTree
<1>4. /\ owedTree' \in [TreeKey -> Nat]
      /\ \A j \in TreeKey :
           \/ owedTree'[j] = owedTree[j]
           \/ owedTree'[j] <= ServerTree(j).edition /\ InTime(j, owedTree'[j])
  <2>1. CASE UNCHANGED owedTree
    BY <2>1 DEF BudgetInv, PageTypeOK
  <2>2. CASE \E e \in Nat : e <= budgetEdition /\ OweTree(LiveKey, e)
    BY <1>3, <2>2, OwedFacts
  <2>3. QED BY <2>1, <2>2
<1>5. PageTypeOK'
  BY <1>1, <1>2, <1>4, ToldFacts DEF BudgetInv, PageTypeOK
<1>6. ServerTypeOK'
  BY DEF BudgetInv, ServerTypeOK, serverVars
<1>7. \A j \in TreeKey : ServerTree(j).edition <= ServerTree(j)'.edition
  <2>1. \A j \in TreeKey : ServerTree(j)' = ServerTree(j) /\ ServerTree(j).edition \in Nat
    BY DEF BudgetInv, ServerTypeOK, ServerTree, Tree, TreeKey, serverVars
  <2>2. QED BY <2>1
<1>8. Derived \in TreeKey
  BY DerivedIs, DerivedFacts DEF BudgetInv, PageTypeOK, Entry
<1>9. QED BY <1>1, <1>2, <1>4, <1>5, <1>6, <1>7, <1>8, ToldThenShown

LEMMA AnswerSteps ==
    ASSUME BudgetInv, Perbarui \/ ImportAnswered \/ \E p \in puts : PutAnswered(p)
    PROVE  BudgetInv'
<1>1. CASE Perbarui
  <2>1. PageTypeOK' /\ TreesFresh'
    BY <1>1, RefreshSteps DEF Perbarui, pageVars
  <2>2. QED
    BY <1>1, <2>1, BudgetSame DEF Perbarui, pageVars, saveVars, BudgetInv, EditTypeOK
<1>2. CASE ImportAnswered
  <2>1. importing \in Import /\ importing.at = "saved" /\ importing.edition <= budgetEdition
    BY <1>2 DEF ImportAnswered, BudgetInv, EditTypeOK, Seen
  <2>2. PageTypeOK' /\ TreesFresh'
    <3>1. importing.edition \in Nat
      BY <2>1 DEF Import
    <3>2. QED BY <1>2, <2>1, <3>1, RefreshSteps DEF ImportAnswered
  <2>3. importing' \in Import /\ importing'.at = "snapshot" /\ importing'.masa = importing.masa
    BY <1>2, <2>1 DEF ImportAnswered, Import
  <2>4. ServerTypeOK' /\ EditTypeOK' /\ Seen'
    BY <1>2, <2>1, <2>3 DEF ImportAnswered, BudgetInv, ServerTypeOK, EditTypeOK, Seen, serverVars, saveVars
  <2>5. QED BY <2>2, <2>4 DEF BudgetInv
<1>3. ASSUME NEW p \in puts, PutAnswered(p) PROVE BudgetInv'
  <2>1. p \in Put /\ p.at = "done" /\ p.edition <= budgetEdition
    BY <1>3 DEF PutAnswered, BudgetInv, EditTypeOK, Seen
  <2>2. PageTypeOK' /\ TreesFresh'
    <3>1. p.edition \in Nat
      BY <2>1 DEF Put
    <3>2. QED BY <1>3, <2>1, <3>1, RefreshSteps DEF PutAnswered, RefreshAfter
  <2>3. edit' \in [open : BOOLEAN, row : Row] /\ puts' \subseteq puts
    BY <1>3 DEF PutAnswered, BudgetInv, EditTypeOK
  <2>4. ServerTypeOK' /\ EditTypeOK' /\ Seen'
    BY <1>3, <2>3 DEF PutAnswered, BudgetInv, ServerTypeOK, EditTypeOK, Seen, serverVars
  <2>5. QED BY <2>2, <2>4 DEF BudgetInv
<1>4. QED BY <1>1, <1>2, <1>3

\* Another period comes on the screen and nothing is invalidated.
LEMMA LookFacts ==
    ASSUME BudgetInv, UNCHANGED <<serverVars, apart, owedTree>>, PageTypeOK', Derived' \in TreeKey,
           treeCache' = [treeCache EXCEPT ![Derived'] = Observe(@)]
    PROVE  TreesFresh'
<1> DEFINE e == treeCache[Derived']
<1>1. e \in Entry(Tree) /\ EntryOK(e)
  BY DEF BudgetInv, PageTypeOK, TreesFresh, TreeFresh
<1>2. EntryOK(Observe(e)) /\ ShownOK(Observe(e)) /\ Untold(e, Observe(e))
  <2> HIDE DEF e
  <2>1. QED BY <1>1, ObserveFacts
<1>3. /\ treeCache'[Derived'] = Observe(e)
      /\ \A j \in TreeKey \ {Derived'} : treeCache'[j] = treeCache[j]
  BY DEF BudgetInv, PageTypeOK
<1> HIDE DEF e
<1>4. \A j \in TreeKey : EntryOK(treeCache'[j]) /\ Untold(treeCache[j], treeCache'[j])
  BY <1>2, <1>3 DEF e, BudgetInv, TreesFresh, TreeFresh, Untold
<1>5. \A j \in TreeKey : ServerTree(j).edition <= ServerTree(j)'.edition
  <2>1. \A j \in TreeKey : ServerTree(j)' = ServerTree(j) /\ ServerTree(j).edition \in Nat
    BY DEF BudgetInv, ServerTypeOK, ServerTree, Tree, TreeKey, serverVars
  <2>2. QED BY <2>1
<1>6. ServerTypeOK'
  BY DEF BudgetInv, ServerTypeOK, serverVars
<1>7. QED BY <1>2, <1>3, <1>4, <1>5, <1>6, TreesStep DEF BudgetInv

LEMMA ObservedTrees ==
    ASSUME NEW f \in [TreeKey -> Entry(Tree)], NEW k \in TreeKey, EntryOK(f[k])
    PROVE  [f EXCEPT ![k] = Observe(@)] \in [TreeKey -> Entry(Tree)]
<1>1. Observe(f[k]) \in Entry(Tree)
  BY ObserveFacts
<1>2. QED BY <1>1

LEMMA LookSteps ==
    ASSUME BudgetInv, TakenLands \/ SnapshotFails \/ \E b \in Month : ChooseMonth(b)
    PROVE  BudgetInv'
<1>1. /\ UNCHANGED <<serverVars, apart, edit, submits, puts, owedTree>>
      /\ importing' = importing \/ importing' = NoImport
  BY DEF TakenLands, SnapshotFails, ChooseMonth, pageVars, saveVars
<1>2. takenCache' \in Entry(SUBSET Masa)
  <2>1. CASE TakenLands
    <3> DEFINE v == {k \in Masa : taken[k] # NoTree}
               read == ServerReads(takenCache, v)
    <3>1. takenCache \in Entry(SUBSET Masa) /\ v \in SUBSET Masa
      BY DEF BudgetInv, PageTypeOK
    <3>2. read \in Entry(SUBSET Masa)
      BY <3>1 DEF ServerReads, Entry
    <3>3. takenCache' = Land(read)
      BY <2>1 DEF TakenLands
    <3> HIDE DEF read
    <3>4. QED BY <3>2, <3>3, LandFacts
  <2>2. CASE UNCHANGED takenCache
    BY <2>2 DEF BudgetInv, PageTypeOK
  <2>3. QED BY <2>1, <2>2 DEF SnapshotFails, ChooseMonth
<1>3. bulan' \in Month /\ revisi' \in Masa \cup {NoChoice}
  BY DEF TakenLands, SnapshotFails, ChooseMonth, pageVars, BudgetInv, PageTypeOK, EditTypeOK, Month
<1>4. Derived' \in TreeKey
  <2>1. takenCache'.data \in SUBSET Masa
    BY <1>2 DEF Entry
  <2>2. QED BY <1>3, <2>1, DerivedIs, DerivedFacts
<1>5. treeCache' = [treeCache EXCEPT ![Derived'] = Observe(@)]
  <2>1. CASE SnapshotFails
    <3>1. revisi' \in Masa /\ revisi' = importing.masa
      BY <2>1 DEF SnapshotFails, BudgetInv, EditTypeOK
    <3>2. takenCache'.data \in SUBSET Masa
      BY <1>2 DEF Entry
    <3>3. Derived' = revisi'
      BY <1>3, <3>1, <3>2, DerivedIs, DerivedFacts
    <3>4. QED BY <2>1, <3>1, <3>3 DEF SnapshotFails
  <2>2. QED BY <2>1 DEF TakenLands, ChooseMonth, Look
<1>6. PageTypeOK'
  <2>1. treeCache \in [TreeKey -> Entry(Tree)] /\ EntryOK(treeCache[Derived'])
    BY <1>4 DEF BudgetInv, PageTypeOK, TreesFresh, TreeFresh
  <2>2. treeCache' \in [TreeKey -> Entry(Tree)]
    BY <1>4, <1>5, <2>1, ObservedTrees
  <2>3. QED BY <1>1, <1>2, <1>3, <2>2 DEF BudgetInv, PageTypeOK
<1>7. TreesFresh'
  BY <1>1, <1>4, <1>5, <1>6, LookFacts
<1>8. QED BY <1>1, <1>6, <1>7, BudgetSame DEF BudgetInv, EditTypeOK

\* Another period comes on the screen after everything was invalidated.
LEMMA MoveSteps ==
    ASSUME BudgetInv, SnapshotAnswered \/ \E k \in Masa \cup {NoChoice} : ChooseRevision(k)
    PROVE  BudgetInv'
<1>1. /\ UNCHANGED <<serverVars, apart, edit, submits, puts>>
      /\ importing' = importing \/ importing' = NoImport
      /\ takenCache' = Invalidate(takenCache, TRUE)
  BY DEF SnapshotAnswered, MoveTold, ChooseRevision, saveVars
<1>2. takenCache' \in Entry(SUBSET Masa) /\ takenCache'.data \in SUBSET Masa
  BY <1>1, TakenToldFacts DEF Entry
<1>3. PICK k \in TreeKey :
        /\ treeCache' = [Told EXCEPT ![k] = Observe(@)]
        /\ Derived' = k /\ bulan' \in Month /\ revisi' \in Masa \cup {NoChoice}
        /\ UNCHANGED owedTree \/ \E e \in Nat : e <= ServerTree(k).edition /\ OweTree(k, e)
  <2>1. CASE SnapshotAnswered
    <3> DEFINE k == importing.masa
    <3>1. /\ k \in Masa /\ importing.edition \in Nat /\ importing.edition <= taken[k].edition
          /\ bulan' = k[1] /\ revisi' = k
          /\ treeCache' = [Told EXCEPT ![k] = Observe(@)] /\ OweTree(k, importing.edition)
      BY <2>1 DEF SnapshotAnswered, MoveTold, Told, BudgetInv, EditTypeOK, Import, Seen
    <3>2. bulan' \in Month /\ revisi' \in Masa
      BY <3>1 DEF Month
    <3>3. Derived' = k
      BY <1>2, <3>1, <3>2, DerivedIs, DerivedFacts
    <3>4. ServerTree(k) = taken[k]
      BY <3>1, MasaFacts DEF ServerTree
    <3> HIDE DEF k
    <3>5. QED BY <3>1, <3>2, <3>3, <3>4 DEF TreeKey
  <2>2. ASSUME NEW c \in Masa \cup {NoChoice}, ChooseRevision(c)
        PROVE  \E k \in TreeKey :
                 /\ treeCache' = [Told EXCEPT ![k] = Observe(@)]
                 /\ Derived' = k /\ bulan' \in Month /\ revisi' \in Masa \cup {NoChoice}
                 /\ UNCHANGED owedTree
    <3> DEFINE k == IF c = NoChoice THEN LiveKey ELSE c
    <3>1. /\ treeCache' = [Told EXCEPT ![k] = Observe(@)] /\ UNCHANGED owedTree
          /\ bulan' = bulan /\ revisi' = c /\ (c = NoChoice => bulan = NowMonth)
      BY <2>2 DEF ChooseRevision, Told
    <3>2. k \in TreeKey /\ bulan' \in Month
      BY <3>1 DEF TreeKey, BudgetInv, PageTypeOK
    <3>3. Derived' = k
      BY <1>2, <3>1, <3>2, DerivedIs, DerivedFacts
    <3> HIDE DEF k
    <3>4. QED BY <3>1, <3>2, <3>3
  <2>3. QED BY <2>1, <2>2
<1>4. /\ owedTree' \in [TreeKey -> Nat]
      /\ \A j \in TreeKey :
           \/ owedTree'[j] = owedTree[j]
           \/ owedTree'[j] <= ServerTree(j).edition /\ InTime(j, owedTree'[j])
  <2>1. CASE UNCHANGED owedTree
    BY <2>1 DEF BudgetInv, PageTypeOK
  <2>2. CASE \E e \in Nat : e <= ServerTree(k).edition /\ OweTree(k, e)
    BY <2>2, OwedFacts
  <2>3. QED BY <1>3, <2>1, <2>2
<1>5. PageTypeOK'
  <2>1. Told \in [TreeKey -> Entry(Tree)] /\ EntryOK(Told[k])
    BY ToldFacts
  <2>2. treeCache' \in [TreeKey -> Entry(Tree)]
    BY <1>3, <2>1, ObservedTrees
  <2>3. QED BY <1>2, <1>3, <1>4, <2>2 DEF PageTypeOK
<1>6. ServerTypeOK' /\ \A j \in TreeKey : ServerTree(j).edition <= ServerTree(j)'.edition
  <2>1. \A j \in TreeKey : ServerTree(j)' = ServerTree(j) /\ ServerTree(j).edition \in Nat
    BY <1>1 DEF BudgetInv, ServerTypeOK, ServerTree, Tree, TreeKey, serverVars
  <2>2. QED BY <1>1, <2>1 DEF BudgetInv, ServerTypeOK, serverVars
<1>7. TreesFresh'
  BY <1>3, <1>4, <1>5, <1>6, ToldThenShown
<1>8. QED BY <1>1, <1>5, <1>7, BudgetSame DEF BudgetInv, EditTypeOK

LEMMA BudgetNext == BudgetInv /\ [BudgetCommand \/ BudgetReply]_budgetVars => BudgetInv'
<1> SUFFICES ASSUME BudgetInv, [BudgetCommand \/ BudgetReply]_budgetVars PROVE BudgetInv'
  OBVIOUS
<1>1. CASE UNCHANGED budgetVars
  <2>1. UNCHANGED <<serverVars, apart, bulan, revisi, treeCache, takenCache, owedTree, edit, submits, puts, importing>>
    BY <1>1 DEF budgetVars, serverVars
  <2>2. budgetEdition' = budgetEdition /\ taken' = taken
    BY <2>1 DEF serverVars
  <2>3. ServerTypeOK' /\ EditTypeOK' /\ Seen'
    BY <2>1 DEF BudgetInv, ServerTypeOK, EditTypeOK, Seen, serverVars
  <2>4. QED BY <2>1, <2>2, <2>3, BudgetQuiet DEF BudgetInv, ServerTypeOK, Tree
<1>2. CASE \/ OpenEdit \/ CloseEdit \/ SubmitEdit \/ ConfirmDeleteNode \/ ImportFails
           \/ \E r \in RowSet : FillEdit(r)
           \/ \E p \in puts : PutFails(p)
           \/ \E k \in Masa : ImportSent(k)
  BY <1>2, EditSteps
<1>3. CASE \/ \E p \in puts : PutApplies(p)
           \/ \E r \in RowSet : OtherEdits(r) \/ ImportApplies(r)
           \/ SnapshotApplies \/ \E k \in Masa : OtherTakes(k)
  BY <1>3, BudgetServerSteps
<1>4. CASE \E k \in TreeKey : TreeRead(k) \/ TreeLands(k) \/ TreeLost(k)
  BY <1>4, TreeSteps
<1>5. CASE Perbarui \/ ImportAnswered \/ \E p \in puts : PutAnswered(p)
  BY <1>5, AnswerSteps
<1>6. CASE TakenLands \/ SnapshotFails \/ \E b \in Month : ChooseMonth(b)
  BY <1>6, LookSteps
<1>7. CASE SnapshotAnswered \/ \E k \in Masa \cup {NoChoice} : ChooseRevision(k)
  BY <1>7, MoveSteps
<1>8. QED BY <1>1, <1>2, <1>3, <1>4, <1>5, <1>6, <1>7 DEF BudgetCommand, BudgetReply

\* A tree at rest on the screen shows every change of the user's own that was
\* answered, but one answered while a request the server had read before it was
\* under way for a tree in its first load or off the screen; for any number of
\* periods, calls and months (useAnggaran.ts:193-245, AnggaranPage.tsx:650-659).
THEOREM OwnBudgetAlwaysShown == BudgetSpec => []OwnBudgetShown
<1>1. BudgetInv => OwnBudgetShown
  <2>1. BudgetInv => Derived \in TreeKey
    BY DerivedIs, DerivedFacts DEF BudgetInv, PageTypeOK, Entry
  <2>2. QED
    BY <2>1 DEF BudgetInv, PageTypeOK, TreesFresh, TreeFresh, Entry, Tree, OwnBudgetShown, ShownTree, ShownOK, AtRest
<1>2. QED BY <1>1, BudgetInitInv, BudgetNext, PTL DEF BudgetSpec

-----------------------------------------------------------------------------
(* BudgetPage: what a save stores.                                         *)

Parts == IF apart THEN {"pagu", "lock", "real"} ELSE {"pagu", "lock"}

\* The live row has what the call for this part writes of r.
StoredPart(part, r) ==
    /\ part = "pagu" => nodeRow.pagu = r.pagu /\ (~apart => nodeRow.real = r.real)
    /\ part = "lock" => nodeRow.lock = r.lock
    /\ part = "real" => nodeRow.real = r.real

\* The last save sent r: each of its parts is still to be applied or is stored,
\* and it is reported only when no call is left.
Saving(r) ==
    /\ LockActive(r) => r.real = 0
    /\ \A p \in puts : p.part # "delete" => p.row = r
    /\ \A part \in Parts : (\E p \in puts : p.part = part /\ p.at = "sent") \/ StoredPart(part, r)
    /\ reported # NotReported => reported = r /\ \A p \in puts : p.part = "delete"

PutsNumbered ==
    /\ \A p \in puts : IF p.part = "delete" THEN p.save = 0
                       ELSE p.save > 0 /\ p.save <= submits /\ p.part \in Parts
    /\ \A p \in puts : p.at = "lost" /\ p.part # "delete" => p.save \in broken
    /\ \A n \in broken : n \in Nat /\ n <= submits

SaveInv ==
    /\ PutsNumbered
    /\ ~touched =>
         /\ \A p \in puts : p.part # "delete" => p.save = submits
         /\ submits = 0 \/ submits \in broken => reported = NotReported
         /\ submits # 0 /\ submits \notin broken => \E r \in Row : Saving(r)

LEMMA SaveInitInv == BudgetInit => SaveInv
  BY DEF BudgetInit, SaveInv, PutsNumbered

\* A row is stored part by part, and no part undoes another.
LEMMA WrittenPart ==
    ASSUME ServerTypeOK, NEW p \in Put, p.part \in Parts, NEW r \in Row, p.row = r,
           nodeRow' = Written(p), UNCHANGED apart
    PROVE  /\ StoredPart(p.part, r)'
           /\ \A part \in Parts : StoredPart(part, r) => StoredPart(part, r)'
<1>1. nodeRow \in Row
  BY DEF ServerTypeOK
<1>2. CASE p.part = "pagu"
  <2>1. nodeRow' = IF apart THEN [nodeRow EXCEPT !.pagu = r.pagu] ELSE [r EXCEPT !.lock = nodeRow.lock]
    BY <1>2 DEF Written
  <2>2. nodeRow'.pagu = r.pagu /\ nodeRow'.lock = nodeRow.lock
        /\ nodeRow'.real = IF apart THEN nodeRow.real ELSE r.real
    BY <1>1, <2>1 DEF Row
  <2>3. QED BY <1>2, <2>2 DEF StoredPart, Parts
<1>3. CASE p.part = "lock"
  <2>1. nodeRow' = [nodeRow EXCEPT !.lock = r.lock]
    BY <1>3 DEF Written
  <2>2. QED BY <1>1, <1>3, <2>1 DEF StoredPart, Parts, Row
<1>4. CASE p.part = "real"
  <2>1. nodeRow' = [nodeRow EXCEPT !.real = r.real] /\ apart
    BY <1>4 DEF Written, Parts
  <2>2. QED BY <1>1, <1>4, <2>1 DEF StoredPart, Parts, Row
<1>5. QED BY <1>2, <1>3, <1>4 DEF Parts

LEMMA SaveSubmit ==
    ASSUME BudgetInv, SaveInv, SubmitEdit PROVE SaveInv'
<1>1. PICK r \in Row : r = ToStore(edit.row) /\ (LockActive(r) => r.real = 0)
  BY StoredRow DEF BudgetInv, EditTypeOK
<1>2. /\ submits \in Nat /\ submits' = submits + 1 /\ puts \subseteq Put
      /\ puts' = puts \cup {PutCall(submits', part, r) : part \in Parts}
      /\ touched' = (\E p \in puts : p.part # "delete") /\ reported' = NotReported
      /\ UNCHANGED <<nodeRow, apart, broken>>
  BY <1>1 DEF SubmitEdit, Parts, BudgetInv, EditTypeOK, serverVars
<1>3. \A part \in Parts :
        LET p == PutCall(submits', part, r)
        IN  p.save = submits' /\ p.part = part /\ p.row = r /\ p.at = "sent" /\ p.part # "delete"
  BY DEF PutCall, Parts
<1>4. Parts' = Parts
  BY <1>2 DEF Parts
<1>5. PutsNumbered'
  <2>1. \A p \in puts : p.save \in Nat /\ IF p.part = "delete" THEN p.save = 0
                       ELSE p.save > 0 /\ p.save <= submits /\ p.part \in Parts
    BY <1>2 DEF SaveInv, PutsNumbered, Put
  <2>2. \A p \in puts' : IF p.part = "delete" THEN p.save = 0
                         ELSE p.save > 0 /\ p.save <= submits' /\ p.part \in Parts
    BY <1>2, <1>3, <2>1
  <2>3. \A n \in broken : n \in Nat /\ n <= submits'
    BY <1>2 DEF SaveInv, PutsNumbered
  <2>4. \A p \in puts' : p.at = "lost" /\ p.part # "delete" => p.save \in broken
    BY <1>2, <1>3 DEF SaveInv, PutsNumbered
  <2>5. QED BY <1>2, <1>4, <2>2, <2>3, <2>4 DEF PutsNumbered
<1>6. ASSUME ~touched'
      PROVE  (\A p \in puts' : p.part # "delete" => p.save = submits') /\ Saving(r)'
  <2>1. \A p \in puts : p.part = "delete"
    BY <1>2, <1>6
  <2>2. \A p \in puts' : p.part # "delete" => p.save = submits' /\ p.row = r
    BY <1>2, <1>3, <2>1
  <2>3. \A part \in Parts : \E p \in puts' : p.part = part /\ p.at = "sent"
    BY <1>2, <1>3
  <2>4. QED BY <1>1, <1>2, <1>4, <2>2, <2>3 DEF Saving, LockActive
<1>7. QED BY <1>1, <1>2, <1>5, <1>6 DEF SaveInv

LEMMA SaveApplies ==
    ASSUME BudgetInv, SaveInv, NEW p \in puts, PutApplies(p) PROVE SaveInv'
<1>1. p \in Put /\ budgetEdition' \in Nat
  BY DEF PutApplies, Changed, BudgetInv, EditTypeOK, ServerTypeOK
<1>2. /\ puts \ {p} \subseteq puts'
      /\ \A x \in puts' : \/ x \in puts \ {p}
                          \/ x.save = p.save /\ x.part = p.part /\ x.row = p.row /\ x.at = "done"
  <2> DEFINE q == [p EXCEPT !.at = "done", !.edition = budgetEdition']
  <2>1. q \in Put /\ q.save = p.save /\ q.part = p.part /\ q.row = p.row /\ q.at = "done"
    BY <1>1 DEF Put
  <2>2. puts' = (puts \ {p}) \cup (IF p.at = "lost" THEN {} ELSE {q})
    BY DEF PutApplies
  <2> HIDE DEF q
  <2>3. QED BY <2>1, <2>2
<1>3. /\ nodeRow' = Written(p) /\ UNCHANGED <<apart, submits, broken, reported, touched>>
      /\ Parts' = Parts
  BY DEF PutApplies, Changed, Parts
<1>4. PutsNumbered'
  BY <1>2, <1>3 DEF SaveInv, PutsNumbered
<1>5. ASSUME NEW r \in Row, Saving(r), ~touched, submits \notin broken PROVE Saving(r)'
  <2>1. \A part \in Parts : StoredPart(part, r) => StoredPart(part, r)'
    <3>1. CASE p.part = "delete"
      BY <1>3, <3>1 DEF Written, StoredPart
    <3>2. CASE p.part # "delete"
      BY <1>1, <1>3, <1>5, <3>2, WrittenPart DEF BudgetInv, SaveInv, PutsNumbered, Saving
    <3>3. QED BY <3>1, <3>2
  <2>2. p.part # "delete" => StoredPart(p.part, r)'
    BY <1>1, <1>3, <1>5, WrittenPart DEF BudgetInv, SaveInv, PutsNumbered, Saving
  <2>3. "delete" \notin Parts
    BY DEF Parts
  <2>4. ASSUME NEW part \in Parts
        PROVE  (\E x \in puts' : x.part = part /\ x.at = "sent") \/ StoredPart(part, r)'
    <3>1. CASE part = p.part
      BY <2>2, <2>3, <3>1
    <3>2. CASE part # p.part
      BY <1>2, <1>5, <2>1, <3>2 DEF Saving
    <3>3. QED BY <3>1, <3>2
  <2>5. \A x \in puts' : x.part # "delete" => x.row = r
    BY <1>2, <1>5 DEF Saving
  <2>6. reported' # NotReported => reported' = r /\ \A x \in puts' : x.part = "delete"
    BY <1>2, <1>3, <1>5 DEF Saving
  <2>7. QED BY <1>3, <1>5, <2>4, <2>5, <2>6 DEF Saving, LockActive
<1>6. \A x \in puts' : \E y \in puts : x.part = y.part /\ x.save = y.save
  BY <1>2
<1>7. QED BY <1>3, <1>4, <1>5, <1>6 DEF SaveInv

LEMMA SaveIsAnswered ==
    ASSUME BudgetInv, SaveInv, NEW p \in puts, PutAnswered(p) PROVE SaveInv'
<1>1. /\ puts' = puts \ {p} /\ p.at = "done"
      /\ UNCHANGED <<nodeRow, apart, submits, broken, touched>> /\ Parts' = Parts
      /\ \/ UNCHANGED reported
         \/ p.part # "delete" /\ AllSaved(p) /\ reported' = p.row
  BY DEF PutAnswered, Parts, serverVars
<1>2. PutsNumbered'
  BY <1>1 DEF SaveInv, PutsNumbered
<1>3. ASSUME ~touched, NEW r \in Row, Saving(r)
      PROVE  Saving(r)'
  <2>1. \A part \in Parts : (\E x \in puts' : x.part = part /\ x.at = "sent") \/ StoredPart(part, r)'
    BY <1>1, <1>3 DEF Saving, StoredPart
  <2>2. reported' # NotReported => reported' = r /\ \A x \in puts' : x.part = "delete"
    <3>1. CASE UNCHANGED reported
      BY <1>1, <1>3, <3>1 DEF Saving
    <3>2. CASE p.part # "delete" /\ AllSaved(p) /\ reported' = p.row
      <4>1. p.save = submits /\ p.row = r
        BY <1>3, <3>2 DEF SaveInv, Saving
      <4>2. \A x \in puts' : x.save # submits
        BY <1>1, <3>2, <4>1 DEF AllSaved
      <4>3. QED BY <1>1, <1>3, <3>2, <4>1, <4>2 DEF SaveInv
    <3>3. QED BY <1>1, <3>1, <3>2
  <2>3. QED BY <1>1, <1>3, <2>1, <2>2 DEF Saving, LockActive
<1>4. ASSUME ~touched, submits = 0 \/ submits \in broken
      PROVE  reported' = NotReported
  <2>1. reported = NotReported
    BY <1>4 DEF SaveInv
  <2>2. CASE p.part # "delete" /\ AllSaved(p)
    <3>1. p.save = submits /\ p.save > 0 /\ p.save \in Nat
      BY <1>4, <2>2 DEF SaveInv, PutsNumbered, BudgetInv, EditTypeOK, Put
    <3>2. submits \notin broken
      BY <2>2, <3>1 DEF AllSaved
    <3>3. QED BY <1>4, <3>1, <3>2
  <2>3. QED BY <1>1, <2>1, <2>2
<1>5. QED BY <1>1, <1>2, <1>3, <1>4 DEF SaveInv

LEMMA SaveFails ==
    ASSUME BudgetInv, SaveInv, NEW p \in puts, PutFails(p) PROVE SaveInv'
<1>1. /\ puts \ {p} \subseteq puts'
      /\ \A x \in puts' : \/ x \in puts \ {p}
                          \/ x.save = p.save /\ x.part = p.part /\ x.row = p.row /\ x.at = "lost"
      /\ UNCHANGED <<nodeRow, apart, submits, reported, touched>> /\ Parts' = Parts
      /\ broken' = IF p.part = "delete" THEN broken ELSE broken \cup {p.save}
  <2> DEFINE q == [p EXCEPT !.at = "lost"]
  <2>1. q.save = p.save /\ q.part = p.part /\ q.row = p.row /\ q.at = "lost"
    BY DEF BudgetInv, EditTypeOK, Put
  <2>2. puts' = puts \ {p} \/ puts' = (puts \ {p}) \cup {q}
    BY DEF PutFails
  <2> HIDE DEF q
  <2>3. QED BY <2>1, <2>2 DEF PutFails, Parts, serverVars
<1>2. PutsNumbered'
  <2>1. p.save \in Nat /\ (p.part # "delete" => p.save <= submits)
    BY DEF SaveInv, PutsNumbered, BudgetInv, EditTypeOK, Put
  <2>2. \A n \in broken' : n \in Nat /\ n <= submits
    BY <1>1, <2>1 DEF SaveInv, PutsNumbered
  <2>3. QED BY <1>1, <2>2 DEF SaveInv, PutsNumbered
<1>3. CASE p.part = "delete"
  <2>1. ASSUME NEW r \in Row, Saving(r), ~touched PROVE Saving(r)'
    <3>1. "delete" \notin Parts
      BY DEF Parts
    <3>2. \A part \in Parts : (\E x \in puts' : x.part = part /\ x.at = "sent") \/ StoredPart(part, r)'
      BY <1>1, <1>3, <2>1, <3>1 DEF Saving, StoredPart
    <3>3. QED BY <1>1, <2>1, <3>2 DEF Saving, LockActive
  <2>2. QED BY <1>1, <1>2, <1>3, <2>1 DEF SaveInv
<1>4. CASE p.part # "delete"
  <2>1. ASSUME ~touched PROVE submits \in broken' /\ reported = NotReported
    <3>1. p.save = submits /\ submits # 0
      BY <1>4, <2>1 DEF SaveInv, PutsNumbered, BudgetInv, EditTypeOK, Put
    <3>2. submits \notin broken => reported = NotReported
      BY <1>4, <2>1, <3>1 DEF SaveInv, Saving
    <3>3. QED BY <1>1, <1>4, <2>1, <3>1, <3>2 DEF SaveInv
  <2>2. QED BY <1>1, <1>2, <2>1 DEF SaveInv
<1>5. QED BY <1>3, <1>4

LEMMA SaveDelete ==
    ASSUME BudgetInv, SaveInv, ConfirmDeleteNode PROVE SaveInv'
<1>1. PICK d : puts' = puts \cup {d} /\ d.part = "delete" /\ d.save = 0
  <2>1. /\ puts' = puts \cup {PutCall(0, "delete", ZeroRow)}
        /\ PutCall(0, "delete", ZeroRow).part = "delete" /\ PutCall(0, "delete", ZeroRow).save = 0
    BY DEF ConfirmDeleteNode, PutCall
  <2>2. QED BY <2>1
<1>2. UNCHANGED <<nodeRow, apart, submits, broken, reported, touched>> /\ Parts' = Parts
  BY DEF ConfirmDeleteNode, Parts, serverVars
<1>3. PutsNumbered'
  BY <1>1, <1>2 DEF SaveInv, PutsNumbered
<1>4. ASSUME NEW r \in Row, Saving(r), ~touched PROVE Saving(r)'
  BY <1>1, <1>2, <1>4 DEF Saving, StoredPart, LockActive
<1>5. QED BY <1>1, <1>2, <1>3, <1>4 DEF SaveInv

\* Nothing of the save changes.
LEMMA SaveQuiet ==
    ASSUME SaveInv, UNCHANGED <<nodeRow, apart, submits, puts, broken, reported, touched>>
    PROVE  SaveInv'
<1>1. \A r \in Row : Saving(r) => Saving(r)'
  BY DEF Saving, StoredPart, LockActive, Parts
<1>2. PutsNumbered'
  BY DEF SaveInv, PutsNumbered, Parts
<1>3. QED BY <1>1, <1>2 DEF SaveInv

LEMMA SaveNext == BudgetInv /\ SaveInv /\ [BudgetCommand \/ BudgetReply]_budgetVars => SaveInv'
<1> SUFFICES ASSUME BudgetInv, SaveInv, [BudgetCommand \/ BudgetReply]_budgetVars PROVE SaveInv'
  OBVIOUS
<1>1. CASE \E r \in RowSet : OtherEdits(r) \/ ImportApplies(r)
  BY <1>1 DEF OtherEdits, ImportApplies, SaveInv, PutsNumbered, Parts
<1>2. CASE \E p \in puts : PutApplies(p) \/ PutAnswered(p) \/ PutFails(p)
  BY <1>2, SaveApplies, SaveIsAnswered, SaveFails
<1>3. CASE SubmitEdit \/ ConfirmDeleteNode
  BY <1>3, SaveSubmit, SaveDelete
<1>4. CASE UNCHANGED budgetVars
  BY <1>4, SaveQuiet DEF budgetVars
<1>5. CASE \/ OpenEdit \/ CloseEdit \/ Perbarui \/ ImportFails \/ SnapshotFails
           \/ \E b \in Month : ChooseMonth(b)
           \/ \E k \in Masa \cup {NoChoice} : ChooseRevision(k)
           \/ \E r \in RowSet : FillEdit(r)
           \/ \E k \in Masa : ImportSent(k) \/ OtherTakes(k)
  BY <1>5, SaveQuiet
  DEF OpenEdit, CloseEdit, Perbarui, ImportFails, SnapshotFails, ChooseMonth, ChooseRevision, FillEdit,
      ImportSent, OtherTakes, serverVars, saveVars
<1>6. CASE \/ TakenLands \/ ImportAnswered \/ SnapshotApplies \/ SnapshotAnswered
           \/ \E k \in TreeKey : TreeRead(k) \/ TreeLands(k) \/ TreeLost(k)
  BY <1>6, SaveQuiet
  DEF TakenLands, ImportAnswered, SnapshotApplies, SnapshotAnswered, TreeRead, TreeLands, TreeLost,
      serverVars, saveVars
<1>7. QED BY <1>1, <1>2, <1>3, <1>4, <1>5, <1>6 DEF BudgetCommand, BudgetReply

\* A save that was reported is stored in every part and under the rule for locked
\* rows, in whatever order its calls were applied and answered, and whatever
\* calls of earlier saves failed (EditPaguModal.tsx:30-60).
THEOREM SavesAreStored == BudgetSpec => []SavedAsReported
<1>1. BudgetInv /\ SaveInv => SavedAsReported
  <2> SUFFICES ASSUME BudgetInv, SaveInv, reported # NotReported, ~touched
               PROVE  nodeRow = reported /\ (LockActive(nodeRow) => nodeRow.real = 0)
    BY DEF SavedAsReported
  <2>1. PICK r \in Row : Saving(r)
    BY DEF SaveInv
  <2>2. reported = r /\ \A part \in Parts : StoredPart(part, r)
    BY <2>1 DEF Saving, Parts
  <2>3. nodeRow.pagu = r.pagu /\ nodeRow.lock = r.lock /\ nodeRow.real = r.real
    <3>1. StoredPart("pagu", r) /\ StoredPart("lock", r) /\ (apart => StoredPart("real", r))
      BY <2>2 DEF Parts
    <3>2. QED BY <3>1 DEF StoredPart
  <2>4. nodeRow \in Row
    BY DEF BudgetInv, ServerTypeOK
  <2>5. nodeRow = r
    BY <2>3, <2>4 DEF Row
  <2>6. QED BY <2>1, <2>2, <2>5 DEF Saving
<1>2. QED BY <1>1, BudgetInitInv, BudgetNext, SaveInitInv, SaveNext, PTL DEF BudgetSpec

-----------------------------------------------------------------------------
(* Snapshots: what a period keeps when calls for it overlap.               *)

SnapTypeOK ==
    /\ edition \in Nat \ {0}
    /\ copies \in [Periode -> Seq(Nat)]
    /\ snapping \in [Caller -> [at : {"idle", "delete", "insert", "answered", "failed"},
                                periode : Periode, began : Nat]]
    /\ \A c \in Caller : snapping[c].began <= edition

\* c is a call for p that has come as far as one of the states.
CallFor(c, p, states) == snapping[c].periode = p /\ snapping[c].at \in states

\* Unless a call is between its two statements, or failed there, the last copy is
\* from after every answered call began.
LastIsFresh(p) ==
    \/ \E c \in Caller : CallFor(c, p, {"insert", "failed"})
    \/ \A c \in Caller : CallFor(c, p, {"answered"}) =>
         /\ Len(copies[p]) > 0
         /\ copies[p][Len(copies[p])] >= snapping[c].began

\* A copy is from after some answered call began, unless no call is past its
\* delete.
NoneIsOlder(p) ==
    \A i \in 1 .. Len(copies[p]) :
      \/ \E c \in Caller : CallFor(c, p, {"answered"}) /\ copies[p][i] >= snapping[c].began
      \/ \A c \in Caller : ~CallFor(c, p, {"insert", "answered"})

SnapInv == SnapTypeOK /\ \A p \in Periode : LastIsFresh(p) /\ NoneIsOlder(p)

LEMMA SnapInitInv == SnapInit => SnapInv
<1> SUFFICES ASSUME SnapInit PROVE SnapInv
  OBVIOUS
<1>1. SnapTypeOK
  <2>1. <<>> \in Seq(Nat) /\ <<1>> \in Seq(Nat)
    OBVIOUS
  <2>2. copies \in [Periode -> Seq(Nat)]
    BY <2>1 DEF SnapInit
  <2>3. QED BY <2>2 DEF SnapInit, SnapTypeOK
<1>2. \A c \in Caller : snapping[c].at = "idle"
  BY DEF SnapInit
<1>3. QED BY <1>1, <1>2 DEF SnapInv, LastIsFresh, NoneIsOlder, CallFor

\* A step of one call that copies nothing.
LEMMA SnapCallStep ==
    ASSUME SnapInv, NEW c \in Caller,
           DropOld(c) \/ SnapFails(c) \/ \E p \in Periode : Ask(c, p)
    PROVE  SnapInv'
<1>1. SnapTypeOK'
  <2>1. copies' \in [Periode -> Seq(Nat)]
    <3>1. <<>> \in Seq(Nat)
      OBVIOUS
    <3>2. QED BY <3>1 DEF SnapInv, SnapTypeOK, DropOld, SnapFails, Ask
  <2>2. edition' = edition /\ edition \in Nat \ {0} /\ edition <= edition
    BY DEF SnapInv, SnapTypeOK, DropOld, SnapFails, Ask
  <2>3. snapping' \in [Caller -> [at : {"idle", "delete", "insert", "answered", "failed"},
                                  periode : Periode, began : Nat]]
    <3>1. CASE DropOld(c) \/ SnapFails(c)
      <4>1. PICK at \in {"insert", "failed"} : snapping' = [snapping EXCEPT ![c].at = at]
        BY <3>1 DEF DropOld, SnapFails
      <4>2. QED BY <4>1 DEF SnapInv, SnapTypeOK
    <3>2. CASE \E p \in Periode : Ask(c, p)
      BY <2>2, <3>2 DEF SnapInv, SnapTypeOK, Ask
    <3>3. QED BY <3>1, <3>2
  <2>4. snapping'[c].began <= edition /\ \A x \in Caller \ {c} : snapping'[x] = snapping[x]
    BY <2>2 DEF SnapInv, SnapTypeOK, DropOld, SnapFails, Ask
  <2>5. QED BY <2>1, <2>2, <2>3, <2>4 DEF SnapInv, SnapTypeOK
<1>2. /\ edition' = edition
      /\ \A x \in Caller \ {c} : snapping'[x] = snapping[x]
      /\ snapping[c].at \in {"idle", "delete", "insert"}
      /\ snapping'[c].at \in {"delete", "insert", "failed"}
  BY DEF SnapInv, SnapTypeOK, DropOld, SnapFails, Ask
<1>3. CASE DropOld(c)
  <2>1. /\ snapping[c].at = "delete" /\ snapping'[c].at = "insert"
        /\ snapping'[c].periode = snapping[c].periode
        /\ copies' = [copies EXCEPT ![snapping[c].periode] = <<>>]
        /\ snapping[c].periode \in Periode
    BY <1>3 DEF SnapInv, SnapTypeOK, DropOld
  <2>2. /\ copies'[snapping[c].periode] = <<>>
        /\ \A p \in Periode \ {snapping[c].periode} : copies'[p] = copies[p]
    BY <2>1 DEF SnapInv, SnapTypeOK
  <2>3. ASSUME NEW p \in Periode PROVE LastIsFresh(p)' /\ NoneIsOlder(p)'
    <3>1. CASE p = snapping[c].periode
      BY <2>1, <2>2, <3>1 DEF LastIsFresh, NoneIsOlder, CallFor
    <3>2. CASE p # snapping[c].periode
      BY <1>2, <2>1, <2>2, <3>2 DEF SnapInv, LastIsFresh, NoneIsOlder, CallFor
    <3>3. QED BY <3>1, <3>2
  <2>4. QED BY <1>1, <2>3 DEF SnapInv
<1>4. CASE SnapFails(c)
  <2>1. /\ snapping'[c].at = "failed" /\ snapping[c].at \in {"delete", "insert"}
        /\ snapping'[c].periode = snapping[c].periode /\ copies' = copies
    BY <1>4 DEF SnapInv, SnapTypeOK, SnapFails
  <2>2. QED BY <1>1, <1>2, <2>1 DEF SnapInv, LastIsFresh, NoneIsOlder, CallFor
<1>5. CASE \E p \in Periode : Ask(c, p)
  <2>1. snapping'[c].at = "delete" /\ snapping[c].at = "idle" /\ copies' = copies
    BY <1>5 DEF SnapInv, SnapTypeOK, Ask
  <2>2. QED BY <1>1, <1>2, <2>1 DEF SnapInv, LastIsFresh, NoneIsOlder, CallFor
<1>6. QED BY <1>3, <1>4, <1>5

\* The copy is the last one, and of the present edition.
LEMMA SnapCopyStep ==
    ASSUME SnapInv, NEW c \in Caller, TakeCopy(c) PROVE SnapInv'
<1> PICK q \in Periode : q = snapping[c].periode
  BY DEF SnapInv, SnapTypeOK
<1>1. /\ snapping[c].at = "insert" /\ copies[q] \in Seq(Nat) /\ edition \in Nat
      /\ copies' = [copies EXCEPT ![q] = Append(copies[q], edition)]
      /\ edition' = edition
      /\ snapping' = [snapping EXCEPT ![c].at = "answered"]
  BY DEF SnapInv, SnapTypeOK, TakeCopy
<1>2. Append(copies[q], edition) \in Seq(Nat)
  BY <1>1
<1>3. SnapTypeOK'
  BY <1>1, <1>2 DEF SnapInv, SnapTypeOK
<1>4. /\ snapping'[c].at = "answered" /\ snapping'[c].periode = q
      /\ snapping'[c].began = snapping[c].began /\ snapping[c].began <= edition
      /\ \A x \in Caller \ {c} : snapping'[x] = snapping[x] /\ snapping[x].began <= edition
  BY <1>1 DEF SnapInv, SnapTypeOK
<1>5. /\ Len(copies'[q]) = Len(copies[q]) + 1 /\ Len(copies[q]) \in Nat
      /\ copies'[q][Len(copies[q]) + 1] = edition
      /\ \A i \in 1 .. Len(copies[q]) : copies'[q][i] = copies[q][i]
      /\ \A p \in Periode \ {q} : copies'[p] = copies[p]
  BY <1>1 DEF SnapInv, SnapTypeOK
<1>6. LastIsFresh(q)' /\ NoneIsOlder(q)'
  <2>1. LastIsFresh(q)'
    BY <1>4, <1>5 DEF LastIsFresh, CallFor
  <2>2. ASSUME NEW i \in 1 .. Len(copies'[q])
        PROVE  \E x \in Caller : CallFor(x, q, {"answered"})' /\ copies'[q][i] >= snapping'[x].began
    <3>1. CASE i = Len(copies[q]) + 1
      <4>1. CallFor(c, q, {"answered"})'
        BY <1>4 DEF CallFor
      <4>2. copies'[q][i] = edition
        BY <1>5, <3>1
      <4>3. /\ snapping'[c].began <= edition
            /\ edition \in Nat /\ snapping'[c].began \in Nat
        BY <1>1, <1>3, <1>4 DEF SnapTypeOK
      <4>4. QED BY <4>1, <4>2, <4>3
    <3>2. CASE i \in 1 .. Len(copies[q])
      <4>1. PICK x \in Caller : CallFor(x, q, {"answered"}) /\ copies[q][i] >= snapping[x].began
        BY <1>1, <3>2 DEF SnapInv, NoneIsOlder, CallFor
      <4>2. x # c
        BY <1>1, <4>1 DEF CallFor
      <4>3. snapping'[x] = snapping[x] /\ copies'[q][i] = copies[q][i]
        BY <1>4, <1>5, <3>2, <4>2
      <4>4. CallFor(x, q, {"answered"})'
        BY <4>1, <4>3 DEF CallFor
      <4>5. QED BY <4>1, <4>3, <4>4
    <3>3. Len(copies'[q]) = Len(copies[q]) + 1 /\ Len(copies[q]) \in Nat
      BY <1>5
    <3>4. QED BY <3>1, <3>2, <3>3
  <2>3. QED BY <2>1, <2>2 DEF NoneIsOlder, CallFor
<1>7. ASSUME NEW p \in Periode, p # q PROVE LastIsFresh(p)' /\ NoneIsOlder(p)'
  <2>1. /\ copies'[p] = copies[p] /\ LastIsFresh(p) /\ NoneIsOlder(p)
        /\ snapping[c].periode # p /\ snapping'[c].periode # p
    BY <1>4, <1>5, <1>7 DEF SnapInv
  <2>2. LastIsFresh(p)'
    BY <1>4, <2>1 DEF LastIsFresh, CallFor
  <2>3. NoneIsOlder(p)'
    BY <1>4, <2>1 DEF NoneIsOlder, CallFor
  <2>4. QED BY <2>2, <2>3
<1>8. QED BY <1>3, <1>6, <1>7 DEF SnapInv

LEMMA SnapNextInv == SnapInv /\ [SnapNext]_snapVars => SnapInv'
<1> SUFFICES ASSUME SnapInv, [SnapNext]_snapVars PROVE SnapInv'
  OBVIOUS
<1>1. CASE BudgetChanges \/ UNCHANGED snapVars
  <2>1. UNCHANGED <<copies, snapping>> /\ edition' \in Nat \ {0} /\ edition <= edition'
    BY <1>1 DEF BudgetChanges, snapVars, SnapInv, SnapTypeOK
  <2>2. SnapTypeOK'
    BY <2>1 DEF SnapInv, SnapTypeOK
  <2>3. QED BY <2>1, <2>2 DEF SnapInv, LastIsFresh, NoneIsOlder, CallFor
<1>2. QED BY <1>1, SnapCallStep, SnapCopyStep DEF SnapNext

LEMMA AnsweredCalls ==
    ASSUME SnapInv, NEW p \in Periode, NEW d \in Caller, CallFor(d, p, {"answered"}),
           \A c \in Caller : snapping[c].periode = p => snapping[c].at \in {"idle", "answered"}
    PROVE  /\ \E i \in 1 .. Len(copies[p]) :
                \A c \in Caller : CallFor(c, p, {"answered"}) => copies[p][i] >= snapping[c].began
           /\ \A i \in 1 .. Len(copies[p]) :
                \E c \in Caller : CallFor(c, p, {"answered"}) /\ copies[p][i] >= snapping[c].began
<1>1. copies[p] \in Seq(Nat) /\ Len(copies[p]) \in Nat
  BY DEF SnapInv, SnapTypeOK
<1>2. ~\E c \in Caller : CallFor(c, p, {"insert", "failed"})
  BY DEF CallFor
<1>3. /\ Len(copies[p]) \in 1 .. Len(copies[p])
      /\ \A c \in Caller : CallFor(c, p, {"answered"}) => copies[p][Len(copies[p])] >= snapping[c].began
  BY <1>1, <1>2 DEF SnapInv, LastIsFresh
<1>4. \A i \in 1 .. Len(copies[p]) :
         \E c \in Caller : CallFor(c, p, {"answered"}) /\ copies[p][i] >= snapping[c].began
  BY DEF SnapInv, NoneIsOlder, CallFor
<1>5. QED BY <1>3, <1>4

\* A period shows the budget as it was when the last of its answered calls began
\* or later, and nothing from before the first, for any number of calls that
\* overlap in any way (anggaran.go:892-901).
THEOREM LatestSnapshotStands == SnapSpec => []LatestAnswerStands
<1>1. SnapInv => LatestAnswerStands
  <2> SUFFICES ASSUME SnapInv, NEW p \in Periode
               PROVE  LET calls == {c \in Caller : snapping[c].periode = p /\ snapping[c].at # "idle"}
                          seen == {copies[p][i] : i \in 1 .. Len(copies[p])}
                      IN  calls # {} /\ (\A c \in calls : snapping[c].at = "answered") =>
                            /\ \E e \in seen : \A c \in calls : e >= snapping[c].began
                            /\ \A e \in seen : \E c \in calls : e >= snapping[c].began
    BY DEF LatestAnswerStands
  <2> DEFINE calls == {c \in Caller : snapping[c].periode = p /\ snapping[c].at # "idle"}
             seen == {copies[p][i] : i \in 1 .. Len(copies[p])}
  <2> SUFFICES ASSUME calls # {}, \A c \in calls : snapping[c].at = "answered"
               PROVE  /\ \E e \in seen : \A c \in calls : e >= snapping[c].began
                      /\ \A e \in seen : \E c \in calls : e >= snapping[c].began
    OBVIOUS
  <2>1. PICK d \in Caller : CallFor(d, p, {"answered"})
    BY DEF CallFor
  <2>2. calls \subseteq Caller /\ \A c \in Caller : c \in calls <=> CallFor(c, p, {"answered"})
    BY DEF CallFor
  <2>3. \A c \in Caller : snapping[c].periode = p => snapping[c].at \in {"idle", "answered"}
    OBVIOUS
  <2>4. /\ \E i \in 1 .. Len(copies[p]) :
             \A c \in Caller : CallFor(c, p, {"answered"}) => copies[p][i] >= snapping[c].began
        /\ \A i \in 1 .. Len(copies[p]) :
             \E c \in Caller : CallFor(c, p, {"answered"}) /\ copies[p][i] >= snapping[c].began
    BY <2>1, <2>3, AnsweredCalls
  <2> HIDE DEF calls
  <2>5. QED BY <2>2, <2>4
<1>2. QED BY <1>1, SnapInitInv, SnapNextInv, PTL DEF SnapSpec

-----------------------------------------------------------------------------
(* UsersPage: saves that read, merge and write while others save and delete. *)

User == [name : Typed, perms : Typed, pass : Typed, there : BOOLEAN]
Body == [name : Typed, perms : Typed, pass : Typed] \cup {NoUser}
Table == [UserId -> User]

UsersTypeOK ==
    /\ users \in Table /\ everUsed \in SUBSET UserId
    /\ usersCache \in Entry(Table)
    /\ form \in [open : BOOLEAN, id : UserId \cup {NobodyId}, name : Typed, perms : Typed, pass : Typed]
    /\ saves \in [Admin -> [at : {"idle", "sent", "merge", "done", "refused"},
                            id : UserId \cup {NobodyId}, body : Body, seen : User]]
    /\ asked \in [UserId -> SUBSET (Typed \X Typed)]

\* A list names only users that have been there.
Past(table) == \A u \in UserId : table[u].there => u \in everUsed

\* A save of a user that is there or was, for which it asks.
SaveOK(s) ==
    s.at \in {"sent", "merge"} /\ s.id # NobodyId =>
        s.id \in everUsed /\ <<s.body.name, s.body.perms>> \in asked[s.id]

UsersInv ==
    /\ UsersTypeOK
    /\ Past(users) /\ Past(usersCache.data) /\ Past(usersCache.ans)
    /\ form.id \in UserId => form.id \in everUsed
    /\ \A a \in Admin : SaveOK(saves[a])
    /\ SavedWhole

LEMMA TypedFacts ==
    /\ Absent \notin Typed /\ Blank \in Typed /\ NobodyId \notin UserId
    /\ NoUser \in User /\ NoUser \in Body /\ NoUser.there = FALSE
    /\ \A b \in Body : b.name \in Typed /\ b.perms \in Typed /\ b.pass \in Typed
<1>1. Absent \notin Typed /\ Blank \in Typed /\ NobodyId \notin UserId
  BY UserAssumption DEF Typed, NobodyId
<1>2. NoUser \in User /\ NoUser \in Body /\ NoUser.there = FALSE
  BY <1>1 DEF NoUser, User, Body
<1>3. NoUser.name \in Typed /\ NoUser.perms \in Typed /\ NoUser.pass \in Typed
  BY <1>1 DEF NoUser
<1> HIDE DEF NoUser
<1>4. \A b \in Body : b.name \in Typed /\ b.perms \in Typed /\ b.pass \in Typed
  BY <1>3 DEF Body
<1>5. QED BY <1>1, <1>2, <1>4

LEMMA ListingFacts ==
    ASSUME NEW t \in Table
    PROVE  Listing(t) \in Table /\ \A u \in UserId : Listing(t)[u].there = t[u].there
<1>1. \A u \in UserId : [t[u] EXCEPT !.pass = Blank] \in User /\ [t[u] EXCEPT !.pass = Blank].there = t[u].there
  BY TypedFacts DEF Table, User
<1>2. QED BY <1>1 DEF Listing, Table

\* What a list holds came from what it held or was being answered.
LEMMA RefetchFacts ==
    ASSUME NEW V, NEW e \in Entry(V)
    PROVE  LET new == Refetch(Invalidate(e, TRUE))
           IN  new \in Entry(V) /\ new.data = e.data /\ new.ans \in {e.ans, e.data}
<1> DEFINE s == [e EXCEPT !.valid = FALSE]
<1>1. s \in Entry(V) /\ s.data = e.data /\ s.ans = e.ans
  BY DEF Entry
<1>2. ASSUME NEW x \in Entry(V), x.data = e.data, x.ans \in {e.ans, e.data}
      PROVE  Refetch(x) \in Entry(V) /\ Refetch(x).data = e.data /\ Refetch(x).ans \in {e.ans, e.data}
  BY <1>2 DEF Refetch, Fetch, Entry
<1>3. Invalidate(e, TRUE) = Refetch(s)
  BY DEF Invalidate
<1> HIDE DEF s
<1>4. QED BY <1>1, <1>2, <1>3

LEMMA UsersInitInv == UsersInit => UsersInv
<1> SUFFICES ASSUME UsersInit PROVE UsersInv
  OBVIOUS
<1>1. PICK here \in SUBSET UserId, t \in Word :
        /\ users = [u \in UserId |-> IF u \in here
                      THEN [name |-> t, perms |-> t, pass |-> t, there |-> TRUE] ELSE NoUser]
        /\ everUsed = here
        /\ asked = [u \in UserId |-> IF u \in here THEN {<<t, t>>} ELSE {}]
  BY DEF UsersInit
<1>2. t \in Typed /\ [name |-> t, perms |-> t, pass |-> t, there |-> TRUE] \in User
  BY DEF Typed, User
<1>3. /\ users \in Table /\ asked \in [UserId -> SUBSET (Typed \X Typed)]
      /\ Past(users) /\ SavedWhole
  BY <1>1, <1>2, TypedFacts DEF Table, Past, SavedWhole
<1> DEFINE e == EmptyEntry(Listing(users))
<1>4. usersCache = Fetch(e) /\ Listing(users) \in Table
  BY <1>3, ListingFacts DEF UsersInit
<1>5. e \in Entry(Table) /\ e.data = Listing(users)
  BY <1>4, EmptyEntryFacts
<1> HIDE DEF e
<1>6. usersCache \in Entry(Table) /\ usersCache.data = Listing(users) /\ usersCache.ans = Listing(users)
  BY <1>4, <1>5 DEF Fetch, Entry
<1>7. Past(Listing(users))
  BY <1>3, ListingFacts DEF Past
<1>8. /\ form = Closed /\ form.id = NobodyId
      /\ form \in [open : BOOLEAN, id : UserId \cup {NobodyId}, name : Typed, perms : Typed, pass : Typed]
  BY TypedFacts DEF UsersInit, Closed
<1>9. /\ NoSave \in [at : {"idle", "sent", "merge", "done", "refused"},
                     id : UserId \cup {NobodyId}, body : Body, seen : User]
      /\ NoSave.at = "idle"
  BY TypedFacts DEF NoSave
<1>10. saves = [a \in Admin |-> NoSave]
  BY DEF UsersInit
<1> HIDE DEF NoSave
<1>11. UsersTypeOK
  BY <1>1, <1>3, <1>6, <1>8, <1>9, <1>10 DEF UsersTypeOK
<1>12. QED BY <1>3, <1>6, <1>7, <1>8, <1>9, <1>10, <1>11, TypedFacts DEF UsersInv, SaveOK

\* Steps of the page: the form, the list and the dialog.
LEMMA UsersPageSteps ==
    ASSUME UsersInv,
           \/ CloseForm \/ DropDelete \/ ConfirmDelete \/ UsersRead \/ UsersLand \/ DeletionEnds
           \/ \E u \in UserId \cup {NobodyId} : OpenForm(u)
           \/ \E u \in UserId : AskDelete(u)
           \/ \E v \in Typed : TypeForm(v)
           \/ UNCHANGED usersVars
    PROVE  UsersInv'
<1>1. UNCHANGED <<users, everUsed, saves, asked>>
  BY DEF CloseForm, DropDelete, ConfirmDelete, UsersRead, UsersLand, DeletionEnds, OpenForm, AskDelete,
         TypeForm, usersVars
<1>2. /\ form \in [open : BOOLEAN, id : UserId \cup {NobodyId}, name : Typed, perms : Typed, pass : Typed]
      /\ usersCache \in Entry(Table) /\ usersCache.data \in Table
      /\ form.id \in UserId => form.id \in everUsed
  BY DEF UsersInv, UsersTypeOK, Entry
<1>3. /\ form' \in [open : BOOLEAN, id : UserId \cup {NobodyId}, name : Typed, perms : Typed, pass : Typed]
      /\ form'.id \in UserId => form'.id \in everUsed
  <2>1. CASE \E u \in UserId \cup {NobodyId} : OpenForm(u)
    <3>1. PICK u \in UserId \cup {NobodyId} : OpenForm(u)
      BY <2>1
    <3>2. CASE u = NobodyId
      BY <3>1, <3>2, TypedFacts DEF OpenForm, Closed
    <3>3. CASE u # NobodyId
      <4>1. /\ form' = [open |-> TRUE, id |-> u, name |-> usersCache.data[u].name,
                        perms |-> usersCache.data[u].perms, pass |-> Blank]
            /\ usersCache.data[u].there /\ u \in UserId
        BY <3>1, <3>3 DEF OpenForm
      <4>2. usersCache.data[u] \in User /\ u \in everUsed
        BY <1>2, <4>1 DEF Table, UsersInv, Past
      <4>3. QED BY <4>1, <4>2, TypedFacts DEF User
    <3>4. QED BY <3>2, <3>3
  <2>2. CASE \E v \in Typed : TypeForm(v)
    BY <1>2, <2>2 DEF TypeForm
  <2>3. CASE CloseForm
    BY <1>2, <2>3 DEF CloseForm
  <2>4. CASE UNCHANGED form
    BY <1>2, <2>4
  <2>5. QED
    BY <2>1, <2>2, <2>3, <2>4
    DEF DropDelete, ConfirmDelete, UsersRead, UsersLand, DeletionEnds, AskDelete, usersVars
<1>4. usersCache' \in Entry(Table) /\ Past(usersCache.data)' /\ Past(usersCache.ans)'
  <2>1. CASE UsersRead
    <3>1. usersCache' = ServerReads(usersCache, Listing(users)) /\ Listing(users) \in Table
      BY <2>1, ListingFacts DEF UsersRead, UsersInv, UsersTypeOK
    <3>2. Past(Listing(users))
      BY ListingFacts DEF UsersInv, UsersTypeOK, Past
    <3>3. /\ usersCache' \in Entry(Table) /\ usersCache'.data = usersCache.data
          /\ usersCache'.ans = Listing(users)
      BY <1>2, <3>1 DEF ServerReads, Entry
    <3>4. QED BY <1>1, <3>2, <3>3 DEF UsersInv, Past
  <2>2. CASE UsersLand
    <3>1. usersCache' \in Entry(Table) /\ usersCache'.data = usersCache.ans /\ usersCache'.ans = usersCache.ans
      BY <1>2, <2>2 DEF UsersLand, Land, Entry
    <3>2. QED BY <1>1, <3>1 DEF UsersInv, Past
  <2>3. CASE DeletionEnds /\ RefreshUsers
    <3>1. /\ usersCache' \in Entry(Table) /\ usersCache'.data = usersCache.data
          /\ usersCache'.ans \in {usersCache.ans, usersCache.data}
      BY <1>2, <2>3, RefetchFacts DEF RefreshUsers
    <3>2. QED BY <1>1, <3>1 DEF UsersInv, Past
  <2>4. CASE UNCHANGED usersCache
    BY <1>1, <1>2, <2>4 DEF UsersInv, Past
  <2>5. QED
    BY <2>1, <2>2, <2>3, <2>4
    DEF CloseForm, DropDelete, ConfirmDelete, DeletionEnds, OpenForm, AskDelete, TypeForm, usersVars
<1>5. UsersTypeOK' /\ SavedWhole' /\ Past(users)' /\ \A a \in Admin : SaveOK(saves[a])'
  BY <1>1, <1>3, <1>4 DEF UsersInv, UsersTypeOK, SavedWhole, Past, SaveOK
<1>6. QED BY <1>1, <1>3, <1>4, <1>5 DEF UsersInv

\* A save is sent: what it asks for is written down with it.
LEMMA UsersSubmit ==
    ASSUME UsersInv, NEW a \in Admin, NEW u \in UserId \cup {NobodyId}, NEW b \in Body,
           SendSave(a, u, b), u \in UserId => u \in everUsed,
           asked' = IF u = NobodyId THEN asked ELSE [asked EXCEPT ![u] = @ \cup {<<b.name, b.perms>>}],
           UNCHANGED <<users, everUsed, usersCache, form>>
    PROVE  UsersInv'
<1>1. b.name \in Typed /\ b.perms \in Typed
  BY TypedFacts
<1>2. /\ asked' \in [UserId -> SUBSET (Typed \X Typed)]
      /\ \A v \in UserId : asked[v] \subseteq asked'[v]
      /\ u # NobodyId => <<b.name, b.perms>> \in asked'[u]
  BY <1>1 DEF UsersInv, UsersTypeOK
<1> DEFINE s == [at |-> "sent", id |-> u, body |-> b, seen |-> NoUser]
<1>3. /\ s \in [at : {"idle", "sent", "merge", "done", "refused"},
                id : UserId \cup {NobodyId}, body : Body, seen : User]
      /\ s.id = u /\ s.body = b
  BY TypedFacts
<1>4. saves' = [saves EXCEPT ![a] = s]
  BY DEF SendSave
<1> HIDE DEF s
<1>5. UsersTypeOK'
  BY <1>2, <1>3, <1>4 DEF UsersInv, UsersTypeOK
<1>6. \A x \in Admin : SaveOK(saves[x])'
  BY <1>2, <1>3, <1>4 DEF UsersInv, UsersTypeOK, SaveOK
<1>7. SavedWhole' /\ Past(users)' /\ Past(usersCache.data)' /\ Past(usersCache.ans)'
  BY <1>2 DEF UsersInv, UsersTypeOK, SavedWhole, Past
<1>8. QED BY <1>5, <1>6, <1>7 DEF UsersInv

LEMMA UsersSubmits ==
    ASSUME UsersInv,
           \/ SubmitForm
           \/ \E u \in UserId : \E name \in Word : \E perms \in Typed : OtherSubmits(u, name, perms)
    PROVE  UsersInv'
<1>1. CASE SubmitForm
  <2>1. /\ form \in [open : BOOLEAN, id : UserId \cup {NobodyId}, name : Typed, perms : Typed, pass : Typed]
        /\ form.id \in UserId => form.id \in everUsed
    BY DEF UsersInv, UsersTypeOK
  <2> DEFINE b == BodyOf(form)
  <2>2. b \in Body /\ b.name = form.name /\ b.perms = form.perms /\ form.id \in UserId \cup {NobodyId}
    BY <2>1 DEF BodyOf, Body
  <2>3. SendSave("page", form.id, b) /\ UNCHANGED <<users, everUsed, usersCache, form>>
    BY <1>1 DEF SubmitForm
  <2>4. asked' = IF form.id = NobodyId THEN asked
                 ELSE [asked EXCEPT ![form.id] = @ \cup {<<b.name, b.perms>>}]
    BY <1>1, <2>2 DEF SubmitForm
  <2> HIDE DEF b
  <2>5. "page" \in Admin
    BY DEF Admin
  <2>6. QED BY <2>1, <2>2, <2>3, <2>4, <2>5, UsersSubmit
<1>2. ASSUME NEW u \in UserId, NEW name \in Word, NEW perms \in Typed, OtherSubmits(u, name, perms)
      PROVE  UsersInv'
  <2> DEFINE b == [name |-> name, perms |-> perms, pass |-> Blank]
  <2>1. b \in Body /\ b.name = name /\ b.perms = perms
    BY TypedFacts DEF Body, Typed
  <2>2. /\ SendSave("other", u, b) /\ UNCHANGED <<users, everUsed, usersCache, form>>
        /\ asked' = [asked EXCEPT ![u] = @ \cup {<<name, perms>>}]
        /\ u \in everUsed /\ u # NobodyId
    BY <1>2, TypedFacts DEF OtherSubmits, UsersInv, Past
  <2> HIDE DEF b
  <2>3. "other" \in Admin
    BY DEF Admin
  <2>4. QED BY <2>1, <2>2, <2>3, UsersSubmit
<1>3. QED BY <1>1, <1>2

\* A new user takes an id that nobody had, and that no save is about.
LEMMA UsersCreate ==
    ASSUME UsersInv, NEW a \in Admin, CreateUser(a) PROVE UsersInv'
<1>1. PICK u \in UserId \ everUsed :
        LET b == saves[a].body IN
        /\ users' = [users EXCEPT ![u] = [name |-> b.name, perms |-> b.perms,
                                          pass |-> b.pass, there |-> TRUE]]
        /\ everUsed' = everUsed \cup {u}
        /\ asked' = [asked EXCEPT ![u] = {<<b.name, b.perms>>}]
  BY DEF CreateUser
<1> DEFINE b == saves[a].body
           new == [name |-> b.name, perms |-> b.perms, pass |-> b.pass, there |-> TRUE]
<1>2. b \in Body /\ saves[a].id = NobodyId
  BY DEF CreateUser, UsersInv, UsersTypeOK
<1>3. new \in User /\ b.name \in Typed /\ b.perms \in Typed /\ new.name = b.name /\ new.perms = b.perms
  BY <1>2, TypedFacts DEF User
<1>4. /\ users' = [users EXCEPT ![u] = new]
      /\ asked' = [asked EXCEPT ![u] = {<<b.name, b.perms>>}]
      /\ saves' = [saves EXCEPT ![a].at = "done"]
      /\ UNCHANGED <<usersCache, form>>
  BY <1>1 DEF CreateUser
<1> HIDE DEF b, new
<1>5. UsersTypeOK'
  <2>1. users' \in Table /\ everUsed' \in SUBSET UserId
    <3>1. users \in [UserId -> User] /\ everUsed \subseteq UserId
      BY DEF UsersInv, UsersTypeOK, Table
    <3>2. users' \in [UserId -> User]
      BY <1>3, <1>4, <3>1
    <3>3. everUsed' = everUsed \cup {u}
      BY <1>1
    <3>4. QED BY <3>1, <3>2, <3>3 DEF Table
  <2>2. asked' \in [UserId -> SUBSET (Typed \X Typed)]
    <3>1. {<<b.name, b.perms>>} \in SUBSET (Typed \X Typed)
      BY <1>3
    <3>2. QED BY <1>4, <3>1 DEF UsersInv, UsersTypeOK
  <2>3. saves' \in [Admin -> [at : {"idle", "sent", "merge", "done", "refused"},
                              id : UserId \cup {NobodyId}, body : Body, seen : User]]
    BY <1>4 DEF UsersInv, UsersTypeOK
  <2>4. QED BY <1>4, <2>1, <2>2, <2>3 DEF UsersInv, UsersTypeOK
<1>6. \A x \in Admin : SaveOK(saves[x])'
  <2>1. saves'[a].at = "done" /\ \A x \in Admin \ {a} : saves'[x] = saves[x]
    BY <1>4 DEF UsersInv, UsersTypeOK
  <2>2. \A v \in everUsed : v # u /\ v \in UserId /\ asked'[v] = asked[v]
    BY <1>1, <1>4 DEF UsersInv, UsersTypeOK
  <2>3. QED BY <1>1, <2>1, <2>2 DEF UsersInv, SaveOK
<1>7. SavedWhole' /\ Past(users)'
  BY <1>1, <1>3, <1>4 DEF UsersInv, UsersTypeOK, Table, SavedWhole, Past
<1>8. Past(usersCache.data)' /\ Past(usersCache.ans)' /\ (form'.id \in UserId => form'.id \in everUsed')
  BY <1>1, <1>4 DEF UsersInv, Past
<1>9. QED BY <1>5, <1>6, <1>7, <1>8 DEF UsersInv

\* The merge keeps the name and the permissions of the request, for a request
\* leaves none of them out.
LEMMA MergedFacts ==
    ASSUME NEW seen \in User, NEW b \in Body
    PROVE  /\ Merged(seen, b) \in User /\ Merged(seen, b).there = TRUE
           /\ Merged(seen, b).name = b.name /\ Merged(seen, b).perms = b.perms
<1>1. b.name \in Typed /\ b.perms \in Typed /\ b.pass \in Typed /\ Absent \notin Typed
  BY TypedFacts
<1>2. Merged(seen, b) = [name |-> b.name, perms |-> b.perms, pass |-> b.pass, there |-> TRUE]
  BY <1>1 DEF Merged
<1>3. QED BY <1>1, <1>2 DEF User

LEMMA UsersWrite ==
    ASSUME UsersInv, NEW a \in Admin, UserWrite(a) PROVE UsersInv'
<1> PICK u \in UserId \cup {NobodyId} : u = saves[a].id
  BY DEF UsersInv, UsersTypeOK
<1>1. /\ saves[a].at = "merge" /\ saves[a].body \in Body /\ saves[a].seen \in User
      /\ UNCHANGED <<everUsed, usersCache, form, asked>>
  BY DEF UserWrite, UsersInv, UsersTypeOK
<1>2. PICK m \in User :
        m = Merged(saves[a].seen, saves[a].body)
        /\ m.name = saves[a].body.name /\ m.perms = saves[a].body.perms
  BY <1>1, MergedFacts
<1>3. PICK at \in {"done", "refused"} : saves' = [saves EXCEPT ![a].at = at]
  BY DEF UserWrite
<1>4. \/ users' = users
      \/ users[u].there /\ users' = [users EXCEPT ![u] = m]
  BY <1>2 DEF UserWrite
<1>5. UsersTypeOK'
  BY <1>1, <1>3, <1>4 DEF UsersInv, UsersTypeOK, Table
<1>6. \A x \in Admin : SaveOK(saves[x])'
  <2>1. saves'[a].at \notin {"sent", "merge"} /\ \A x \in Admin \ {a} : saves'[x] = saves[x]
    BY <1>3 DEF UsersInv, UsersTypeOK
  <2>2. QED BY <1>1, <2>1 DEF UsersInv, SaveOK
<1>7. \A v \in UserId :
        users'[v] = users[v] \/ (v = u /\ users[u].there /\ users'[v] = m)
  BY <1>4 DEF UsersInv, UsersTypeOK, Table
<1>8. u \in UserId => <<m.name, m.perms>> \in asked[u]
  BY <1>1, <1>2, TypedFacts DEF UsersInv, SaveOK
<1>9. SavedWhole' /\ Past(users)' /\ Past(usersCache.data)' /\ Past(usersCache.ans)'
  BY <1>1, <1>7, <1>8 DEF UsersInv, SavedWhole, Past
<1>10. QED BY <1>1, <1>5, <1>6, <1>9 DEF UsersInv

LEMMA UsersReadStep ==
    ASSUME UsersInv, NEW a \in Admin, UpdateRead(a) \/ SaveAnswered(a) \/ UserSaveLost(a),
           UserSaveLost(a) => saves' = [saves EXCEPT ![a] = NoSave]
    PROVE  UsersInv'
<1>1. UNCHANGED <<users, everUsed, asked>>
  BY DEF UpdateRead, SaveAnswered, UserSaveLost
<1>2. saves \in [Admin -> [at : {"idle", "sent", "merge", "done", "refused"},
                           id : UserId \cup {NobodyId}, body : Body, seen : User]]
  BY DEF UsersInv, UsersTypeOK
<1>3. PICK s \in [at : {"idle", "sent", "merge", "done", "refused"},
                  id : UserId \cup {NobodyId}, body : Body, seen : User] :
        saves' = [saves EXCEPT ![a] = s] /\ SaveOK(s)
  <2>1. CASE UpdateRead(a)
    <3>1. saves[a].id \in UserId /\ saves[a].at = "sent" /\ users \in Table
      BY <1>2, <2>1 DEF UpdateRead, UsersInv, UsersTypeOK
    <3>2. users[saves[a].id] \in User
      BY <3>1 DEF Table
    <3>3. CASE users[saves[a].id].there
      <4> DEFINE s == [saves[a] EXCEPT !.at = "merge", !.seen = users[saves[a].id]]
      <4>1. /\ s \in [at : {"idle", "sent", "merge", "done", "refused"},
                      id : UserId \cup {NobodyId}, body : Body, seen : User]
            /\ s.id = saves[a].id /\ s.body = saves[a].body
        BY <1>2, <3>2
      <4>2. saves' = [saves EXCEPT ![a] = s]
        BY <1>2, <2>1, <3>3 DEF UpdateRead
      <4> HIDE DEF s
      <4>3. SaveOK(s)
        BY <3>1, <4>1 DEF UsersInv, SaveOK
      <4>4. QED BY <4>1, <4>2, <4>3
    <3>4. CASE ~users[saves[a].id].there
      <4> DEFINE s == [saves[a] EXCEPT !.at = "refused"]
      <4>1. /\ s \in [at : {"idle", "sent", "merge", "done", "refused"},
                      id : UserId \cup {NobodyId}, body : Body, seen : User]
            /\ s.at = "refused"
        BY <1>2
      <4>2. saves' = [saves EXCEPT ![a] = s]
        BY <1>2, <2>1, <3>4 DEF UpdateRead
      <4> HIDE DEF s
      <4>3. QED BY <4>1, <4>2 DEF SaveOK
    <3>5. QED BY <3>3, <3>4
  <2>2. CASE SaveAnswered(a) \/ UserSaveLost(a)
    <3>1. saves' = [saves EXCEPT ![a] = NoSave]
      BY <2>2 DEF SaveAnswered, UserSaveLost
    <3>2. NoSave \in [at : {"idle", "sent", "merge", "done", "refused"},
                      id : UserId \cup {NobodyId}, body : Body, seen : User] /\ SaveOK(NoSave)
      BY TypedFacts DEF NoSave, SaveOK
    <3>3. QED BY <3>1, <3>2
  <2>3. QED BY <2>1, <2>2
<1>4. usersCache' \in Entry(Table) /\ Past(usersCache.data)' /\ Past(usersCache.ans)'
  <2>1. CASE RefreshUsers
    <3>1. /\ usersCache' \in Entry(Table) /\ usersCache'.data = usersCache.data
          /\ usersCache'.ans \in {usersCache.ans, usersCache.data}
      BY <2>1, RefetchFacts DEF RefreshUsers, UsersInv, UsersTypeOK
    <3>2. QED BY <1>1, <3>1 DEF UsersInv, Past
  <2>2. CASE UNCHANGED usersCache
    BY <1>1, <2>2 DEF UsersInv, UsersTypeOK, Past
  <2>3. QED BY <2>1, <2>2 DEF UpdateRead, SaveAnswered, UserSaveLost
<1>5. form' = form \/ form' = [form EXCEPT !.open = FALSE]
  BY DEF UpdateRead, SaveAnswered, UserSaveLost
<1>6. UsersTypeOK' /\ \A x \in Admin : SaveOK(saves[x])'
  BY <1>1, <1>3, <1>4, <1>5 DEF UsersInv, UsersTypeOK, SaveOK
<1>7. form'.id \in UserId => form'.id \in everUsed'
  BY <1>1, <1>5 DEF UsersInv, UsersTypeOK
<1>8. SavedWhole' /\ Past(users)'
  BY <1>1 DEF UsersInv, SavedWhole, Past
<1>9. QED BY <1>4, <1>6, <1>7, <1>8 DEF UsersInv

\* A save that was given up goes on beside the page.
LEMMA UsersGivenUp ==
    ASSUME UsersInv, NEW a \in Admin, UserSaveLost(a) PROVE UsersInv'
<1>1. CASE saves' = [saves EXCEPT ![a] = NoSave]
  BY <1>1, UsersReadStep
<1>2. CASE saves' = [saves EXCEPT ![a] = NoSave, !["other"] = saves[a]]
  <2> DEFINE S == [at : {"idle", "sent", "merge", "done", "refused"},
                   id : UserId \cup {NobodyId}, body : Body, seen : User]
  <2>1. UNCHANGED <<users, everUsed, usersCache, form, asked>>
    BY DEF UserSaveLost
  <2>2. NoSave \in S /\ SaveOK(NoSave)
    BY TypedFacts DEF NoSave, SaveOK
  <2>3. saves \in [Admin -> S]
    BY DEF UsersInv, UsersTypeOK
  <2> HIDE DEF S, NoSave
  <2>4. saves' \in [Admin -> S] /\ \A x \in Admin : saves'[x] \in {saves[x], saves[a], NoSave}
    BY <1>2, <2>2, <2>3 DEF Admin
  <2>5. \A x \in Admin : SaveOK(saves[x])'
    BY <2>1, <2>2, <2>4 DEF UsersInv, SaveOK
  <2>6. UsersTypeOK' /\ SavedWhole' /\ Past(users)' /\ Past(usersCache.data)' /\ Past(usersCache.ans)'
    BY <2>1, <2>4 DEF S, UsersInv, UsersTypeOK, SavedWhole, Past
  <2>7. QED BY <2>1, <2>5, <2>6 DEF UsersInv
<1>3. QED BY <1>1, <1>2 DEF UserSaveLost

LEMMA UsersDelete ==
    ASSUME UsersInv, DeleteUser \/ \E u \in UserId : OtherDeletes(u) PROVE UsersInv'
<1>1. UNCHANGED <<everUsed, usersCache, form, saves, asked>>
  BY DEF DeleteUser, OtherDeletes
<1>2. users' = users \/ \E u : users' = [users EXCEPT ![u] = NoUser]
  BY DEF DeleteUser, OtherDeletes
<1>3. users' \in Table /\ \A v \in UserId : users'[v] \in {users[v], NoUser}
  BY <1>2, TypedFacts DEF UsersInv, UsersTypeOK, Table
<1>4. UsersTypeOK' /\ SavedWhole' /\ Past(users)' /\ Past(usersCache.data)' /\ Past(usersCache.ans)'
  BY <1>1, <1>3, TypedFacts DEF UsersInv, UsersTypeOK, SavedWhole, Past
<1>5. QED BY <1>1, <1>4 DEF UsersInv, SaveOK

LEMMA UsersNextInv == UsersInv /\ [UsersCommand \/ UsersReply]_usersVars => UsersInv'
  BY UsersPageSteps, UsersSubmits, UsersCreate, UsersWrite, UsersReadStep, UsersGivenUp,
     UsersDelete
  DEF UsersCommand, UsersReply

\* A user has the name and the permissions of one request, in whatever order the
\* reads and the writes of two overlapping saves come
\* (UsersPage.tsx:73, users.go:131-161).
THEOREM SavesStayWhole == UsersSpec => []SavedWhole
<1>1. UsersInv => SavedWhole
  BY DEF UsersInv
<1>2. QED BY <1>1, UsersInitInv, UsersNextInv, PTL DEF UsersSpec

\* A user who was deleted does not come back by a save that had read him before,
\* and an id is never given again (users.go:126, 155).
THEOREM DeletionsStand == UsersSpec => DeletedStaysDeleted
<1>1. ASSUME UsersInv, [UsersCommand \/ UsersReply]_usersVars
      PROVE  [\A u \in everUsed : users'[u].there => users[u].there]_usersVars
  <2>1. users \in Table /\ everUsed \subseteq UserId
    BY <1>1 DEF UsersInv, UsersTypeOK
  <2>2. CASE users' = users
    BY <2>2
  <2>3. CASE \E a \in Admin : CreateUser(a)
    <3>1. PICK u \in UserId \ everUsed : \E m : users' = [users EXCEPT ![u] = m]
      BY <2>3 DEF CreateUser
    <3>2. QED BY <2>1, <3>1 DEF Table
  <2>4. CASE \E a \in Admin : UserWrite(a)
    <3>1. \/ users' = users
          \/ \E u : users[u].there /\ \E m : users' = [users EXCEPT ![u] = m]
      BY <2>4 DEF UserWrite
    <3>2. QED BY <2>1, <3>1 DEF Table
  <2>5. CASE DeleteUser \/ \E u \in UserId : OtherDeletes(u)
    <3>1. users' = users \/ \E u : users' = [users EXCEPT ![u] = NoUser]
      BY <2>5 DEF DeleteUser, OtherDeletes
    <3>2. QED BY <2>1, <3>1, TypedFacts DEF Table
  <2>6. QED
    BY <1>1, <2>2, <2>3, <2>4, <2>5
    DEF UsersCommand, UsersReply, usersVars, CloseForm, SubmitForm, DropDelete, ConfirmDelete, OpenForm,
        AskDelete, TypeForm, OtherSubmits, SendSave, UserSaveLost, DeletionEnds, UsersRead, UsersLand,
        UpdateRead, SaveAnswered
<1>2. QED BY <1>1, UsersInitInv, UsersNextInv, PTL DEF UsersSpec, DeletedStaysDeleted

-----------------------------------------------------------------------------
(* ArsipPanel: the list, the draft and the calls of the document panel.    *)

\* Documents of the node n, in some order.
OfNode(n, s) == s \in Seq(Docs) /\ \A i \in 1 .. Len(s) : Home[s[i]] = n

DocLists == [docs : Seq(Docs), version : Nat]
ListsOf(n) == {x \in DocLists : OfNode(n, x.docs)}
CallSet == [at : {"idle", "sent", "done"}, node : Panel \cup {Nowhere}, docs : Seq(Docs), version : Nat]

\* A document that is asked about is one of a node of the panel.
Asked(d) == d = NoDoc \/ (d \in Docs /\ Home[d] \in Panel)

ArsipTypeOK ==
    /\ list \in [Panel -> Seq(Docs)] /\ version \in [Panel -> Nat]
    /\ cache \in [Panel -> Entry(DocLists)]
    /\ target \in Panel \cup {Nowhere}
    /\ ordering \in BOOLEAN /\ draft \in Seq(Docs)
    /\ Asked(removing) /\ Asked(renaming)
    /\ call \in [Kinds -> CallSet]
    /\ owed \in [Panel -> Nat]

\* A call is about documents of its node, and has seen a list the server had.
CallOK(c) ==
    c.at # "idle" => c.node \in Panel /\ OfNode(c.node, c.docs)
                     /\ (c.at = "done" => c.version <= version[c.node])

\* What a list owes is at the server, in an answer on its way, and in a valid list.
ListFresh(e, n) ==
    /\ EntryOK(e)
    /\ e.fetch = "read" => owed[n] <= e.ans.version
    /\ e.fetch = "idle" /\ e.valid => owed[n] <= e.data.version
    /\ n = target => ShownOK(e)

ArsipInv ==
    /\ ArsipTypeOK
    /\ target # Nowhere => OfNode(target, draft)
    /\ \A k \in Kinds : CallOK(call[k])
    /\ \A n \in Panel :
         /\ OfNode(n, list[n]) /\ owed[n] <= version[n]
         /\ cache[n] \in Entry(ListsOf(n)) /\ ListFresh(cache[n], n)

LEMMA OneOfNode ==
    ASSUME NEW d \in Docs PROVE OfNode(Home[d], <<d>>)
  BY DEF OfNode

LEMMA NoneOfNode == \A n : OfNode(n, <<>>)
  BY DEF OfNode

LEMMA SeqsOfSet ==
    ASSUME NEW S \in SUBSET Docs, NEW s \in SetToSeqs(S)
    PROVE  s \in Seq(Docs) /\ \A i \in 1 .. Len(s) : s[i] \in S
<1>1. Cardinality(S) \in Nat
  BY DocsAssumption, FS_Subset, FS_CardinalityType
<1>2. s \in [1 .. Cardinality(S) -> S]
  BY DEF SetToSeqs
<1>3. s \in Seq(S) /\ s \in Seq(Docs)
  BY <1>1, <1>2
<1>4. QED BY <1>3

LEMMA ListedFacts ==
    ASSUME NEW n, NEW k \in Kinds, NEW docs, OfNode(n, docs), NEW l, OfNode(n, l), NEW x \in Listed(k, docs, l)
    PROVE  OfNode(n, x)
<1>1. docs \in Seq(Docs) /\ l \in Seq(Docs)
  BY DEF OfNode
<1>2. ASSUME NEW s \in Without(l, docs) PROVE OfNode(n, s)
  <2>1. s \in SetToSeqs(Range(l) \ Range(docs))
    BY DEF Without
  <2>2. \A d \in Range(l) : d \in Docs /\ Home[d] = n
    BY <1>1 DEF Range, OfNode
  <2>3. Range(l) \ Range(docs) \in SUBSET Docs
    BY <2>2
  <2>4. s \in Seq(Docs) /\ \A i \in 1 .. Len(s) : s[i] \in Range(l)
    BY <2>1, <2>3, SeqsOfSet
  <2>5. QED BY <2>2, <2>4 DEF OfNode
<1>3. ASSUME NEW s, NEW t, OfNode(n, s), OfNode(n, t) PROVE OfNode(n, s \o t)
  <2>1. s \in Seq(Docs) /\ t \in Seq(Docs)
    BY <1>3 DEF OfNode
  <2>2. s \o t \in Seq(Docs) /\ Len(s \o t) = Len(s) + Len(t)
    BY <2>1
  <2>3. ASSUME NEW i \in 1 .. Len(s \o t) PROVE Home[(s \o t)[i]] = n
    <3>1. CASE i <= Len(s)
      <4>1. (s \o t)[i] = s[i] /\ i \in 1 .. Len(s)
        BY <2>1, <2>2, <3>1
      <4>2. QED BY <1>3, <4>1 DEF OfNode
    <3>2. CASE i > Len(s)
      <4>1. (s \o t)[i] = t[i - Len(s)] /\ i - Len(s) \in 1 .. Len(t)
        BY <2>1, <2>2, <3>2
      <4>2. QED BY <1>3, <4>1 DEF OfNode
    <3>3. QED BY <2>1, <2>2, <3>1, <3>2
  <2>4. QED BY <2>2, <2>3 DEF OfNode
<1>4. CASE k = "upload"
  BY <1>3, <1>4 DEF Listed
<1>5. CASE k = "reorder"
  BY <1>2, <1>3, <1>5 DEF Listed
<1>6. CASE k = "remove"
  BY <1>2, <1>6 DEF Listed
<1>7. CASE k = "rename"
  BY <1>7 DEF Listed
<1>8. QED BY <1>4, <1>5, <1>6, <1>7 DEF Kinds

LEMMA EntryOfNode ==
    ASSUME NEW n, NEW e \in Entry(ListsOf(n))
    PROVE  /\ e \in Entry(DocLists)
           /\ OfNode(n, e.data.docs) /\ OfNode(n, e.ans.docs)
  BY DEF Entry, ListsOf

LEMMA ArsipInitInv == ArsipInit => ArsipInv
<1> SUFFICES ASSUME ArsipInit PROVE ArsipInv
  OBVIOUS
<1>1. NoList \in DocLists /\ \A n : NoList \in ListsOf(n)
  BY NoneOfNode DEF NoList, DocLists, ListsOf
<1> DEFINE e == EmptyEntry(NoList)
<1>2. /\ \A n : e \in Entry(ListsOf(n))
      /\ e \in Entry(DocLists) /\ e.fetch = "idle" /\ e.has = FALSE /\ e.valid = FALSE
  <2> HIDE DEF NoList
  <2>1. QED BY <1>1, EmptyEntryFacts
<1>3. cache = [n \in Panel |-> e]
  BY DEF ArsipInit
<1> HIDE DEF e
<1>4. ASSUME NEW n \in Panel PROVE OfNode(n, list[n])
  <2>1. PICK S \in SUBSET Docs : list[n] \in SetToSeqs(S)
    BY DEF ArsipInit
  <2>2. list[n] \in Seq(Docs)
    BY <2>1, SeqsOfSet
  <2>3. \A i \in 1 .. Len(list[n]) : list[n][i] \in Range(list[n])
    BY <2>2 DEF Range
  <2>4. QED BY <2>2, <2>3 DEF ArsipInit, OfNode
<1>5. list \in [Panel -> Seq(Docs)]
  BY <1>4 DEF ArsipInit, OfNode
<1>6. call \in [Kinds -> CallSet] /\ \A k \in Kinds : call[k].at = "idle"
  BY DEF ArsipInit, NoCall, CallSet
<1>7. ArsipTypeOK
  <2>1. cache \in [Panel -> Entry(DocLists)]
    BY <1>2, <1>3
  <2>2. version \in [Panel -> Nat] /\ owed \in [Panel -> Nat] /\ target \in Panel \cup {Nowhere}
    <3>1. version = [n \in Panel |-> 0] /\ owed = [n \in Panel |-> 0] /\ target = Nowhere
      BY DEF ArsipInit
    <3>2. QED BY <3>1
  <2>3. ordering \in BOOLEAN /\ draft \in Seq(Docs)
    <3>1. ordering = FALSE /\ draft = <<>> /\ <<>> \in Seq(Docs)
      BY DEF ArsipInit
    <3>2. QED BY <3>1
  <2>4. Asked(removing) /\ Asked(renaming)
    BY DEF ArsipInit, Asked
  <2>5. QED BY <1>5, <1>6, <2>1, <2>2, <2>3, <2>4 DEF ArsipTypeOK
<1>8. target = Nowhere /\ Nowhere \notin Panel
  BY DocsAssumption DEF ArsipInit, Nowhere
<1>9. \A n \in Panel : owed[n] = 0 /\ version[n] = 0 /\ ListFresh(cache[n], n)
  BY <1>2, <1>3, <1>8 DEF ArsipInit, ListFresh, EntryOK
<1>10. QED BY <1>2, <1>3, <1>4, <1>6, <1>7, <1>8, <1>9 DEF ArsipInv, CallOK

\* refetch() after invalidateQueries, for the list on the screen.
LEMMA RefetchShownFacts ==
    ASSUME NEW V, NEW e \in Entry(V)
    PROVE  LET new == Refetch(Invalidate(e, TRUE))
           IN  /\ new \in Entry(V) /\ EntryOK(new) /\ ShownOK(new) /\ ~new.valid
               /\ e.has \/ e.fetch = "idle" => new.fetch = "sent"
               /\ new.fetch = "sent" \/ (new.fetch = e.fetch /\ new.ans = e.ans)
<1> DEFINE x == Invalidate(e, TRUE)
<1>1. /\ x \in Entry(V) /\ EntryOK(x) /\ ShownOK(x) /\ ~x.valid
      /\ e.has \/ e.fetch = "idle" => x.fetch = "sent"
      /\ x.fetch = "sent" \/ (x.fetch = e.fetch /\ x.ans = e.ans)
  BY InvalidateFacts
<1>2. x.has = e.has
  BY DEF Invalidate, Refetch, Fetch, Entry
<1> HIDE DEF x
<1>3. CASE x.has \/ x.fetch = "idle"
  <2>1. Refetch(x) = Fetch(x)
    BY <1>3 DEF Refetch
  <2>2. Fetch(x) \in Entry(V) /\ Fetch(x).fetch = "sent" /\ Fetch(x).valid = x.valid
    BY <1>1, FetchFacts
  <2>3. EntryOK(Fetch(x)) /\ ShownOK(Fetch(x))
    BY <1>1, <2>2 DEF EntryOK, ShownOK, AtRest
  <2>4. QED BY <1>1, <2>1, <2>2, <2>3 DEF x
<1>4. CASE ~(x.has \/ x.fetch = "idle")
  <2>1. Refetch(x) = x
    BY <1>4 DEF Refetch
  <2>2. QED BY <1>1, <2>1 DEF x
<1>5. QED BY <1>3, <1>4

\* Steps that leave the lists alone: the panel's own, and a call that is sent,
\* dropped or lost.
LEMMA ArsipQuiet ==
    ASSUME ArsipInv, UNCHANGED <<list, version, cache, owed>>,
           target' = target \/ target' = Nowhere,
           ordering' \in BOOLEAN, draft' \in Seq(Docs), target' # Nowhere => OfNode(target', draft'),
           Asked(removing)', Asked(renaming)',
           call' \in [Kinds -> CallSet], \A k \in Kinds : CallOK(call[k])'
    PROVE  ArsipInv'
<1>1. Nowhere \notin Panel
  BY DocsAssumption DEF Nowhere
<1>2. ArsipTypeOK'
  BY DEF ArsipInv, ArsipTypeOK
<1>3. ASSUME NEW n \in Panel
      PROVE  /\ OfNode(n, list[n])' /\ (owed[n] <= version[n])'
             /\ (cache[n] \in Entry(ListsOf(n)))' /\ ListFresh(cache[n], n)'
  <2>1. n = target' => n = target
    BY <1>1
  <2>2. OfNode(n, list[n])' <=> OfNode(n, list[n])
    BY DEF OfNode
  <2>3. QED BY <2>1, <2>2 DEF ArsipInv, ListFresh
<1>4. QED BY <1>2, <1>3 DEF ArsipInv

\* What the panel shows are documents of its node.
LEMMA ShownOfNode ==
    ASSUME ArsipInv
    PROVE  /\ Shown \in Seq(Docs)
           /\ target # Nowhere => OfNode(target, Shown) /\ target \in Panel
           /\ \A d : target # Nowhere /\ Contains(Shown, d) => d \in Docs /\ Home[d] \in Panel
<1>1. CASE target = Nowhere
  BY <1>1 DEF Shown
<1>2. CASE target # Nowhere
  <2>1. target \in Panel /\ Shown = cache[target].data.docs
    BY <1>2 DEF Shown, ArsipInv, ArsipTypeOK
  <2>2. OfNode(target, Shown)
    BY <2>1, EntryOfNode DEF ArsipInv
  <2>3. \A d : Contains(Shown, d) => d \in Docs /\ Home[d] = target
    BY <2>2 DEF OfNode, Contains
  <2>4. QED BY <2>1, <2>2, <2>3 DEF OfNode
<1>3. QED BY <1>1, <1>2

\* Two neighbours of the draft change places.
LEMMA SwapFacts ==
    ASSUME NEW s \in Seq(Docs), NEW i \in 1 .. Len(s) - 1
    PROVE  LET t == [s EXCEPT ![i] = s[i + 1], ![i + 1] = s[i]]
           IN  t \in Seq(Docs) /\ Range(t) = Range(s) /\ Len(t) = Len(s)
<1> DEFINE t == [s EXCEPT ![i] = s[i + 1], ![i + 1] = s[i]]
<1>1. /\ i \in 1 .. Len(s) /\ i + 1 \in 1 .. Len(s) /\ i # i + 1 /\ DOMAIN s = 1 .. Len(s)
      /\ Len(s) \in Nat /\ s \in [1 .. Len(s) -> Docs]
  OBVIOUS
<1>2. /\ t \in [1 .. Len(s) -> Docs] /\ t[i] = s[i + 1] /\ t[i + 1] = s[i]
      /\ \A j \in 1 .. Len(s) : j # i /\ j # i + 1 => t[j] = s[j]
  BY <1>1
<1> HIDE DEF t
<1>3. t \in Seq(Docs) /\ Len(t) = Len(s) /\ DOMAIN t = 1 .. Len(s)
  BY <1>1, <1>2
<1>4. \A j \in 1 .. Len(s) : t[j] \in Range(s) /\ s[j] \in Range(t)
  BY <1>1, <1>2, <1>3 DEF Range
<1>5. Range(t) = Range(s)
  BY <1>1, <1>3, <1>4 DEF Range
<1>6. QED BY <1>3, <1>5 DEF t

\* A call is sent for documents of a node of the panel.
LEMMA SendFacts ==
    ASSUME ArsipInv, NEW k \in Kinds, NEW n \in Panel, NEW docs, OfNode(n, docs), Send(k, n, docs)
    PROVE  ArsipInv'
<1> DEFINE c == [at |-> "sent", node |-> n, docs |-> docs, version |-> 0]
<1>1. c \in CallSet /\ c.at = "sent" /\ c.node = n /\ c.docs = docs
  BY DEF CallSet, OfNode
<1>2. /\ call' = [call EXCEPT ![k] = c]
      /\ UNCHANGED <<list, version, cache, target, ordering, draft, removing, renaming, owed>>
  BY DEF Send
<1> HIDE DEF c
<1>3. call' \in [Kinds -> CallSet] /\ call'[k] = c /\ \A j \in Kinds \ {k} : call'[j] = call[j]
  BY <1>1, <1>2 DEF ArsipInv, ArsipTypeOK
<1>4. \A j \in Kinds : CallOK(call[j])'
  <2>1. CallOK(call[k])'
    BY <1>1, <1>3 DEF CallOK, OfNode
  <2>2. \A j \in Kinds \ {k} : CallOK(call[j])'
    BY <1>2, <1>3 DEF CallOK, OfNode, ArsipInv
  <2>3. QED BY <2>1, <2>2
<1>5. /\ ordering \in BOOLEAN /\ draft \in Seq(Docs) /\ Asked(removing)' /\ Asked(renaming)'
      /\ target' # Nowhere => OfNode(target', draft')
  BY <1>2 DEF ArsipInv, ArsipTypeOK, Asked, OfNode
<1>6. QED BY <1>2, <1>3, <1>4, <1>5, ArsipQuiet

LEMMA PanelCalls ==
    ASSUME ArsipInv, SaveOrder \/ ConfirmRemove \/ SubmitRename \/ \E d \in Docs : DropFile(d)
    PROVE  ArsipInv'
<1>1. CASE SaveOrder
  <2>1. target \in Panel /\ OfNode(target, draft) /\ Send("reorder", target, draft) /\ "reorder" \in Kinds
    BY <1>1, ShownOfNode DEF SaveOrder, AtPanel, ArsipInv, Kinds
  <2>2. QED BY <2>1, SendFacts
<1>2. CASE ConfirmRemove
  <2>1. removing \in Docs /\ Home[removing] \in Panel /\ Send("remove", Home[removing], <<removing>>)
    BY <1>2 DEF ConfirmRemove, ArsipInv, ArsipTypeOK, Asked
  <2>2. OfNode(Home[removing], <<removing>>) /\ "remove" \in Kinds
    BY <2>1, OneOfNode DEF Kinds
  <2>3. QED BY <2>1, <2>2, SendFacts
<1>3. CASE SubmitRename
  <2>1. renaming \in Docs /\ Home[renaming] \in Panel /\ Send("rename", Home[renaming], <<renaming>>)
    BY <1>3 DEF SubmitRename, ArsipInv, ArsipTypeOK, Asked
  <2>2. OfNode(Home[renaming], <<renaming>>) /\ "rename" \in Kinds
    BY <2>1, OneOfNode DEF Kinds
  <2>3. QED BY <2>1, <2>2, SendFacts
<1>4. ASSUME NEW d \in Docs, DropFile(d) PROVE ArsipInv'
  <2>1. target \in Panel /\ Home[d] = target /\ Send("upload", target, <<d>>) /\ "upload" \in Kinds
    BY <1>4, ShownOfNode DEF DropFile, AtPanel, Kinds
  <2>2. OfNode(target, <<d>>)
    BY <2>1, OneOfNode
  <2>3. QED BY <2>1, <2>2, SendFacts
<1>5. QED BY <1>1, <1>2, <1>3, <1>4

\* A call fails: it is forgotten.
LEMMA CallDropped ==
    ASSUME ArsipInv, NEW k \in Kinds, call' = [call EXCEPT ![k] = NoCall], UNCHANGED version
    PROVE  call' \in [Kinds -> CallSet] /\ \A j \in Kinds : CallOK(call[j])'
<1>1. NoCall \in CallSet /\ NoCall.at = "idle"
  BY DEF NoCall, CallSet
<1> HIDE DEF NoCall
<1>2. call' \in [Kinds -> CallSet] /\ call'[k] = NoCall /\ \A j \in Kinds \ {k} : call'[j] = call[j]
  BY <1>1 DEF ArsipInv, ArsipTypeOK
<1>3. CallOK(call[k])'
  BY <1>1, <1>2 DEF CallOK
<1>4. \A j \in Kinds \ {k} : CallOK(call[j])'
  BY <1>2 DEF CallOK, OfNode, ArsipInv
<1>5. QED BY <1>2, <1>3, <1>4

LEMMA PanelSteps ==
    ASSUME ArsipInv,
           \/ ClosePanel \/ StartOrdering \/ CancelOrdering \/ Dismiss
           \/ \E i \in 1 .. Cardinality(Docs) : MoveDocument(i)
           \/ \E d \in Docs : AskRemove(d) \/ AskRename(d)
           \/ \E k \in Kinds : Failed(k)
           \/ UNCHANGED arsipVars
    PROVE  ArsipInv'
<1>1. UNCHANGED <<list, version, cache, owed>>
  BY DEF ClosePanel, StartOrdering, CancelOrdering, Dismiss, MoveDocument, AskRemove, AskRename, Failed, arsipVars
<1>2. call' \in [Kinds -> CallSet] /\ \A j \in Kinds : CallOK(call[j])'
  <2>1. CASE \E k \in Kinds : Failed(k)
    BY <1>1, <2>1, CallDropped DEF Failed
  <2>2. CASE UNCHANGED call
    BY <1>1, <2>2 DEF ArsipInv, ArsipTypeOK, CallOK, OfNode
  <2>3. QED
    BY <2>1, <2>2
    DEF ClosePanel, StartOrdering, CancelOrdering, Dismiss, MoveDocument, AskRemove, AskRename, arsipVars
<1>3. Asked(removing)' /\ Asked(renaming)'
  <2>1. Asked(removing) /\ Asked(renaming) /\ Asked(NoDoc)
    BY DEF ArsipInv, ArsipTypeOK, Asked
  <2>2. ASSUME NEW d \in Docs, AskRemove(d) \/ AskRename(d) PROVE Asked(d)
    BY <2>2, ShownOfNode DEF AskRemove, AskRename, AtPanel, Asked
  <2>3. /\ removing' \in {removing, NoDoc} \/ \E d \in Docs : AskRemove(d) /\ removing' = d
        /\ renaming' \in {renaming, NoDoc} \/ \E d \in Docs : AskRename(d) /\ renaming' = d
    BY DEF ClosePanel, StartOrdering, CancelOrdering, Dismiss, MoveDocument, AskRemove, AskRename, Failed, arsipVars
  <2>4. QED BY <2>1, <2>2, <2>3 DEF Asked
<1>4. /\ target' = target \/ target' = Nowhere
      /\ ordering' \in BOOLEAN /\ draft' \in Seq(Docs) /\ (target' # Nowhere => OfNode(target', draft'))
  <2>1. /\ ordering \in BOOLEAN /\ draft \in Seq(Docs) /\ (target # Nowhere => OfNode(target, draft))
    BY DEF ArsipInv, ArsipTypeOK
  <2>2. CASE ClosePanel
    <3>1. ordering' = FALSE /\ draft' = <<>> /\ target' = Nowhere /\ <<>> \in Seq(Docs)
      BY <2>2 DEF ClosePanel, LeaveOrdering
    <3>2. QED BY <3>1
  <2>3. CASE StartOrdering \/ CancelOrdering
    <3>1. draft' = Shown /\ target' = target /\ ordering' \in BOOLEAN
      BY <2>3 DEF StartOrdering, CancelOrdering
    <3>2. draft' \in Seq(Docs) /\ (target # Nowhere => OfNode(target, draft'))
      BY <3>1, ShownOfNode
    <3>3. QED BY <3>1, <3>2 DEF OfNode
  <2>4. ASSUME NEW i \in 1 .. Cardinality(Docs), MoveDocument(i)
        PROVE  /\ target' = target /\ ordering' \in BOOLEAN /\ draft' \in Seq(Docs)
               /\ (target' # Nowhere => OfNode(target', draft'))
    <3>1. /\ draft' = [draft EXCEPT ![i] = draft[i + 1], ![i + 1] = draft[i]]
          /\ i \in 1 .. Len(draft) - 1 /\ UNCHANGED <<target, ordering>>
      BY <2>4 DEF MoveDocument
    <3>2. draft' \in Seq(Docs) /\ Range(draft') = Range(draft) /\ Len(draft') = Len(draft)
      BY <2>1, <3>1, SwapFacts
    <3>3. target # Nowhere => \A d \in Range(draft) : Home[d] = target
      BY <2>1 DEF OfNode, Range
    <3>4. \A j \in 1 .. Len(draft') : draft'[j] \in Range(draft')
      BY <3>2 DEF Range
    <3>5. target' # Nowhere => OfNode(target', draft')
      BY <3>1, <3>2, <3>3, <3>4 DEF OfNode
    <3>6. QED BY <2>1, <3>1, <3>2, <3>5
  <2>5. CASE UNCHANGED <<target, ordering, draft>>
    BY <2>1, <2>5 DEF OfNode
  <2>6. QED
    BY <2>2, <2>3, <2>4, <2>5 DEF StartOrdering, CancelOrdering, Dismiss, AskRemove, AskRename, Failed, arsipVars
<1>5. QED BY <1>1, <1>2, <1>3, <1>4, ArsipQuiet

\* One list is answered for, lost, or comes on the screen.
LEMMA ListSteps ==
    ASSUME ArsipInv, NEW n \in Panel, ListRead(n) \/ ListLands(n) \/ ListLost(n) \/ OpenPanel(n)
    PROVE  ArsipInv'
<1> DEFINE e == cache[n]
<1>1. /\ e \in Entry(ListsOf(n)) /\ EntryOK(e) /\ OfNode(n, list[n])
      /\ version[n] \in Nat /\ owed[n] <= version[n]
      /\ e.fetch = "read" => owed[n] <= e.ans.version
      /\ e.fetch = "idle" /\ e.valid => owed[n] <= e.data.version
  BY DEF ArsipInv, ArsipTypeOK, ListFresh
<1>2. UNCHANGED <<list, version, removing, renaming, call, owed>> /\ (target' = target \/ target' = n)
  BY DEF ListRead, ListLands, ListLost, OpenPanel
<1>3. PICK new \in Entry(ListsOf(n)) :
         /\ cache' = [cache EXCEPT ![n] = new]
         /\ EntryOK(new) /\ ShownOK(new)
         /\ new.fetch = "read" => owed[n] <= new.ans.version
         /\ new.fetch = "idle" /\ new.valid => owed[n] <= new.data.version
  <2>1. CASE ListRead(n)
    <3> DEFINE v == [docs |-> list[n], version |-> version[n]]
    <3>1. v \in ListsOf(n) /\ v.version = version[n]
      BY <1>1 DEF ListsOf, DocLists, OfNode
    <3>2. cache' = [cache EXCEPT ![n] = ServerReads(e, v)] /\ e.fetch = "sent"
      BY <2>1 DEF ListRead
    <3> HIDE DEF e, v
    <3>3. /\ ServerReads(e, v) \in Entry(ListsOf(n)) /\ EntryOK(ServerReads(e, v)) /\ ShownOK(ServerReads(e, v))
          /\ ServerReads(e, v).fetch = "read" /\ ServerReads(e, v).ans = v
      BY <1>1, <3>1, <3>2, ReadFacts
    <3>4. owed[n] <= v.version
      BY <1>1, <3>1
    <3>5. QED BY <3>2, <3>3, <3>4
  <2>2. CASE ListLands(n)
    <3>1. cache' = [cache EXCEPT ![n] = Land(e)] /\ e.fetch = "read"
      BY <2>2 DEF ListLands
    <3> HIDE DEF e
    <3>2. QED BY <1>1, <3>1, LandFacts
  <2>3. CASE ListLost(n)
    <3>1. cache' = [cache EXCEPT ![n] = Lose(e)] /\ e.fetch # "idle"
      BY <2>3 DEF ListLost
    <3> HIDE DEF e
    <3>2. QED BY <1>1, <3>1, LoseFacts
  <2>4. CASE OpenPanel(n)
    <3>1. cache' = [cache EXCEPT ![n] = Observe(e)]
      BY <2>4 DEF OpenPanel
    <3> HIDE DEF e
    <3>2. Observe(e) \in Entry(ListsOf(n)) /\ EntryOK(Observe(e)) /\ ShownOK(Observe(e))
      BY <1>1, ObserveFacts
    <3>3. Observe(e).fetch = "sent" \/ Observe(e) = e
      BY <1>1, ObserveFacts
    <3>4. QED BY <1>1, <3>1, <3>2, <3>3
  <2>5. QED BY <2>1, <2>2, <2>3, <2>4
<1>4. new \in Entry(DocLists) /\ OfNode(n, new.data.docs) /\ new.data.docs \in Seq(Docs)
  BY EntryOfNode DEF OfNode
<1>5. /\ cache' \in [Panel -> Entry(DocLists)] /\ cache'[n] = new
      /\ \A m \in Panel \ {n} : cache'[m] = cache[m]
  BY <1>3, <1>4 DEF ArsipInv, ArsipTypeOK
<1>6. /\ ordering' \in BOOLEAN /\ draft' \in Seq(Docs)
      /\ target' # Nowhere => OfNode(target', draft')
  <2>1. ordering \in BOOLEAN /\ draft \in Seq(Docs) /\ (target # Nowhere => OfNode(target, draft))
    BY DEF ArsipInv, ArsipTypeOK
  <2>2. CASE OpenPanel(n)
    <3>1. ordering' = FALSE /\ draft' = <<>> /\ <<>> \in Seq(Docs)
      BY <2>2 DEF OpenPanel, LeaveOrdering
    <3>2. QED BY <3>1, NoneOfNode
  <2>3. CASE ListLands(n)
    <3>1. target' = target /\ ordering' = ordering
          /\ (draft' = draft \/ (target = n /\ draft' = cache'[n].data.docs))
      BY <2>3 DEF ListLands, DraftFollows
    <3>2. QED BY <1>4, <1>5, <2>1, <3>1
  <2>4. CASE UNCHANGED <<target, ordering, draft>>
    BY <2>1, <2>4
  <2>5. QED BY <2>2, <2>3, <2>4 DEF ListRead, ListLost
<1>7. ArsipTypeOK'
  BY <1>2, <1>5, <1>6 DEF ArsipInv, ArsipTypeOK, Asked
<1>8. \A k \in Kinds : CallOK(call[k])'
  BY <1>2 DEF ArsipInv, CallOK, OfNode
<1>9. ASSUME NEW m \in Panel
      PROVE  /\ OfNode(m, list[m])' /\ (owed[m] <= version[m])'
             /\ (cache[m] \in Entry(ListsOf(m)))' /\ ListFresh(cache[m], m)'
  <2>1. OfNode(m, list[m])' /\ (owed[m] <= version[m])'
    BY <1>2 DEF ArsipInv, OfNode
  <2>2. CASE m = n
    BY <1>2, <1>3, <1>5, <2>1, <2>2 DEF ListFresh
  <2>3. CASE m # n
    <3>1. cache'[m] = cache[m] /\ (m = target' => m = target)
      BY <1>2, <1>5, <2>3
    <3>2. QED BY <1>2, <2>1, <3>1 DEF ArsipInv, ListFresh
  <2>4. QED BY <2>2, <2>3
<1>10. QED BY <1>6, <1>7, <1>8, <1>9 DEF ArsipInv

\* The server changes the documents of a node: its list is of one more version.
LEMMA ServerChangeFacts ==
    ASSUME ArsipInv, NEW n \in Panel, NEW lists, ServerChanges(n, lists),
           \A l \in lists : OfNode(n, l),
           UNCHANGED <<cache, target, ordering, draft, removing, renaming, owed>>,
           call' \in [Kinds -> CallSet],
           \A k \in Kinds : call'[k] = call[k] \/
             (call'[k].node = n /\ OfNode(n, call'[k].docs) /\ call'[k].version = version'[n])
    PROVE  ArsipInv'
<1>1. PICK l \in lists : list' = [list EXCEPT ![n] = l] /\ version' = [version EXCEPT ![n] = @ + 1]
  BY DEF ServerChanges
<1>2. OfNode(n, l) /\ l \in Seq(Docs)
  BY DEF OfNode
<1>3. /\ list' \in [Panel -> Seq(Docs)] /\ version' \in [Panel -> Nat]
      /\ list'[n] = l /\ \A m \in Panel \ {n} : list'[m] = list[m]
      /\ \A m \in Panel : version[m] \in Nat /\ version[m] <= version'[m] /\ owed[m] \in Nat
  BY <1>1, <1>2 DEF ArsipInv, ArsipTypeOK
<1>4. ArsipTypeOK'
  BY <1>3 DEF ArsipInv, ArsipTypeOK, Asked
<1>5. ASSUME NEW k \in Kinds PROVE CallOK(call[k])'
  <2>1. CASE call'[k] = call[k]
    <3>1. call[k].version \in Nat /\ CallOK(call[k])
      BY DEF ArsipInv, ArsipTypeOK, CallSet
    <3>2. CASE call[k].at # "idle"
      <4>1. call[k].node \in Panel /\ OfNode(call[k].node, call[k].docs)
        BY <3>1, <3>2 DEF CallOK
      <4>2. call[k].at = "done" => call[k].version <= version[call[k].node]
        BY <3>1, <3>2 DEF CallOK
      <4>3. call[k].at = "done" => call[k].version <= version'[call[k].node]
        BY <1>3, <3>1, <4>1, <4>2
      <4>4. QED BY <2>1, <4>1, <4>3 DEF CallOK, OfNode
    <3>3. CASE call[k].at = "idle"
      BY <2>1, <3>3 DEF CallOK
    <3>4. QED BY <3>2, <3>3
  <2>2. CASE call'[k].node = n /\ OfNode(n, call'[k].docs) /\ call'[k].version = version'[n]
    BY <1>3, <2>2 DEF CallOK, OfNode
  <2>3. QED BY <2>1, <2>2
<1>6. ASSUME NEW m \in Panel
      PROVE  /\ OfNode(m, list[m])' /\ (owed[m] <= version[m])'
             /\ (cache[m] \in Entry(ListsOf(m)))' /\ ListFresh(cache[m], m)'
  <2>1. OfNode(m, list'[m])
    BY <1>2, <1>3 DEF ArsipInv
  <2>2. owed[m] <= version[m] /\ cache[m] \in Entry(ListsOf(m)) /\ ListFresh(cache[m], m)
    BY DEF ArsipInv
  <2>3. owed[m] <= version'[m]
    BY <1>3, <2>2
  <2>4. QED BY <2>1, <2>2, <2>3 DEF OfNode, ListFresh
<1>7. (target # Nowhere => OfNode(target, draft))'
  BY DEF ArsipInv, OfNode
<1>8. QED BY <1>4, <1>5, <1>6, <1>7 DEF ArsipInv

LEMMA ListServerSteps ==
    ASSUME ArsipInv, (\E k \in Kinds : Apply(k)) \/ \E n \in Panel : Rival(n)
    PROVE  ArsipInv'
<1>1. ASSUME NEW k \in Kinds, Apply(k) PROVE ArsipInv'
  <2> PICK c \in CallSet : c = call[k]
    BY DEF ArsipInv, ArsipTypeOK
  <2>1. /\ c.at = "sent" /\ c.node \in Panel /\ OfNode(c.node, c.docs)
        /\ ServerChanges(c.node, Listed(k, c.docs, list[c.node]))
        /\ call' = [call EXCEPT ![k].at = "done", ![k].version = version'[c.node]]
        /\ UNCHANGED <<cache, target, ordering, draft, removing, renaming, owed>>
    BY <1>1 DEF Apply, ArsipInv, CallOK
  <2>2. OfNode(c.node, list[c.node]) /\ version[c.node] \in Nat
    BY <2>1 DEF ArsipInv, ArsipTypeOK
  <2>3. \A l \in Listed(k, c.docs, list[c.node]) : OfNode(c.node, l)
    BY <2>1, <2>2, ListedFacts
  <2>4. version'[c.node] \in Nat
    BY <2>1, <2>2 DEF ServerChanges, ArsipInv, ArsipTypeOK
  <2> DEFINE new == [c EXCEPT !.at = "done", !.version = version'[c.node]]
  <2>5. new \in CallSet /\ new.node = c.node /\ new.docs = c.docs /\ new.version = version'[c.node]
    BY <2>4 DEF CallSet
  <2>6. call' = [call EXCEPT ![k] = new]
    BY <2>1
  <2> HIDE DEF new
  <2>7. /\ call' \in [Kinds -> CallSet]
        /\ \A j \in Kinds : call'[j] = call[j] \/
             (call'[j].node = c.node /\ OfNode(c.node, call'[j].docs) /\ call'[j].version = version'[c.node])
    BY <2>1, <2>5, <2>6 DEF ArsipInv, ArsipTypeOK
  <2>8. QED BY <2>1, <2>3, <2>7, ServerChangeFacts
<1>2. ASSUME NEW n \in Panel, Rival(n) PROVE ArsipInv'
  <2>1. PICK k \in Kinds, d \in {e \in Docs : Home[e] = n} :
          \E docs \in IF k = "reorder" THEN SetToSeqs(Range(list[n])) ELSE {<<d>>} :
            ServerChanges(n, Listed(k, docs, list[n]))
    BY <1>2 DEF Rival
  <2> PICK docs \in IF k = "reorder" THEN SetToSeqs(Range(list[n])) ELSE {<<d>>} :
             ServerChanges(n, Listed(k, docs, list[n]))
    BY <2>1
  <2>2. OfNode(n, list[n])
    BY DEF ArsipInv
  <2>3. OfNode(n, docs)
    <3>1. CASE k = "reorder"
      <4>1. docs \in SetToSeqs(Range(list[n]))
        BY <3>1
      <4>2. \A x \in Range(list[n]) : x \in Docs /\ Home[x] = n
        BY <2>2 DEF OfNode, Range
      <4>3. docs \in Seq(Docs) /\ \A i \in 1 .. Len(docs) : docs[i] \in Range(list[n])
        BY <4>1, <4>2, SeqsOfSet
      <4>4. QED BY <4>2, <4>3 DEF OfNode
    <3>2. CASE k # "reorder"
      BY <3>2, OneOfNode
    <3>3. QED BY <3>1, <3>2
  <2>4. \A l \in Listed(k, docs, list[n]) : OfNode(n, l)
    BY <2>2, <2>3, ListedFacts
  <2>5. UNCHANGED <<cache, target, ordering, draft, removing, renaming, call, owed>>
    BY <1>2 DEF Rival
  <2>6. QED BY <2>1, <2>4, <2>5, ServerChangeFacts DEF ArsipInv, ArsipTypeOK
<1>3. QED BY <1>1, <1>2

\* An answer: every list is invalid until it is fetched again, and the one on the
\* screen is fetched at once.
LEMMA AnsweredStep ==
    ASSUME ArsipInv, NEW k \in Kinds, Answered(k) PROVE ArsipInv'
<1> PICK c \in CallSet : c = call[k]
  BY DEF ArsipInv, ArsipTypeOK
<1>1. /\ c.at = "done" /\ c.node \in Panel /\ c.version <= version[c.node] /\ c.version \in Nat
      /\ Refresh /\ Owe(c) /\ call' = [call EXCEPT ![k] = NoCall]
      /\ UNCHANGED <<list, version, target, draft>>
  BY DEF Answered, ArsipInv, CallOK, CallSet
<1>2. ASSUME NEW n \in Panel
      PROVE  LET old == cache[n]
                 new == cache'[n]
             IN  /\ new \in Entry(ListsOf(n)) /\ EntryOK(new) /\ ~new.valid
                 /\ n = target => ShownOK(new)
                 /\ old.fetch = "idle" \/ (old.has /\ n = target) => new.fetch # "read"
                 /\ new.fetch = "sent" \/ (new.fetch = old.fetch /\ new.ans = old.ans)
  <2> DEFINE old == cache[n]
             new == cache'[n]
  <2>1. old \in Entry(ListsOf(n))
    BY DEF ArsipInv
  <2>2. new = IF n = target THEN Refetch(Invalidate(old, TRUE)) ELSE Invalidate(old, FALSE)
    BY <1>1 DEF Refresh
  <2> HIDE DEF old, new
  <2>3. CASE n = target
    <3>1. new = Refetch(Invalidate(old, TRUE))
      BY <2>2, <2>3
    <3>2. QED BY <2>1, <3>1, RefetchShownFacts DEF old, new
  <2>4. CASE n # target
    <3>1. new = Invalidate(old, FALSE)
      BY <2>2, <2>4
    <3>2. /\ new \in Entry(ListsOf(n)) /\ EntryOK(new) /\ ~new.valid
          /\ new.fetch = "sent" \/ (new.fetch = old.fetch /\ new.ans = old.ans)
      BY <2>1, <3>1, InvalidateFacts
    <3>3. QED BY <2>4, <3>2 DEF old, new
  <2>5. QED BY <2>3, <2>4
<1>3. cache' \in [Panel -> Entry(DocLists)]
  <2>1. \A n \in Panel : cache'[n] \in Entry(DocLists)
    BY <1>2, EntryOfNode
  <2>2. DOMAIN cache' = Panel /\ cache' = [n \in Panel |-> cache'[n]]
    BY <1>1 DEF Refresh
  <2>3. QED BY <2>1, <2>2
<1>4. /\ owed' \in [Panel -> Nat]
      /\ \A n \in Panel :
           \/ owed'[n] = owed[n]
           \/ /\ owed'[n] <= version[n]
              /\ cache[n].fetch = "read" /\ ~(cache[n].has /\ n = target)
                   => owed'[n] <= cache[n].ans.version
  <2>1. owed \in [Panel -> Nat] /\ owed[c.node] <= version[c.node]
    BY <1>1 DEF ArsipInv, ArsipTypeOK
  <2> DEFINE m == Max({owed[c.node], c.version})
  <2>2. m \in {owed[c.node], c.version}
    BY <1>1, <2>1, MaxOfTwo
  <2>3. \/ owed' = owed
        \/ /\ owed' = [owed EXCEPT ![c.node] = m]
           /\ ~Overtaken(cache[c.node], c.node = target, cache[c.node].ans.version < c.version)
    BY <1>1 DEF Owe
  <2>4. /\ m \in Nat /\ m <= version[c.node]
        /\ ~Overtaken(cache[c.node], c.node = target, cache[c.node].ans.version < c.version)
             => (cache[c.node].fetch = "read" /\ ~(cache[c.node].has /\ c.node = target)
                   => m <= cache[c.node].ans.version)
    <3>1. cache[c.node].fetch = "read" => owed[c.node] <= cache[c.node].ans.version
      BY <1>1 DEF ArsipInv, ListFresh
    <3>2. cache[c.node].ans.version \in Nat
      BY <1>1 DEF ArsipInv, ArsipTypeOK, Entry, DocLists
    <3>3. QED BY <1>1, <2>1, <2>2, <3>1, <3>2 DEF Overtaken
  <2> HIDE DEF m
  <2>5. QED BY <1>1, <2>1, <2>3, <2>4
<1>5. call' \in [Kinds -> CallSet] /\ \A j \in Kinds : CallOK(call[j])'
  BY <1>1, CallDropped
<1>6. ordering' \in BOOLEAN /\ Asked(removing)' /\ Asked(renaming)'
  BY DEF Answered, Asked, ArsipInv, ArsipTypeOK
<1>7. ArsipTypeOK'
  BY <1>1, <1>3, <1>4, <1>5, <1>6 DEF ArsipInv, ArsipTypeOK
<1>8. ASSUME NEW n \in Panel
      PROVE  /\ OfNode(n, list[n])' /\ (owed[n] <= version[n])'
             /\ (cache[n] \in Entry(ListsOf(n)))' /\ ListFresh(cache[n], n)'
  <2>1. OfNode(n, list'[n]) /\ owed[n] <= version[n] /\ ListFresh(cache[n], n)
    BY <1>1 DEF ArsipInv
  <2>2. owed'[n] <= version'[n]
    BY <1>1, <1>4, <2>1
  <2>3. cache'[n].fetch = "read" => owed'[n] <= cache'[n].ans.version
    BY <1>2, <1>4, <2>1 DEF ListFresh
  <2>4. QED BY <1>1, <1>2, <2>1, <2>2, <2>3 DEF ListFresh, OfNode
<1>9. (target # Nowhere => OfNode(target, draft))'
  BY <1>1 DEF ArsipInv, OfNode
<1>10. QED BY <1>5, <1>7, <1>8, <1>9 DEF ArsipInv

LEMMA ArsipNextInv == ArsipInv /\ [ArsipNext]_arsipVars => ArsipInv'
<1> SUFFICES ASSUME ArsipInv, [ArsipNext]_arsipVars PROVE ArsipInv'
  OBVIOUS
<1>1. CASE \/ ClosePanel \/ StartOrdering \/ CancelOrdering \/ Dismiss
           \/ \E i \in 1 .. Cardinality(Docs) : MoveDocument(i)
           \/ \E d \in Docs : AskRemove(d) \/ AskRename(d)
           \/ \E k \in Kinds : Failed(k)
           \/ UNCHANGED arsipVars
  BY <1>1, PanelSteps
<1>2. QED
  BY <1>1, PanelCalls, ListSteps, ListServerSteps, AnsweredStep DEF ArsipNext, ArsipCommand, ArsipReply

\* An order that is saved for a node orders that node's documents, though the
\* draft outlives every change of the panel (AnggaranPage.tsx:209-212, 276-289).
THEOREM DraftStaysHome == ArsipSpec => []DraftOfThisNode
<1>1. ArsipInv => DraftOfThisNode
  <2> SUFFICES ASSUME ArsipInv, call["reorder"].at # "idle", NEW d \in Range(call["reorder"].docs)
               PROVE  Home[d] = call["reorder"].node
    BY DEF DraftOfThisNode
  <2>1. OfNode(call["reorder"].node, call["reorder"].docs)
    BY DEF ArsipInv, CallOK, Kinds
  <2>2. QED BY <2>1 DEF OfNode, Range
<1>2. QED BY <1>1, ArsipInitInv, ArsipNextInv, PTL DEF ArsipSpec

\* A list on the screen, once it is at rest, shows every change of the user's own
\* that was answered, in whatever order the answers came, but one answered while a
\* request the server had read before it was under way for a list in its first
\* load or off the screen
\* (useAnggaran.ts:256-279, AnggaranPage.tsx:225-236, 276-285).
THEOREM OwnDocsAlwaysShown == ArsipSpec => []OwnDocsShown
<1>1. ArsipInv => OwnDocsShown
  <2> SUFFICES ASSUME ArsipInv, target # Nowhere, AtRest(cache[target])
               PROVE  cache[target].data.version >= owed[target]
    BY DEF OwnDocsShown
  <2>1. target \in Panel /\ ListFresh(cache[target], target)
    BY DEF ArsipInv, ArsipTypeOK
  <2>2. owed[target] <= cache[target].data.version
    BY <2>1 DEF ListFresh, ShownOK, AtRest
  <2>3. owed[target] \in Nat /\ cache[target].data.version \in Nat
    BY <2>1 DEF ArsipInv, ArsipTypeOK, Entry, DocLists
  <2>4. QED BY <2>2, <2>3
<1>2. QED BY <1>1, ArsipInitInv, ArsipNextInv, PTL DEF ArsipSpec

\* While the user orders, the draft keeps its documents, whatever lists arrive
\* (AnggaranPage.tsx:203-207).
THEOREM DraftsAreKept == ArsipSpec => DraftKept
<1>1. ASSUME ArsipInv, [ArsipNext]_arsipVars
      PROVE  [ordering /\ ordering' => Range(draft') = Range(draft)]_arsipVars
  <2> SUFFICES ASSUME ordering, ordering', draft' # draft PROVE Range(draft') = Range(draft)
    OBVIOUS
  <2>1. CASE \E i \in 1 .. Cardinality(Docs) : MoveDocument(i)
    <3>1. PICK i \in 1 .. Len(draft) - 1 :
            draft' = [draft EXCEPT ![i] = draft[i + 1], ![i + 1] = draft[i]]
      BY <2>1 DEF MoveDocument
    <3>2. draft \in Seq(Docs)
      BY <1>1 DEF ArsipInv, ArsipTypeOK
    <3>3. QED BY <3>1, <3>2, SwapFacts
  <2>2. QED
    BY <1>1, <2>1
    DEF ArsipNext, ArsipCommand, ArsipReply, arsipVars, ClosePanel, StartOrdering, CancelOrdering, Dismiss,
        SaveOrder, ConfirmRemove, SubmitRename, AskRemove, AskRename, DropFile, Failed, OpenPanel, ListLost,
        Rival, Apply, Answered, ListRead, ListLands, LeaveOrdering, DraftFollows, Send
<1>2. QED BY <1>1, ArsipInitInv, ArsipNextInv, PTL DEF ArsipSpec, DraftKept

-----------------------------------------------------------------------------
(* The tree of a budget page (TreeView): sums, lists, and the forest that    *)
(* buildTree grows row by row.                                             *)

\* The fold of the tree is such a sum.
LEMMA SumOfIsSum ==
    ASSUME NEW f, NEW S
    PROVE  SumOf(f, S) = SumOn(f, S)
BY DEF SumOf, SumOn, FoldSet, MapThenSumSet, MapThenFoldSet

-----------------------------------------------------------------------------
\* The rows of an answer: each is one of RowId, at one place, below its parent.
LEMMA AnswerIs ==
    ASSUME TreeInit
    PROVE  \E n \in Nat : /\ n = Cardinality(RowId) /\ Len(rows) = n /\ rows \in [1 .. n -> RowId]
                          /\ \A i, j \in 1 .. n : rows[i] = rows[j] => i = j
                          /\ \A r \in RowId : Position(rows, r) \in 1 .. n /\ rows[Position(rows, r)] = r
                          /\ \A i \in 1 .. n : Position(rows, rows[i]) = i
<1>1. PICK n \in Nat : n = Cardinality(RowId)
  BY AnswerAssumption, FS_CardinalityType
<1>2. rows \in [1 .. n -> RowId] /\ \A i, j \in 1 .. n : i # j => rows[i] # rows[j]
  BY <1>1 DEF TreeInit, SetToSeqs
<1>3. Len(rows) = n
  BY <1>2
<1>4. rows \in Injection(1 .. n, RowId)
  BY <1>2 DEF Injection, IsInjective
<1>5. IsFiniteSet(1 .. n) /\ Cardinality(1 .. n) = n
  BY FS_Interval
<1>6. rows \in Surjection(1 .. n, RowId)
  BY <1>1, <1>4, <1>5, AnswerAssumption, FS_Injection
<1>7. \A r \in RowId : \E i \in 1 .. n : rows[i] = r
  BY <1>6 DEF Surjection
<1>8. \A r \in RowId : Position(rows, r) \in 1 .. n /\ rows[Position(rows, r)] = r
  BY <1>3, <1>7 DEF Position
<1>9. QED BY <1>1, <1>2, <1>3, <1>8

Forest == [roots : Seq(RowId), below : UNION {[s -> Seq(RowId)] : s \in SUBSET RowId}]

\* What reading a row does: it has no children yet, and is put in one place.
Placed(r, f, g) ==
    LET D == DOMAIN f.below \cup {r}
        kids(x) == IF x = r THEN <<>> ELSE f.below[x]
    IN  /\ g \in Forest /\ DOMAIN g.below = D
        /\ g.roots = IF parent[r] \in D THEN f.roots ELSE Append(f.roots, r)
        /\ \A x \in D : g.below[x] = IF x = parent[r] THEN Append(kids(x), r) ELSE kids(x)

\* Place does that.
LEMMA PlaceIs ==
    ASSUME NEW r \in RowId, NEW f \in Forest
    PROVE  Placed(r, f, Place(r, f))
<1>1. PICK V : V = Seq(RowId)
  OBVIOUS
<1>2. PICK none \in V : none = <<>>
  <2>1. <<>> \in Seq(RowId)
    OBVIOUS
  <2>2. QED BY <1>1, <2>1
<1>3. PICK roots \in V : roots = f.roots
  BY <1>1 DEF Forest
<1>4. PICK s \in SUBSET RowId : f.below \in [s -> V]
  BY <1>1 DEF Forest
<1>5. PICK below \in [s -> V] : below = f.below
  BY <1>4
<1>6. PICK p : p = parent[r]
  OBVIOUS
<1>7. PICK D \in SUBSET RowId : D = s \cup {r}
  OBVIOUS
<1>8. PICK seen \in [D -> V] : \A x \in D : seen[x] = IF x = r THEN none ELSE below[x]
  <2>1. [x \in D |-> IF x = r THEN none ELSE below[x]] \in [D -> V]
    BY <1>7
  <2>2. QED BY <2>1
<1>9. seen = [x \in D |-> IF x = r THEN <<>> ELSE below[x]]
  <2>1. seen = [x \in D |-> seen[x]]
    OBVIOUS
  <2>2. \A x \in D : seen[x] = IF x = r THEN <<>> ELSE below[x]
    BY <1>2, <1>8
  <2>3. QED BY <2>1, <2>2
<1>10. f = [roots |-> roots, below |-> below]
  BY <1>3, <1>5 DEF Forest
<1>11. Place(r, f) = IF p \in D THEN [f EXCEPT !.below = [seen EXCEPT ![p] = Append(@, r)]]
                     ELSE [roots |-> Append(roots, r), below |-> seen]
  <2>1. DOMAIN f.below \cup {r} = D /\ DOMAIN seen = D
    BY <1>5, <1>7
  <2>2. seen = [x \in DOMAIN f.below \cup {r} |-> IF x = r THEN <<>> ELSE f.below[x]]
    BY <2>1, <1>5, <1>9
  <2>3. QED BY <2>1, <2>2, <1>3, <1>6 DEF Place
<1>12. \A l \in V : Append(l, r) \in V
  BY <1>1
<1>13. CASE p \in D
  <2>1. PICK full \in [D -> V] : full = [seen EXCEPT ![p] = Append(seen[p], r)]
    BY <1>8, <1>12, <1>13
  <2>2. Place(r, f) = [roots |-> roots, below |-> full]
    BY <2>1, <1>10, <1>11, <1>13
  <2>3. Place(r, f) \in Forest /\ Place(r, f).roots = roots /\ Place(r, f).below = full
    BY <2>1, <2>2, <1>1 DEF Forest
  <2>4. \A x \in D : full[x] = IF x = p THEN Append(seen[x], r) ELSE seen[x]
    BY <2>1, <1>8
  <2>5. \A x \in D : full[x] = IF x = p THEN Append(IF x = r THEN <<>> ELSE f.below[x], r)
                               ELSE IF x = r THEN <<>> ELSE f.below[x]
    BY <2>4, <1>2, <1>5, <1>8
  <2>6. DOMAIN full = D /\ DOMAIN f.below \cup {r} = D
    BY <2>1, <1>5, <1>7
  <2>7. QED BY <2>3, <2>5, <2>6, <1>3, <1>6, <1>13 DEF Placed
<1>14. CASE p \notin D
  <2>1. PICK more \in V : more = Append(roots, r)
    BY <1>12
  <2>2. Place(r, f) = [roots |-> more, below |-> seen]
    BY <2>1, <1>11, <1>14
  <2>3. Place(r, f) \in Forest /\ Place(r, f).roots = more /\ Place(r, f).below = seen
    BY <2>2, <1>1 DEF Forest
  <2>5. \A x \in D : x # p /\ seen[x] = IF x = r THEN <<>> ELSE f.below[x]
    BY <1>2, <1>5, <1>8, <1>14
  <2>6. DOMAIN seen = D /\ DOMAIN f.below \cup {r} = D
    BY <1>5, <1>7
  <2>7. QED BY <2>1, <2>3, <2>5, <2>6, <1>3, <1>6, <1>14 DEF Placed
<1>15. QED BY <1>13, <1>14

\* The fold of BuildTree, row by row.
LEMMA TreeStepwise ==
    ASSUME NEW n \in Nat, rows \in [1 .. n -> RowId]
    PROVE  \E d \in [0 .. n -> Forest] :
             /\ BuildTree = d[n]
             /\ \A k \in 0 .. n : d[k] = IF k = 0 THEN EmptyForest ELSE Place(rows[k], d[k - 1])
<1>0. PICK V : V = Forest
  OBVIOUS
<1>1. DOMAIN rows = 1 .. n
  OBVIOUS
<1>2. PICK none \in V : none = EmptyForest
  <2>1. <<>> \in Seq(RowId)
    OBVIOUS
  <2>2. [r \in {} |-> <<>>] \in [{} -> Seq(RowId)]
    OBVIOUS
  <2>3. {} \in SUBSET RowId
    OBVIOUS
  <2>4. EmptyForest \in Forest
    BY <2>1, <2>2, <2>3 DEF EmptyForest, Forest
  <2>5. QED BY <2>4, <1>0
<1>3. PICK f \in [V \X (1 .. n) -> V] : \A v \in V, k \in 1 .. n : f[<<v, k>>] = Place(rows[k], v)
  <2> DEFINE f == [vx \in V \X (1 .. n) |-> Place(rows[vx[2]], vx[1])]
  <2>1. \A v \in V, k \in 1 .. n : Place(rows[k], v) \in V
    BY <1>0, PlaceIs DEF Placed
  <2>2. f \in [V \X (1 .. n) -> V]
    BY <2>1
  <2>3. \A v \in V, k \in 1 .. n : f[<<v, k>>] = Place(rows[k], v)
    OBVIOUS
  <2> HIDE DEF f
  <2>4. QED BY <2>2, <2>3
<1> DEFINE eq(r) == r = [s \in SUBSET (1 .. n) |->
               IF s = {} THEN EmptyForest ELSE Place(rows[Max(s)], r[s \ {Max(s)}])]
<1>4. \A s \in SUBSET (1 .. n) : s # {} => Max(s) \in 1 .. n
  BY MaxIsIn
<1>5. PICK g \in LeftFolds(V, none, n, f) : TRUE
  BY <1>2, LeftFolded
<1>6. eq(g)
  <2>1. g = [s \in SUBSET (1 .. n) |-> g[s]] /\ \A s \in SUBSET (1 .. n) : g[s] \in V
    BY <1>5 DEF LeftFolds
  <2>2. ASSUME NEW s \in SUBSET (1 .. n), s # {}
        PROVE  g[s] = Place(rows[Max(s)], g[s \ {Max(s)}])
    <3>1. g[s] = f[<<g[s \ {Max(s)}], Max(s)>>]
      BY <2>2, <1>5 DEF LeftFolds
    <3>2. g[s \ {Max(s)}] \in V /\ Max(s) \in 1 .. n
      BY <2>1, <2>2, <1>4
    <3>3. QED BY <3>1, <3>2, <1>3
  <2>3. g[{}] = EmptyForest
    BY <1>2, <1>5 DEF LeftFolds
  <2>4. QED BY <2>1, <2>2, <2>3
<1>7. PICK r : eq(r) /\ BuildTree = r[1 .. n]
  <2>1. BuildTree = (CHOOSE r : eq(r))[1 .. n]
    BY <1>1 DEF BuildTree, FoldLeft, MapThenFoldSet
  <2> HIDE DEF eq
  <2>2. eq(CHOOSE r : eq(r))
    BY <1>6
  <2>3. QED BY <2>1, <2>2
<1>8. FoldsLeft(V, none, n, f, r)
  <2>1. r[{}] = none
    BY <1>2, <1>7
  <2>2. ASSUME NEW s \in SUBSET (1 .. n), s # {}, r[s \ {Max(s)}] \in V
        PROVE  r[s] = f[<<r[s \ {Max(s)}], Max(s)>>]
    <3>1. r[s] = Place(rows[Max(s)], r[s \ {Max(s)}])
      BY <1>7, <2>2
    <3>2. QED BY <3>1, <1>3, <1>4, <2>2
  <2>3. QED BY <2>1, <2>2 DEF FoldsLeft
<1> HIDE DEF eq
<1>9. PICK d \in LeftSteps(V, none, n, f) : r[1 .. n] = d[n]
  BY <1>8, LeftFoldIs
<1>10. d \in [0 .. n -> V] /\ \A k \in 0 .. n : d[k] = IF k = 0 THEN none ELSE f[<<d[k - 1], k>>]
  BY <1>9 DEF LeftSteps
<1>11. ASSUME NEW k \in 0 .. n, k # 0
       PROVE  d[k] = Place(rows[k], d[k - 1])
  <2>1. k \in 1 .. n /\ k - 1 \in 0 .. n
    BY <1>11
  <2>2. QED BY <2>1, <1>3, <1>10, <1>11
<1>12. QED BY <1>0, <1>2, <1>7, <1>9, <1>10, <1>11

-----------------------------------------------------------------------------
\* A list without repetitions that has the elements of S.
Lists(l, S) ==
    /\ l \in Seq(RowId) /\ Range(l) = S
    /\ \A i, j \in DOMAIN l : l[i] = l[j] => i = j

\* The forest after the rows of S: the tops are those without a parent in the
\* answer, and each row has its children.
Grown(S, f) ==
    /\ f \in Forest /\ DOMAIN f.below = S
    /\ Lists(f.roots, {r \in S : parent[r] \notin RowId})
    /\ \A x \in S : Lists(f.below[x], {r \in S : parent[r] = x})

\* One element more.
LEMMA ListsMore ==
    ASSUME NEW l, NEW S, Lists(l, S), NEW r \in RowId, r \notin S
    PROVE  Lists(Append(l, r), S \cup {r})
<1>1. l \in Seq(RowId) /\ Range(l) = S /\ \A i, j \in DOMAIN l : l[i] = l[j] => i = j
  BY DEF Lists
<1>2. PICK n \in Nat : n = Len(l) /\ DOMAIN l = 1 .. n
  BY <1>1
<1>3. PICK m : m = Append(l, r)
  OBVIOUS
<1>4. m \in Seq(RowId) /\ DOMAIN m = 1 .. n + 1 /\ m[n + 1] = r /\ \A i \in 1 .. n : m[i] = l[i]
  BY <1>1, <1>2, <1>3
<1>5. Range(m) = S \cup {r}
  <2>1. 1 .. n + 1 = (1 .. n) \cup {n + 1}
    OBVIOUS
  <2>2. QED BY <2>1, <1>1, <1>2, <1>4 DEF Range
<1>6. \A i \in 1 .. n : m[i] \in S
  BY <1>1, <1>2, <1>4 DEF Range
<1>7. ASSUME NEW i \in DOMAIN m, NEW j \in DOMAIN m, m[i] = m[j] PROVE i = j
  <2>1. (i \in 1 .. n \/ i = n + 1) /\ (j \in 1 .. n \/ j = n + 1)
    BY <1>4
  <2>2. QED BY <2>1, <1>1, <1>2, <1>4, <1>6, <1>7
<1>8. QED BY <1>3, <1>4, <1>5, <1>7 DEF Lists

\* The empty list.
LEMMA ListsNothing == Lists(<<>>, {})
<1>1. PICK l : l = <<>>
  OBVIOUS
<1>2. l \in Seq(RowId) /\ DOMAIN l = {}
  BY <1>1
<1>3. QED BY <1>1, <1>2 DEF Lists, Range

\* A row is read after its parent and before its children.
LEMMA GrowsOn ==
    ASSUME NEW S \in SUBSET RowId, NEW f, Grown(S, f), NEW r \in RowId, r \notin S,
           parent[r] \in RowId => parent[r] \in S, \A x \in S : parent[x] # r
    PROVE  Grown(S \cup {r}, Place(r, f))
<1> DEFINE g == Place(r, f)
           D == S \cup {r}
<1>1. /\ f \in Forest /\ DOMAIN f.below = S
      /\ Lists(f.roots, {x \in S : parent[x] \notin RowId})
      /\ \A x \in S : Lists(f.below[x], {y \in S : parent[y] = x})
  BY DEF Grown
<1>2. /\ g \in Forest /\ DOMAIN g.below = D
      /\ g.roots = IF parent[r] \in D THEN f.roots ELSE Append(f.roots, r)
      /\ \A x \in D : g.below[x] = IF x = parent[r] THEN Append(IF x = r THEN <<>> ELSE f.below[x], r)
                                   ELSE IF x = r THEN <<>> ELSE f.below[x]
  <2>1. Placed(r, f, g)
    BY <1>1, PlaceIs
  <2> HIDE DEF g
  <2>2. QED BY <2>1, <1>1 DEF Placed
<1> HIDE DEF g
<1>3. parent[r] # r
  OBVIOUS
<1>4. parent[r] \in D <=> parent[r] \in RowId
  BY <1>3
<1>5. Lists(g.roots, {x \in D : parent[x] \notin RowId})
  <2>1. CASE parent[r] \in RowId
    <3>1. {x \in D : parent[x] \notin RowId} = {x \in S : parent[x] \notin RowId}
      BY <2>1
    <3>2. QED BY <3>1, <2>1, <1>1, <1>2, <1>4
  <2>2. CASE parent[r] \notin RowId
    <3>1. {x \in D : parent[x] \notin RowId} = {x \in S : parent[x] \notin RowId} \cup {r}
      BY <2>2
    <3>2. r \notin {x \in S : parent[x] \notin RowId}
      OBVIOUS
    <3>3. QED BY <3>1, <3>2, <2>2, <1>1, <1>2, <1>4, ListsMore
  <2>3. QED BY <2>1, <2>2
<1>6. ASSUME NEW x \in D PROVE Lists(g.below[x], {y \in D : parent[y] = x})
  <2>1. CASE x = r
    <3>1. {y \in D : parent[y] = x} = {}
      BY <2>1, <1>3
    <3>2. g.below[x] = <<>>
      BY <2>1, <1>2, <1>3
    <3>3. QED BY <3>1, <3>2, ListsNothing
  <2>2. CASE x # r /\ x = parent[r]
    <3>1. g.below[x] = Append(f.below[x], r)
      BY <2>2, <1>2
    <3>2. {y \in D : parent[y] = x} = {y \in S : parent[y] = x} \cup {r}
      BY <2>2
    <3>3. Lists(f.below[x], {y \in S : parent[y] = x}) /\ r \notin {y \in S : parent[y] = x}
      BY <2>2, <1>1
    <3>4. QED BY <3>1, <3>2, <3>3, ListsMore
  <2>3. CASE x # r /\ x # parent[r]
    <3>1. g.below[x] = f.below[x]
      BY <2>3, <1>2
    <3>2. {y \in D : parent[y] = x} = {y \in S : parent[y] = x}
      BY <2>3
    <3>3. QED BY <3>1, <3>2, <2>3, <1>1
  <2>4. QED BY <2>1, <2>2, <2>3
<1>7. QED BY <1>2, <1>5, <1>6 DEF Grown, g

\* So the whole answer makes a forest of all rows.
LEMMA TreeIs ==
    ASSUME TreeInit
    PROVE  Grown(RowId, BuildTree)
<1>1. PICK n \in Nat :
        /\ Len(rows) = n /\ rows \in [1 .. n -> RowId]
        /\ \A i, j \in 1 .. n : rows[i] = rows[j] => i = j
        /\ \A r \in RowId : Position(rows, r) \in 1 .. n /\ rows[Position(rows, r)] = r
        /\ \A i \in 1 .. n : Position(rows, rows[i]) = i
  BY AnswerIs
<1>2. PICK d \in [0 .. n -> Forest] :
        /\ BuildTree = d[n]
        /\ \A k \in 0 .. n : d[k] = IF k = 0 THEN EmptyForest ELSE Place(rows[k], d[k - 1])
  BY <1>1, TreeStepwise
<1> DEFINE R(k) == {rows[i] : i \in 1 .. k}
           Good == {k \in Nat : k \in 0 .. n => Grown(R(k), d[k])}
<1>3. 0 \in Good
  <2>1. R(0) = {} /\ d[0] = EmptyForest /\ d[0] \in Forest
    BY <1>2
  <2>2. d[0].roots = <<>> /\ DOMAIN d[0].below = {}
    BY <2>1 DEF EmptyForest
  <2>3. {r \in {} : parent[r] \notin RowId} = {}
    OBVIOUS
  <2>4. Grown({}, d[0])
    BY <2>1, <2>2, <2>3, ListsNothing DEF Grown
  <2>5. QED BY <2>1, <2>4
<1>4. ASSUME NEW k \in Nat, k \in Good, k + 1 \in 0 .. n PROVE Grown(R(k + 1), d[k + 1])
  <2>1. PICK j : j = k + 1
    OBVIOUS
  <2>2. j \in 1 .. n /\ k \in 0 .. n /\ j - 1 = k /\ 1 .. j = (1 .. k) \cup {j}
    BY <2>1, <1>4
  <2>3. PICK r \in RowId : r = rows[j]
    BY <1>1, <2>2
  <2>4. R(k) \in SUBSET RowId /\ Grown(R(k), d[k]) /\ R(j) = R(k) \cup {r}
    BY <1>1, <1>4, <2>2, <2>3
  <2>5. \A i \in 1 .. k : i \in 1 .. n /\ i < j
    BY <2>2
  <2>6. r \notin R(k)
    BY <2>2, <2>3, <2>5, <1>1
  <2>7. \A x \in RowId : parent[x] \in RowId => Position(rows, parent[x]) < Position(rows, x)
    BY DEF TreeInit
  <2>8. Position(rows, r) = j /\ \A i \in 1 .. k : Position(rows, rows[i]) = i
    BY <2>2, <2>3, <2>5, <1>1
  <2>9. parent[r] \in RowId => parent[r] \in R(k)
    <3> HAVE parent[r] \in RowId
    <3>1. PICK i \in 1 .. n : i = Position(rows, parent[r]) /\ rows[i] = parent[r]
      BY <1>1
    <3>2. i < j
      BY <3>1, <2>7, <2>8
    <3>3. i \in 1 .. k
      BY <3>2, <2>2
    <3>4. QED BY <3>1, <3>3
  <2>10. \A x \in R(k) : parent[x] # r
    <3> TAKE x \in R(k)
    <3> SUFFICES ASSUME parent[x] = r PROVE FALSE
      OBVIOUS
    <3>1. PICK i \in 1 .. k : x = rows[i]
      OBVIOUS
    <3>2. x \in RowId
      BY <2>4
    <3>3. j < i
      BY <2>7, <2>8, <3>1, <3>2
    <3>4. QED BY <3>3, <2>5, <2>2
  <2>11. d[j] = Place(r, d[k])
    BY <1>2, <2>2, <2>3
  <2> HIDE DEF R
  <2>12. Grown(R(k) \cup {r}, Place(r, d[k]))
    BY <2>4, <2>6, <2>9, <2>10, GrowsOn
  <2>13. QED BY <2>1, <2>4, <2>11, <2>12
<1>5. \A k \in Nat : k \in Good => k + 1 \in Good
  <2> TAKE k \in Nat
  <2> HAVE k \in Good
  <2>1. k + 1 \in 0 .. n => Grown(R(k + 1), d[k + 1])
    BY <1>4
  <2> HIDE DEF R
  <2>2. QED BY <2>1
<1>6. R(n) = RowId
  BY <1>1
<1> HIDE DEF Good, R
<1>7. Nat \subseteq Good
  BY <1>3, <1>5, FromZeroUp
<1>8. Grown(R(n), d[n])
  BY <1>7 DEF Good
<1>9. QED BY <1>2, <1>6, <1>8

\* Two lists one after the other.
LEMMA ListsJoined ==
    ASSUME NEW l, NEW S, Lists(l, S), NEW m, NEW T, Lists(m, T), S \cap T = {}
    PROVE  Lists(l \o m, S \cup T)
<1>1. /\ l \in Seq(RowId) /\ Range(l) = S /\ \A i, j \in DOMAIN l : l[i] = l[j] => i = j
      /\ m \in Seq(RowId) /\ Range(m) = T /\ \A i, j \in DOMAIN m : m[i] = m[j] => i = j
  BY DEF Lists
<1>2. PICK a \in Nat, b \in Nat : /\ a = Len(l) /\ DOMAIN l = 1 .. a
                                  /\ b = Len(m) /\ DOMAIN m = 1 .. b
  BY <1>1
<1>3. PICK c : c = l \o m
  OBVIOUS
<1>4. /\ c \in Seq(RowId) /\ DOMAIN c = 1 .. a + b
      /\ \A i \in 1 .. a : c[i] = l[i]
      /\ \A i \in 1 .. b : c[a + i] = m[i]
  BY <1>1, <1>2, <1>3
<1>5. \A i \in DOMAIN c : \/ i \in 1 .. a /\ c[i] = l[i] /\ c[i] \in S
                          \/ \E j \in 1 .. b : i = a + j /\ c[i] = m[j] /\ c[i] \in T
  <2> TAKE i \in DOMAIN c
  <2>1. CASE i \in 1 .. a
    BY <2>1, <1>1, <1>2, <1>4 DEF Range
  <2>2. CASE i \notin 1 .. a
    <3>1. PICK j \in 1 .. b : i = a + j
      <4>1. i - a \in 1 .. b /\ i = a + (i - a)
        BY <2>2, <1>4
      <4>2. QED BY <4>1
    <3>2. c[i] = m[j] /\ m[j] \in T
      BY <3>1, <1>1, <1>2, <1>4 DEF Range
    <3>3. QED BY <3>1, <3>2
  <2>3. QED BY <2>1, <2>2
<1>6. Range(c) = S \cup T
  <2>1. Range(c) \subseteq S \cup T
    BY <1>5 DEF Range
  <2>2. \A x \in S : \E i \in 1 .. a : x = c[i]
    BY <1>1, <1>2, <1>4 DEF Range
  <2>3. \A x \in T : \E i \in 1 .. b : x = c[a + i]
    BY <1>1, <1>2, <1>4 DEF Range
  <2>4. \A i \in 1 .. a : i \in DOMAIN c
    BY <1>4
  <2>5. \A i \in 1 .. b : a + i \in DOMAIN c
    BY <1>4
  <2>6. QED BY <2>1, <2>2, <2>3, <2>4, <2>5 DEF Range
<1>7. ASSUME NEW i \in DOMAIN c, NEW j \in DOMAIN c, c[i] = c[j] PROVE i = j
  BY <1>1, <1>2, <1>5, <1>7
<1>8. QED BY <1>3, <1>4, <1>6, <1>7 DEF Lists

\* The lists of the screen one after the other, as EveryRowOnce counts them.
Joined(lists) == FoldLeft(LAMBDA s, l : s \o l, <<>>, lists)

\* Its fold, list by list.
LEMMA JoinedStepwise ==
    ASSUME NEW n \in Nat, NEW lists \in [1 .. n -> Seq(RowId)]
    PROVE  \E d \in [0 .. n -> Seq(RowId)] :
             /\ Joined(lists) = d[n]
             /\ \A k \in 0 .. n : d[k] = IF k = 0 THEN <<>> ELSE d[k - 1] \o lists[k]
<1>0. PICK V : V = Seq(RowId)
  OBVIOUS
<1>1. DOMAIN lists = 1 .. n
  OBVIOUS
<1>2. PICK none \in V : none = <<>>
  <2>1. <<>> \in Seq(RowId)
    OBVIOUS
  <2>2. QED BY <2>1, <1>0
<1>3. PICK f \in [V \X (1 .. n) -> V] : \A v \in V, k \in 1 .. n : f[<<v, k>>] = v \o lists[k]
  <2> DEFINE f == [vx \in V \X (1 .. n) |-> vx[1] \o lists[vx[2]]]
  <2>1. \A v \in V, w \in V : v \o w \in V
    BY <1>0
  <2>2. f \in [V \X (1 .. n) -> V]
    BY <1>0, <2>1
  <2>3. \A v \in V, k \in 1 .. n : f[<<v, k>>] = v \o lists[k]
    OBVIOUS
  <2> HIDE DEF f
  <2>4. QED BY <2>2, <2>3
<1> DEFINE eq(r) == r = [s \in SUBSET (1 .. n) |->
               IF s = {} THEN <<>> ELSE r[s \ {Max(s)}] \o lists[Max(s)]]
<1>4. \A s \in SUBSET (1 .. n) : s # {} => Max(s) \in 1 .. n
  BY MaxIsIn
<1>5. PICK g \in LeftFolds(V, none, n, f) : TRUE
  BY <1>2, LeftFolded
<1>6. eq(g)
  <2>1. g = [s \in SUBSET (1 .. n) |-> g[s]] /\ \A s \in SUBSET (1 .. n) : g[s] \in V
    BY <1>5 DEF LeftFolds
  <2>2. ASSUME NEW s \in SUBSET (1 .. n), s # {}
        PROVE  g[s] = g[s \ {Max(s)}] \o lists[Max(s)]
    <3>1. g[s] = f[<<g[s \ {Max(s)}], Max(s)>>]
      BY <2>2, <1>5 DEF LeftFolds
    <3>2. g[s \ {Max(s)}] \in V /\ Max(s) \in 1 .. n
      BY <2>1, <2>2, <1>4
    <3>3. QED BY <3>1, <3>2, <1>3
  <2>3. g[{}] = <<>>
    BY <1>2, <1>5 DEF LeftFolds
  <2>4. QED BY <2>1, <2>2, <2>3
<1>7. PICK r : eq(r) /\ Joined(lists) = r[1 .. n]
  <2>1. Joined(lists) = (CHOOSE r : eq(r))[1 .. n]
    BY <1>1 DEF Joined, FoldLeft, MapThenFoldSet
  <2> HIDE DEF eq
  <2>2. eq(CHOOSE r : eq(r))
    BY <1>6
  <2>3. QED BY <2>1, <2>2
<1>8. FoldsLeft(V, none, n, f, r)
  <2>1. r[{}] = none
    BY <1>2, <1>7
  <2>2. ASSUME NEW s \in SUBSET (1 .. n), s # {}, r[s \ {Max(s)}] \in V
        PROVE  r[s] = f[<<r[s \ {Max(s)}], Max(s)>>]
    <3>1. r[s] = r[s \ {Max(s)}] \o lists[Max(s)]
      BY <1>7, <2>2
    <3>2. QED BY <3>1, <1>3, <1>4, <2>2
  <2>3. QED BY <2>1, <2>2 DEF FoldsLeft
<1> HIDE DEF eq
<1>9. PICK d \in LeftSteps(V, none, n, f) : r[1 .. n] = d[n]
  BY <1>8, LeftFoldIs
<1>10. d \in [0 .. n -> V] /\ \A k \in 0 .. n : d[k] = IF k = 0 THEN none ELSE f[<<d[k - 1], k>>]
  BY <1>9 DEF LeftSteps
<1>11. ASSUME NEW k \in 0 .. n, k # 0
       PROVE  d[k] = d[k - 1] \o lists[k]
  <2>1. k \in 1 .. n /\ k - 1 \in 0 .. n
    BY <1>11
  <2>2. QED BY <2>1, <1>3, <1>10, <1>11
<1>12. QED BY <1>0, <1>2, <1>7, <1>9, <1>10, <1>11

\* n lists without repetitions that share nothing.
Apart(n, lists, A) ==
    /\ n \in Nat /\ lists \in [1 .. n -> Seq(RowId)]
    /\ \A k \in 1 .. n : Lists(lists[k], A[k])
    /\ \A j, k \in 1 .. n : j # k => A[j] \cap A[k] = {}

\* They make one list of all.
LEMMA JoinedLists ==
    ASSUME NEW n, NEW lists, NEW A, Apart(n, lists, A)
    PROVE  Lists(Joined(lists), UNION {A[k] : k \in 1 .. n})
<1>0. /\ n \in Nat /\ lists \in [1 .. n -> Seq(RowId)]
      /\ \A k \in 1 .. n : Lists(lists[k], A[k])
      /\ \A j, k \in 1 .. n : j # k => A[j] \cap A[k] = {}
  BY DEF Apart
<1>1. PICK d \in [0 .. n -> Seq(RowId)] :
        /\ Joined(lists) = d[n]
        /\ \A k \in 0 .. n : d[k] = IF k = 0 THEN <<>> ELSE d[k - 1] \o lists[k]
  BY <1>0, JoinedStepwise
<1> DEFINE U(k) == UNION {A[j] : j \in 1 .. k}
           Good == {k \in Nat : k \in 0 .. n => Lists(d[k], U(k))}
<1>2. 0 \in Good
  <2>0. n \in Nat
    BY <1>0
  <2>1. U(0) = {}
    <3>1. 1 .. 0 = {}
      OBVIOUS
    <3>2. QED BY <3>1
  <2>3. d[0] = <<>>
    <3>1. 0 \in 0 .. n
      BY <2>0
    <3>2. QED BY <3>1, <1>1
  <2> HIDE DEF U
  <2>2. QED BY <2>1, <2>3, ListsNothing
<1>3. ASSUME NEW k \in Nat, k \in Good, k + 1 \in 0 .. n PROVE Lists(d[k + 1], U(k + 1))
  <2>1. PICK j : j = k + 1
    OBVIOUS
  <2>2. j \in 1 .. n /\ j \in 0 .. n /\ j # 0 /\ k \in 0 .. n /\ j - 1 = k /\ 1 .. j = (1 .. k) \cup {j}
    BY <2>1, <1>3, <1>0
  <2>3. U(j) = U(k) \cup A[j]
    <3>1. \A i : i \in 1 .. j <=> i \in 1 .. k \/ i = j
      BY <2>2
    <3>2. \A x : (\E i \in 1 .. j : x \in A[i]) <=> (\E i \in 1 .. k : x \in A[i]) \/ x \in A[j]
      BY <3>1
    <3>3. \A x : x \in U(j) <=> \E i \in 1 .. j : x \in A[i]
      OBVIOUS
    <3>4. \A x : x \in U(k) <=> \E i \in 1 .. k : x \in A[i]
      OBVIOUS
    <3> HIDE DEF U
    <3>5. QED BY <3>2, <3>3, <3>4
  <2>4. \A i \in 1 .. k : i \in 1 .. n /\ i # j
    BY <2>1, <2>2, <1>0
  <2>5. U(k) \cap A[j] = {}
    <3>1. \A i \in 1 .. k : A[i] \cap A[j] = {}
      BY <2>2, <2>4, <1>0
    <3>2. \A x : x \in U(k) => \E i \in 1 .. k : x \in A[i]
      OBVIOUS
    <3> HIDE DEF U
    <3>3. QED BY <3>1, <3>2
  <2>6. Lists(d[k], U(k)) /\ d[j] = d[k] \o lists[j]
    BY <1>1, <1>3, <2>2
  <2> HIDE DEF U
  <2>7. Lists(d[k] \o lists[j], U(k) \cup A[j])
    BY <2>2, <2>5, <2>6, <1>0, ListsJoined
  <2>8. QED BY <2>1, <2>3, <2>6, <2>7
<1>4. \A k \in Nat : k \in Good => k + 1 \in Good
  <2> TAKE k \in Nat
  <2> HAVE k \in Good
  <2>1. k + 1 \in 0 .. n => Lists(d[k + 1], U(k + 1))
    BY <1>3
  <2> HIDE DEF U
  <2>2. QED BY <2>1
<1> HIDE DEF Good
<1>5. Nat \subseteq Good
  BY <1>2, <1>4, FromZeroUp
<1> HIDE DEF U
<1>6. Lists(d[n], U(n))
  BY <1>5, <1>0 DEF Good
<1>7. QED BY <1>1, <1>6 DEF U

\* A list without repetitions has as many places as elements.
LEMMA ListsCount ==
    ASSUME NEW l, NEW S, Lists(l, S), IsFiniteSet(S)
    PROVE  Len(l) = Cardinality(S)
<1>1. l \in Seq(RowId) /\ Range(l) = S /\ \A i, j \in DOMAIN l : l[i] = l[j] => i = j
  BY DEF Lists
<1>2. PICK n \in Nat : n = Len(l) /\ DOMAIN l = 1 .. n
  BY <1>1
<1>3. PICK m : m = [i \in 1 .. n |-> l[i]]
  OBVIOUS
<1>4. m \in Bijection(1 .. n, S)
  <2>1. m \in [1 .. n -> S] /\ \A s \in S : \E i \in 1 .. n : m[i] = s
    BY <1>1, <1>2, <1>3 DEF Range
  <2>2. \A i, j \in 1 .. n : m[i] = m[j] => i = j
    BY <1>1, <1>2, <1>3
  <2>3. QED BY <2>1, <2>2 DEF Bijection, Injection, Surjection, IsInjective
<1>5. Cardinality(S) = n
  BY <1>4, FS_CountingElements DEF ExistsBijection
<1>6. QED BY <1>2, <1>5

\* The lists of the screen.
LEMMA RowsOnce == TreeInit => EveryRowOnce
<1> SUFFICES ASSUME TreeInit PROVE EveryRowOnce
  OBVIOUS
<1>1. PICK n \in Nat :
        /\ n = Cardinality(RowId) /\ Len(rows) = n /\ rows \in [1 .. n -> RowId]
        /\ \A i, j \in 1 .. n : rows[i] = rows[j] => i = j
        /\ \A r \in RowId : Position(rows, r) \in 1 .. n /\ rows[Position(rows, r)] = r
  BY AnswerIs
<1>2. PICK tree : tree = BuildTree
  OBVIOUS
<1>3. /\ tree \in Forest /\ DOMAIN tree.below = RowId
      /\ Lists(tree.roots, {r \in RowId : parent[r] \notin RowId})
      /\ \A x \in RowId : Lists(tree.below[x], {r \in RowId : parent[r] = x})
  BY <1>2, TreeIs DEF Grown
<1>4. PICK W : W = Seq(RowId)
  OBVIOUS
<1>5. tree.roots \in W /\ \A x \in RowId : tree.below[x] \in W
  BY <1>3, <1>4 DEF Lists
<1>6. PICK under \in [1 .. n -> W] : under = [i \in 1 .. n |-> tree.below[rows[i]]]
  <2>1. \A i \in 1 .. n : rows[i] \in RowId
    BY <1>1
  <2>2. [i \in 1 .. n |-> tree.below[rows[i]]] \in [1 .. n -> W]
    BY <2>1, <1>5
  <2>3. QED BY <2>2
<1>7. PICK lists : lists = <<tree.roots>> \o under
  OBVIOUS
<1>8. /\ lists \in [1 .. n + 1 -> W] /\ lists[1] = tree.roots
      /\ \A i \in 1 .. n : lists[i + 1] = under[i]
  <2>1. PICK first \in W : first = tree.roots
    BY <1>5
  <2>2. lists = <<first>> \o under
    BY <1>7, <2>1
  <2>3. under \in Seq(W) /\ Len(under) = n /\ <<first>> \in Seq(W) /\ Len(<<first>>) = 1
    BY <1>6
  <2>4. lists \in Seq(W) /\ Len(lists) = n + 1
    BY <2>2, <2>3
  <2>5. lists[1] = first /\ \A i \in 1 .. n : lists[i + 1] = under[i]
    BY <2>2, <2>3
  <2>6. QED BY <2>1, <2>4, <2>5
<1>9. PICK A : /\ A[1] = {r \in RowId : parent[r] \notin RowId}
               /\ \A i \in 1 .. n : A[i + 1] = {r \in RowId : parent[r] = rows[i]}
  <2> DEFINE A == [k \in 1 .. n + 1 |-> IF k = 1 THEN {r \in RowId : parent[r] \notin RowId}
                                        ELSE {r \in RowId : parent[r] = rows[k - 1]}]
  <2>1. 1 \in 1 .. n + 1 /\ \A i \in 1 .. n : i + 1 \in 1 .. n + 1 /\ i + 1 # 1 /\ (i + 1) - 1 = i
    OBVIOUS
  <2>2. A[1] = {r \in RowId : parent[r] \notin RowId}
    BY <2>1
  <2>3. \A i \in 1 .. n : A[i + 1] = {r \in RowId : parent[r] = rows[i]}
    BY <2>1
  <2> HIDE DEF A
  <2>4. QED BY <2>2, <2>3
<1>10. \A k \in 1 .. n + 1 : k = 1 \/ \E i \in 1 .. n : k = i + 1
  <2> TAKE k \in 1 .. n + 1
  <2>1. k # 1 => k - 1 \in 1 .. n /\ k = (k - 1) + 1
    OBVIOUS
  <2>2. QED BY <2>1
<1>11. \A k \in 1 .. n + 1 : Lists(lists[k], A[k])
  <2>1. Lists(lists[1], A[1])
    BY <1>3, <1>8, <1>9
  <2>2. \A i \in 1 .. n : Lists(lists[i + 1], A[i + 1])
    <3> TAKE i \in 1 .. n
    <3>1. rows[i] \in RowId
      BY <1>1
    <3>2. lists[i + 1] = tree.below[rows[i]]
      BY <1>6, <1>8
    <3>3. A[i + 1] = {r \in RowId : parent[r] = rows[i]}
      BY <1>9
    <3>4. Lists(tree.below[rows[i]], {r \in RowId : parent[r] = rows[i]})
      BY <3>1, <1>3
    <3>5. QED BY <3>2, <3>3, <3>4
  <2>3. QED BY <2>1, <2>2, <1>10
<1>12. \A j, k \in 1 .. n + 1 : j # k => A[j] \cap A[k] = {}
  <2>1. \A i \in 1 .. n : A[1] \cap A[i + 1] = {}
    <3>1. \A i \in 1 .. n : rows[i] \in RowId
      BY <1>1
    <3>2. QED BY <3>1, <1>9
  <2>2. \A i, j \in 1 .. n : i # j => A[i + 1] \cap A[j + 1] = {}
    <3> TAKE i, j \in 1 .. n
    <3> HAVE i # j
    <3>1. rows[i] # rows[j]
      BY <1>1
    <3>2. A[i + 1] = {r \in RowId : parent[r] = rows[i]} /\ A[j + 1] = {r \in RowId : parent[r] = rows[j]}
      BY <1>9
    <3>3. QED BY <3>1, <3>2
  <2>3. QED BY <2>1, <2>2, <1>10
<1>13. UNION {A[k] : k \in 1 .. n + 1} = RowId
  <2>1. \A k \in 1 .. n + 1 : A[k] \subseteq RowId
    BY <1>9, <1>10
  <2>2. ASSUME NEW r \in RowId PROVE \E k \in 1 .. n + 1 : r \in A[k]
    <3>1. CASE parent[r] \notin RowId
      <4>1. r \in A[1] /\ 1 \in 1 .. n + 1
        BY <3>1, <1>9
      <4>2. QED BY <4>1
    <3>2. CASE parent[r] \in RowId
      <4>1. PICK i \in 1 .. n : rows[i] = parent[r]
        BY <3>2, <1>1
      <4>2. r \in A[i + 1] /\ i + 1 \in 1 .. n + 1
        BY <4>1, <1>9
      <4>3. QED BY <4>2
    <3>3. QED BY <3>1, <3>2
  <2>3. QED BY <2>1, <2>2
<1>14. PICK shown : shown = Joined(lists)
  OBVIOUS
<1>15. Lists(shown, RowId)
  <2>1. PICK m \in Nat : m = n + 1
    OBVIOUS
  <2>4. lists \in [1 .. m -> Seq(RowId)]
    BY <2>1, <1>4, <1>8
  <2>5. /\ \A k \in 1 .. m : Lists(lists[k], A[k])
        /\ \A j, k \in 1 .. m : j # k => A[j] \cap A[k] = {}
    BY <2>1, <1>11, <1>12
  <2>6. Lists(Joined(lists), UNION {A[k] : k \in 1 .. m})
    <3>1. Apart(m, lists, A)
      BY <2>4, <2>5 DEF Apart
    <3>2. QED BY <3>1, JoinedLists
  <2>2. Lists(Joined(lists), UNION {A[k] : k \in 1 .. n + 1})
    BY <2>1, <2>6
  <2>3. QED BY <2>2, <1>13, <1>14
<1>16. Len(shown) = Len(rows) /\ Range(shown) = RowId
  BY <1>1, <1>15, ListsCount, AnswerAssumption DEF Lists
<1>17. \A r \in RowId : Contains(tree.roots, r) <=> parent[r] \notin RowId
  <2>1. Range(tree.roots) = {r \in RowId : parent[r] \notin RowId} /\ tree.roots \in Seq(RowId)
    BY <1>3 DEF Lists
  <2>2. DOMAIN tree.roots = 1 .. Len(tree.roots)
    BY <2>1
  <2>3. \A r : Contains(tree.roots, r) <=> r \in Range(tree.roots)
    BY <2>2 DEF Contains, Range
  <2>4. QED BY <2>1, <2>3
<1>18. lists = <<tree.roots>> \o [i \in 1 .. Len(rows) |-> tree.below[rows[i]]]
  BY <1>1, <1>6, <1>7
<1>19. QED BY <1>2, <1>14, <1>16, <1>17, <1>18 DEF EveryRowOnce, Joined

Children(x) == {r \in RowId : parent[r] = x}

\* What aggregateFromChildren makes of a row, if sd is what it makes of others.
SpentRight(sd, x) ==
    sd[x] = IF Children(x) = {} THEN spent_by[x] ELSE SumOn(sd, Children(x))

\* The places of the rows of an answer: a parent's is before its children's.
PlacesOf(n, at) ==
    /\ n \in Nat /\ at \in [RowId -> 1 .. n]
    /\ \A r, s \in RowId : at[r] = at[s] => r = s
    /\ \A i \in 1 .. n : \E r \in RowId : at[r] = i
    /\ \A x \in RowId : \A r \in Children(x) : at[x] < at[r]

\* ORDER BY path gives such places.
LEMMA PlacesExist == TreeInit => \E n, at : PlacesOf(n, at)
<1> SUFFICES ASSUME TreeInit PROVE \E n, at : PlacesOf(n, at)
  OBVIOUS
<1>1. PICK n \in Nat :
        /\ rows \in [1 .. n -> RowId]
        /\ \A r \in RowId : Position(rows, r) \in 1 .. n /\ rows[Position(rows, r)] = r
        /\ \A i \in 1 .. n : Position(rows, rows[i]) = i
  BY AnswerIs
<1>2. \A r \in RowId : parent[r] \in RowId => Position(rows, parent[r]) < Position(rows, r)
  BY DEF TreeInit
<1>3. PICK at \in [RowId -> 1 .. n] : \A r \in RowId : at[r] = Position(rows, r)
  <2>1. [r \in RowId |-> Position(rows, r)] \in [RowId -> 1 .. n]
    BY <1>1
  <2>2. QED BY <2>1
<1>4. \A r, s \in RowId : at[r] = at[s] => r = s
  <2> TAKE r, s \in RowId
  <2>1. rows[at[r]] = r /\ rows[at[s]] = s
    BY <1>1, <1>3
  <2>2. QED BY <2>1
<1>5. \A i \in 1 .. n : \E r \in RowId : at[r] = i
  <2> TAKE i \in 1 .. n
  <2>1. rows[i] \in RowId /\ at[rows[i]] = i
    BY <1>1, <1>3
  <2>2. QED BY <2>1
<1>6. \A x \in RowId : \A r \in Children(x) : at[x] < at[r]
  BY <1>2, <1>3 DEF Children
<1>7. QED BY <1>4, <1>5, <1>6 DEF PlacesOf

\* Children are finitely many rows.
LEMMA ChildrenFinite == \A x : IsFiniteSet(Children(x)) /\ Children(x) \subseteq RowId
<1> TAKE x
<1>1. Children(x) \subseteq RowId
  BY DEF Children
<1>2. QED BY <1>1, AnswerAssumption, FS_Subset

\* The amounts of all rows exist: from the last row up.
LEMMA SpentExists ==
    ASSUME TreeInit
    PROVE  \E sd \in [RowId -> Int] : \A x \in RowId : SpentRight(sd, x)
<1>1. PICK n, at : PlacesOf(n, at)
  BY PlacesExist
<1>2. /\ n \in Nat /\ at \in [RowId -> 1 .. n]
      /\ \A r, s \in RowId : at[r] = at[s] => r = s
      /\ \A i \in 1 .. n : \E r \in RowId : at[r] = i
      /\ \A x \in RowId : \A r \in Children(x) : at[x] < at[r]
  BY <1>1 DEF PlacesOf
<1>3. \A x \in RowId : spent_by[x] \in Int
  BY AnswerAssumption DEF TreeInit
<1> DEFINE Done(k, f) == \A x \in RowId : at[x] > n - k => SpentRight(f, x)
           Good == {k \in Nat : k \in 0 .. n => \E f \in [RowId -> Int] : Done(k, f)}
<1>4. 0 \in Good
  <2>1. [x \in RowId |-> 0] \in [RowId -> Int]
    OBVIOUS
  <2>2. \A x \in RowId : ~ (at[x] > n - 0)
    BY <1>2
  <2>3. QED BY <2>1, <2>2
<1>5. ASSUME NEW k \in Nat, k \in Good, k + 1 \in 0 .. n
      PROVE  \E f \in [RowId -> Int] : Done(k + 1, f)
  <2>1. k \in 0 .. n /\ n - k \in 1 .. n
    BY <1>2, <1>5
  <2>2. PICK f \in [RowId -> Int] : Done(k, f)
    BY <2>1, <1>5
  <2>3. PICK y \in RowId : at[y] = n - k
    BY <2>1, <1>2
  <2>4. PICK v : v = IF Children(y) = {} THEN spent_by[y] ELSE SumOn(f, Children(y))
    OBVIOUS
  <2>5. v \in Int
    <3>1. SumOn(f, Children(y)) \in Int
      <4>1. \A x \in Children(y) : f[x] \in Int
        BY ChildrenFinite
      <4>2. QED BY <4>1, ChildrenFinite, SumTakesAny
    <3>2. QED BY <3>1, <2>4, <1>3
  <2>6. PICK g \in [RowId -> Int] : g[y] = v /\ \A x \in RowId : x # y => g[x] = f[x]
    <3>1. [f EXCEPT ![y] = v] \in [RowId -> Int]
      BY <2>5
    <3>2. QED BY <3>1
  <2>7. ASSUME NEW x \in RowId, at[x] > n - (k + 1) PROVE SpentRight(g, x)
    <3>1. y \notin Children(x)
      <4>1. at[x] \in Int /\ at[y] \in Int /\ ~ (at[x] < at[y])
        BY <2>1, <2>3, <2>7, <1>2
      <4>2. QED BY <4>1, <1>2
    <3>2. \A r \in Children(x) : f[r] \in Int /\ g[r] = f[r]
      BY <3>1, <2>6, ChildrenFinite
    <3>3. SumOn(f, Children(x)) = SumOn(g, Children(x))
      BY <3>2, ChildrenFinite, SumSame
    <3>4. CASE x = y
      BY <3>3, <3>4, <2>4, <2>6 DEF SpentRight
    <3>5. CASE x # y
      <4>1. at[x] \in Int /\ at[x] # n - k
        BY <3>5, <2>3, <1>2
      <4>2. at[x] > n - k
        BY <4>1, <2>7, <1>2
      <4>3. SpentRight(f, x)
        BY <4>2, <2>2
      <4>4. QED BY <4>3, <3>3, <3>5, <2>6 DEF SpentRight
    <3>6. QED BY <3>4, <3>5
  <2>8. QED BY <2>6, <2>7
<1>6. \A k \in Nat : k \in Good => k + 1 \in Good
  <2> TAKE k \in Nat
  <2> HAVE k \in Good
  <2>1. k + 1 \in 0 .. n => \E f \in [RowId -> Int] : Done(k + 1, f)
    BY <1>5
  <2> HIDE DEF Done
  <2>2. QED BY <2>1
<1> HIDE DEF Good
<1>7. Nat \subseteq Good
  BY <1>4, <1>6, FromZeroUp
<1>8. PICK f \in [RowId -> Int] : Done(n, f)
  <2>1. n \in Nat /\ n \in 0 .. n
    BY <1>2
  <2> HIDE DEF Done
  <2>2. QED BY <2>1, <1>7 DEF Good
<1>9. \A x \in RowId : at[x] > n - n
  BY <1>2
<1>10. QED BY <1>8, <1>9

\* Right amounts are numbers: from the last row up.
LEMMA SpentIsInt ==
    ASSUME TreeInit, NEW sd, \A x \in RowId : SpentRight(sd, x)
    PROVE  \A x \in RowId : sd[x] \in Int
<1>1. PICK n, at : PlacesOf(n, at)
  BY PlacesExist
<1>2. /\ n \in Nat /\ at \in [RowId -> 1 .. n]
      /\ \A x \in RowId : \A r \in Children(x) : at[x] < at[r]
  BY <1>1 DEF PlacesOf
<1>3. \A x \in RowId : spent_by[x] \in Int
  BY AnswerAssumption DEF TreeInit
<1> DEFINE Good == {k \in Nat : \A x \in RowId : at[x] > n - k => sd[x] \in Int}
<1>4. 0 \in Good
  <2>1. \A x \in RowId : ~ (at[x] > n - 0)
    BY <1>2
  <2>2. QED BY <2>1
<1>5. ASSUME NEW k \in Nat, k \in Good PROVE k + 1 \in Good
  <2>1. ASSUME NEW x \in RowId, at[x] > n - (k + 1) PROVE sd[x] \in Int
    <3>1. \A r \in Children(x) : r \in RowId /\ at[r] > n - k
      <4> TAKE r \in Children(x)
      <4>1. r \in RowId
        BY ChildrenFinite
      <4>2. at[x] < at[r] /\ at[x] \in Int /\ at[r] \in Int
        BY <4>1, <1>2
      <4>3. QED BY <4>1, <4>2, <2>1, <1>2
    <3>2. \A r \in Children(x) : sd[r] \in Int
      BY <3>1, <1>5
    <3>3. SumOn(sd, Children(x)) \in Int
      BY <3>2, ChildrenFinite, SumTakesAny
    <3>4. QED BY <3>3, <1>3 DEF SpentRight
  <2>2. QED BY <2>1
<1> HIDE DEF Good
<1>6. Nat \subseteq Good
  BY <1>4, <1>5, FromZeroUp
<1>7. n \in Good
  BY <1>2, <1>6
<1>8. \A x \in RowId : at[x] > n - n
  BY <1>2
<1>9. QED BY <1>7, <1>8 DEF Good

\* So aggregateFromChildren computes them.
LEMMA AggregateIs ==
    ASSUME TreeInit, NEW below, \A x \in RowId : Lists(below[x], Children(x))
    PROVE  LET sd == Aggregate(below)
           IN  \A x \in RowId : SpentRight(sd, x) /\ sd[x] \in Int
<1> DEFINE eq(sd) == sd = [r \in RowId |-> IF below[r] = <<>> THEN spent_by[r] ELSE SumOf(sd, Range(below[r]))]
<1>1. \A x \in RowId : Range(below[x]) = Children(x) /\ below[x] \in Seq(RowId)
  BY DEF Lists
<1>2. \A x \in RowId : below[x] = <<>> <=> Children(x) = {}
  <2> TAKE x \in RowId
  <2>1. PICK l \in Seq(RowId) : l = below[x]
    BY <1>1
  <2>2. l = <<>> <=> DOMAIN l = {}
    OBVIOUS
  <2>3. DOMAIN l = {} <=> Range(l) = {}
    BY DEF Range
  <2>4. QED BY <2>1, <2>2, <2>3, <1>1
<1>3. \A sd : \A x \in RowId : SumOf(sd, Range(below[x])) = SumOn(sd, Children(x))
  BY <1>1, SumOfIsSum
<1>4. PICK f \in [RowId -> Int] : \A x \in RowId : SpentRight(f, x)
  BY SpentExists
<1>5. eq(f)
  <2>1. f = [r \in RowId |-> f[r]]
    OBVIOUS
  <2>2. \A r \in RowId : f[r] = IF below[r] = <<>> THEN spent_by[r] ELSE SumOf(f, Range(below[r]))
    BY <1>2, <1>3, <1>4 DEF SpentRight
  <2>3. QED BY <2>1, <2>2
<1>6. PICK sd : eq(sd) /\ Aggregate(below) = sd
  <2>1. Aggregate(below) = CHOOSE sd : eq(sd)
    BY DEF Aggregate
  <2> HIDE DEF eq
  <2>2. eq(CHOOSE sd : eq(sd))
    BY <1>5
  <2>3. QED BY <2>1, <2>2
<1>7. \A x \in RowId : SpentRight(sd, x)
  <2> TAKE x \in RowId
  <2>1. sd[x] = IF below[x] = <<>> THEN spent_by[x] ELSE SumOf(sd, Range(below[x]))
    BY <1>6
  <2>2. QED BY <2>1, <1>2, <1>3 DEF SpentRight
<1>8. \A x \in RowId : sd[x] \in Int
  BY <1>7, SpentIsInt
<1>9. QED BY <1>6, <1>7, <1>8

\* The rows without children among the first k, and the rows after them whose
\* parent is among them or not in the answer: each leaf counted once.
Frontier(at, k) ==
    {r \in RowId : \/ at[r] <= k /\ Children(r) = {}
                   \/ at[r] > k /\ (parent[r] \notin RowId \/ at[parent[r]] <= k)}

\* To pass a row is to put its children in its place: the sum stays.
LEMMA FrontierMoves ==
    ASSUME NEW n, NEW at, PlacesOf(n, at), NEW sd,
           \A x \in RowId : SpentRight(sd, x) /\ sd[x] \in Int,
           NEW k \in 0 .. n - 1
    PROVE  SumOn(sd, Frontier(at, k + 1)) = SumOn(sd, Frontier(at, k))
<1>1. /\ n \in Nat /\ at \in [RowId -> 1 .. n]
      /\ \A r, s \in RowId : at[r] = at[s] => r = s
      /\ \A i \in 1 .. n : \E r \in RowId : at[r] = i
      /\ \A x \in RowId : \A r \in Children(x) : at[x] < at[r]
  BY DEF PlacesOf
<1>2. PICK j \in 1 .. n : j = k + 1
  BY <1>1
<1>3. PICK y \in RowId : at[y] = j
  BY <1>1
<1>4. PICK F : F = Frontier(at, k)
  OBVIOUS
<1>5. \A r \in RowId : at[r] \in Int /\ (at[r] <= j <=> at[r] <= k \/ r = y) /\ (at[r] > j <=> at[r] > k /\ r # y)
  <2> TAKE r \in RowId
  <2>1. at[r] \in Int /\ (at[r] = j <=> r = y)
    BY <1>1, <1>3
  <2>2. QED BY <2>1, <1>2, <1>1
<1>6. parent[y] \in RowId => at[parent[y]] <= k
  <2> HAVE parent[y] \in RowId
  <2>1. y \in Children(parent[y])
    BY DEF Children
  <2>2. at[parent[y]] < at[y] /\ at[parent[y]] \in Int
    BY <2>1, <1>1
  <2>3. QED BY <2>2, <1>2, <1>3, <1>1
<1>7. y \in F
  BY <1>3, <1>2, <1>1, <1>4, <1>6 DEF Frontier
<1>8. F \subseteq RowId /\ IsFiniteSet(F)
  <2>1. F \subseteq RowId
    BY <1>4 DEF Frontier
  <2>2. QED BY <2>1, AnswerAssumption, FS_Subset
<1>9. \A r \in Children(y) : r \in RowId /\ parent[r] = y /\ at[r] > j /\ r # y /\ r \notin F
  <2> TAKE r \in Children(y)
  <2>1. r \in RowId /\ parent[r] = y
    BY DEF Children
  <2>2. at[r] > j /\ at[r] \in Int
    BY <2>1, <1>1, <1>3
  <2>3. r # y /\ ~ (at[r] <= k) /\ ~ (at[y] <= k)
    BY <2>1, <2>2, <1>1, <1>2, <1>3
  <2>4. QED BY <2>1, <2>2, <2>3, <1>4 DEF Frontier
<1>10. Frontier(at, j) = IF Children(y) = {} THEN F ELSE (F \ {y}) \cup Children(y)
  <2>1. ASSUME NEW r \in RowId, r # y
        PROVE  r \in Frontier(at, j) <=> r \in F \/ r \in Children(y)
    <3>1. at[r] <= j <=> at[r] <= k
      BY <2>1, <1>5
    <3>2. at[r] > j <=> at[r] > k
      BY <2>1, <1>5
    <3>3. parent[r] \in RowId => (at[parent[r]] <= j <=> at[parent[r]] <= k \/ r \in Children(y))
      BY <1>5 DEF Children
    <3>4. r \in Children(y) => at[r] > j
      BY <1>9
    <3>5. r \in Children(y) => parent[r] \in RowId
      BY DEF Children
    <3>6. at[r] > k <=> ~ (at[r] <= k)
      BY <1>5, <1>2, <1>1
    <3>7. QED BY <3>1, <3>2, <3>3, <3>4, <3>5, <3>6, <1>4 DEF Frontier
  <2>2. y \in Frontier(at, j) <=> Children(y) = {}
    BY <1>5, <1>3, <1>1 DEF Frontier
  <2>3. Frontier(at, j) \subseteq RowId /\ Children(y) \subseteq RowId
    BY DEF Frontier, Children
  <2>4. PICK G : G = Frontier(at, j)
    OBVIOUS
  <2>5. PICK C : C = Children(y)
    OBVIOUS
  <2>6. /\ \A r \in RowId : r # y => (r \in G <=> r \in F \/ r \in C)
        /\ y \in G <=> C = {}
        /\ G \subseteq RowId /\ C \subseteq RowId /\ F \subseteq RowId /\ y \in F /\ y \notin C
    BY <2>1, <2>2, <2>3, <2>4, <2>5, <1>7, <1>8, <1>9
  <2>7. CASE C = {}
    <3>1. G = F
      BY <2>6, <2>7
    <3>2. QED BY <3>1, <2>4, <2>5, <2>7
  <2>8. CASE C # {}
    <3>1. G = (F \ {y}) \cup C
      BY <2>6, <2>8
    <3>2. QED BY <3>1, <2>4, <2>5, <2>8
  <2>9. QED BY <2>7, <2>8
<1>11. CASE Children(y) = {}
  BY <1>2, <1>4, <1>10, <1>11
<1>12. CASE Children(y) # {}
  <2>1. PICK E : E = F \ {y}
    OBVIOUS
  <2>2. IsFiniteSet(E) /\ E \cap Children(y) = {} /\ E \subseteq RowId /\ Children(y) \subseteq RowId
    BY <2>1, <1>8, <1>9, FS_Subset
  <2>3. \A x \in E \cup Children(y) : sd[x] \in Int
    BY <2>2
  <2>4. SumOn(sd, E \cup Children(y)) = SumOn(sd, E) + SumOn(sd, Children(y))
    BY <2>2, <2>3, ChildrenFinite, SumTogether
  <2>5. SumOn(sd, Children(y)) = sd[y]
    BY <1>12 DEF SpentRight
  <2>6. SumOn(sd, F) = sd[y] + SumOn(sd, E)
    BY <2>1, <1>7, <1>8, SumTakesAny
  <2>7. SumOn(sd, E) \in Int /\ sd[y] \in Int
    BY <2>2, <2>3, SumTakesAny
  <2>8. SumOn(sd, Frontier(at, j)) = SumOn(sd, E) + sd[y]
    BY <2>1, <2>4, <2>5, <1>10, <1>12
  <2>9. QED BY <2>6, <2>7, <2>8, <1>2, <1>4
<1>13. QED BY <1>11, <1>12

\* From the top rows to the leaves.
LEMMA TopIsLeaves == TreeInit => TopIsSumOfLeaves
<1> SUFFICES ASSUME TreeInit PROVE TopIsSumOfLeaves
  OBVIOUS
<1>1. PICK tree : tree = BuildTree
  OBVIOUS
<1>2. /\ Range(tree.roots) = {r \in RowId : parent[r] \notin RowId}
      /\ \A x \in RowId : Lists(tree.below[x], Children(x))
  BY <1>1, TreeIs DEF Grown, Lists, Children
<1>3. PICK sd : /\ sd = Aggregate(tree.below)
                /\ \A x \in RowId : SpentRight(sd, x) /\ sd[x] \in Int
  BY <1>2, AggregateIs
<1>4. PICK n, at : PlacesOf(n, at)
  BY PlacesExist
<1>5. n \in Nat /\ at \in [RowId -> 1 .. n]
  BY <1>4 DEF PlacesOf
<1> DEFINE Good == {k \in Nat : k \in 0 .. n => SumOn(sd, Frontier(at, k)) = SumOn(sd, Frontier(at, 0))}
<1>6. 0 \in Good
  OBVIOUS
<1>7. ASSUME NEW k \in Nat, k \in Good PROVE k + 1 \in Good
  <2>1. k + 1 \in 0 .. n => k \in 0 .. n - 1 /\ k \in 0 .. n
    BY <1>5
  <2>2. k + 1 \in 0 .. n => SumOn(sd, Frontier(at, k + 1)) = SumOn(sd, Frontier(at, k))
    BY <2>1, <1>3, <1>4, FrontierMoves
  <2>3. QED BY <2>1, <2>2, <1>7
<1> HIDE DEF Good
<1>8. Nat \subseteq Good
  BY <1>6, <1>7, FromZeroUp
<1>9. SumOn(sd, Frontier(at, n)) = SumOn(sd, Frontier(at, 0))
  <2>1. n \in Good /\ n \in 0 .. n
    BY <1>5, <1>8
  <2>2. QED BY <2>1 DEF Good
<1>10. Frontier(at, 0) = Range(tree.roots)
  <2>1. \A r \in RowId : at[r] \in 1 .. n
    BY <1>5
  <2>2. \A r \in RowId : ~ (at[r] <= 0) /\ at[r] > 0
    BY <2>1, <1>5
  <2>3. QED BY <2>2, <1>2 DEF Frontier
<1>11. PICK leaves : leaves = {r \in RowId : ~ \E c \in RowId : parent[c] = r}
  OBVIOUS
<1>12. Frontier(at, n) = leaves
  <2>1. \A r \in RowId : at[r] <= n /\ ~ (at[r] > n)
    BY <1>5
  <2>2. \A r \in RowId : Children(r) = {} <=> ~ \E c \in RowId : parent[c] = r
    BY DEF Children
  <2>3. QED BY <2>1, <2>2, <1>11 DEF Frontier
<1>13. SumOn(spent_by, leaves) = SumOn(sd, leaves)
  <2>1. leaves \subseteq RowId /\ \A x \in leaves : Children(x) = {}
    BY <1>11 DEF Children
  <2>2. IsFiniteSet(leaves)
    BY <2>1, AnswerAssumption, FS_Subset
  <2>3. \A x \in leaves : sd[x] = spent_by[x] /\ sd[x] \in Int
    BY <2>1, <1>3 DEF SpentRight
  <2>4. QED BY <2>2, <2>3, SumSame
<1>14. SumOf(sd, Range(tree.roots)) = SumOf(spent_by, leaves)
  BY <1>9, <1>10, <1>12, <1>13, SumOfIsSum
<1>15. QED BY <1>1, <1>3, <1>11, <1>14 DEF TopIsSumOfLeaves

-----------------------------------------------------------------------------
\* The tree is a function of an answer, which stays as it is.
AnswerSpec == TreeInit /\ [][FALSE]_treeVars

\* So its rows stay those of an answer.
LEMMA AnswerStays == TreeInit /\ [FALSE]_treeVars => TreeInit'
<1> SUFFICES ASSUME TreeInit, UNCHANGED treeVars PROVE TreeInit'
  OBVIOUS
<1>1. rows' = rows /\ parent' = parent /\ spent_by' = spent_by
  BY DEF treeVars
<1>2. QED BY <1>1 DEF TreeInit

\* Every row of an answer of any size is on the screen exactly once, at the top
\* if its parent is not in the answer (buildTree, useAnggaran.ts:60-83).
THEOREM RowsShownOnce == AnswerSpec => []EveryRowOnce
BY AnswerStays, RowsOnce, PTL DEF AnswerSpec

\* What the top rows add up to is what the rows without children spent, for every
\* tree: no amount is counted at two levels (aggregateFromChildren).
THEOREM NoAmountTwice == AnswerSpec => []TopIsSumOfLeaves
BY AnswerStays, TopIsLeaves, PTL DEF AnswerSpec

-----------------------------------------------------------------------------
(* The merged tree (MergeView): codes, endings, and what is found by them.   *)

Sign == (UNION Range(Codes)) \cup {"0"}

LEMMA ZeroIsSign == "0" \in Sign
BY DEF Sign

\* The row and the codes of a path.
LEMMA PathIs ==
    ASSUME NEW p \in RowPaths
    PROVE  \E n \in 1 .. Len(Codes) : /\ p \in [1 .. n -> Sign] /\ p \in Seq(Sign) /\ Len(p) = n
                                      /\ \A l \in 1 .. n : p[l] \in Codes[l]
<1>1. PICK n \in Levels : p \in [1 .. n -> UNION Range(Codes)] /\ \A l \in DOMAIN p : p[l] \in Codes[l]
  BY DEF RowPaths
<1>2. n \in 1 .. Len(Codes) /\ n \in Nat
  BY CodesAssumption DEF Levels
<1>3. PICK V : V = Sign /\ p \in [1 .. n -> V]
  <2>1. PICK U : U = UNION Range(Codes)
    OBVIOUS
  <2>2. U \subseteq Sign /\ p \in [1 .. n -> U]
    BY <1>1, <2>1 DEF Sign
  <2>3. QED BY <2>2
<1>4. p \in Seq(V) /\ Len(p) = n
  BY <1>2, <1>3
<1>5. QED BY <1>1, <1>2, <1>3, <1>4

\* Its front.
LEMMA FrontIs ==
    ASSUME NEW p \in RowPaths, Len(p) > 1
    PROVE  /\ Front(p) \in RowPaths /\ Len(Front(p)) = Len(p) - 1
           /\ \A l \in 1 .. Len(p) - 1 : Front(p)[l] = p[l]
<1>1. PICK n \in 1 .. Len(Codes) : /\ p \in [1 .. n -> Sign] /\ p \in Seq(Sign) /\ Len(p) = n
                                   /\ \A l \in 1 .. n : p[l] \in Codes[l]
  BY PathIs
<1>2. n \in Nat /\ n - 1 \in Nat /\ n - 1 \in Levels /\ n > 1
  BY <1>1, CodesAssumption DEF Levels
<1>3. PICK q : q = [l \in 1 .. n - 1 |-> p[l]]
  OBVIOUS
<1>4. q = Front(p)
  <2>1. Front(p) = SubSeq(p, 1, n - 1)
    BY <1>1 DEF Front
  <2>2. SubSeq(p, 1, n - 1) = q
    BY <1>1, <1>2, <1>3
  <2>3. QED BY <2>1, <2>2
<1>5. \A l \in 1 .. n - 1 : q[l] \in Codes[l] /\ q[l] \in UNION Range(Codes)
  <2> TAKE l \in 1 .. n - 1
  <2>1. q[l] \in Codes[l] /\ l \in DOMAIN Codes
    BY <1>1, <1>2, <1>3, CodesAssumption
  <2>2. QED BY <2>1 DEF Range
<1>6. q \in [1 .. n - 1 -> UNION Range(Codes)] /\ DOMAIN q = 1 .. n - 1
  BY <1>3, <1>5
<1>7. q \in RowPaths
  BY <1>2, <1>5, <1>6 DEF RowPaths
<1>8. Len(q) = n - 1
  BY <1>2, <1>3
<1>9. QED BY <1>1, <1>3, <1>4, <1>7, <1>8

\* A row is its front and its last code.
LEMMA FrontAndLast ==
    ASSUME NEW p \in RowPaths, NEW q \in RowPaths, Len(p) > 1, Len(q) > 1,
           Front(p) = Front(q), Last(p) = Last(q)
    PROVE  p = q
<1>1. PICK n \in 1 .. Len(Codes) : p \in [1 .. n -> Sign] /\ Len(p) = n
  BY PathIs
<1>2. PICK m \in 1 .. Len(Codes) : q \in [1 .. m -> Sign] /\ Len(q) = m
  BY PathIs
<1>3. n = m /\ n \in Nat
  BY <1>1, <1>2, FrontIs, CodesAssumption
<1>4. \A l \in 1 .. n - 1 : p[l] = q[l]
  BY <1>1, <1>2, <1>3, FrontIs
<1>5. p[n] = q[n]
  BY <1>1, <1>2, <1>3 DEF Last
<1>6. \A l \in 1 .. n : p[l] = q[l]
  <2> TAKE l \in 1 .. n
  <2>1. l = n \/ l \in 1 .. n - 1
    BY <1>3
  <2>2. QED BY <2>1, <1>4, <1>5
<1>7. QED BY <1>1, <1>2, <1>3, <1>6

\* Tuples of one, two and three.
LEMMA LastOfOne == ASSUME NEW x PROVE Last(<<x>>) = x
<1>1. Len(<<x>>) = 1
  OBVIOUS
<1>2. QED BY <1>1 DEF Last

LEMMA LastOfTwo == ASSUME NEW x, NEW y PROVE Last(<<x, y>>) = y
<1>1. Len(<<x, y>>) = 2
  OBVIOUS
<1>2. QED BY <1>1 DEF Last

LEMMA TupleTypes ==
    ASSUME NEW V, NEW x \in V, NEW y \in V, NEW z \in V
    PROVE  <<x>> \in Seq(V) /\ <<x, y>> \in Seq(V) /\ <<x, y, z>> \in Seq(V)
OBVIOUS

LEMMA JoinedAs ==
    ASSUME NEW V, NEW s \in Seq(V), NEW t \in Seq(V), NEW k \in Seq(V), Len(k) = Len(s) + Len(t),
           \A i \in 1 .. Len(k) : k[i] = IF i <= Len(s) THEN s[i] ELSE t[i - Len(s)]
    PROVE  s \o t = k
OBVIOUS

LEMMA JoinOneOne == ASSUME NEW V, NEW x \in V, NEW y \in V PROVE <<x>> \o <<y>> = <<x, y>>
<1>1. <<x>> \in Seq(V) /\ <<y>> \in Seq(V) /\ <<x, y>> \in Seq(V)
  OBVIOUS
<1>2. Len(<<x>>) = 1 /\ Len(<<y>>) = 1 /\ Len(<<x, y>>) = 2
  OBVIOUS
<1>3. \A i \in 1 .. 2 : <<x, y>>[i] = IF i <= 1 THEN <<x>>[i] ELSE <<y>>[i - 1]
  <2>1. <<x, y>>[1] = x /\ <<x, y>>[2] = y /\ <<x>>[1] = x /\ <<y>>[1] = y
    OBVIOUS
  <2>2. <<y>>[2 - 1] = y
    BY <2>1
  <2>3. \A i \in 1 .. 2 : i = 1 \/ i = 2
    OBVIOUS
  <2>4. <<x, y>>[1] = IF 1 <= 1 THEN <<x>>[1] ELSE <<y>>[1 - 1]
    BY <2>1
  <2>5. <<x, y>>[2] = IF 2 <= 1 THEN <<x>>[2] ELSE <<y>>[2 - 1]
    BY <2>1, <2>2
  <2>6. QED BY <2>3, <2>4, <2>5
<1>4. \A i \in 1 .. Len(<<x, y>>) :
        <<x, y>>[i] = IF i <= Len(<<x>>) THEN <<x>>[i] ELSE <<y>>[i - Len(<<x>>)]
  BY <1>2, <1>3
<1>5. Len(<<x, y>>) = Len(<<x>>) + Len(<<y>>)
  BY <1>2
<1>6. QED BY <1>1, <1>4, <1>5, JoinedAs

LEMMA JoinOneTwo ==
    ASSUME NEW V, NEW x \in V, NEW y \in V, NEW z \in V PROVE <<x>> \o <<y, z>> = <<x, y, z>>
<1>1. <<x>> \in Seq(V) /\ <<y, z>> \in Seq(V) /\ <<x, y, z>> \in Seq(V)
  OBVIOUS
<1>2. Len(<<x>>) = 1 /\ Len(<<y, z>>) = 2 /\ Len(<<x, y, z>>) = 3
  OBVIOUS
<1>3. \A i \in 1 .. 3 : <<x, y, z>>[i] = IF i <= 1 THEN <<x>>[i] ELSE <<y, z>>[i - 1]
  <2>1. /\ <<x, y, z>>[1] = x /\ <<x, y, z>>[2] = y /\ <<x, y, z>>[3] = z
        /\ <<x>>[1] = x /\ <<y, z>>[1] = y /\ <<y, z>>[2] = z
    OBVIOUS
  <2>2. <<y, z>>[2 - 1] = y /\ <<y, z>>[3 - 1] = z
    BY <2>1
  <2>3. \A i \in 1 .. 3 : i = 1 \/ i = 2 \/ i = 3
    OBVIOUS
  <2>4. <<x, y, z>>[1] = IF 1 <= 1 THEN <<x>>[1] ELSE <<y, z>>[1 - 1]
    BY <2>1
  <2>5. <<x, y, z>>[2] = IF 2 <= 1 THEN <<x>>[2] ELSE <<y, z>>[2 - 1]
    BY <2>1, <2>2
  <2>6. <<x, y, z>>[3] = IF 3 <= 1 THEN <<x>>[3] ELSE <<y, z>>[3 - 1]
    BY <2>1, <2>2
  <2>7. QED BY <2>3, <2>4, <2>5, <2>6
<1>4. \A i \in 1 .. Len(<<x, y, z>>) :
        <<x, y, z>>[i] = IF i <= Len(<<x>>) THEN <<x>>[i] ELSE <<y, z>>[i - Len(<<x>>)]
  BY <1>2, <1>3
<1>5. Len(<<x, y, z>>) = Len(<<x>>) + Len(<<y, z>>)
  BY <1>2
<1>6. QED BY <1>1, <1>4, <1>5, JoinedAs

\* How a file writes a code, and its last segment.
WrittenAs(file, p, code, segment) == Code(file, p) = code /\ LastSegment(file, p) = segment

\* One segment, or the two joined.
LEMMA FlatOne == ASSUME NEW V, NEW s \in Seq(V) PROVE FlattenSeq(<<s>>) = s
<1> DEFINE eq(f) == f = [i \in 1 .. 1 |-> IF i = 1 THEN s ELSE f[i - 1] \o <<s>>[i]]
<1>1. Len(<<s>>) = 1 /\ <<s>>[1] = s
  OBVIOUS
<1>2. eq([i \in 1 .. 1 |-> s])
  OBVIOUS
<1>3. PICK f : eq(f) /\ FlattenSeq(<<s>>) = f[1]
  <2>1. FlattenSeq(<<s>>) = (CHOOSE f : eq(f))[1]
    BY <1>1 DEF FlattenSeq
  <2> HIDE DEF eq
  <2>2. eq(CHOOSE f : eq(f))
    BY <1>2
  <2>3. QED BY <2>1, <2>2
<1>4. QED BY <1>3

LEMMA FlatTwo == ASSUME NEW V, NEW s \in Seq(V), NEW t \in Seq(V) PROVE FlattenSeq(<<s, t>>) = s \o t
<1>1. PICK st : st = s \o t
  OBVIOUS
<1> DEFINE eq(f) == f = [i \in 1 .. 2 |-> IF i = 1 THEN <<s, t>>[i] ELSE f[i - 1] \o <<s, t>>[i]]
<1>2. Len(<<s, t>>) = 2 /\ <<s, t>>[1] = s /\ <<s, t>>[2] = t
  OBVIOUS
<1>3. PICK g : g = [i \in 1 .. 2 |-> IF i = 1 THEN s ELSE st]
  OBVIOUS
<1>4. eq(g)
  <2>1. g[1] = s /\ g[2] = st /\ g[2 - 1] = s
    BY <1>3
  <2>2. \A i \in 1 .. 2 : i = 1 \/ i = 2
    OBVIOUS
  <2>3. \A i \in 1 .. 2 : g[i] = IF i = 1 THEN <<s, t>>[i] ELSE g[i - 1] \o <<s, t>>[i]
    BY <2>1, <2>2, <1>1, <1>2
  <2>4. g = [i \in 1 .. 2 |-> g[i]]
    BY <1>3
  <2>5. QED BY <2>3, <2>4
<1>5. PICK f : eq(f) /\ FlattenSeq(<<s, t>>) = f[2]
  <2>1. FlattenSeq(<<s, t>>) = (CHOOSE f : eq(f))[2]
    BY <1>2 DEF FlattenSeq
  <2> HIDE DEF eq
  <2>2. eq(CHOOSE f : eq(f))
    BY <1>4
  <2>3. QED BY <2>1, <2>2
<1>6. f[1] = s /\ f[2] = f[1] \o t
  <2>1. 1 \in 1 .. 2 /\ 2 \in 1 .. 2 /\ 2 - 1 = 1 /\ 2 # 1
    OBVIOUS
  <2>2. QED BY <1>2, <1>5, <2>1
<1>7. QED BY <1>5, <1>6

\* A code is the row's sign, after the parent's sign, or with a zero between.
LEMMA CodeIs ==
    ASSUME NEW file, NEW p \in RowPaths, spelling[file] \in {"plain", "joined", "padded"}
    PROVE  LET c == Last(p)
               b == Last(Front(p))
           IN  /\ spelling[file] = "plain" \/ Len(p) = 1 => WrittenAs(file, p, <<c>>, <<c>>)
               /\ spelling[file] = "joined" /\ Len(p) > 1 => WrittenAs(file, p, <<b, c>>, <<c>>)
               /\ spelling[file] = "padded" /\ Len(p) > 1 => WrittenAs(file, p, <<b, "0", c>>, <<"0", c>>)
<1> DEFINE c == Last(p)
           b == Last(Front(p))
<1>1. PICK n \in 1 .. Len(Codes) : p \in [1 .. n -> Sign] /\ Len(p) = n
  BY PathIs
<1>2. c \in Sign /\ "0" \in Sign /\ n \in Nat /\ (n = 1 \/ n > 1)
  <2>1. n \in Nat /\ (n = 1 \/ n > 1) /\ n \in 1 .. n
    BY CodesAssumption
  <2>2. c \in Sign
    BY <1>1, <2>1 DEF Last
  <2>3. "0" \in Sign
    BY ZeroIsSign
  <2>4. QED BY <2>1, <2>2, <2>3
<1>3. n > 1 => b \in Sign
  <2> SUFFICES ASSUME n > 1 PROVE b \in Sign
    OBVIOUS
  <2>1. PICK m \in 1 .. Len(Codes) : Front(p) \in [1 .. m -> Sign] /\ Len(Front(p)) = m
    BY <1>1, FrontIs, PathIs
  <2>2. m \in 1 .. m
    BY <2>1, CodesAssumption
  <2>3. QED BY <2>1, <2>2 DEF Last
<1>4. PICK V : V = Sign
  OBVIOUS
<1>5. CASE spelling[file] = "plain" \/ n = 1
  <2>1. Segments(file, p) = <<<<c>>>>
    BY <1>1, <1>5 DEF Segments
  <2>2. <<c>> \in Seq(V) /\ Last(<<<<c>>>>) = <<c>>
    BY <1>2, <1>4, LastOfOne, TupleTypes
  <2>3. FlattenSeq(<<<<c>>>>) = <<c>>
    BY <2>2, FlatOne
  <2>4. QED BY <1>1, <1>5, <2>1, <2>2, <2>3 DEF WrittenAs, Code, LastSegment
<1>6. CASE n > 1 /\ spelling[file] = "joined"
  <2>1. Segments(file, p) = <<<<b>>, <<c>>>>
    BY <1>1, <1>6 DEF Segments
  <2>2. /\ <<b>> \in Seq(V) /\ <<c>> \in Seq(V)
        /\ Last(<<<<b>>, <<c>>>>) = <<c>> /\ <<b>> \o <<c>> = <<b, c>>
    BY <1>2, <1>3, <1>4, <1>6, LastOfTwo, TupleTypes, JoinOneOne
  <2>3. Code(file, p) = <<b, c>>
    BY <2>1, <2>2, FlatTwo DEF Code
  <2>4. QED BY <1>1, <1>6, <2>1, <2>2, <2>3 DEF WrittenAs, LastSegment
<1>7. CASE n > 1 /\ spelling[file] = "padded"
  <2>1. Segments(file, p) = <<<<b>>, <<"0", c>>>>
    BY <1>1, <1>7 DEF Segments
  <2>2. /\ <<b>> \in Seq(V) /\ <<"0", c>> \in Seq(V)
        /\ Last(<<<<b>>, <<"0", c>>>>) = <<"0", c>> /\ <<b>> \o <<"0", c>> = <<b, "0", c>>
    BY <1>2, <1>3, <1>4, <1>7, LastOfTwo, TupleTypes, JoinOneTwo
  <2>3. Code(file, p) = <<b, "0", c>>
    BY <2>1, <2>2, FlatTwo DEF Code
  <2>4. QED BY <1>1, <1>7, <2>1, <2>2, <2>3 DEF WrittenAs, LastSegment
<1>8. QED BY <1>1, <1>2, <1>5, <1>6, <1>7

\* The row cut at any level.
LEMMA CutIs ==
    ASSUME NEW p \in RowPaths, NEW l \in 1 .. Len(p)
    PROVE  /\ SubSeq(p, 1, l) \in RowPaths /\ Len(SubSeq(p, 1, l)) = l
           /\ l = Len(p) => SubSeq(p, 1, l) = p
           /\ l = Len(p) - 1 => SubSeq(p, 1, l) = Front(p)
<1>1. PICK n \in 1 .. Len(Codes) : /\ p \in [1 .. n -> Sign] /\ p \in Seq(Sign) /\ Len(p) = n
                                   /\ \A k \in 1 .. n : p[k] \in Codes[k]
  BY PathIs
<1>2. n \in Nat /\ l \in Nat /\ l \in Levels /\ l \in 1 .. n
  BY <1>1, CodesAssumption DEF Levels
<1>3. PICK q : q = [k \in 1 .. l |-> p[k]]
  OBVIOUS
<1>4. SubSeq(p, 1, l) = q
  BY <1>1, <1>2, <1>3
<1>5. \A k \in 1 .. l : q[k] \in Codes[k] /\ q[k] \in UNION Range(Codes)
  <2> TAKE k \in 1 .. l
  <2>1. q[k] \in Codes[k] /\ k \in DOMAIN Codes
    BY <1>1, <1>2, <1>3, CodesAssumption
  <2>2. QED BY <2>1 DEF Range
<1>6. q \in [1 .. l -> UNION Range(Codes)] /\ DOMAIN q = 1 .. l
  BY <1>3, <1>5
<1>7. q \in RowPaths /\ Len(q) = l
  BY <1>2, <1>3, <1>5, <1>6 DEF RowPaths
<1>8. l = n => q = p
  BY <1>1, <1>3
<1>9. l = n - 1 => q = Front(p)
  BY <1>1, <1>4 DEF Front
<1>10. QED BY <1>1, <1>4, <1>7, <1>8, <1>9

\* There are finitely many rows: each level is made of the one above.
LEMMA RowsFinite == IsFiniteSet(RowPaths)
<1> DEFINE Upto(k) == {p \in RowPaths : Len(p) <= k}
           Good == {k \in Nat : k <= Len(Codes) => IsFiniteSet(Upto(k))}
<1>1. \A p \in RowPaths : Len(p) \in 1 .. Len(Codes)
  BY PathIs
<1>2. 0 \in Good
  <2>1. Upto(0) = {}
    BY <1>1, CodesAssumption
  <2>2. QED BY <2>1, FS_EmptySet
<1>3. ASSUME NEW k \in Nat, k \in Good PROVE k + 1 \in Good
  <2> SUFFICES ASSUME k + 1 <= Len(Codes) PROVE IsFiniteSet(Upto(k + 1))
    OBVIOUS
  <2>1. PICK j \in 1 .. Len(Codes) : j = k + 1
    BY CodesAssumption
  <2>2. IsFiniteSet(Upto(k)) /\ IsFiniteSet(Codes[j])
    BY <1>3, <2>1, CodesAssumption
  <2>3. PICK A : A = Upto(k) \cup {<<>>}
    OBVIOUS
  <2>4. IsFiniteSet(A \X Codes[j])
    BY <2>2, <2>3, FS_AddElement, FS_Product
  <2>5. PICK B : B = Upto(j) \ Upto(k)
    OBVIOUS
  <2>6. \A p \in B : p \in RowPaths /\ Len(p) = j
    BY <1>1, <2>1, <2>5, CodesAssumption
  <2> DEFINE parts == [p \in B |-> <<IF Len(p) = 1 THEN <<>> ELSE Front(p), Last(p)>>]
  <2>7. parts \in [B -> A \X Codes[j]]
    <3>1. ASSUME NEW p \in B PROVE Last(p) \in Codes[j]
      <4>1. PICK n \in 1 .. Len(Codes) : Len(p) = n /\ \A l \in 1 .. n : p[l] \in Codes[l]
        BY <2>6, PathIs
      <4>2. j \in 1 .. n /\ n = j
        BY <4>1, <2>6, <2>1, CodesAssumption
      <4>3. QED BY <4>1, <4>2 DEF Last
    <3>2. ASSUME NEW p \in B PROVE (IF Len(p) = 1 THEN <<>> ELSE Front(p)) \in A
      <4>1. CASE Len(p) = 1
        BY <4>1, <2>3
      <4>2. CASE Len(p) # 1
        <5>1. Len(p) > 1
          <6>1. j > 0 /\ j \in Nat /\ Len(p) = j
            BY <2>1, <2>6
          <6>2. QED BY <4>2, <6>1
        <5>2. Front(p) \in RowPaths /\ Len(Front(p)) = Len(p) - 1
          BY <5>1, <2>6, FrontIs
        <5>3. Len(p) - 1 <= k
          BY <2>6, <2>1
        <5>4. QED BY <5>2, <5>3, <4>2, <2>3
      <4>3. QED BY <4>1, <4>2
    <3>3. QED BY <3>1, <3>2
  <2>8. ASSUME NEW p \in B, NEW q \in B, parts[p] = parts[q] PROVE p = q
    <3>1. Last(p) = Last(q) /\ (j # 1 => Front(p) = Front(q))
      <4>1. parts[p] = <<IF Len(p) = 1 THEN <<>> ELSE Front(p), Last(p)>>
        OBVIOUS
      <4>2. parts[q] = <<IF Len(q) = 1 THEN <<>> ELSE Front(q), Last(q)>>
        OBVIOUS
      <4> HIDE DEF parts
      <4>3. <<IF Len(p) = 1 THEN <<>> ELSE Front(p), Last(p)>> = <<IF Len(q) = 1 THEN <<>> ELSE Front(q), Last(q)>>
        BY <4>1, <4>2, <2>8
      <4>4. /\ (IF Len(p) = 1 THEN <<>> ELSE Front(p)) = (IF Len(q) = 1 THEN <<>> ELSE Front(q))
            /\ Last(p) = Last(q)
        BY <4>3
      <4>5. Len(p) = j /\ Len(q) = j
        BY <2>6
      <4>6. QED BY <4>4, <4>5
    <3>2. CASE j # 1
      BY <3>1, <3>2, <2>6, <2>1, FrontAndLast, CodesAssumption
    <3>3. CASE j = 1
      <4>1. PICK n \in 1 .. Len(Codes) : p \in [1 .. n -> Sign] /\ Len(p) = n
        BY <2>6, PathIs
      <4>2. PICK m \in 1 .. Len(Codes) : q \in [1 .. m -> Sign] /\ Len(q) = m
        BY <2>6, PathIs
      <4>3. n = 1 /\ m = 1
        BY <4>1, <4>2, <2>6, <3>3
      <4>4. p[1] = q[1]
        BY <4>1, <4>2, <4>3, <3>1 DEF Last
      <4>5. QED BY <4>1, <4>2, <4>3, <4>4
    <3>4. QED BY <3>2, <3>3
  <2>9. IsFiniteSet(B)
    <3>1. parts \in Injection(B, A \X Codes[j])
      BY <2>7, <2>8 DEF Injection, IsInjective
    <3> HIDE DEF parts
    <3>2. QED BY <3>1, <2>4, FS_Injection
  <2>10. Upto(k + 1) = Upto(k) \cup B
    <3>1. \A p \in RowPaths : Len(p) <= k => Len(p) <= k + 1
      BY <1>1, CodesAssumption
    <3>2. QED BY <3>1, <2>1, <2>5
  <2>11. PICK U : U = Upto(k)
    OBVIOUS
  <2>12. IsFiniteSet(U \cup B)
    BY <2>2, <2>9, <2>11, FS_Union
  <2>13. QED BY <2>10, <2>11, <2>12
<1> HIDE DEF Good
<1>4. Nat \subseteq Good
  BY <1>2, <1>3, FromZeroUp
<1>5. IsFiniteSet(Upto(Len(Codes)))
  BY <1>4, CodesAssumption DEF Good
<1>6. Upto(Len(Codes)) = RowPaths
  BY <1>1
<1>7. QED BY <1>5, <1>6

-----------------------------------------------------------------------------
\* Endings, sign by sign.
LEMMA SuffixIs ==
    ASSUME NEW V, NEW s \in Seq(V), NEW t \in Seq(V)
    PROVE  IsSuffix(s, t) <=> /\ Len(s) <= Len(t)
                              /\ \A k \in 1 .. Len(s) : s[k] = t[Len(t) - Len(s) + k]
<1>1. PICK n \in Nat, m \in Nat : n = Len(s) /\ m = Len(t) /\ s \in [1 .. n -> V] /\ t \in [1 .. m -> V]
  OBVIOUS
<1>2. PICK r : r = [i \in 1 .. n |-> s[(n - i) + 1]]
  OBVIOUS
<1>3. PICK u : u = [i \in 1 .. m |-> t[(m - i) + 1]]
  OBVIOUS
<1>4. Reverse(s) = r /\ Reverse(t) = u
  BY <1>1, <1>2, <1>3 DEF Reverse
<1>5. r \in Seq(V) /\ Len(r) = n /\ u \in Seq(V) /\ Len(u) = m
  <2>1. \A i \in 1 .. n : (n - i) + 1 \in 1 .. n
    OBVIOUS
  <2>2. \A i \in 1 .. m : (m - i) + 1 \in 1 .. m
    OBVIOUS
  <2>3. r \in [1 .. n -> V] /\ u \in [1 .. m -> V]
    BY <1>1, <1>2, <1>3, <2>1, <2>2
  <2>4. QED BY <2>3
<1>6. IsSuffix(s, t) <=> n <= m /\ SubSeq(r, 1, n) = SubSeq(u, 1, n)
  BY <1>1, <1>4, <1>5 DEF IsSuffix, IsPrefix
<1>7. n <= m => (SubSeq(r, 1, n) = SubSeq(u, 1, n) <=> \A i \in 1 .. n : r[i] = u[i])
  <2> HAVE n <= m
  <2>1. SubSeq(r, 1, n) = [i \in 1 .. n |-> r[i]]
    BY <1>5
  <2>2. SubSeq(u, 1, n) = [i \in 1 .. n |-> u[i]]
    BY <1>5
  <2>3. QED BY <2>1, <2>2
<1>8. n <= m => ((\A i \in 1 .. n : r[i] = u[i]) <=> \A k \in 1 .. n : s[k] = t[m - n + k])
  <2> HAVE n <= m
  <2>1. \A i \in 1 .. n : r[i] = s[(n - i) + 1] /\ u[i] = t[(m - i) + 1]
    BY <1>2, <1>3
  <2>2. ASSUME \A i \in 1 .. n : r[i] = u[i], NEW k \in 1 .. n PROVE s[k] = t[m - n + k]
    <3>1. PICK i \in 1 .. n : i = (n - k) + 1
      OBVIOUS
    <3>2. (n - i) + 1 = k /\ (m - i) + 1 = m - n + k
      BY <3>1
    <3>3. QED BY <2>1, <2>2, <3>2
  <2>3. ASSUME \A k \in 1 .. n : s[k] = t[m - n + k], NEW i \in 1 .. n PROVE r[i] = u[i]
    <3>1. PICK k \in 1 .. n : k = (n - i) + 1
      OBVIOUS
    <3>2. m - n + k = (m - i) + 1
      BY <3>1
    <3>3. QED BY <2>1, <2>3, <3>1, <3>2
  <2>4. QED BY <2>2, <2>3
<1>9. QED BY <1>1, <1>6, <1>7, <1>8

\* What ends alike has the same last element.
LEMMA EndsAlike ==
    ASSUME NEW V, NEW s \in Seq(V), NEW t \in Seq(V), Len(s) >= 1, IsSuffix(s, t)
    PROVE  Len(s) <= Len(t) /\ Last(s) = Last(t)
<1>1. Len(s) <= Len(t) /\ s[Len(s)] = t[Len(t) - Len(s) + Len(s)]
  BY SuffixIs
<1>2. Len(t) - Len(s) + Len(s) = Len(t)
  OBVIOUS
<1>3. QED BY <1>1, <1>2 DEF Last

\* All, the last and the last two elements are endings.
LEMMA Endings ==
    ASSUME NEW V, NEW t \in Seq(V), Len(t) >= 1
    PROVE  /\ IsSuffix(t, t) /\ IsSuffix(<<t[Len(t)]>>, t)
           /\ Len(t) >= 2 => IsSuffix(<<t[Len(t) - 1], t[Len(t)]>>, t)
<1>1. PICK m \in Nat : m = Len(t)
  OBVIOUS
<1>2. IsSuffix(t, t)
  <2>1. \A k \in 1 .. m : t[k] = t[m - m + k]
    <3> TAKE k \in 1 .. m
    <3>1. m - m + k = k
      OBVIOUS
    <3>2. QED BY <3>1
  <2>2. QED BY <2>1, <1>1, SuffixIs
<1>3. IsSuffix(<<t[m]>>, t)
  <2>1. PICK x \in V : x = t[m]
    BY <1>1
  <2>2. <<x>> \in Seq(V) /\ Len(<<x>>) = 1 /\ <<x>>[1] = x
    BY TupleTypes
  <2>3. 1 .. 1 = {1} /\ m - 1 + 1 = m
    OBVIOUS
  <2>4. \A k \in 1 .. 1 : <<x>>[k] = t[m - 1 + k]
    BY <2>1, <2>2, <2>3
  <2>5. QED BY <2>1, <2>2, <2>4, <1>1, SuffixIs
<1>4. m >= 2 => IsSuffix(<<t[m - 1], t[m]>>, t)
  <2> HAVE m >= 2
  <2>1. PICK x \in V : x = t[m - 1]
    BY <1>1
  <2>2. PICK y \in V : y = t[m]
    BY <1>1
  <2>3. <<x, y>> \in Seq(V) /\ Len(<<x, y>>) = 2 /\ <<x, y>>[1] = x /\ <<x, y>>[2] = y
    BY TupleTypes
  <2>4. \A k \in 1 .. 2 : k = 1 \/ k = 2
    OBVIOUS
  <2>5. m - 2 + 1 = m - 1 /\ m - 2 + 2 = m
    OBVIOUS
  <2>6. \A k \in 1 .. 2 : <<x, y>>[k] = t[m - 2 + k]
    BY <2>1, <2>2, <2>3, <2>4, <2>5
  <2>7. QED BY <2>1, <2>2, <2>3, <2>6, <1>1, SuffixIs
<1>5. QED BY <1>1, <1>2, <1>3, <1>4

-----------------------------------------------------------------------------
(* How the codes of a row are written.                                      *)

Spellings == {"plain", "joined", "padded"}

\* Every code ends in the row's own sign, and the codes below the first level are
\* longer unless they are written plainly.
LEMMA CodeTyped ==
    ASSUME NEW file, NEW p \in RowPaths, spelling[file] \in Spellings
    PROVE  /\ Code(file, p) \in Seq(Sign) /\ Len(Code(file, p)) >= 1 /\ Last(Code(file, p)) = Last(p)
           /\ LastSegment(file, p) \in Seq(Sign) /\ Last(p) \in Sign
           /\ spelling[file] = "plain" \/ Len(p) = 1 => /\ Code(file, p) = <<Last(p)>>
                                                        /\ LastSegment(file, p) = <<Last(p)>>
                                                        /\ Len(Code(file, p)) = 1
           /\ spelling[file] # "plain" /\ Len(p) > 1 => Len(Code(file, p)) > 1
           /\ spelling[file] = "joined" /\ Len(p) > 1 =>
                /\ Code(file, p) = <<Last(Front(p)), Last(p)>> /\ LastSegment(file, p) = <<Last(p)>>
           /\ spelling[file] = "padded" /\ Len(p) > 1 =>
                /\ Code(file, p) = <<Last(Front(p)), "0", Last(p)>> /\ LastSegment(file, p) = <<"0", Last(p)>>
<1>1. PICK n \in 1 .. Len(Codes) : p \in [1 .. n -> Sign] /\ Len(p) = n
  BY PathIs
<1>2. PICK c : c = Last(p)
  OBVIOUS
<1>3. PICK b : b = Last(Front(p))
  OBVIOUS
<1>4. n \in Nat /\ (n = 1 \/ n > 1) /\ c \in Sign /\ "0" \in Sign
  <2>1. n \in Nat /\ (n = 1 \/ n > 1) /\ n \in 1 .. n
    BY CodesAssumption
  <2>2. c \in Sign
    BY <1>1, <1>2, <2>1 DEF Last
  <2>3. QED BY <2>1, <2>2, ZeroIsSign
<1>5. n > 1 => b \in Sign
  <2> HAVE n > 1
  <2>1. PICK m \in 1 .. Len(Codes) : Front(p) \in [1 .. m -> Sign] /\ Len(Front(p)) = m
    BY <1>1, FrontIs, PathIs
  <2>2. m \in 1 .. m
    BY <2>1, CodesAssumption
  <2>3. QED BY <2>1, <2>2, <1>3 DEF Last
<1>6. PICK V : V = Sign
  OBVIOUS
<1>7. CASE spelling[file] = "plain" \/ n = 1
  <2>1. Code(file, p) = <<c>> /\ LastSegment(file, p) = <<c>>
    BY <1>1, <1>2, <1>7, CodeIs DEF WrittenAs, Spellings
  <2>2. <<c>> \in Seq(V) /\ Last(<<c>>) = c
    BY <1>4, <1>6, TupleTypes, LastOfOne
  <2>3. Len(<<c>>) = 1
    OBVIOUS
  <2>4. ~ (spelling[file] # "plain" /\ n > 1)
    BY <1>4, <1>7
  <2>5. spelling[file] = "joined" \/ spelling[file] = "padded" => spelling[file] # "plain"
    OBVIOUS
  <2>6. QED BY <1>1, <1>2, <1>4, <1>6, <2>1, <2>2, <2>3, <2>4, <2>5
<1>8. CASE n > 1 /\ spelling[file] = "joined"
  <2>1. Code(file, p) = <<b, c>> /\ LastSegment(file, p) = <<c>>
    BY <1>1, <1>2, <1>3, <1>8, CodeIs DEF WrittenAs, Spellings
  <2>2. <<c>> \in Seq(V) /\ <<b, c>> \in Seq(V) /\ Last(<<b, c>>) = c
    BY <1>4, <1>5, <1>6, <1>8, TupleTypes, LastOfTwo
  <2>3. Len(<<b, c>>) = 2 /\ n # 1 /\ "joined" # "plain" /\ "joined" # "padded"
    BY <1>8, <1>4
  <2>4. QED BY <1>1, <1>2, <1>3, <1>4, <1>6, <1>8, <2>1, <2>2, <2>3
<1>9. CASE n > 1 /\ spelling[file] = "padded"
  <2>1. Code(file, p) = <<b, "0", c>> /\ LastSegment(file, p) = <<"0", c>>
    BY <1>1, <1>2, <1>3, <1>9, CodeIs DEF WrittenAs, Spellings
  <2>2. <<"0", c>> \in Seq(V) /\ <<b, "0", c>> \in Seq(V)
    BY <1>4, <1>5, <1>6, <1>9, TupleTypes
  <2>3. Len(<<b, "0", c>>) = 3 /\ n # 1 /\ "padded" # "plain" /\ "joined" # "padded"
    BY <1>9, <1>4
  <2>4. Last(<<b, "0", c>>) = c
    <3>1. <<b, "0", c>>[3] = c
      OBVIOUS
    <3>2. QED BY <3>1, <2>3 DEF Last
  <2>5. QED BY <1>1, <1>2, <1>3, <1>4, <1>6, <1>9, <2>1, <2>2, <2>3, <2>4
<1>10. QED BY <1>1, <1>4, <1>7, <1>8, <1>9 DEF Spellings

\* The codes along a path.
LEMMA SpelledIs ==
    ASSUME NEW file, NEW p \in RowPaths, spelling[file] \in Spellings
    PROVE  /\ Spelled(file, p) \in Seq(Seq(Sign)) /\ Len(Spelled(file, p)) = Len(p)
           /\ Len(p) \in Nat /\ Len(p) >= 1
           /\ Spelled(file, p)[Len(p)] = Code(file, p)
           /\ Len(p) > 1 => /\ Spelled(file, p)[Len(p) - 1] = Code(file, Front(p))
                            /\ Code(file, Front(p)) \in Seq(Sign) /\ Len(Code(file, Front(p))) >= 1
<1>1. PICK n \in Nat : n = Len(p) /\ n >= 1
  BY PathIs, CodesAssumption
<1>2. \A l \in 1 .. n : Code(file, SubSeq(p, 1, l)) \in Seq(Sign)
  BY <1>1, CutIs, CodeTyped
<1>3. PICK s : s = [l \in 1 .. n |-> Code(file, SubSeq(p, 1, l))]
  OBVIOUS
<1>4. Spelled(file, p) = s
  BY <1>1, <1>3 DEF Spelled
<1>5. PICK V : V = Seq(Sign)
  OBVIOUS
<1>6. s \in [1 .. n -> V]
  BY <1>2, <1>3, <1>5
<1>7. s \in Seq(V) /\ Len(s) = n
  BY <1>6
<1>8. s[n] = Code(file, p)
  <2>1. n \in 1 .. n /\ SubSeq(p, 1, n) = p
    BY <1>1, CutIs
  <2>2. QED BY <2>1, <1>3
<1>9. n > 1 => s[n - 1] = Code(file, Front(p))
  <2> HAVE n > 1
  <2>1. n - 1 \in 1 .. n /\ SubSeq(p, 1, n - 1) = Front(p)
    BY <1>1, CutIs
  <2>2. QED BY <2>1, <1>3
<1>10. n > 1 => Code(file, Front(p)) \in Seq(Sign) /\ Len(Code(file, Front(p))) >= 1
  BY <1>1, FrontIs, CodeTyped
<1>11. QED BY <1>1, <1>4, <1>5, <1>7, <1>8, <1>9, <1>10

\* Two files that write every code of a path plainly write it alike.
LEMMA SpelledAlike ==
    ASSUME NEW p \in RowPaths, spelling["fa"] \in Spellings, spelling["rkks"] \in Spellings,
           (spelling["fa"] = "plain" /\ spelling["rkks"] = "plain") \/ Len(p) = 1
    PROVE  Spelled("rkks", p) = Spelled("fa", p)
<1>1. ASSUME NEW l \in 1 .. Len(p)
      PROVE  Code("rkks", SubSeq(p, 1, l)) = Code("fa", SubSeq(p, 1, l))
  <2>1. PICK q \in RowPaths : q = SubSeq(p, 1, l) /\ Len(q) = l
    BY CutIs
  <2>2. Len(p) = 1 => l = 1
    OBVIOUS
  <2>3. Code("rkks", q) = <<Last(q)>>
    BY <2>1, <2>2, CodeTyped
  <2>4. Code("fa", q) = <<Last(q)>>
    BY <2>1, <2>2, CodeTyped
  <2>5. QED BY <2>1, <2>3, <2>4
<1>2. QED BY <1>1 DEF Spelled

\* What a file can be at the start.
LEMMA FilesAre ==
    ASSUME MergeInit
    PROVE  /\ fa \subseteq RowPaths /\ IsFiniteSet(fa)
           /\ \A p \in fa : Len(p) > 1 => Front(p) \in fa
           /\ spelling["fa"] \in Spellings /\ spelling["rkks"] \in {"plain", "joined"}
           /\ spelling["rkks"] \in Spellings
<1>1. fa \subseteq RowPaths /\ \A p \in fa : Len(p) > 1 => Front(p) \in fa
  BY DEF MergeInit
<1>2. spelling["fa"] \in Spellings /\ spelling["rkks"] \in {"plain", "joined"}
  BY DEF MergeInit, Spellings
<1>3. QED BY <1>1, <1>2, RowsFinite, FS_Subset DEF Spellings

\* Rows found by a path have its last code.
LEMMA ByPathIs ==
    ASSUME MergeInit, NEW key \in Seq(Seq(Sign)), Len(key) >= 1
    PROVE  /\ ByPath(key) \in SUBSET fa
           /\ \A q \in ByPath(key) : q \in fa /\ Code("fa", q) = key[Len(key)]
<1>1. PICK V : V = Seq(Sign)
  OBVIOUS
<1>2. ASSUME NEW q \in ByPath(key) PROVE q \in fa /\ Code("fa", q) = key[Len(key)]
  <2>1. q \in fa /\ q \in RowPaths /\ IsSuffix(key, Spelled("fa", q))
    BY FilesAre DEF ByPath
  <2>2. PICK t \in Seq(V) : t = Spelled("fa", q) /\ t[Len(t)] = Code("fa", q)
    BY <1>1, <2>1, SpelledIs, FilesAre
  <2>3. Last(key) = Last(t)
    BY <1>1, <2>1, <2>2, EndsAlike
  <2>4. QED BY <2>1, <2>2, <2>3 DEF Last
<1>3. QED BY <1>2 DEF ByPath

-----------------------------------------------------------------------------
(* The attempts.                                                            *)

Candidates(m, p) ==
    IF Len(p) = 1 THEN {} ELSE IF m[Front(p)] = NoMatch THEN {} ELSE Under(m[Front(p)], fa)
Matched(m, p) == FirstUnique(AmongCandidates(p, Candidates(m, p)) \o Anywhere(p))

\* Two sequences of attempts, one after the other.
LEMMA JoinIs ==
    ASSUME NEW V, NEW s \in Seq(V), NEW t \in Seq(V)
    PROVE  /\ s \o t \in Seq(V) /\ Len(s \o t) = Len(s) + Len(t)
           /\ \A i \in 1 .. Len(s) : (s \o t)[i] = s[i]
           /\ \A i \in 1 .. Len(t) : (s \o t)[Len(s) + i] = t[i]
<1>1. s \o t \in Seq(V) /\ Len(s \o t) = Len(s) + Len(t)
  OBVIOUS
<1>2. \A i \in 1 .. Len(s) : (s \o t)[i] = s[i]
  OBVIOUS
<1>3. \A i \in 1 .. Len(t) : (s \o t)[Len(s) + i] = t[i]
  OBVIOUS
<1>4. QED BY <1>1, <1>2, <1>3

\* The attempts without a parent, one by one.
LEMMA AnywhereIs ==
    ASSUME NEW G, NEW p \in RowPaths, spelling["rkks"] \in Spellings,
           NEW path, path = Spelled("rkks", p), NEW code, code = Code("rkks", p),
           NEW last, last = {q \in fa : LastSegment("fa", q) = code},
           ByPath(path) \in G, ByPath(<<code>>) \in G, last \in G,
           NEW parentCode, parentCode = Code("rkks", Front(p)),
           Len(p) > 1 => /\ ByPath(<<parentCode, code>>) \in G
                         /\ ByPath(<<parentCode \o <<"0">> \o code>>) \in G
                         /\ ByPath(<<parentCode \o code>>) \in G
    PROVE  Anywhere(p) \in Seq(G) /\ Len(Anywhere(p)) >= 1 /\ Anywhere(p)[1] = ByPath(path)
<1>1. PICK n \in Nat : n = Len(p) /\ n >= 1 /\ (n = 1 \/ n > 1) /\ (n > 1 => n # 1)
  BY PathIs, CodesAssumption
<1>2. Last(path) = code /\ (n > 1 => path[n - 1] = Code("rkks", Front(p)))
  BY <1>1, SpelledIs DEF Last
<1>4. {q \in fa : LastSegment("fa", q) = Last(Spelled("rkks", p))} = last
  BY <1>2
<1>5. PICK above \in Seq(G) : Anywhere(p) = <<ByPath(path)>> \o above \o <<ByPath(<<code>>), last>>
  <2>1. CASE n = 1
    <3>1. Anywhere(p) = <<ByPath(Spelled("rkks", p))>> \o <<>>
                          \o <<ByPath(<<Last(Spelled("rkks", p))>>),
                               {q \in fa : LastSegment("fa", q) = Last(Spelled("rkks", p))}>>
      BY <1>1, <2>1 DEF Anywhere
    <3>2. Anywhere(p) = <<ByPath(path)>> \o <<>> \o <<ByPath(<<code>>), last>>
      BY <1>2, <1>4, <3>1
    <3>3. <<>> \in Seq(G)
      OBVIOUS
    <3>4. QED BY <3>2, <3>3
  <2>2. CASE n > 1
    <3>2. PICK A \in G : A = ByPath(<<parentCode, code>>)
      BY <1>1, <2>2
    <3>3. PICK B \in G : B = ByPath(<<parentCode \o <<"0">> \o code>>)
      BY <1>1, <2>2
    <3>4. PICK C \in G : C = ByPath(<<parentCode \o code>>)
      BY <1>1, <2>2
    <3>5. Anywhere(p) =
            <<ByPath(Spelled("rkks", p))>>
              \o << ByPath(<<Spelled("rkks", p)[Len(p) - 1], Last(Spelled("rkks", p))>>),
                    ByPath(<<Spelled("rkks", p)[Len(p) - 1] \o <<"0">> \o Last(Spelled("rkks", p))>>),
                    ByPath(<<Spelled("rkks", p)[Len(p) - 1] \o Last(Spelled("rkks", p))>>) >>
              \o <<ByPath(<<Last(Spelled("rkks", p))>>),
                   {q \in fa : LastSegment("fa", q) = Last(Spelled("rkks", p))}>>
      <4>1. Len(p) # 1
        BY <1>1, <2>2, Zenon
      <4>2. QED BY <4>1 DEF Anywhere
    <3>6. Spelled("rkks", p) = path /\ Last(Spelled("rkks", p)) = code /\ Spelled("rkks", p)[Len(p) - 1] = parentCode
      BY <1>1, <1>2, <2>2
    <3>7. Anywhere(p) = <<ByPath(path)>> \o <<A, B, C>> \o <<ByPath(<<code>>), last>>
      BY <1>4, <3>2, <3>3, <3>4, <3>5, <3>6
    <3>8. <<A, B, C>> \in Seq(G)
      OBVIOUS
    <3>9. QED BY <3>7, <3>8
  <2>3. QED BY <1>1, <2>1, <2>2, Zenon
<1>6. PICK s \in Seq(G) : s = <<ByPath(path)>> /\ Len(s) = 1 /\ s[1] = ByPath(path)
  <2>1. ASSUME NEW x \in G PROVE <<x>> \in Seq(G) /\ Len(<<x>>) = 1 /\ <<x>>[1] = x
    OBVIOUS
  <2>2. QED BY <2>1
<1>7. PICK t \in Seq(G) : t = <<ByPath(<<code>>), last>>
  <2>1. ASSUME NEW x \in G, NEW y \in G PROVE <<x, y>> \in Seq(G)
    OBVIOUS
  <2>2. QED BY <2>1
<1>8. s \o above \in Seq(G) /\ Len(s \o above) >= 1 /\ (s \o above)[1] = s[1]
  <2>1. s \o above \in Seq(G) /\ Len(s \o above) = 1 + Len(above) /\ \A i \in 1 .. 1 : (s \o above)[i] = s[i]
    BY <1>6, JoinIs
  <2>2. 1 \in 1 .. 1 /\ Len(above) \in Nat
    OBVIOUS
  <2>3. QED BY <2>1, <2>2
<1>9. PICK sa \in Seq(G) : sa = s \o above /\ Len(sa) >= 1 /\ sa[1] = s[1]
  BY <1>8
<1>10. sa \o t \in Seq(G) /\ Len(sa \o t) >= 1 /\ (sa \o t)[1] = sa[1]
  <2>1. sa \o t \in Seq(G) /\ Len(sa \o t) = Len(sa) + Len(t) /\ \A i \in 1 .. Len(sa) : (sa \o t)[i] = sa[i]
    BY JoinIs
  <2>2. 1 \in 1 .. Len(sa) /\ Len(sa) \in Nat /\ Len(t) \in Nat
    BY <1>9
  <2>3. QED BY <2>1, <2>2, <1>9
<1>11. QED BY <1>5, <1>6, <1>7, <1>9, <1>10

\* All attempts.
LEMMA TriesAre ==
    ASSUME NEW G, NEW rest \in Seq(G), Len(rest) >= 1, NEW p, NEW S, NEW a, a = AmongCandidates(p, S),
           a[1] \in G, a[2] \in G, a[3] \in G
    PROVE  /\ a \o rest \in Seq(G) /\ Len(a \o rest) >= 4
           /\ \A i \in 1 .. 3 : (a \o rest)[i] = a[i]
           /\ (a \o rest)[4] = rest[1]
<1>1. PICK x, y, z : a = <<x, y, z>>
  BY DEF AmongCandidates
<1>2. x \in G /\ y \in G /\ z \in G
  BY <1>1
<1>3. <<x, y, z>> \in Seq(G) /\ Len(<<x, y, z>>) = 3
  BY <1>2
<1>4. PICK s \in Seq(G) : s = a /\ Len(s) = 3
  BY <1>1, <1>3
<1>5. /\ s \o rest \in Seq(G) /\ Len(s \o rest) = 3 + Len(rest)
      /\ \A i \in 1 .. 3 : (s \o rest)[i] = s[i]
      /\ \A i \in 1 .. Len(rest) : (s \o rest)[3 + i] = rest[i]
  <2>1. /\ s \o rest \in Seq(G) /\ Len(s \o rest) = Len(s) + Len(rest)
        /\ \A i \in 1 .. Len(s) : (s \o rest)[i] = s[i]
        /\ \A i \in 1 .. Len(rest) : (s \o rest)[Len(s) + i] = rest[i]
    BY JoinIs
  <2>2. Len(s) = 3
    BY <1>4
  <2>3. QED BY <2>1, <2>2, Zenon
<1>6. 3 + 1 = 4 /\ 1 \in 1 .. Len(rest) /\ Len(rest) \in Nat
  OBVIOUS
<1>7. (s \o rest)[4] = rest[1] /\ Len(s \o rest) >= 4
  BY <1>5, <1>6
<1>8. QED BY <1>4, <1>5, <1>7

\* What is found is in an attempt; if each attempt is empty or has the row, it is
\* the row or nothing; and it is the row if the first that are not empty are the row.
LEMMA FirstUniqueIs ==
    ASSUME NEW U, IsFiniteSet(U), NEW tries \in Seq(SUBSET U)
    PROVE  /\ FirstUnique(tries) \in U \cup {NoMatch}
           /\ \A x : (\A i \in DOMAIN tries : tries[i] = {} \/ x \in tries[i])
                        => FirstUnique(tries) \in {x, NoMatch}
           /\ \A x : \A j \in DOMAIN tries :
                  tries[j] = {x} /\ (\A i \in DOMAIN tries : i < j => tries[i] \in {{}, {x}})
                        => FirstUnique(tries) = x
<1>1. PICK one : one = {i \in DOMAIN tries : Cardinality(tries[i]) = 1}
  OBVIOUS
<1>2. \A i \in DOMAIN tries : i \in Nat /\ tries[i] \in SUBSET U
  OBVIOUS
<1>3. \A i \in DOMAIN tries : IsFiniteSet(tries[i])
  BY <1>2, FS_Subset
<1>4. \A i \in DOMAIN tries : i \in one <=> \E x : tries[i] = {x}
  BY <1>1, <1>3, FS_Singleton
<1>5. one \in SUBSET Nat /\ one \subseteq DOMAIN tries
  BY <1>1, <1>2
<1>6. CASE one = {}
  <2>1. FirstUnique(tries) = NoMatch
    BY <1>1, <1>6 DEF FirstUnique
  <2>2. \A x : \A j \in DOMAIN tries : tries[j] # {x}
    BY <1>4, <1>6
  <2>3. QED BY <2>1, <2>2
<1>7. CASE one # {}
  <2>1. PICK m \in one : m = Min(one) /\ \A k \in one : m <= k
    BY <1>5, <1>7, MinIsIn
  <2>2. PICK y : tries[m] = {y}
    BY <1>4, <1>5, <2>1
  <2>3. FirstUnique(tries) = y
    <3>1. FirstUnique(tries) = CHOOSE p \in tries[m] : TRUE
      BY <1>1, <1>7, <2>1 DEF FirstUnique
    <3>2. QED BY <3>1, <2>2
  <2>4. y \in U
    BY <1>2, <1>5, <2>1, <2>2
  <2>5. ASSUME NEW x, \A i \in DOMAIN tries : tries[i] = {} \/ x \in tries[i] PROVE y = x
    BY <1>5, <2>1, <2>2, <2>5
  <2>6. ASSUME NEW x, NEW j \in DOMAIN tries, tries[j] = {x},
               \A i \in DOMAIN tries : i < j => tries[i] \in {{}, {x}}
        PROVE  y = x
    <3>1. j \in one /\ m \in Nat /\ j \in Nat
      BY <1>2, <1>4, <1>5, <2>1, <2>6
    <3>2. m < j \/ m = j
      BY <3>1, <2>1
    <3>3. tries[m] \in {{}, {x}}
      BY <3>2, <1>5, <2>1, <2>6
    <3>4. QED BY <3>3, <2>2
  <2>7. QED BY <2>3, <2>4, <2>5, <2>6
<1>8. QED BY <1>6, <1>7

\* How the RKKS file writes a row: the last segment is its sign.
LEMMA RkksIs ==
    ASSUME MergeInit, NEW p \in RowPaths
    PROVE  /\ LastSegment("rkks", p) = <<Last(p)>>
           /\ Code("rkks", p) \in Seq(Sign) /\ Len(Code("rkks", p)) >= 1 /\ Last(Code("rkks", p)) = Last(p)
           /\ Last(p) \in Sign
           /\ Len(Code("rkks", p)) = 1 => Code("rkks", p) = <<Last(p)>>
           /\ Len(Code("rkks", p)) = 1 => spelling["rkks"] = "plain" \/ Len(p) = 1
<1>1. spelling["rkks"] \in {"plain", "joined"} /\ spelling["rkks"] \in Spellings
  BY FilesAre
<1>2. PICK n \in Nat : n = Len(p) /\ (n = 1 \/ n > 1)
  BY PathIs, CodesAssumption
<1>3. PICK k \in Nat : k = Len(Code("rkks", p))
  BY <1>1, CodeTyped
<1>4. CASE spelling["rkks"] = "plain" \/ n = 1
  BY <1>1, <1>2, <1>4, CodeTyped
<1>5. CASE spelling["rkks"] = "joined" /\ n > 1
  <2>1. k > 1 /\ k # 1
    <3>1. spelling["rkks"] # "plain"
      BY <1>5
    <3>2. Len(p) > 1
      BY <1>2, <1>5, Zenon
    <3>3. Len(Code("rkks", p)) > 1
      BY <1>1, <3>1, <3>2, CodeTyped
    <3>4. k > 1
      BY <3>3, <1>3, Zenon
    <3>5. QED BY <3>4
  <2>2. LastSegment("rkks", p) = <<Last(p)>>
    BY <1>2, <1>5, <1>1, CodeTyped
  <2>3. QED BY <2>1, <2>2, <1>1, <1>3, CodeTyped
<1>6. QED BY <1>1, <1>2, <1>4, <1>5

\* Keys of codes.
LEMMA KeysTyped ==
    ASSUME MergeInit, NEW p \in RowPaths, NEW path, path = Spelled("rkks", p), NEW code, code = Code("rkks", p)
    PROVE  /\ path \in Seq(Seq(Sign)) /\ Len(path) >= 1 /\ path[Len(path)] = code
           /\ <<code>> \in Seq(Seq(Sign)) /\ Len(<<code>>) = 1 /\ <<code>>[1] = code
           /\ Len(p) > 1 => \A b : b = Code("rkks", Front(p)) =>
                /\ <<b, code>> \in Seq(Seq(Sign)) /\ Len(<<b, code>>) = 2 /\ <<b, code>>[2] = code
                /\ b \o <<"0">> \o code \in Seq(Sign) /\ Len(b \o <<"0">> \o code) > 1
                /\ b \o code \in Seq(Sign) /\ Len(b \o code) > 1
<1>1. spelling["rkks"] \in Spellings
  BY FilesAre
<1>2. path \in Seq(Seq(Sign)) /\ Len(path) >= 1 /\ path[Len(path)] = code
  BY <1>1, SpelledIs
<1>3. PICK V : V = Seq(Sign)
  OBVIOUS
<1>4. code \in V /\ Len(code) >= 1
  BY <1>1, <1>3, CodeTyped
<1>5. <<code>> \in Seq(V) /\ Len(<<code>>) = 1 /\ <<code>>[1] = code
  BY <1>4
<1>6. ASSUME Len(p) > 1, NEW b, b = Code("rkks", Front(p))
      PROVE  /\ <<b, code>> \in Seq(V) /\ Len(<<b, code>>) = 2 /\ <<b, code>>[2] = code
             /\ b \o <<"0">> \o code \in V /\ Len(b \o <<"0">> \o code) > 1
             /\ b \o code \in V /\ Len(b \o code) > 1
  <2>1. b \in V /\ b \in Seq(Sign) /\ Len(b) >= 1
    BY <1>1, <1>3, <1>6, SpelledIs
  <2>2. <<b, code>> \in Seq(V) /\ Len(<<b, code>>) = 2 /\ <<b, code>>[2] = code
    BY <1>4, <2>1
  <2>3. PICK z \in Seq(Sign) : z = <<"0">> /\ Len(z) = 1
    <3>1. "0" \in Sign
      BY ZeroIsSign
    <3>2. ASSUME NEW x \in Sign PROVE <<x>> \in Seq(Sign) /\ Len(<<x>>) = 1
      OBVIOUS
    <3>3. QED BY <3>1, <3>2
  <2>4. b \o z \in Seq(Sign) /\ Len(b \o z) = Len(b) + 1
    <3>1. b \o z \in Seq(Sign) /\ Len(b \o z) = Len(b) + Len(z)
      BY <2>1, JoinIs
    <3>2. QED BY <3>1, <2>3, Zenon
  <2>5. PICK bz \in Seq(Sign) : bz = b \o z /\ Len(bz) = Len(b) + 1
    BY <2>4
  <2>6. code \in Seq(Sign)
    BY <1>3, <1>4
  <2>7. bz \o code \in Seq(Sign) /\ Len(bz \o code) = Len(bz) + Len(code)
    BY <2>6, JoinIs
  <2>8. b \o code \in Seq(Sign) /\ Len(b \o code) = Len(b) + Len(code)
    BY <2>1, <2>6, JoinIs
  <2>9. Len(b) \in Nat /\ Len(code) \in Nat
    BY <2>1, <2>6
  <2>10. Len(bz \o code) > 1 /\ Len(b \o code) > 1
    BY <2>1, <2>5, <2>7, <2>8, <2>9, <1>4
  <2>11. bz = b \o <<"0">>
    BY <2>3, <2>5
  <2>12. QED BY <2>2, <2>7, <2>8, <2>10, <2>11, <1>3
<1>7. QED BY <1>2, <1>3, <1>5, <1>6

\* The same, for a key whose last code is named.
LEMMA ByPathEnds ==
    ASSUME MergeInit, NEW key \in Seq(Seq(Sign)), Len(key) >= 1, NEW code, key[Len(key)] = code
    PROVE  ByPath(key) \in SUBSET fa /\ \A q \in ByPath(key) : q \in fa /\ Code("fa", q) = code
BY ByPathIs

\* Key of one long code, for which a file of plain codes has no row.
LEMMA LongKey ==
    ASSUME MergeInit, NEW k \in Seq(Sign), Len(k) > 1
    PROVE  /\ ByPath(<<k>>) \in SUBSET fa
           /\ spelling["fa"] = "plain" => ByPath(<<k>>) = {}
<1>1. PICK V : V = Seq(Sign)
  OBVIOUS
<1>2. <<k>> \in Seq(V) /\ Len(<<k>>) >= 1 /\ <<k>>[Len(<<k>>)] = k
  BY <1>1
<1>3. ByPath(<<k>>) \in SUBSET fa /\ \A q \in ByPath(<<k>>) : q \in fa /\ Code("fa", q) = k
  BY <1>1, <1>2, ByPathEnds
<1>4. ASSUME spelling["fa"] = "plain", NEW q \in ByPath(<<k>>) PROVE FALSE
  <2>1. Len(Code("fa", q)) = 1
    BY <1>3, <1>4, FilesAre, CodeTyped
  <2>2. Len(k) # 1
    <3>1. PICK m \in Nat : m = Len(k)
      OBVIOUS
    <3>2. m > 1
      BY <3>1, Zenon
    <3>3. m # 1
      BY <3>2
    <3>4. QED BY <3>1, <3>3
  <2>3. QED BY <2>1, <2>2, <1>3, Zenon
<1>5. QED BY <1>3, <1>4

\* Every attempt is a set of rows of the FA file.
LEMMA AnywhereTyped ==
    ASSUME MergeInit, NEW p \in RowPaths
    PROVE  /\ Anywhere(p) \in Seq(SUBSET fa) /\ Len(Anywhere(p)) >= 1
           /\ Anywhere(p)[1] = ByPath(Spelled("rkks", p))
<1>1. PICK path, code : path = Spelled("rkks", p) /\ code = Code("rkks", p)
  OBVIOUS
<1>2. PICK G : G = SUBSET fa
  OBVIOUS
<1>3. ByPath(path) \in G
  BY <1>1, <1>2, KeysTyped, ByPathIs
<1>4. ByPath(<<code>>) \in G
  <2>1. <<code>> \in Seq(Seq(Sign)) /\ Len(<<code>>) >= 1
    BY <1>1, KeysTyped
  <2>2. QED BY <2>1, <1>2, ByPathIs
<1>5. {q \in fa : LastSegment("fa", q) = code} \in G
  BY <1>2
<1>6. ASSUME Len(p) > 1, NEW b, b = Code("rkks", Front(p))
      PROVE  /\ ByPath(<<b, code>>) \in G
             /\ ByPath(<<b \o <<"0">> \o code>>) \in G
             /\ ByPath(<<b \o code>>) \in G
  <2>1. <<b, code>> \in Seq(Seq(Sign)) /\ Len(<<b, code>>) >= 1
    BY <1>1, <1>6, KeysTyped
  <2>2. ByPath(<<b, code>>) \in G
    BY <2>1, <1>2, ByPathIs
  <2>3. /\ b \o <<"0">> \o code \in Seq(Sign) /\ Len(b \o <<"0">> \o code) > 1
        /\ b \o code \in Seq(Sign) /\ Len(b \o code) > 1
    BY <1>1, <1>6, KeysTyped
  <2>4. QED BY <2>2, <2>3, <1>2, LongKey
<1>7. spelling["rkks"] \in Spellings
  BY FilesAre
<1>8. PICK b : b = Code("rkks", Front(p))
  OBVIOUS
<1>9. Anywhere(p) \in Seq(G) /\ Len(Anywhere(p)) >= 1 /\ Anywhere(p)[1] = ByPath(path)
  <2>1. Len(p) > 1 => /\ ByPath(<<b, code>>) \in G
                      /\ ByPath(<<b \o <<"0">> \o code>>) \in G
                      /\ ByPath(<<b \o code>>) \in G
    BY <1>6, <1>8
  <2>2. QED BY <1>1, <1>3, <1>4, <1>5, <1>7, <1>8, <2>1, AnywhereIs
<1>10. QED BY <1>1, <1>2, <1>9

\* Among the candidates, too.
LEMMA AmongIs ==
    ASSUME NEW p, NEW S, NEW a, a = AmongCandidates(p, S)
    PROVE  /\ a[1] = {q \in S : Code("fa", q) = Code("rkks", p)}
           /\ a[2] = {q \in S : LastSegment("rkks", p) \in {Code("fa", q), LastSegment("fa", q)}}
           /\ a[3] = {q \in S : \E end \in {Code("rkks", p), LastSegment("rkks", p)} : IsSuffix(end, Code("fa", q))}
BY DEF AmongCandidates

LEMMA TriesTyped ==
    ASSUME MergeInit, NEW p \in RowPaths, NEW S \in SUBSET fa
    PROVE  AmongCandidates(p, S) \o Anywhere(p) \in Seq(SUBSET fa)
<1>1. PICK a : a = AmongCandidates(p, S)
  OBVIOUS
<1>2. PICK G : G = SUBSET fa
  OBVIOUS
<1>3. a[1] \in G /\ a[2] \in G /\ a[3] \in G
  BY <1>1, <1>2, AmongIs
<1>4. PICK rest \in Seq(G) : rest = Anywhere(p) /\ Len(rest) >= 1
  BY <1>2, AnywhereTyped
<1>5. a \o rest \in Seq(G)
  BY <1>1, <1>3, <1>4, TriesAre
<1>6. QED BY <1>1, <1>2, <1>4, <1>5

-----------------------------------------------------------------------------
\* Where the FA file writes every code plainly, an attempt that finds anything for a
\* row of the file finds the row.
LEMMA PlainAnywhere ==
    ASSUME MergeInit, NEW p \in fa, spelling["fa"] = "plain"
    PROVE  Anywhere(p) \in Seq({X \in SUBSET fa : X = {} \/ p \in X}) /\ Len(Anywhere(p)) >= 1
<1>1. PICK path, code : path = Spelled("rkks", p) /\ code = Code("rkks", p)
  OBVIOUS
<1>2. PICK G : G = {X \in SUBSET fa : X = {} \/ p \in X}
  OBVIOUS
<1>3. /\ p \in RowPaths /\ spelling["rkks"] \in Spellings /\ spelling["fa"] \in Spellings
      /\ \A q \in fa : q \in RowPaths
  BY FilesAre
<1>4. \A q \in fa : /\ Code("fa", q) = <<Last(q)>> /\ LastSegment("fa", q) = <<Last(q)>>
                    /\ Len(Code("fa", q)) = 1
  BY <1>3, CodeTyped
<1>5. PICK t \in Seq(Seq(Sign)) :
        /\ t = Spelled("fa", p) /\ Len(t) = Len(p) /\ Len(t) >= 1 /\ t[Len(t)] = Code("fa", p)
        /\ Len(t) > 1 => t[Len(t) - 1] = Code("fa", Front(p))
  BY <1>3, SpelledIs
<1>6. IsSuffix(t, t) /\ IsSuffix(<<t[Len(t)]>>, t) /\ (Len(t) >= 2 => IsSuffix(<<t[Len(t) - 1], t[Len(t)]>>, t))
  BY <1>5, Endings
<1>7. /\ Len(code) = 1 => code = Code("fa", p)
      /\ Len(code) = 1 => spelling["rkks"] = "plain" \/ Len(p) = 1
  BY <1>1, <1>3, <1>4, RkksIs
<1>8. ByPath(path) \in G
  <2>1. ByPath(path) \in SUBSET fa /\ \A q \in ByPath(path) : q \in fa /\ Code("fa", q) = code
    <3>1. path \in Seq(Seq(Sign)) /\ Len(path) >= 1 /\ path[Len(path)] = code
      BY <1>1, <1>3, KeysTyped
    <3>2. QED BY <3>1, ByPathEnds
  <2>2. ASSUME NEW q \in ByPath(path) PROVE p \in ByPath(path)
    <3>1. Len(code) = 1
      BY <1>4, <2>1
    <3>2. path = t
      BY <3>1, <1>1, <1>3, <1>5, <1>7, SpelledAlike
    <3>3. QED BY <3>2, <1>5, <1>6 DEF ByPath
  <2>3. QED BY <2>1, <2>2, <1>2
<1>9. ByPath(<<code>>) \in G
  <2>1. ByPath(<<code>>) \in SUBSET fa /\ \A q \in ByPath(<<code>>) : q \in fa /\ Code("fa", q) = code
    <3>1. <<code>> \in Seq(Seq(Sign)) /\ Len(<<code>>) = 1 /\ <<code>>[1] = code
      BY <1>1, <1>3, KeysTyped
    <3>2. Len(<<code>>) >= 1 /\ <<code>>[Len(<<code>>)] = code
      BY <3>1
    <3>3. QED BY <3>1, <3>2, ByPathEnds
  <2>2. ASSUME NEW q \in ByPath(<<code>>) PROVE p \in ByPath(<<code>>)
    <3>1. code = t[Len(t)]
      BY <1>4, <1>5, <1>7, <2>1
    <3>2. QED BY <3>1, <1>5, <1>6 DEF ByPath
  <2>3. QED BY <2>1, <2>2, <1>2
<1>10. {q \in fa : LastSegment("fa", q) = code} \in G
  <2>1. ASSUME NEW q \in fa, LastSegment("fa", q) = code PROVE LastSegment("fa", p) = code
    <3>1. Len(code) = 1
      BY <1>4, <2>1
    <3>2. QED BY <3>1, <1>4, <1>7
  <2>2. QED BY <2>1, <1>2
<1>11. ASSUME Len(p) > 1, NEW b, b = Code("rkks", Front(p))
       PROVE  /\ ByPath(<<b, code>>) \in G
              /\ ByPath(<<b \o <<"0">> \o code>>) \in G
              /\ ByPath(<<b \o code>>) \in G
  <2>1. ByPath(<<b, code>>) \in SUBSET fa /\ \A q \in ByPath(<<b, code>>) : q \in fa /\ Code("fa", q) = code
    <3>1. <<b, code>> \in Seq(Seq(Sign)) /\ Len(<<b, code>>) = 2 /\ <<b, code>>[2] = code
      BY <1>1, <1>3, <1>11, KeysTyped
    <3>2. Len(<<b, code>>) >= 1 /\ <<b, code>>[Len(<<b, code>>)] = code
      BY <3>1
    <3>3. QED BY <3>1, <3>2, ByPathEnds
  <2>2. ASSUME NEW q \in ByPath(<<b, code>>) PROVE p \in ByPath(<<b, code>>)
    <3>1. Len(code) = 1
      BY <1>4, <2>1
    <3>2. code = t[Len(t)]
      BY <3>1, <1>5, <1>7
    <3>3. Len(p) # 1 /\ Len(t) >= 2 /\ Len(t) > 1
      <4>1. PICK n \in Nat : n = Len(t) /\ n = Len(p)
        BY <1>5
      <4>2. n > 1
        BY <4>1, <1>11, Zenon
      <4>3. n # 1 /\ n >= 2
        BY <4>2
      <4>4. QED BY <4>1, <4>2, <4>3, Zenon
    <3>4. spelling["rkks"] = "plain"
      BY <3>1, <3>3, <1>7
    <3>5. Front(p) \in fa /\ Front(p) \in RowPaths
      BY <1>3, <1>11, FilesAre
    <3>6. b = <<Last(Front(p))>>
      BY <3>4, <3>5, <1>3, <1>11, CodeTyped
    <3>7. b = t[Len(t) - 1]
      BY <3>3, <3>5, <3>6, <1>4, <1>5
    <3>8. QED BY <3>2, <3>3, <3>7, <1>5, <1>6 DEF ByPath
  <2>3. ByPath(<<b, code>>) \in G
    BY <2>1, <2>2, <1>2
  <2>4. /\ b \o <<"0">> \o code \in Seq(Sign) /\ Len(b \o <<"0">> \o code) > 1
        /\ b \o code \in Seq(Sign) /\ Len(b \o code) > 1
    BY <1>1, <1>3, <1>11, KeysTyped
  <2>5. ByPath(<<b \o <<"0">> \o code>>) = {} /\ ByPath(<<b \o code>>) = {}
    BY <2>4, LongKey
  <2>6. QED BY <2>3, <2>5, <1>2
<1>12. PICK b : b = Code("rkks", Front(p))
  OBVIOUS
<1>13. Anywhere(p) \in Seq(G) /\ Len(Anywhere(p)) >= 1
  <2>1. Len(p) > 1 => /\ ByPath(<<b, code>>) \in G
                      /\ ByPath(<<b \o <<"0">> \o code>>) \in G
                      /\ ByPath(<<b \o code>>) \in G
    BY <1>11, <1>12
  <2>2. PICK last : last = {q \in fa : LastSegment("fa", q) = code}
    OBVIOUS
  <2>3. last \in G
    BY <1>10, <2>2
  <2>4. PICK r \in RowPaths : r = p
    BY <1>3
  <2>5. path = Spelled("rkks", r) /\ code = Code("rkks", r) /\ b = Code("rkks", Front(r)) /\ (Len(r) > 1 <=> Len(p) > 1)
    BY <1>1, <1>12, <2>4
  <2>6. spelling["rkks"] \in Spellings
    BY <1>3
  <2>7. Anywhere(r) \in Seq(G) /\ Len(Anywhere(r)) >= 1
    BY <1>8, <1>9, <2>1, <2>2, <2>3, <2>5, <2>6, AnywhereIs
  <2>8. QED BY <2>4, <2>7
<1>14. QED BY <1>2, <1>13

\* So the row is found, or nothing.
LEMMA PlainFound ==
    ASSUME MergeInit, NEW p \in fa, spelling["fa"] = "plain", NEW S \in SUBSET fa, S = {} \/ p \in S
    PROVE  FirstUnique(AmongCandidates(p, S) \o Anywhere(p)) \in {p, NoMatch}
<1>1. PICK a : a = AmongCandidates(p, S)
  OBVIOUS
<1>2. PICK G : G = {X \in SUBSET fa : X = {} \/ p \in X}
  OBVIOUS
<1>3. /\ p \in RowPaths /\ spelling["fa"] \in Spellings /\ IsFiniteSet(fa)
      /\ \A q \in fa : q \in RowPaths
  BY FilesAre
<1>4. \A q \in fa : Code("fa", q) = <<Last(q)>> /\ Len(Code("fa", q)) = 1
  BY <1>3, CodeTyped
<1>5. a[1] \in G
  <2>1. ASSUME NEW q \in S, Code("fa", q) = Code("rkks", p) PROVE p \in S /\ Code("fa", p) = Code("rkks", p)
    <3>1. Len(Code("rkks", p)) = 1
      BY <1>4, <2>1
    <3>2. QED BY <3>1, <1>3, <1>4, RkksIs
  <2>2. QED BY <2>1, <1>1, <1>2, AmongIs
<1>6. LastSegment("rkks", p) = Code("fa", p)
  BY <1>3, <1>4, RkksIs
<1>7. a[2] \in G
  BY <1>1, <1>2, <1>6, AmongIs
<1>8. IsSuffix(LastSegment("rkks", p), Code("fa", p))
  <2>1. Code("fa", p) \in Seq(Sign) /\ Len(Code("fa", p)) >= 1
    BY <1>3, CodeTyped
  <2>2. QED BY <2>1, <1>6, Endings
<1>9. a[3] \in G
  <2>1. S # {} => p \in a[3]
    BY <1>1, <1>8, AmongIs
  <2>2. a[3] \subseteq S
    BY <1>1, AmongIs
  <2>3. QED BY <2>1, <2>2, <1>2
<1>10. PICK rest \in Seq(G) : rest = Anywhere(p) /\ Len(rest) >= 1
  BY <1>2, PlainAnywhere
<1>11. PICK tries \in Seq(G) : tries = a \o rest
  BY <1>1, <1>5, <1>7, <1>9, <1>10, TriesAre
<1>12. \A i \in DOMAIN tries : tries[i] \in G
  OBVIOUS
<1>13. tries \in Seq(SUBSET fa)
  BY <1>1, <1>10, <1>11, TriesTyped, <1>3
<1>14. FirstUnique(tries) \in {p, NoMatch}
  <2>1. \A i \in DOMAIN tries : tries[i] = {} \/ p \in tries[i]
    BY <1>2, <1>12
  <2>2. QED BY <2>1, <1>3, <1>13, FirstUniqueIs
<1>15. QED BY <1>1, <1>10, <1>11, <1>14

\* Where the FA file joins the codes, a top row is found by its path ...
LEMMA TopFound ==
    ASSUME MergeInit, NEW p \in fa, spelling["fa"] # "plain", Len(p) = 1
    PROVE  FirstUnique(AmongCandidates(p, {}) \o Anywhere(p)) = p
<1>1. /\ p \in RowPaths /\ spelling["fa"] \in Spellings /\ spelling["rkks"] \in Spellings
      /\ IsFiniteSet(fa) /\ \A q \in fa : q \in RowPaths
  BY FilesAre
<1>2. PICK path, code : path = Spelled("rkks", p) /\ code = Code("rkks", p)
  OBVIOUS
<1>3. path \in Seq(Seq(Sign)) /\ Len(path) >= 1 /\ path[Len(path)] = code
  BY <1>1, <1>2, KeysTyped
<1>4. code = <<Last(p)>> /\ Len(code) = 1
  BY <1>1, <1>2, CodeTyped
<1>5. ASSUME NEW q \in ByPath(path) PROVE q = p
  <2>1. q \in fa /\ q \in RowPaths /\ Code("fa", q) = code
    BY <1>1, <1>3, ByPathEnds
  <2>2. PICK n \in 1 .. Len(Codes) : q \in [1 .. n -> Sign] /\ Len(q) = n
    BY <2>1, PathIs
  <2>3. PICK m \in 1 .. Len(Codes) : p \in [1 .. m -> Sign] /\ Len(p) = m
    BY <1>1, PathIs
  <2>4. ~ (n > 1)
    <3> SUFFICES ASSUME n > 1 PROVE FALSE
      OBVIOUS
    <3>1. Len(q) > 1
      BY <2>2, Zenon
    <3>2. Len(Code("fa", q)) > 1
      BY <3>1, <1>1, <2>1, CodeTyped
    <3>3. Len(code) > 1
      BY <3>2, <2>1, Zenon
    <3>4. QED BY <3>3, <1>4
  <2>5. n = 1 /\ m = 1
    <3>1. n = 1
      BY <2>4, CodesAssumption
    <3>2. QED BY <3>1, <2>3
  <2>6. Last(q) = Last(p)
    <3>1. Last(Code("fa", q)) = Last(q)
      BY <2>1, <1>1, CodeTyped
    <3>2. Last(Code("rkks", p)) = Last(p)
      BY <1>1, CodeTyped
    <3>3. QED BY <3>1, <3>2, <2>1, <1>2, Zenon
  <2>7. q[1] = p[1]
    BY <2>2, <2>3, <2>5, <2>6 DEF Last
  <2>8. QED BY <2>2, <2>3, <2>5, <2>7
<1>6. p \in ByPath(path)
  <2>1. path = Spelled("fa", p)
    BY <1>1, <1>2, SpelledAlike
  <2>2. IsSuffix(path, path)
    BY <1>3, Endings
  <2>3. QED BY <2>1, <2>2 DEF ByPath
<1>7. ByPath(path) = {p}
  BY <1>5, <1>6
<1>8. PICK a : a = AmongCandidates(p, {})
  OBVIOUS
<1>9. a[1] = {} /\ a[2] = {} /\ a[3] = {}
  BY <1>8, AmongIs
<1>10. PICK G : G = SUBSET fa
  OBVIOUS
<1>11. PICK rest \in Seq(G) : rest = Anywhere(p) /\ Len(rest) >= 1 /\ rest[1] = {p}
  BY <1>1, <1>2, <1>7, <1>10, AnywhereTyped
<1>12. /\ a \o rest \in Seq(G) /\ Len(a \o rest) >= 4
       /\ \A i \in 1 .. 3 : (a \o rest)[i] = a[i]
       /\ (a \o rest)[4] = rest[1]
  <2>1. a[1] \in G /\ a[2] \in G /\ a[3] \in G
    BY <1>9, <1>10
  <2>2. QED BY <2>1, <1>8, <1>11, TriesAre
<1>13. PICK tries \in Seq(G) :
         /\ tries = a \o rest /\ Len(tries) >= 4 /\ tries[4] = {p}
         /\ tries[1] = {} /\ tries[2] = {} /\ tries[3] = {}
  <2>1. 1 \in 1 .. 3 /\ 2 \in 1 .. 3 /\ 3 \in 1 .. 3
    OBVIOUS
  <2>2. QED BY <2>1, <1>9, <1>11, <1>12
<1>14. 4 \in DOMAIN tries /\ \A i \in DOMAIN tries : i < 4 => tries[i] \in {{}, {p}}
  <2>1. 4 \in DOMAIN tries
    BY <1>13
  <2>2. \A i \in DOMAIN tries : i < 4 => i = 1 \/ i = 2 \/ i = 3
    OBVIOUS
  <2>3. QED BY <2>1, <2>2, <1>13
<1>15. FirstUnique(tries) = p
  BY <1>1, <1>10, <1>13, <1>14, FirstUniqueIs
<1>16. QED BY <1>8, <1>11, <1>13, <1>15

\* ... and a row below another by the ending of its code, among the rows below the
\* match of the other: the sign it ends in is different for each of them.
LEMMA BelowFound ==
    ASSUME MergeInit, NEW p \in fa, spelling["fa"] # "plain", Len(p) > 1,
           NEW S, S = Under(Front(p), fa)
    PROVE  FirstUnique(AmongCandidates(p, S) \o Anywhere(p)) = p
<1>1. /\ p \in RowPaths /\ spelling["fa"] \in Spellings /\ spelling["rkks"] \in Spellings
      /\ IsFiniteSet(fa) /\ \A q \in fa : q \in RowPaths
  BY FilesAre
<1>2. PICK code, segment : code = Code("rkks", p) /\ segment = LastSegment("rkks", p)
  OBVIOUS
<1>3. /\ code \in Seq(Sign) /\ Len(code) >= 1 /\ Last(code) = Last(p)
      /\ segment = <<Last(p)>> /\ Last(p) \in Sign
  BY <1>1, <1>2, RkksIs
<1>4. segment \in Seq(Sign) /\ Len(segment) >= 1 /\ Last(segment) = Last(p)
  <2>1. ASSUME NEW x \in Sign PROVE <<x>> \in Seq(Sign) /\ Len(<<x>>) >= 1 /\ Last(<<x>>) = x
    <3>1. Len(<<x>>) >= 1 /\ Last(<<x>>) = x
      BY LastOfOne
    <3>2. QED BY <3>1, TupleTypes
  <2>2. QED BY <2>1, <1>3
<1>5. S \subseteq fa /\ p \in S /\ \A q \in S : q \in RowPaths /\ Len(q) > 1 /\ Front(q) = Front(p)
  BY <1>1 DEF Under
<1>6. \A q \in S : Last(q) = Last(p) => q = p
  BY <1>1, <1>5, FrontAndLast
<1>7. ASSUME NEW q \in S
      PROVE  /\ Code("fa", q) \in Seq(Sign) /\ Last(Code("fa", q)) = Last(q)
             /\ Last(LastSegment("fa", q)) = Last(q)
  <2>1. q \in RowPaths /\ Len(q) > 1
    BY <1>5
  <2>2. Code("fa", q) \in Seq(Sign) /\ Last(Code("fa", q)) = Last(q)
    BY <1>1, <2>1, CodeTyped
  <2>3. CASE spelling["fa"] = "joined"
    <3>1. LastSegment("fa", q) = <<Last(q)>>
      BY <1>1, <2>1, <2>3, CodeTyped
    <3>2. QED BY <2>2, <3>1, LastOfOne
  <2>4. CASE spelling["fa"] = "padded"
    <3>1. LastSegment("fa", q) = <<"0", Last(q)>>
      BY <1>1, <2>1, <2>4, CodeTyped
    <3>2. QED BY <2>2, <3>1, LastOfTwo
  <2>5. QED BY <1>1, <2>3, <2>4 DEF Spellings
<1>8. PICK a : a = AmongCandidates(p, S)
  OBVIOUS
<1>9. /\ a[1] = {q \in S : Code("fa", q) = code}
      /\ a[2] = {q \in S : segment \in {Code("fa", q), LastSegment("fa", q)}}
      /\ a[3] = {q \in S : \E end \in {code, segment} : IsSuffix(end, Code("fa", q))}
  BY <1>2, <1>8, AmongIs
<1>10. a[1] \subseteq {p}
  BY <1>3, <1>6, <1>7, <1>9
<1>11. a[2] \subseteq {p}
  BY <1>4, <1>6, <1>7, <1>9
<1>12. a[3] \subseteq {p}
  <2>1. ASSUME NEW q \in S, NEW end \in {code, segment}, IsSuffix(end, Code("fa", q)) PROVE q = p
    <3>1. end \in Seq(Sign) /\ Len(end) >= 1 /\ Last(end) = Last(p)
      BY <1>3, <1>4
    <3>2. Last(end) = Last(Code("fa", q))
      BY <3>1, <2>1, <1>7, EndsAlike
    <3>3. QED BY <3>1, <3>2, <1>6, <1>7
  <2>2. QED BY <2>1, <1>9
<1>13. p \in a[3]
  <2>1. PICK t \in Seq(Sign) : t = Code("fa", p) /\ Len(t) >= 1 /\ Last(t) = Last(p)
    BY <1>1, CodeTyped
  <2>2. IsSuffix(<<t[Len(t)]>>, t)
    BY <2>1, Endings
  <2>3. t[Len(t)] = Last(p)
    BY <2>1 DEF Last
  <2>4. IsSuffix(segment, Code("fa", p))
    BY <2>1, <2>2, <2>3, <1>3
  <2>5. QED BY <2>4, <1>5, <1>9
<1>14. PICK G : G = SUBSET fa
  OBVIOUS
<1>15. PICK rest \in Seq(G) : rest = Anywhere(p) /\ Len(rest) >= 1
  BY <1>1, <1>14, AnywhereTyped
<1>16. /\ a \o rest \in Seq(G) /\ Len(a \o rest) >= 4
       /\ \A i \in 1 .. 3 : (a \o rest)[i] = a[i]
  <2>1. a[1] \in G /\ a[2] \in G /\ a[3] \in G
    BY <1>5, <1>9, <1>14
  <2>2. QED BY <2>1, <1>8, <1>15, TriesAre
<1>17. PICK tries \in Seq(G) :
         /\ tries = a \o rest /\ Len(tries) >= 4
         /\ tries[1] = a[1] /\ tries[2] = a[2] /\ tries[3] = {p}
  <2>1. 1 \in 1 .. 3 /\ 2 \in 1 .. 3 /\ 3 \in 1 .. 3
    OBVIOUS
  <2>2. a[3] = {p}
    BY <1>12, <1>13
  <2>3. QED BY <2>1, <2>2, <1>16
<1>18. 3 \in DOMAIN tries /\ \A i \in DOMAIN tries : i < 3 => tries[i] \in {{}, {p}}
  <2>1. 3 \in DOMAIN tries
    BY <1>17
  <2>2. \A i \in DOMAIN tries : i < 3 => i = 1 \/ i = 2
    OBVIOUS
  <2>3. QED BY <2>1, <2>2, <1>10, <1>11, <1>17
<1>19. FirstUnique(tries) = p
  BY <1>1, <1>14, <1>17, <1>18, FirstUniqueIs
<1>20. QED BY <1>8, <1>15, <1>17, <1>19

-----------------------------------------------------------------------------
\* Every attempt for a row, given the matches of the rows above.
LEMMA MatchedTyped ==
    ASSUME MergeInit, NEW p \in RowPaths, NEW m
    PROVE  /\ Candidates(m, p) \in SUBSET fa
           /\ Matched(m, p) \in fa \cup {NoMatch}
<1>1. Candidates(m, p) \in SUBSET fa
  BY DEF Candidates, Under
<1>2. AmongCandidates(p, Candidates(m, p)) \o Anywhere(p) \in Seq(SUBSET fa)
  BY <1>1, TriesTyped
<1>3. IsFiniteSet(fa)
  BY FilesAre
<1>4. FirstUnique(AmongCandidates(p, Candidates(m, p)) \o Anywhere(p)) \in fa \cup {NoMatch}
  BY <1>2, <1>3, FirstUniqueIs
<1>5. QED BY <1>1, <1>4 DEF Matched

\* The matches exist: each depends on the one above.
LEMMA FindIs ==
    ASSUME MergeInit
    PROVE  \E m : FindFaMatch = m /\ m = [p \in RowPaths |-> Matched(m, p)]
<1>1. PICK V : V = fa \cup {NoMatch}
  OBVIOUS
<1>2. \A m : \A p \in RowPaths : Matched(m, p) \in V
  BY <1>1, MatchedTyped
<1>3. PICK step \in [[RowPaths -> V] -> [RowPaths -> V]] :
        \A m \in [RowPaths -> V] : step[m] = [p \in RowPaths |-> Matched(m, p)]
  <2> DEFINE s == [m \in [RowPaths -> V] |-> [p \in RowPaths |-> Matched(m, p)]]
  <2>1. \A m \in [RowPaths -> V] : [p \in RowPaths |-> Matched(m, p)] \in [RowPaths -> V]
    BY <1>2
  <2>2. s \in [[RowPaths -> V] -> [RowPaths -> V]]
    BY <2>1
  <2>3. \A m \in [RowPaths -> V] : s[m] = [p \in RowPaths |-> Matched(m, p)]
    OBVIOUS
  <2> HIDE DEF s
  <2>4. QED BY <2>2, <2>3
<1>4. PICK n \in Nat : n = Len(Codes)
  BY CodesAssumption
<1>5. PICK rank \in [RowPaths -> 0 .. n] : \A p \in RowPaths : rank[p] = Len(p)
  <2>1. \A p \in RowPaths : Len(p) \in 0 .. n
    BY <1>4, PathIs
  <2>2. [p \in RowPaths |-> Len(p)] \in [RowPaths -> 0 .. n]
    BY <2>1
  <2>3. QED BY <2>2
<1>6. ASSUME NEW f \in [RowPaths -> V], NEW g \in [RowPaths -> V], NEW p \in RowPaths,
             \A q \in RowPaths : rank[q] < rank[p] => f[q] = g[q]
      PROVE  step[f][p] = step[g][p]
  <2>1. Candidates(f, p) = Candidates(g, p)
    <3>1. PICK k \in Nat : k = Len(p) /\ k \in 1 .. n
      BY <1>4, PathIs
    <3>2. CASE k = 1
      BY <3>1, <3>2 DEF Candidates
    <3>3. CASE k > 1
      <4>1. Front(p) \in RowPaths /\ Len(Front(p)) = k - 1
        BY <3>1, <3>3, FrontIs
      <4>2. rank[Front(p)] < rank[p]
        BY <4>1, <3>1, <1>5
      <4>3. f[Front(p)] = g[Front(p)]
        BY <4>1, <4>2, <1>6
      <4>4. QED BY <4>3 DEF Candidates
    <3>4. QED BY <3>1, <3>2, <3>3
  <2>2. Matched(f, p) = Matched(g, p)
    BY <2>1 DEF Matched
  <2>3. step[f] = [q \in RowPaths |-> Matched(f, q)]
    BY <1>3
  <2>4. step[g] = [q \in RowPaths |-> Matched(g, q)]
    BY <1>3
  <2>5. step[f][p] = Matched(f, p)
    BY <2>3
  <2>6. step[g][p] = Matched(g, p)
    BY <2>4
  <2>7. QED BY <2>2, <2>5, <2>6
<1>7. PICK f \in [RowPaths -> V] : step[f] = f
  <2>1. V # {}
    BY <1>1
  <2>2. \A f, g \in [RowPaths -> V] : \A p \in RowPaths :
          (\A q \in RowPaths : rank[q] < rank[p] => f[q] = g[q]) => step[f][p] = step[g][p]
    BY <1>6
  <2>3. Descends(RowPaths, V, n, rank, step)
    BY <2>1, <2>2 DEF Descends
  <2>4. QED BY <2>3, RankedRecursion
<1> DEFINE eq(m) == m = [p \in RowPaths |->
             LET candidates == IF Len(p) = 1 THEN {} ELSE
                                 IF m[Front(p)] = NoMatch THEN {} ELSE Under(m[Front(p)], fa)
             IN  FirstUnique(AmongCandidates(p, candidates) \o Anywhere(p))]
<1>8. \A m : eq(m) <=> m = [p \in RowPaths |-> Matched(m, p)]
  BY DEF Matched, Candidates
<1>9. FindFaMatch = CHOOSE m : eq(m)
  BY DEF FindFaMatch
<1> HIDE DEF eq
<1>10. eq(f)
  BY <1>3, <1>7, <1>8
<1>11. eq(CHOOSE m : eq(m))
  BY <1>10
<1>12. QED BY <1>8, <1>9, <1>11

\* A row that is in both files finds itself or nothing.
LEMMA FindsItself ==
    ASSUME MergeInit, NEW p \in fa
    PROVE  FindFaMatch[p] \in {p, NoMatch}
<1>1. PICK m : FindFaMatch = m /\ m = [q \in RowPaths |-> Matched(m, q)]
  BY FindIs
<1>2. \A q \in RowPaths : m[q] = Matched(m, q)
  BY <1>1
<1>3. /\ fa \subseteq RowPaths /\ \A q \in fa : Len(q) > 1 => Front(q) \in fa
  BY FilesAre
<1>4. PICK S : S = {q \in RowPaths : q \in fa => /\ m[q] \in {q, NoMatch}
                                                 /\ spelling["fa"] # "plain" => m[q] = q}
  OBVIOUS
<1>5. PICK rank \in [RowPaths -> Nat] : \A q \in RowPaths : rank[q] = Len(q)
  <2>1. \A q \in RowPaths : Len(q) \in Nat
    BY PathIs, CodesAssumption
  <2>2. [q \in RowPaths |-> Len(q)] \in [RowPaths -> Nat]
    BY <2>1
  <2>3. QED BY <2>2
<1>6. ASSUME NEW q \in RowPaths, \A r \in RowPaths : rank[r] < rank[q] => r \in S
      PROVE  q \in S
  <2> SUFFICES ASSUME q \in fa
               PROVE  m[q] \in {q, NoMatch} /\ (spelling["fa"] # "plain" => m[q] = q)
    BY <1>4
  <2>1. PICK n \in Nat : n = Len(q) /\ (n = 1 \/ n > 1) /\ (n > 1 => n # 1)
    BY PathIs, CodesAssumption
  <2>2. PICK C \in SUBSET fa : C = Candidates(m, q)
    BY MatchedTyped
  <2>3. m[q] = FirstUnique(AmongCandidates(q, C) \o Anywhere(q))
    BY <1>2, <2>2 DEF Matched
  <2>4. n > 1 => /\ Front(q) \in fa /\ m[Front(q)] \in {Front(q), NoMatch}
                 /\ spelling["fa"] # "plain" => m[Front(q)] = Front(q)
    <3> HAVE n > 1
    <3>1. Front(q) \in fa /\ Front(q) \in RowPaths /\ Len(Front(q)) = n - 1
      BY <2>1, <1>3, FrontIs
    <3>2. rank[Front(q)] < rank[q]
      BY <3>1, <2>1, <1>5
    <3>3. QED BY <3>1, <3>2, <1>4, <1>6
  <2>5. n = 1 => C = {}
    BY <2>1, <2>2 DEF Candidates
  <2>6. n > 1 => C = {} \/ C = Under(Front(q), fa)
    BY <2>1, <2>2, <2>4 DEF Candidates
  <2>7. n > 1 => q \in Under(Front(q), fa)
    BY <2>1 DEF Under
  <2>8. CASE spelling["fa"] = "plain"
    <3>1. C = {} \/ q \in C
      BY <2>1, <2>5, <2>6, <2>7
    <3>2. QED BY <3>1, <2>3, <2>8, PlainFound
  <2>9. CASE spelling["fa"] # "plain" /\ n = 1
    <3>1. m[q] = q
      BY <2>1, <2>3, <2>5, <2>9, TopFound
    <3>2. QED BY <3>1
  <2>10. CASE spelling["fa"] # "plain" /\ n > 1
    <3>1. Front(q) # NoMatch
      <4>1. PICK k \in 1 .. Len(Codes) : Front(q) \in [1 .. k -> Sign]
        BY <2>4, <2>10, <1>3, PathIs
      <4>2. 1 \in DOMAIN Front(q)
        BY <4>1, CodesAssumption
      <4>3. QED BY <4>2 DEF NoMatch
    <3>2. C = Under(Front(q), fa)
      BY <3>1, <2>1, <2>2, <2>4, <2>10 DEF Candidates
    <3>3. m[q] = q
      BY <3>2, <2>1, <2>3, <2>10, BelowFound
    <3>4. QED BY <3>3
  <2>11. QED BY <2>1, <2>8, <2>9, <2>10
<1>7. RowPaths \subseteq S
  BY <1>5, <1>6, RankedInduction
<1>8. QED BY <1>1, <1>3, <1>4, <1>7

\* A sum of smaller amounts is smaller.
LEMMA SumAtMost ==
    ASSUME NEW S, IsFiniteSet(S), NEW f, NEW g, \A x \in S : f[x] \in Int /\ g[x] \in Int /\ f[x] <= g[x]
    PROVE  SumOn(f, S) <= SumOn(g, S)
<1> DEFINE G == {s \in SUBSET S : SumOn(f, s) <= SumOn(g, s)}
<1>1. \A s \in SUBSET S : IsFiniteSet(s)
  BY FS_Subset
<1>2. {} \in G
  <2>1. SumOn(f, {}) = 0 /\ SumOn(g, {}) = 0
    BY FS_EmptySet, SumTakesAny
  <2>2. QED BY <2>1
<1>3. ASSUME NEW s \in SUBSET S, s # {}, \A x \in s : s \ {x} \in G PROVE s \in G
  <2>1. PICK x \in s : TRUE
    BY <1>3
  <2>2. IsFiniteSet(s) /\ IsFiniteSet(s \ {x}) /\ s \ {x} \in SUBSET S
    BY <1>1
  <2>3. SumOn(f, s) = f[x] + SumOn(f, s \ {x}) /\ SumOn(f, s \ {x}) \in Int
    <3>1. (\A y \in s : f[y] \in Int) /\ (\A y \in s \ {x} : f[y] \in Int)
      OBVIOUS
    <3>2. SumOn(f, s) = f[x] + SumOn(f, s \ {x})
      BY <2>1, <2>2, <3>1, SumTakesAny
    <3>3. SumOn(f, s \ {x}) \in Int
      BY <2>2, <3>1, SumTakesAny
    <3>4. QED BY <3>2, <3>3
  <2>4. SumOn(g, s) = g[x] + SumOn(g, s \ {x}) /\ SumOn(g, s \ {x}) \in Int
    <3>1. (\A y \in s : g[y] \in Int) /\ (\A y \in s \ {x} : g[y] \in Int)
      OBVIOUS
    <3>2. SumOn(g, s) = g[x] + SumOn(g, s \ {x})
      BY <2>1, <2>2, <3>1, SumTakesAny
    <3>3. SumOn(g, s \ {x}) \in Int
      BY <2>2, <3>1, SumTakesAny
    <3>4. QED BY <3>2, <3>3
  <2>5. SumOn(f, s \ {x}) <= SumOn(g, s \ {x})
    BY <1>3, <2>1
  <2>6. f[x] \in Int /\ g[x] \in Int /\ f[x] <= g[x]
    BY <2>1
  <2>7. SumOn(f, s) <= SumOn(g, s)
    BY <2>3, <2>4, <2>5, <2>6
  <2>8. QED BY <2>7
<1> HIDE DEF G
<1>4. SUBSET S \subseteq G
  BY <1>2, <1>3, FromEmptyUp
<1>5. S \in G
  BY <1>4
<1>6. QED BY <1>5 DEF G

\* A sum of naturals is one.
LEMMA SumIsNat ==
    ASSUME NEW S, IsFiniteSet(S), NEW f, \A x \in S : f[x] \in Nat
    PROVE  SumOn(f, S) \in Nat
<1>1. PICK z : z = [x \in S |-> 0]
  OBVIOUS
<1>2. \A x \in S : z[x] \in Int /\ z[x] = 0
  BY <1>1
<1>3. SumOn(z, S) <= SumOn(f, S)
  BY <1>2, SumAtMost
<1>4. SumOn(f, S) \in Int /\ SumOn(z, S) \in Int
  BY <1>2, SumTakesAny
<1>5. SumOn(z, S) = 0
  <2> DEFINE G == {s \in SUBSET S : SumOn(z, s) = 0}
  <2>1. {} \in G
    BY FS_EmptySet, SumTakesAny
  <2>2. ASSUME NEW s \in SUBSET S, s # {}, \A x \in s : s \ {x} \in G PROVE s \in G
    <3>1. PICK x \in s : TRUE
      BY <2>2
    <3>2. IsFiniteSet(s) /\ \A y \in s : z[y] \in Int
      BY <1>2, FS_Subset
    <3>3. SumOn(z, s) = z[x] + SumOn(z, s \ {x})
      BY <3>1, <3>2, SumTakesAny
    <3>4. SumOn(z, s \ {x}) = 0 /\ z[x] = 0
      BY <2>2, <3>1, <1>2
    <3>5. QED BY <3>3, <3>4
  <2> HIDE DEF G
  <2>3. SUBSET S \subseteq G
    BY <2>1, <2>2, FromEmptyUp
  <2>4. S \in G
    BY <2>3
  <2>5. QED BY <2>4 DEF G
<1>6. QED BY <1>3, <1>4, <1>5

-----------------------------------------------------------------------------
\* The rows below a row, deeper than it.
LEMMA UnderIs ==
    ASSUME NEW S \in SUBSET RowPaths, NEW p
    PROVE  Under(p, S) \subseteq S /\ IsFiniteSet(Under(p, S)) /\ Under(p, S) \subseteq RowPaths
<1>1. Under(p, S) \subseteq S /\ Under(p, S) \subseteq RowPaths
  BY DEF Under
<1>2. QED BY <1>1, RowsFinite, FS_Subset

LEMMA HeightExists ==
    ASSUME NEW S \in SUBSET RowPaths
    PROVE  \E n \in Nat : \E rank \in [S -> 0 .. n] : \A p \in S : \A q \in Under(p, S) : rank[q] < rank[p]
<1>1. PICK n \in Nat : n = Len(Codes)
  BY CodesAssumption
<1>2. \A p \in S : Len(p) \in 1 .. n /\ n - Len(p) \in 0 .. n
  BY <1>1, PathIs
<1>3. PICK rank \in [S -> 0 .. n] : \A p \in S : rank[p] = n - Len(p)
  <2>1. [p \in S |-> n - Len(p)] \in [S -> 0 .. n]
    BY <1>2
  <2>2. QED BY <2>1
<1>4. ASSUME NEW p \in S, NEW q \in Under(p, S) PROVE rank[q] < rank[p]
  <2>1. q \in S /\ q \in RowPaths /\ Len(q) > 1 /\ Front(q) = p
    BY DEF Under
  <2>2. Len(p) = Len(q) - 1
    BY <2>1, FrontIs
  <2>3. QED BY <2>1, <2>2, <1>2, <1>3
<1>5. QED BY <1>3, <1>4

\* Amounts that follow from the sum of those below exist ...
FromBelow(val, S, sd) == \A p \in S : sd[p] = val[<<p, SumOn(sd, Under(p, S))>>]

LEMMA AmountsExist ==
    ASSUME NEW S \in SUBSET RowPaths, NEW val \in [S \X Int -> Int]
    PROVE  \E sd \in [S -> Int] : FromBelow(val, S, sd)
<1>1. PICK n \in Nat : \E rank \in [S -> 0 .. n] : \A p \in S : \A q \in Under(p, S) : rank[q] < rank[p]
  BY HeightExists
<1>2. PICK rank \in [S -> 0 .. n] : \A p \in S : \A q \in Under(p, S) : rank[q] < rank[p]
  BY <1>1
<1>3. ASSUME NEW f \in [S -> Int], NEW p \in S
      PROVE  SumOn(f, Under(p, S)) \in Int /\ val[<<p, SumOn(f, Under(p, S))>>] \in Int
  <2>1. \A q \in Under(p, S) : f[q] \in Int
    BY UnderIs
  <2>2. SumOn(f, Under(p, S)) \in Int
    BY <2>1, UnderIs, SumTakesAny
  <2>3. QED BY <2>2
<1>4. PICK step \in [[S -> Int] -> [S -> Int]] :
        \A f \in [S -> Int] : \A p \in S : step[f][p] = val[<<p, SumOn(f, Under(p, S))>>]
  <2> DEFINE st == [f \in [S -> Int] |-> [p \in S |-> val[<<p, SumOn(f, Under(p, S))>>]]]
  <2>1. \A f \in [S -> Int] : [p \in S |-> val[<<p, SumOn(f, Under(p, S))>>]] \in [S -> Int]
    BY <1>3
  <2>2. st \in [[S -> Int] -> [S -> Int]]
    BY <2>1
  <2>3. ASSUME NEW f \in [S -> Int], NEW p \in S PROVE st[f][p] = val[<<p, SumOn(f, Under(p, S))>>]
    OBVIOUS
  <2> HIDE DEF st
  <2>4. QED BY <2>2, <2>3
<1>5. ASSUME NEW f \in [S -> Int], NEW g \in [S -> Int], NEW p \in S,
             \A q \in S : rank[q] < rank[p] => f[q] = g[q]
      PROVE  step[f][p] = step[g][p]
  <2>1. \A q \in Under(p, S) : q \in S /\ f[q] \in Int /\ g[q] = f[q]
    BY <1>2, <1>5, UnderIs
  <2>2. SumOn(f, Under(p, S)) = SumOn(g, Under(p, S))
    BY <2>1, UnderIs, SumSame
  <2>3. QED BY <2>2, <1>4
<1>6. Descends(S, Int, n, rank, step)
  <2>1. Int # {}
    OBVIOUS
  <2>2. QED BY <2>1, <1>5 DEF Descends
<1>7. PICK f \in [S -> Int] : step[f] = f
  BY <1>6, RankedRecursion
<1>8. \A p \in S : f[p] = val[<<p, SumOn(f, Under(p, S))>>]
  BY <1>4, <1>7
<1>9. QED BY <1>8 DEF FromBelow

\* ... and are naturals where each follows as one.
LEMMA AmountsAreNat ==
    ASSUME NEW S \in SUBSET RowPaths, NEW val, \A p \in S, k \in Nat : val[<<p, k>>] \in Nat,
           NEW sd, FromBelow(val, S, sd)
    PROVE  \A p \in S : sd[p] \in Nat /\ SumOn(sd, Under(p, S)) \in Nat
<1>1. PICK n \in Nat : \E rank \in [S -> 0 .. n] : \A p \in S : \A q \in Under(p, S) : rank[q] < rank[p]
  BY HeightExists
<1>2. PICK rank \in [S -> 0 .. n] : \A p \in S : \A q \in Under(p, S) : rank[q] < rank[p]
  BY <1>1
<1>3. rank \in [S -> Nat]
  OBVIOUS
<1> DEFINE G == {p \in S : sd[p] \in Nat /\ SumOn(sd, Under(p, S)) \in Nat}
<1>4. ASSUME NEW p \in S, \A q \in S : rank[q] < rank[p] => q \in G PROVE p \in G
  <2>1. \A q \in Under(p, S) : q \in S /\ sd[q] \in Nat
    BY <1>2, <1>4, UnderIs
  <2>2. SumOn(sd, Under(p, S)) \in Nat
    BY <2>1, UnderIs, SumIsNat
  <2>3. sd[p] = val[<<p, SumOn(sd, Under(p, S))>>]
    BY DEF FromBelow
  <2>4. QED BY <2>2, <2>3
<1> HIDE DEF G
<1>5. S \subseteq G
  BY <1>3, <1>4, RankedInduction
<1>6. QED BY <1>5 DEF G

\* What the FA file spent: one for a row without children, else what they spent.
LEMMA SpentIs ==
    ASSUME MergeInit
    PROVE  \A p \in fa : /\ FaSpent[p] = IF Under(p, fa) = {} THEN 1 ELSE SumOn(FaSpent, Under(p, fa))
                         /\ FaSpent[p] \in Nat
<1>1. fa \in SUBSET RowPaths
  BY FilesAre
<1>2. PICK val \in [fa \X Int -> Int] :
        \A p \in fa, k \in Int : val[<<p, k>>] = IF Under(p, fa) = {} THEN 1 ELSE k
  <2> DEFINE v == [pk \in fa \X Int |-> IF Under(pk[1], fa) = {} THEN 1 ELSE pk[2]]
  <2>1. v \in [fa \X Int -> Int]
    OBVIOUS
  <2>2. \A p \in fa, k \in Int : v[<<p, k>>] = IF Under(p, fa) = {} THEN 1 ELSE k
    OBVIOUS
  <2> HIDE DEF v
  <2>3. QED BY <2>1, <2>2
<1> DEFINE eq(sd) == sd = [p \in fa |-> IF Under(p, fa) = {} THEN 1 ELSE SumOf(sd, Under(p, fa))]
<1>3. ASSUME NEW sd
      PROVE  eq(sd) <=> sd = [p \in fa |-> IF Under(p, fa) = {} THEN 1 ELSE SumOn(sd, Under(p, fa))]
  <2>1. \A p : SumOf(sd, Under(p, fa)) = SumOn(sd, Under(p, fa))
    BY SumOfIsSum
  <2>2. QED BY <2>1
<1>4. PICK f \in [fa -> Int] : FromBelow(val, fa, f)
  BY <1>1, AmountsExist
<1>5. eq(f)
  <2>1. \A p \in fa : f[p] = IF Under(p, fa) = {} THEN 1 ELSE SumOn(f, Under(p, fa))
    <3> TAKE p \in fa
    <3>1. f[p] = val[<<p, SumOn(f, Under(p, fa))>>]
      BY <1>4 DEF FromBelow
    <3>2. SumOn(f, Under(p, fa)) \in Int
      <4>1. \A q \in Under(p, fa) : f[q] \in Int
        BY <1>1, UnderIs
      <4>2. QED BY <4>1, <1>1, UnderIs, SumTakesAny
    <3>3. QED BY <3>1, <3>2, <1>2
  <2>2. f = [p \in fa |-> f[p]]
    OBVIOUS
  <2>3. f = [p \in fa |-> IF Under(p, fa) = {} THEN 1 ELSE SumOn(f, Under(p, fa))]
    BY <2>1, <2>2
  <2>4. QED BY <2>3, <1>3
<1>6. PICK sd : eq(sd) /\ FaSpent = sd
  <2>1. FaSpent = CHOOSE sd : eq(sd)
    BY DEF FaSpent
  <2> HIDE DEF eq
  <2>2. eq(CHOOSE sd : eq(sd))
    BY <1>5
  <2>3. QED BY <2>1, <2>2
<1>7. \A p \in fa : sd[p] = IF Under(p, fa) = {} THEN 1 ELSE SumOn(sd, Under(p, fa))
  <2>1. sd = [p \in fa |-> IF Under(p, fa) = {} THEN 1 ELSE SumOn(sd, Under(p, fa))]
    BY <1>3, <1>6
  <2>2. QED BY <2>1
<1>8. \A p \in fa : sd[p] \in Nat
  <2>1. PICK n \in Nat : \E rank \in [fa -> 0 .. n] : \A p \in fa : \A q \in Under(p, fa) : rank[q] < rank[p]
    BY <1>1, HeightExists
  <2>2. PICK rank \in [fa -> 0 .. n] : \A p \in fa : \A q \in Under(p, fa) : rank[q] < rank[p]
    BY <2>1
  <2>3. rank \in [fa -> Nat]
    OBVIOUS
  <2> DEFINE G == {p \in fa : sd[p] \in Nat}
  <2>4. ASSUME NEW p \in fa, \A q \in fa : rank[q] < rank[p] => q \in G PROVE p \in G
    <3>1. \A q \in Under(p, fa) : sd[q] \in Nat
      BY <2>2, <2>4, <1>1, UnderIs
    <3>2. SumOn(sd, Under(p, fa)) \in Nat
      BY <3>1, <1>1, UnderIs, SumIsNat
    <3>3. QED BY <3>2, <1>7
  <2> HIDE DEF G
  <2>5. fa \subseteq G
    BY <2>3, <2>4, RankedInduction
  <2>6. QED BY <2>5 DEF G
<1>9. QED BY <1>6, <1>7, <1>8

\* What the merged tree shows: what the children show, if anything, else what the
\* match spent.
LEMMA ShownIs ==
    ASSUME MergeInit, NEW match, \A p \in RowPaths : match[p] \in fa \cup {NoMatch}
    PROVE  LET shown == MergeFaRealisasi(match)
           IN  \A p \in RowPaths :
                 /\ SumOn(shown, Under(p, RowPaths)) \in Nat /\ shown[p] \in Nat
                 /\ shown[p] = IF SumOn(shown, Under(p, RowPaths)) # 0 THEN SumOn(shown, Under(p, RowPaths))
                               ELSE IF match[p] = NoMatch THEN 0 ELSE FaSpent[match[p]]
<1>1. PICK own : own = [p \in RowPaths |-> IF match[p] = NoMatch THEN 0 ELSE FaSpent[match[p]]]
  OBVIOUS
<1>2. \A p \in RowPaths : /\ own[p] \in Nat
                          /\ own[p] = IF match[p] = NoMatch THEN 0 ELSE FaSpent[match[p]]
  BY <1>1, SpentIs
<1>3. PICK val \in [RowPaths \X Int -> Int] :
        \A p \in RowPaths, k \in Int : val[<<p, k>>] = IF k # 0 THEN k ELSE own[p]
  <2> DEFINE v == [pk \in RowPaths \X Int |-> IF pk[2] # 0 THEN pk[2] ELSE own[pk[1]]]
  <2>1. v \in [RowPaths \X Int -> Int]
    BY <1>2
  <2>2. \A p \in RowPaths, k \in Int : v[<<p, k>>] = IF k # 0 THEN k ELSE own[p]
    OBVIOUS
  <2> HIDE DEF v
  <2>3. QED BY <2>1, <2>2
<1> DEFINE eq(sd) == sd = [p \in RowPaths |->
             LET below == SumOf(sd, Under(p, RowPaths))
             IN  IF below # 0 THEN below
                 ELSE IF match[p] = NoMatch THEN 0 ELSE FaSpent[match[p]]]
           Value(sd, p) == IF SumOn(sd, Under(p, RowPaths)) # 0 THEN SumOn(sd, Under(p, RowPaths)) ELSE own[p]
<1>4. ASSUME NEW sd
      PROVE  eq(sd) <=> sd = [p \in RowPaths |-> Value(sd, p)]
  <2>1. \A p : SumOf(sd, Under(p, RowPaths)) = SumOn(sd, Under(p, RowPaths))
    BY SumOfIsSum
  <2>2. QED BY <2>1, <1>2
<1>5. PICK f \in [RowPaths -> Int] : FromBelow(val, RowPaths, f)
  BY AmountsExist
<1>6. \A sd : (\A p \in RowPaths : SumOn(sd, Under(p, RowPaths)) \in Int)
                => \A p \in RowPaths : val[<<p, SumOn(sd, Under(p, RowPaths))>>] = Value(sd, p)
  BY <1>3
<1>7. eq(f)
  <2>1. \A p \in RowPaths : SumOn(f, Under(p, RowPaths)) \in Int
    <3> TAKE p \in RowPaths
    <3>1. \A q \in Under(p, RowPaths) : f[q] \in Int
      BY UnderIs
    <3>2. QED BY <3>1, UnderIs, SumTakesAny
  <2>2. \A p \in RowPaths : f[p] = Value(f, p)
    BY <2>1, <1>5, <1>6 DEF FromBelow
  <2> HIDE DEF Value
  <2>3. f = [p \in RowPaths |-> f[p]]
    OBVIOUS
  <2>4. f = [p \in RowPaths |-> Value(f, p)]
    BY <2>2, <2>3
  <2>5. QED BY <2>4, <1>4
<1>8. PICK sd : eq(sd) /\ MergeFaRealisasi(match) = sd
  <2>1. MergeFaRealisasi(match) = CHOOSE sd : eq(sd)
    BY DEF MergeFaRealisasi
  <2> HIDE DEF eq
  <2>2. eq(CHOOSE sd : eq(sd))
    BY <1>7
  <2>3. QED BY <2>1, <2>2
<1>9. \A p \in RowPaths : sd[p] = Value(sd, p)
  <2> HIDE DEF eq, Value
  <2>1. sd = [p \in RowPaths |-> Value(sd, p)]
    BY <1>4, <1>8
  <2>2. QED BY <2>1
<1>10. \A p \in RowPaths : sd[p] \in Nat /\ SumOn(sd, Under(p, RowPaths)) \in Nat
  <2>1. PICK n \in Nat : \E rank \in [RowPaths -> 0 .. n] :
                           \A p \in RowPaths : \A q \in Under(p, RowPaths) : rank[q] < rank[p]
    BY HeightExists
  <2>2. PICK rank \in [RowPaths -> 0 .. n] : \A p \in RowPaths : \A q \in Under(p, RowPaths) : rank[q] < rank[p]
    BY <2>1
  <2>3. rank \in [RowPaths -> Nat]
    OBVIOUS
  <2> DEFINE G == {p \in RowPaths : sd[p] \in Nat /\ SumOn(sd, Under(p, RowPaths)) \in Nat}
  <2>4. ASSUME NEW p \in RowPaths, \A q \in RowPaths : rank[q] < rank[p] => q \in G PROVE p \in G
    <3>1. \A q \in Under(p, RowPaths) : q \in RowPaths /\ sd[q] \in Nat
      BY <2>2, <2>4, UnderIs
    <3>2. SumOn(sd, Under(p, RowPaths)) \in Nat
      BY <3>1, UnderIs, SumIsNat
    <3>3. QED BY <3>2, <1>2, <1>9
  <2> HIDE DEF G
  <2>5. RowPaths \subseteq G
    BY <2>3, <2>4, RankedInduction
  <2>6. QED BY <2>5 DEF G
<1>11. QED BY <1>2, <1>8, <1>9, <1>10

-----------------------------------------------------------------------------
\* Prefixes, code by code.
LEMMA PrefixIs ==
    ASSUME NEW p \in RowPaths, NEW q \in RowPaths
    PROVE  IsPrefix(p, q) <=> Len(p) <= Len(q) /\ \A k \in 1 .. Len(p) : p[k] = q[k]
<1>1. PICK n \in 1 .. Len(Codes) : p \in Seq(Sign) /\ Len(p) = n
  BY PathIs
<1>2. PICK m \in 1 .. Len(Codes) : q \in Seq(Sign) /\ Len(q) = m
  BY PathIs
<1>3. n \in Nat /\ m \in Nat
  BY CodesAssumption
<1>4. SubSeq(p, 1, n) = [k \in 1 .. n |-> p[k]]
  BY <1>1, <1>3
<1>5. n <= m => SubSeq(q, 1, n) = [k \in 1 .. n |-> q[k]]
  BY <1>2, <1>3
<1>6. n <= m => (SubSeq(p, 1, n) = SubSeq(q, 1, n) <=> \A k \in 1 .. n : p[k] = q[k])
  <2> HAVE n <= m
  <2>1. SubSeq(p, 1, n)  = SubSeq(q, 1, n) <=> [k \in 1 .. n |-> p[k]] = [k \in 1 .. n |-> q[k]]
    BY <1>4, <1>5
  <2>2. [k \in 1 .. n |-> p[k]] = [k \in 1 .. n |-> q[k]] <=> \A k \in 1 .. n : p[k] = q[k]
    OBVIOUS
  <2>3. QED BY <2>1, <2>2
<1>7. QED BY <1>1, <1>2, <1>6 DEF IsPrefix

\* What is below a child is below the parent, and so is the child.
LEMMA BelowIs ==
    ASSUME NEW p \in RowPaths, NEW q \in Under(p, RowPaths)
    PROVE  IsPrefix(p, q) /\ \A r \in RowPaths : IsPrefix(q, r) => IsPrefix(p, r)
<1>1. q \in RowPaths /\ Len(q) > 1 /\ Front(q) = p
  BY DEF Under
<1>2. PICK n \in Nat : n = Len(p)
  BY PathIs, CodesAssumption
<1>3. Len(q) = n + 1 /\ \A k \in 1 .. n : p[k] = q[k]
  <2>1. Len(p) = Len(q) - 1 /\ \A k \in 1 .. Len(q) - 1 : p[k] = q[k]
    BY <1>1, FrontIs
  <2>2. PICK m \in Nat : m = Len(q)
    BY <1>1, PathIs, CodesAssumption
  <2>3. n = m - 1
    BY <2>1, <2>2, <1>2
  <2>4. QED BY <2>1, <2>2, <2>3
<1>4. IsPrefix(p, q)
  <2>1. n <= n + 1
    OBVIOUS
  <2>2. QED BY <2>1, <1>1, <1>2, <1>3, PrefixIs
<1>5. ASSUME NEW r \in RowPaths, IsPrefix(q, r) PROVE IsPrefix(p, r)
  <2>1. Len(q) <= Len(r) /\ \A k \in 1 .. Len(q) : q[k] = r[k]
    BY <1>1, <1>5, PrefixIs
  <2>2. PICK m \in Nat : m = Len(r)
    BY PathIs, CodesAssumption
  <2>3. n + 1 <= m /\ \A k \in 1 .. n + 1 : q[k] = r[k]
    BY <2>1, <2>2, <1>3
  <2>4. n <= m /\ \A k \in 1 .. n : p[k] = r[k]
    BY <2>3, <1>3
  <2>5. QED BY <2>2, <2>4, <1>2, PrefixIs
<1>6. QED BY <1>4, <1>5

\* So nothing is shown twice where the FA file has every row below.
LEMMA MergedIsRight == MergeInit => MergedRight
<1> SUFFICES ASSUME MergeInit PROVE MergedRight
  OBVIOUS
<1>1. PICK match : match = FindFaMatch
  OBVIOUS
<1>2. \A p \in RowPaths : match[p] \in fa \cup {NoMatch}
  <2>1. PICK m : FindFaMatch = m /\ m = [p \in RowPaths |-> Matched(m, p)]
    BY FindIs
  <2>2. \A p \in RowPaths : m[p] = Matched(m, p)
    BY <2>1
  <2>3. QED BY <2>1, <2>2, <1>1, MatchedTyped
<1>3. \A p \in fa : match[p] \in {p, NoMatch}
  BY <1>1, FindsItself
<1>4. PICK shown : shown = MergeFaRealisasi(match)
  OBVIOUS
<1>5. \A p \in RowPaths :
        /\ SumOn(shown, Under(p, RowPaths)) \in Nat /\ shown[p] \in Nat
        /\ shown[p] = IF SumOn(shown, Under(p, RowPaths)) # 0 THEN SumOn(shown, Under(p, RowPaths))
                      ELSE IF match[p] = NoMatch THEN 0 ELSE FaSpent[match[p]]
  BY <1>2, <1>4, ShownIs
<1>6. \A p \in fa : /\ FaSpent[p] = IF Under(p, fa) = {} THEN 1 ELSE SumOn(FaSpent, Under(p, fa))
                    /\ FaSpent[p] \in Nat
  BY SpentIs
<1>7. fa \in SUBSET RowPaths
  BY FilesAre
<1> DEFINE Below(p) == {q \in RowPaths : IsPrefix(p, q)}
           G == {p \in RowPaths : p \in fa /\ Below(p) \subseteq fa => shown[p] <= FaSpent[p]}
<1>8. PICK n \in Nat : \E rank \in [RowPaths -> 0 .. n] :
                         \A p \in RowPaths : \A q \in Under(p, RowPaths) : rank[q] < rank[p]
  BY HeightExists
<1>9. PICK rank \in [RowPaths -> 0 .. n] : \A p \in RowPaths : \A q \in Under(p, RowPaths) : rank[q] < rank[p]
  BY <1>8
<1>10. rank \in [RowPaths -> Nat]
  OBVIOUS
<1>11. ASSUME NEW p \in RowPaths, \A q \in RowPaths : rank[q] < rank[p] => q \in G PROVE p \in G
  <2> SUFFICES ASSUME p \in fa, Below(p) \subseteq fa PROVE shown[p] <= FaSpent[p]
    OBVIOUS
  <2>1. PICK U : U = Under(p, RowPaths)
    OBVIOUS
  <2>2. ASSUME NEW q \in U PROVE q \in RowPaths /\ q \in fa /\ Below(q) \subseteq fa
    <3>1. q \in RowPaths
      BY <2>1, UnderIs
    <3>2. IsPrefix(p, q) /\ \A r \in RowPaths : IsPrefix(q, r) => IsPrefix(p, r)
      BY <2>1, BelowIs
    <3>3. QED BY <3>1, <3>2
  <2>3. Under(p, fa) = U
    BY <2>1, <2>2, <1>7 DEF Under
  <2>4. \A q \in U : q \in RowPaths /\ q \in fa /\ shown[q] <= FaSpent[q]
    BY <2>1, <2>2, <1>9, <1>11
  <2>5. IsFiniteSet(U)
    BY <2>1, UnderIs
  <2>6. SumOn(shown, U) <= SumOn(FaSpent, U)
    <3>1. \A q \in U : shown[q] \in Int /\ FaSpent[q] \in Int /\ shown[q] <= FaSpent[q]
      BY <2>4, <1>5, <1>6
    <3>2. QED BY <3>1, <2>5, SumAtMost
  <2>7. U = {} => SumOn(shown, U) = 0
    BY FS_EmptySet, SumTakesAny
  <2>8. CASE SumOn(shown, U) # 0
    <3>1. shown[p] = SumOn(shown, U)
      BY <2>1, <2>8, <1>5
    <3>2. FaSpent[p] = SumOn(FaSpent, U)
      BY <2>3, <2>7, <2>8, <1>6
    <3>3. QED BY <3>1, <3>2, <2>6
  <2>9. CASE SumOn(shown, U) = 0
    <3>1. shown[p] = IF match[p] = NoMatch THEN 0 ELSE FaSpent[match[p]]
      BY <2>1, <2>9, <1>5
    <3>2. FaSpent[p] \in Nat
      BY <1>6
    <3>3. match[p] = p \/ match[p] = NoMatch
      BY <1>3
    <3>4. shown[p] = FaSpent[p] \/ shown[p] = 0
      BY <3>1, <3>3
    <3>5. QED BY <3>2, <3>4
  <2>10. QED BY <2>8, <2>9
<1> HIDE DEF G
<1>12. RowPaths \subseteq G
  BY <1>10, <1>11, RankedInduction
<1>13. \A p \in fa : Below(p) \subseteq fa => shown[p] <= FaSpent[p]
  BY <1>7, <1>12 DEF G
<1>14. QED BY <1>1, <1>3, <1>4, <1>13 DEF MergedRight

-----------------------------------------------------------------------------
\* The two files of one view, which stay as they are.
FilesSpec == MergeInit /\ [][FALSE]_mergeVars

LEMMA FilesStay == MergeInit /\ [FALSE]_mergeVars => MergeInit'
<1> SUFFICES ASSUME MergeInit, UNCHANGED mergeVars PROVE MergeInit'
  OBVIOUS
<1>1. fa' = fa /\ spelling' = spelling
  BY DEF mergeVars
<1>2. QED BY <1>1 DEF MergeInit

\* Whatever the codes and however the two files write them, a row that is in both
\* files is matched with itself or with nothing, never with another row of the same
\* code, and where the FA file has every row below it, it shows no amount twice
\* (displayTree, AnggaranPage.tsx:308-418).
THEOREM FoundByItself == FilesSpec => []MergedRight
BY FilesStay, MergedIsRight, PTL DEF FilesSpec

=============================================================================
