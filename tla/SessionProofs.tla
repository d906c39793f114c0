--------------------------- MODULE SessionProofs ---------------------------
(***************************************************************************)
(* Theorems about Session, for every number of tokens, guards and requests  *)
(* and all times.                                                          *)
(***************************************************************************)
EXTENDS Session, TLAPS

\* What a request knows at its step.  A request that found no row asked before
\* the token was revoked, or after it ran out.
Knows(w) ==
    LET k == tok[w]
    IN  /\ at[w] <= now
        /\ pc[w] # "idle" => k \in Token /\ expires[k] # Never
        /\ pc[w] \in {"get", "evict", "query", "setRevoked", "setNotRevoked", "stamp"}
             => guard[w] \in Guard
        /\ pc[w] = "setNotRevoked" /\ loggedOut[k] # Never
             => at[w] <= loggedOut[k] \/ expires[k] <= now
        /\ pc[w] = "served" /\ loggedOut[k] # Never
             => at[w] < loggedOut[k] + NegTTL \/ expires[k] <= now
        /\ pc[w] \in {"setRevoked", "refused"} => loggedOut[k] # Never
        /\ pc[w] = "insert" => exp[w] = expires[k] \/ expires[k] <= now

\* What the table and the caches hold about a token.
TokenSound(k) ==
    /\ revoked[k] # Never => loggedOut[k] # Never
    /\ loggedOut[k] # Never => /\ expires[k] # Never
                               /\ revoked[k] = expires[k] \/ expires[k] <= now
    /\ \A g \in Guard :
         LET e == items[g][k]
         IN  IF e.revoked THEN loggedOut[k] # Never
             ELSE /\ e.until <= now + NegTTL
                  /\ loggedOut[k] # Never =>
                       e.until <= loggedOut[k] + NegTTL \/ expires[k] <= now

SessionInv ==
    /\ TypeOK
    /\ \A w \in Worker : Knows(w)
    /\ \A k \in Token : TokenSound(k)

LEMMA SessionInit == Init => SessionInv
  BY TimeAssumption, NeverAssumption
  DEF Init, SessionInv, TypeOK, Knows, TokenSound, Time, Stamp, Entry, NoEntry

\* Steps that only move a request on.
LEMMA RequestStep ==
    ASSUME SessionInv, NEW w \in Worker,
           Arrive(w) \/ ReadClock(w) \/ Get(w) \/ Query(w) \/ End(w) \/ Logout(w)
    PROVE  SessionInv'
<1> USE TimeAssumption, NeverAssumption DEF SessionInv, Time, Stamp
<1>1. UNCHANGED <<now, expires, revoked, items, loggedOut>>
  BY DEF Arrive, ReadClock, Get, Query, End, Logout
<1>2. \A k \in Token : TokenSound(k)'
  BY <1>1 DEF TokenSound
<1>3. CASE Arrive(w)
  <2>1. TypeOK' BY <1>3 DEF Arrive, TypeOK
  <2>2. \A u \in Worker : Knows(u)' BY <1>3 DEF Arrive, Valid, TypeOK, Knows
  <2>3. QED BY <1>2, <2>1, <2>2
<1>4. CASE ReadClock(w)
  <2>1. TypeOK' BY <1>4 DEF ReadClock, TypeOK
  <2>2. \A u \in Worker : Knows(u)' BY <1>4 DEF ReadClock, TypeOK, Knows
  <2>3. QED BY <1>2, <2>1, <2>2
<1>5. CASE Get(w)
  <2>1. TypeOK' BY <1>5 DEF Get, Goto, TypeOK
  <2>2. ASSUME NEW u \in Worker \ {w} PROVE Knows(u)'
    BY <1>5 DEF Get, Goto, TypeOK, Knows
  <2>3. Knows(w)'
    <3> DEFINE e == items[guard[w]][tok[w]]
    <3>1. tok[w] \in Token /\ guard[w] \in Guard /\ e \in Entry
      BY <1>5 DEF Get, Knows, TypeOK
    <3>2. TokenSound(tok[w]) BY <3>1
    <3>3. e.until \in Int BY <3>1 DEF Entry
    <3>4. QED
      BY <1>5, <3>1, <3>2, <3>3 DEF Get, Goto, TypeOK, Knows, TokenSound
  <2>4. QED BY <1>2, <2>1, <2>2, <2>3
<1>6. CASE Query(w)
  <2>1. TypeOK'
    <3>1. revoked[tok[w]] # Never => revoked[tok[w]] \in Stamp
      BY <1>6 DEF Query, TypeOK, Knows
    <3>2. QED BY <1>6, <3>1 DEF Query, Goto, TypeOK
  <2>2. ASSUME NEW u \in Worker \ {w} PROVE Knows(u)'
    BY <1>6 DEF Query, Goto, TypeOK, Knows
  <2>3. Knows(w)'
    <3>1. tok[w] \in Token BY <1>6 DEF Query, Knows
    <3>2. TokenSound(tok[w]) BY <3>1
    <3>3. CASE ~Goto(w, "setNotRevoked")
      BY <1>6, <3>1, <3>2, <3>3 DEF Query, Goto, TypeOK, Knows, TokenSound
    <3>4. CASE Goto(w, "setNotRevoked")
      <4>1. revoked[tok[w]] # Never => revoked[tok[w]] <= now
        BY <1>6, <3>4 DEF Query, Goto, TypeOK
      <4>2. loggedOut[tok[w]] # Never => expires[tok[w]] <= now
        BY <3>2, <4>1 DEF TokenSound
      <4>3. QED
        BY <1>6, <3>1, <3>4, <4>2 DEF Query, Goto, TypeOK, Knows
    <3>5. QED BY <3>3, <3>4
  <2>4. QED BY <1>2, <2>1, <2>2, <2>3
<1>7. CASE End(w)
  <2>1. TypeOK' BY <1>7 DEF End, Idle, TypeOK
  <2>2. \A u \in Worker : Knows(u)' BY <1>7 DEF End, Idle, TypeOK, Knows
  <2>3. QED BY <1>2, <2>1, <2>2
<1>8. CASE Logout(w)
  <2>1. TypeOK' BY <1>8 DEF Logout, Valid, TypeOK
  <2>2. \A u \in Worker : Knows(u)' BY <1>8 DEF Logout, Valid, TypeOK, Knows
  <2>3. QED BY <1>2, <2>1, <2>2
<1>9. QED BY <1>3, <1>4, <1>5, <1>6, <1>7, <1>8

\* Steps that change a cache.
LEMMA CacheStep ==
    ASSUME SessionInv, NEW w \in Worker,
           Evict(w) \/ SetRevoked(w) \/ SetNotRevoked(w)
    PROVE  SessionInv'
<1> USE TimeAssumption, NeverAssumption DEF SessionInv, Time, Stamp
<1> DEFINE k == tok[w]
           g == guard[w]
<1>1. /\ k \in Token /\ g \in Guard
      /\ UNCHANGED <<now, expires, revoked, tok, guard, at, exp, loggedOut>>
  BY DEF Evict, SetRevoked, SetNotRevoked, Goto, Knows
<1> DEFINE Sound(e) ==
             /\ e.revoked => loggedOut[k] # Never
             /\ ~e.revoked => /\ e.until <= now + NegTTL
                              /\ loggedOut[k] # Never =>
                                   \/ e.until <= loggedOut[k] + NegTTL
                                   \/ expires[k] <= now
<1>2. PICK e \in Entry : items' = [items EXCEPT ![g][k] = e] /\ Sound(e)
  <2>1. now \in Nat /\ at[w] \in Nat /\ (loggedOut[k] # Never => loggedOut[k] \in Nat)
    BY <1>1 DEF TypeOK
  <2>2. CASE Evict(w)
    <3>1. NoEntry \in Entry /\ ~NoEntry.revoked /\ NoEntry.until = 0
      BY DEF NoEntry, Entry
    <3>2. Sound(NoEntry) BY <2>1, <3>1
    <3>3. items' = [items EXCEPT ![g][k] = NoEntry] BY <2>2 DEF Evict
    <3> HIDE DEF Sound
    <3>4. QED BY <3>1, <3>2, <3>3
  <2>3. CASE SetRevoked(w)
    <3> DEFINE new == [revoked |-> TRUE, until |-> exp[w]]
    <3>1. new \in Entry /\ new.revoked /\ loggedOut[k] # Never
      BY <2>3 DEF SetRevoked, Entry, TypeOK, Knows
    <3>2. items' = [items EXCEPT ![g][k] = new] BY <2>3 DEF SetRevoked
    <3> HIDE DEF new
    <3>3. QED BY <3>1, <3>2
  <2>4. CASE SetNotRevoked(w)
    <3> DEFINE new == [revoked |-> FALSE, until |-> at[w] + NegTTL]
    <3>1. /\ new \in Entry /\ ~new.revoked /\ new.until = at[w] + NegTTL
          /\ at[w] <= now
          /\ loggedOut[k] # Never => at[w] <= loggedOut[k] \/ expires[k] <= now
      BY <2>4 DEF SetNotRevoked, Entry, TypeOK, Knows
    <3>2. items' = [items EXCEPT ![g][k] = new] BY <2>4 DEF SetNotRevoked
    <3> HIDE DEF new
    <3>3. Sound(new) BY <2>1, <3>1
    <3>4. QED BY <3>1, <3>2, <3>3
  <2>5. QED BY <2>2, <2>3, <2>4
<1>3. /\ \A h \in Guard, m \in Token :
           items'[h][m] = IF h = g /\ m = k THEN e ELSE items[h][m]
      /\ items' \in [Guard -> [Token -> Entry]]
  <2>1. [items[g] EXCEPT ![k] = e] \in [Token -> Entry]
    BY <1>1 DEF TypeOK
  <2>2. items' = [items EXCEPT ![g] = [items[g] EXCEPT ![k] = e]]
    BY <1>2
  <2>3. QED BY <1>1, <2>1, <2>2 DEF TypeOK
<1>4. TypeOK'
  BY <1>1, <1>3 DEF Evict, SetRevoked, SetNotRevoked, Goto, TypeOK
<1>5. \A u \in Worker : Knows(u)'
  BY <1>1 DEF Evict, SetRevoked, SetNotRevoked, Goto, TypeOK, Knows
<1>6. ASSUME NEW m \in Token PROVE TokenSound(m)'
  BY <1>1, <1>2, <1>3 DEF TokenSound
<1>7. QED BY <1>4, <1>5, <1>6

\* Steps that change the tables or the clock.
LEMMA TableStep ==
    ASSUME SessionInv,
           \/ \E w \in Worker : LogoutInsert(w) \/ LogoutPurge(w)
           \/ \E k \in Token : Login(k)
           \/ Restart \/ Tick
    PROVE  SessionInv'
<1> USE TimeAssumption, NeverAssumption DEF SessionInv, Time, Stamp
<1>1. ASSUME NEW w \in Worker, LogoutInsert(w) PROVE SessionInv'
  <2>1. TypeOK' BY <1>1 DEF LogoutInsert, Goto, TypeOK, Knows
  <2>2. \A u \in Worker : Knows(u)'
    BY <1>1 DEF LogoutInsert, Goto, TypeOK, Knows
  <2>3. ASSUME NEW m \in Token PROVE TokenSound(m)'
    <3>1. TokenSound(m) OBVIOUS
    <3>2. Knows(w) OBVIOUS
    <3>3. \A g \in Guard : items[g][m] \in Entry BY DEF TypeOK
    <3>4. QED
      BY <1>1, <3>1, <3>2, <3>3
      DEF LogoutInsert, Goto, TypeOK, Knows, TokenSound, Entry
  <2>4. QED BY <2>1, <2>2, <2>3
<1>2. ASSUME NEW w \in Worker, LogoutPurge(w) PROVE SessionInv'
  <2>1. TypeOK' BY <1>2 DEF LogoutPurge, Idle, TypeOK
  <2>2. \A u \in Worker : Knows(u)'
    BY <1>2 DEF LogoutPurge, Idle, TypeOK, Knows
  <2>3. \A m \in Token : TokenSound(m)'
    BY <1>2 DEF LogoutPurge, TypeOK, TokenSound
  <2>4. QED BY <2>1, <2>2, <2>3
<1>3. ASSUME NEW k \in Token, Login(k) PROVE SessionInv'
  <2>1. TypeOK' BY <1>3 DEF Login, TypeOK
  <2>2. \A u \in Worker : Knows(u)' BY <1>3 DEF Login, TypeOK, Knows
  <2>3. \A m \in Token : TokenSound(m)' BY <1>3 DEF Login, TypeOK, TokenSound
  <2>4. QED BY <2>1, <2>2, <2>3
<1>4. CASE Restart
  <2>1. TypeOK' BY <1>4 DEF Restart, TypeOK, Entry, NoEntry
  <2>2. \A u \in Worker : Knows(u)' BY <1>4 DEF Restart, TypeOK, Knows
  <2>3. \A m \in Token : TokenSound(m)'
    BY <1>4 DEF Restart, TypeOK, TokenSound, NoEntry
  <2>4. QED BY <2>1, <2>2, <2>3
<1>5. CASE Tick
  <2>1. TypeOK' BY <1>5 DEF Tick, TypeOK
  <2>2. \A u \in Worker : Knows(u)' BY <1>5 DEF Tick, TypeOK, Knows
  <2>3. ASSUME NEW m \in Token PROVE TokenSound(m)'
    <3>1. \A g \in Guard : items[g][m] \in Entry BY DEF TypeOK
    <3>2. QED BY <1>5, <3>1 DEF Tick, TypeOK, TokenSound, Entry
  <2>4. QED BY <2>1, <2>2, <2>3
<1>6. QED BY <1>1, <1>2, <1>3, <1>4, <1>5

LEMMA SessionStep == SessionInv /\ [Next]_vars => SessionInv'
<1> SUFFICES ASSUME SessionInv, [Next]_vars PROVE SessionInv'
  OBVIOUS
<1>1. CASE Next
  BY <1>1, RequestStep, CacheStep, TableStep DEF Next, Request
<1>2. CASE UNCHANGED vars
  BY <1>2 DEF vars, SessionInv, TypeOK, Knows, TokenSound
<1>3. QED BY <1>1, <1>2

\* Times stay in range, and each request has a token and a guard.
THEOREM SessionTypeCorrect == Spec => []TypeOK
<1>1. SessionInv => TypeOK BY DEF SessionInv
<1>2. QED BY <1>1, SessionInit, SessionStep, PTL DEF Spec

\* However many requests share the caches, and wherever the server restarts, a
\* revoked token is served for less than negTTL longer.
THEOREM LogoutTakesEffect == Spec => []RevokedWithinTTL
<1>1. SessionInv => RevokedWithinTTL
  BY DEF SessionInv, Knows, RevokedWithinTTL
<1>2. QED BY <1>1, SessionInit, SessionStep, PTL DEF Spec

\* Only a logout makes RequireAuth refuse a token as revoked.
THEOREM RefusalsAreEarned == Spec => []NoFalseRefusal
<1>1. SessionInv => NoFalseRefusal
  BY DEF SessionInv, Knows, NoFalseRefusal
<1>2. QED BY <1>1, SessionInit, SessionStep, PTL DEF Spec

=============================================================================
