------------------------------ MODULE Session ------------------------------
(***************************************************************************)
(* Session tokens: Login issues one, Logout writes it to the table          *)
(* revoked_tokens, and RequireAuth checks each request against that table   *)
(* through a cache that holds an answer "not revoked" for negTTL            *)
(* (backend/internal/api/middleware/auth_middleware.go, handlers/auth.go).  *)
(* main.go makes two instances of RequireAuth, each with a cache of its own.*)
(*                                                                         *)
(* Time is a counter.  A request reads the clock, the cache and the table   *)
(* in steps of its own; the cache's mutex makes each access one step.       *)
(***************************************************************************)
EXTENDS Integers

CONSTANTS
    Token,       \* session tokens
    Guard,       \* the instances of RequireAuth
    Worker,      \* requests that may be in flight together
    NegTTL,      \* negTTL: how long "not revoked" is believed
    Life,        \* lifetime of a token
    MaxTime,     \* the clock stops here
    NoToken, NoGuard, Never

ASSUME TimeAssumption ==
    NegTTL \in Nat \ {0} /\ Life \in Nat \ {0} /\ MaxTime \in Nat
ASSUME NeverAssumption == Never \notin Int

VARIABLES
    now,         \* the clock
    expires,     \* claims.ExpiresAt of an issued token, else Never
    revoked,     \* revoked_tokens: expires_at of the row, Never if no row
    items,       \* the caches' entries
    pc, tok, guard, at, exp,     \* a request: its step and what it has read
    loggedOut    \* history: when the token's first revocation was stored

vars == <<now, expires, revoked, items, pc, tok, guard, at, exp, loggedOut>>

Time == 0 .. MaxTime
Stamp == 0 .. (MaxTime + NegTTL + Life)
Entry == [revoked : BOOLEAN, until : Stamp]
NoEntry == [revoked |-> FALSE, until |-> 0]     \* no entry in the map

Idle(w) ==
    /\ pc' = [pc EXCEPT ![w] = "idle"]
    /\ tok' = [tok EXCEPT ![w] = NoToken]
    /\ guard' = [guard EXCEPT ![w] = NoGuard]
    /\ at' = [at EXCEPT ![w] = 0]
    /\ exp' = [exp EXCEPT ![w] = 0]

Goto(w, step) == pc' = [pc EXCEPT ![w] = step] /\ UNCHANGED <<tok, guard, at, exp>>

Valid(k) == expires[k] # Never /\ now < expires[k]

-----------------------------------------------------------------------------
(* RequireAuth.                                                            *)

\* ValidateToken accepts the token.
Arrive(w) ==
    /\ pc[w] = "idle"
    /\ \E k \in Token, g \in Guard :
         /\ Valid(k)
         /\ tok' = [tok EXCEPT ![w] = k]
         /\ guard' = [guard EXCEPT ![w] = g]
    /\ pc' = [pc EXCEPT ![w] = "stamp"]
    /\ UNCHANGED <<now, expires, revoked, items, at, exp, loggedOut>>

\* now := time.Now()
ReadClock(w) ==
    /\ pc[w] = "stamp"
    /\ at' = [at EXCEPT ![w] = now]
    /\ pc' = [pc EXCEPT ![w] = "get"]
    /\ UNCHANGED <<now, expires, revoked, items, tok, guard, exp, loggedOut>>

\* Variant: no answer from the cache is taken for "revoked".
GetRefusing(w) ==
    LET e == items[guard[w]][tok[w]]
    IN  /\ pc[w] = "get"
        /\ Goto(w, IF at[w] < e.until /\ ~e.revoked THEN "served" ELSE "refused")
        /\ UNCHANGED <<now, expires, revoked, items, loggedOut>>

\* revCache.get: an entry counts until validUntil.
Get(w) ==
    LET e == items[guard[w]][tok[w]]
    IN  /\ pc[w] = "get"
        /\ Goto(w, IF e = NoEntry THEN "query"
                   ELSE IF at[w] >= e.until THEN "evict"
                   ELSE IF e.revoked THEN "refused" ELSE "served")
        /\ UNCHANGED <<now, expires, revoked, items, loggedOut>>

\* The second critical section of get deletes whatever is there by then.
Evict(w) ==
    /\ pc[w] = "evict"
    /\ items' = [items EXCEPT ![guard[w]][tok[w]] = NoEntry]
    /\ Goto(w, "query")
    /\ UNCHANGED <<now, expires, revoked, loggedOut>>

\* SELECT expires_at FROM revoked_tokens WHERE ... AND expires_at > now()
Query(w) ==
    LET row == revoked[tok[w]]
    IN  /\ pc[w] = "query"
        /\ \/ /\ row # Never /\ now < row
              /\ exp' = [exp EXCEPT ![w] = row]
              /\ pc' = [pc EXCEPT ![w] = "setRevoked"]
              /\ UNCHANGED <<tok, guard, at>>
           \/ (row # Never => row <= now) /\ Goto(w, "setNotRevoked")
        /\ UNCHANGED <<now, expires, revoked, items, loggedOut>>

SetRevoked(w) ==
    /\ pc[w] = "setRevoked"
    /\ items' = [items EXCEPT ![guard[w]][tok[w]] = [revoked |-> TRUE, until |-> exp[w]]]
    /\ Goto(w, "refused")
    /\ UNCHANGED <<now, expires, revoked, loggedOut>>

\* Variant: the entry is stamped when it is stored.
SetNotRevokedLate(w) ==
    /\ pc[w] = "setNotRevoked"
    /\ items' = [items EXCEPT ![guard[w]][tok[w]] =
                   [revoked |-> FALSE, until |-> now + NegTTL]]
    /\ Goto(w, "served")
    /\ UNCHANGED <<now, expires, revoked, loggedOut>>

\* The entry runs from the time the request read before it asked the table.
SetNotRevoked(w) ==
    /\ pc[w] = "setNotRevoked"
    /\ items' = [items EXCEPT ![guard[w]][tok[w]] =
                   [revoked |-> FALSE, until |-> at[w] + NegTTL]]
    /\ Goto(w, "served")
    /\ UNCHANGED <<now, expires, revoked, loggedOut>>

-----------------------------------------------------------------------------
(* Login, logout and the environment.                                      *)

Login(k) ==
    /\ expires[k] = Never
    /\ expires' = [expires EXCEPT ![k] = now + Life]
    /\ UNCHANGED <<now, revoked, items, pc, tok, guard, at, exp, loggedOut>>

\* Variant: the lifetime is added to a time instead of a duration.
LogoutTooLong(w) ==
    /\ pc[w] = "idle"
    /\ \E k \in Token :
         /\ expires[k] # Never
         /\ tok' = [tok EXCEPT ![w] = k]
         /\ exp' = [exp EXCEPT ![w] = expires[k] + Life]
    /\ pc' = [pc EXCEPT ![w] = "insert"]
    /\ UNCHANGED <<now, expires, revoked, items, guard, at, loggedOut>>

\* Logout is not behind RequireAuth: it takes any cookie.
Logout(w) ==
    /\ pc[w] = "idle"
    /\ \E k \in Token :
         /\ expires[k] # Never
         /\ tok' = [tok EXCEPT ![w] = k]
         /\ exp' = [exp EXCEPT ![w] = IF Valid(k) THEN expires[k] ELSE now + Life]
    /\ pc' = [pc EXCEPT ![w] = "insert"]
    /\ UNCHANGED <<now, expires, revoked, items, guard, at, loggedOut>>

\* INSERT INTO revoked_tokens ... ON CONFLICT DO UPDATE SET expires_at
LogoutInsert(w) ==
    /\ pc[w] = "insert"
    /\ revoked' = [revoked EXCEPT ![tok[w]] = exp[w]]
    /\ loggedOut' = [loggedOut EXCEPT ![tok[w]] = IF @ = Never THEN now ELSE @]
    /\ Goto(w, "purge")
    /\ UNCHANGED <<now, expires, items>>

\* DELETE FROM revoked_tokens WHERE expires_at < now()
LogoutPurge(w) ==
    /\ pc[w] = "purge"
    /\ revoked' = [k \in Token |-> IF revoked[k] # Never /\ revoked[k] < now
                                   THEN Never ELSE revoked[k]]
    /\ Idle(w)
    /\ UNCHANGED <<now, expires, items, loggedOut>>

\* The request has been answered, or is abandoned: a statement failed (503) or
\* the client went away.
End(w) ==
    /\ pc[w] # "idle"
    /\ Idle(w)
    /\ UNCHANGED <<now, expires, revoked, items, loggedOut>>

\* The caches and the requests are lost, the table is not.
Restart ==
    /\ items' = [g \in Guard |-> [k \in Token |-> NoEntry]]
    /\ pc' = [w \in Worker |-> "idle"]
    /\ tok' = [w \in Worker |-> NoToken]
    /\ guard' = [w \in Worker |-> NoGuard]
    /\ at' = [w \in Worker |-> 0]
    /\ exp' = [w \in Worker |-> 0]
    /\ UNCHANGED <<now, expires, revoked, loggedOut>>

Tick == /\ now < MaxTime
        /\ now' = now + 1
        /\ UNCHANGED <<expires, revoked, items, pc, tok, guard, at, exp, loggedOut>>

Init ==
    /\ now = 0
    /\ expires = [k \in Token |-> Never]
    /\ revoked = [k \in Token |-> Never]
    /\ items = [g \in Guard |-> [k \in Token |-> NoEntry]]
    /\ pc = [w \in Worker |-> "idle"]
    /\ tok = [w \in Worker |-> NoToken]
    /\ guard = [w \in Worker |-> NoGuard]
    /\ at = [w \in Worker |-> 0]
    /\ exp = [w \in Worker |-> 0]
    /\ loggedOut = [k \in Token |-> Never]

Request(w) ==
    \/ Arrive(w) \/ ReadClock(w) \/ Get(w) \/ Evict(w) \/ Query(w)
    \/ SetRevoked(w) \/ SetNotRevoked(w)
    \/ Logout(w) \/ LogoutInsert(w) \/ LogoutPurge(w)
    \/ End(w)

Next ==
    \/ \E w \in Worker : Request(w)
    \/ \E k \in Token : Login(k)
    \/ Restart
    \/ Tick

Spec == Init /\ [][Next]_vars

-----------------------------------------------------------------------------
(* Properties.                                                             *)

\* Type correctness: times within range, a token and a guard for each request.
TypeOK ==
    /\ now \in Time
    /\ expires \in [Token -> Stamp \cup {Never}]
    /\ revoked \in [Token -> Stamp \cup {Never}]
    /\ items \in [Guard -> [Token -> Entry]]
    /\ pc \in [Worker -> {"idle", "stamp", "get", "evict", "query", "setRevoked",
                          "setNotRevoked", "served", "refused", "insert", "purge"}]
    /\ tok \in [Worker -> Token \cup {NoToken}]
    /\ guard \in [Worker -> Guard \cup {NoGuard}]
    /\ at \in [Worker -> Time]
    /\ exp \in [Worker -> Stamp]
    /\ loggedOut \in [Token -> Time \cup {Never}]

\* A request is served after its token was revoked only if it read the clock
\* less than negTTL after that, or the token ran out while it was being checked,
\* whatever other requests put into the cache meanwhile (RequireAuth).
RevokedWithinTTL ==
    \A w \in Worker :
        LET k == tok[w]
        IN  pc[w] = "served" /\ loggedOut[k] # Never
            => at[w] < loggedOut[k] + NegTTL \/ expires[k] <= now

\* A request is refused as revoked only if someone has logged out with its
\* token: no stale entry or row of another request can do it (RequireAuth).
NoFalseRefusal ==
    \A w \in Worker : pc[w] = "refused" => loggedOut[tok[w]] # Never

=============================================================================
