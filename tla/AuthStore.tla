----------------------------- MODULE AuthStore ------------------------------
(***************************************************************************)
(* The browser's side of a session: the store of the signed-in user, the    *)
(* cookie, the calls in flight and what a 401 sets off.  The route follows  *)
(* the store (ProtectedRoute, PublicRoute): a user is on the login page     *)
(* exactly when the store has none.  The server's side is Session.          *)
(* The cookie belongs to the browser: other tabs log in and out with it, and *)
(* the browser drops it after its 24 hours (auth.go:84).  This tab's store   *)
(* hears of neither before its next load or its next 401.                   *)
(***************************************************************************)
EXTENDS Naturals

CONSTANTS
    Token,     \* session tokens
    Owner,     \* Owner[t]: the user a token is issued for
    Call       \* slots for calls in flight

VARIABLES
    live,      \* tokens the server accepts
    spent,     \* tokens that were issued
    jar,       \* the session cookie
    jarBy,     \* history: who changed the cookie last since this tab read or set it
    user,      \* useAuthStore: user, and with it isAuthenticated
    booted,    \* isInitialized
    loading,   \* isLoading
    calls,     \* calls[c]: a call in flight
    handled    \* unauthorizedHandled

authVars == <<live, spent, jar, jarBy, user, booted, loading, calls, handled>>

Nobody == "nobody"
NoCookie == "no cookie"

\* Who changed the cookie.
ThisTab == "this tab"
OtherTab == "another tab"
Time == "time"

ASSUME TokenAssumption == NoCookie \notin Token

Free == [kind |-> "free", cookie |-> NoCookie, status |-> 0, token |-> NoCookie]

AuthInit ==
    /\ live = {} /\ spent = {}
    /\ jar = NoCookie /\ jarBy = ThisTab /\ user = Nobody
    /\ booted = FALSE /\ loading = FALSE /\ handled = FALSE
    /\ calls = [c \in Call |-> Free]

Sent(kind) == [kind |-> kind, cookie |-> jar, status |-> 0, token |-> NoCookie]
InFlight(kind) == \E c \in Call : calls[c].kind = kind

-----------------------------------------------------------------------------
(* Calls go out.                                                           *)

\* App mounts: checkAuth.
Boot(c) ==
    /\ ~booted /\ ~InFlight("me") /\ calls[c] = Free
    /\ calls' = [calls EXCEPT ![c] = Sent("me")]
    /\ loading' = TRUE /\ jarBy' = ThisTab
    /\ UNCHANGED <<live, spent, jar, user, booted, handled>>

\* LoginPage: Masuk is disabled while a login is under way.
SubmitLogin(c) ==
    /\ booted /\ user = Nobody /\ ~loading /\ calls[c] = Free
    /\ calls' = [calls EXCEPT ![c] = Sent("login")]
    /\ loading' = TRUE
    /\ UNCHANGED <<live, spent, jar, jarBy, user, booted, handled>>

\* Topbar: Keluar.
Keluar(c) ==
    /\ booted /\ user # Nobody /\ calls[c] = Free
    /\ calls' = [calls EXCEPT ![c] = Sent("logout")]
    /\ UNCHANGED <<live, spent, jar, jarBy, user, booted, loading, handled>>

\* The pages fetch and change data.
PageCall(c) ==
    /\ booted /\ user # Nobody /\ calls[c] = Free
    /\ calls' = [calls EXCEPT ![c] = Sent("page")]
    /\ UNCHANGED <<live, spent, jar, jarBy, user, booted, loading, handled>>

-----------------------------------------------------------------------------
(* The server answers.                                                     *)

Reply(c, status, token) ==
    calls' = [calls EXCEPT ![c] =
                [kind |-> @.kind, cookie |-> @.cookie, status |-> status, token |-> token]]

\* /auth/me and the guarded routes.
GuardedAnswer(c) ==
    /\ calls[c].kind \in {"me", "page"} /\ calls[c].status = 0
    /\ Reply(c, IF calls[c].cookie \in live THEN 200 ELSE 401, NoCookie)
    /\ UNCHANGED <<live, spent, jar, jarBy, user, booted, loading, handled>>

\* /auth/login takes no notice of the cookie.
LoginAnswer(c) ==
    /\ calls[c].kind = "login" /\ calls[c].status = 0
    /\ \/ \E t \in Token \ spent :
            /\ Reply(c, 200, t)
            /\ live' = live \cup {t} /\ spent' = spent \cup {t}
       \/ Reply(c, 401, NoCookie) /\ UNCHANGED <<live, spent>>
    /\ UNCHANGED <<jar, jarBy, user, booted, loading, handled>>

\* /auth/logout is public: 200, or 503 when the revocation cannot be stored.
LogoutAnswer(c) ==
    /\ calls[c].kind \in {"logout", "logout401"} /\ calls[c].status = 0
    /\ \/ Reply(c, 200, NoCookie) /\ live' = live \ {calls[c].cookie}
       \/ calls[c].cookie # NoCookie /\ Reply(c, 503, NoCookie) /\ UNCHANGED live
    /\ UNCHANGED <<spent, jar, jarBy, user, booted, loading, handled>>

\* A token ends at the server: its 24 hours are over, or a tab logged it out.
TokenEnds(t) ==
    /\ t \in live
    /\ live' = live \ {t}
    /\ UNCHANGED <<spent, jar, jarBy, user, booted, loading, calls, handled>>

-----------------------------------------------------------------------------
(* The cookie changes under this tab.                                      *)

\* The cookie's 24 hours are over: they are those of its token, but the clock is
\* the browser's, so either may end first.
CookieExpires ==
    /\ jar # NoCookie
    /\ jar' = NoCookie /\ jarBy' = Time
    /\ UNCHANGED <<live, spent, user, booted, loading, calls, handled>>

OtherTabLogsIn(t) ==
    /\ t \notin spent
    /\ live' = live \cup {t} /\ spent' = spent \cup {t}
    /\ jar' = t /\ jarBy' = OtherTab
    /\ UNCHANGED <<user, booted, loading, calls, handled>>

\* The end of its token is TokenEnds.
OtherTabLogsOut ==
    /\ jar # NoCookie
    /\ jar' = NoCookie /\ jarBy' = OtherTab
    /\ UNCHANGED <<live, spent, user, booted, loading, calls, handled>>

-----------------------------------------------------------------------------
(* Answers arrive.                                                         *)

\* apiFetch: the first 401 starts a logout, those of the next 750 ms do not.
Settle(c, status) ==
    IF status = 401 /\ ~handled
      THEN calls' = [calls EXCEPT ![c] = Sent("logout401")] /\ handled' = TRUE
      ELSE calls' = [calls EXCEPT ![c] = Free] /\ UNCHANGED handled

\* Any end of checkAuth ends the loader; 0 is a call that was lost.
MeEnds(c, status) ==
    /\ calls[c].kind = "me"
    /\ user' = IF status = 200 THEN Owner[calls[c].cookie] ELSE Nobody
    /\ booted' = TRUE /\ loading' = FALSE
    /\ Settle(c, status)
    /\ UNCHANGED <<live, spent, jar, jarBy>>

LoginEnds(c, status) ==
    /\ calls[c].kind = "login"
    /\ loading' = FALSE
    /\ IF status = 200
         THEN jar' = calls[c].token /\ jarBy' = ThisTab /\ user' = Owner[jar']
         ELSE UNCHANGED <<jar, jarBy, user>>
    /\ Settle(c, status)
    /\ UNCHANGED <<live, spent, booted>>

PageEnds(c, status) ==
    /\ calls[c].kind = "page"
    /\ Settle(c, status)
    /\ UNCHANGED <<live, spent, jar, jarBy, user, booted, loading>>

\* The page is loaded anew; calls in flight are dropped.
Reloaded ==
    /\ booted' = FALSE /\ user' = Nobody /\ loading' = FALSE /\ handled' = FALSE
    /\ calls' = [c \in Call |-> Free]

\* The answer of a logout takes the cookie away.
DropCookie(status) ==
    IF status = 200 THEN jar' = NoCookie /\ jarBy' = ThisTab ELSE UNCHANGED <<jar, jarBy>>

\* Variant: the handler of a 401 calls the route and not the store's logout.
LogoutEndsOnServer(c, status) ==
    /\ calls[c].kind \in {"logout", "logout401"}
    /\ DropCookie(status)
    /\ user' = IF calls[c].kind = "logout" THEN Nobody ELSE user
    /\ loading' = FALSE
    /\ calls' = [calls EXCEPT ![c] = Free]
    /\ UNCHANGED <<live, spent, booted, handled>>

\* logout clears the store whatever the answer; after a 401 the page is loaded
\* anew unless the router is at the login page already.
LogoutEnds(c, status) ==
    /\ calls[c].kind \in {"logout", "logout401"}
    /\ DropCookie(status)
    /\ \/ /\ user' = Nobody /\ loading' = FALSE
          /\ calls' = [calls EXCEPT ![c] = Free]
          /\ UNCHANGED <<booted, handled>>
       \/ calls[c].kind = "logout401" /\ user # Nobody /\ Reloaded
    /\ UNCHANGED <<live, spent>>

Ends(c, status) ==
    MeEnds(c, status) \/ LoginEnds(c, status) \/ PageEnds(c, status) \/ LogoutEnds(c, status)

Arrives(c) == calls[c].status # 0 /\ Ends(c, calls[c].status)

\* The network fails before or after the server has done its part.
Lost(c) == calls[c] # Free /\ Ends(c, 0)

\* Variant: nothing sets the flag back.
TimerNever == FALSE /\ UNCHANGED authVars

TimerFires ==
    /\ handled
    /\ handled' = FALSE
    /\ UNCHANGED <<live, spent, jar, jarBy, user, booted, loading, calls>>

UserReloads == Reloaded /\ UNCHANGED <<live, spent, jar, jarBy>>

AuthCommand ==
    \/ UserReloads
    \/ CookieExpires \/ OtherTabLogsOut
    \/ \E t \in Token : TokenEnds(t) \/ OtherTabLogsIn(t)
    \/ \E c \in Call : SubmitLogin(c) \/ Keluar(c) \/ Lost(c)

Answers(c) == GuardedAnswer(c) \/ LoginAnswer(c) \/ LogoutAnswer(c)

AuthReply ==
    \/ TimerFires
    \/ \E c \in Call : Boot(c) \/ PageCall(c) \/ Answers(c) \/ Arrives(c)

\* The server and the network answer, timers fire, and a signed-in user goes on
\* working: only a call can find out that the session is over.
AuthFairness ==
    /\ WF_authVars(TimerFires)
    /\ WF_authVars(\E c \in Call : Boot(c))
    /\ WF_authVars(\E c \in Call : PageCall(c))
    /\ \A c \in Call : WF_authVars(Answers(c)) /\ WF_authVars(Arrives(c))

AuthSpec == AuthInit /\ [][AuthCommand \/ AuthReply]_authVars /\ AuthFairness

-----------------------------------------------------------------------------
\* The user whose name and permissions the pages show is the user of the session
\* cookie, whichever logins, logouts and lost answers of this tab cross
\* (authStore.ts:50-76), until the cookie runs out or another tab changes it: a
\* cookie that ran out leaves none, and only another tab can put a stranger's
\* cookie under the user on the screen.
StoreFollowsJar ==
    user # Nobody =>
        /\ jarBy = ThisTab => jar # NoCookie /\ Owner[jar] = user
        /\ jarBy = Time => jar = NoCookie

\* A session that is over at the server ends on the screen too, unless a login
\* that was under way replaces it: no 401 is swallowed for good
\* (httpClient.ts:48-54, App.tsx:79-85).
Orphaned == user # Nobody /\ jar \notin live
DeadSessionLeadsOut == Orphaned ~> ~Orphaned
=============================================================================
