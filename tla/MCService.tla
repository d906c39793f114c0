------------------------------ MODULE MCService ------------------------------
(***************************************************************************)
(* The two parts whose promises are about what must happen in the end: the  *)
(* storage service, and the browser's side of a session.  A behaviour is    *)
(* about one of them while the other does nothing.  `left` bounds what      *)
(* users do at the browser, what ends there and what gets lost.            *)
(***************************************************************************)
EXTENDS CasStorage, AuthStore

VARIABLES about, left

serviceVars == <<about, left, casVars, authVars>>

CONSTANT Commands

COwner == [t \in {"t1", "t2"} |-> IF t = "t1" THEN "ani" ELSE "budi"]

\* A browser that has been started and does nothing more.
Resting ==
    /\ live = {} /\ spent = {} /\ jar = NoCookie /\ jarBy = ThisTab /\ user = Nobody
    /\ booted = TRUE /\ loading = FALSE /\ handled = FALSE
    /\ calls = [c \in Call |-> Free]

ServiceInit ==
    /\ about \in {"storage", "session"} /\ left = Commands
    /\ CasInit
    /\ IF about = "session" THEN AuthInit ELSE Resting

ServiceNext ==
    \/ about = "storage" /\ CasNext /\ UNCHANGED <<about, left, authVars>>
    \/ /\ about = "session" /\ UNCHANGED <<about, casVars>>
       /\ \/ AuthCommand /\ left > 0 /\ left' = left - 1
          \/ AuthReply /\ UNCHANGED left

ServiceFairness == AuthFairness /\ \A u \in Upload : WF_casVars(Progress(u))

ServiceSpec == ServiceInit /\ [][ServiceNext]_serviceVars /\ ServiceFairness
=============================================================================
