----------------------------- MODULE QueryCache -----------------------------
(***************************************************************************)
(* One entry of the browser's query cache (TanStack Query, as the pages use *)
(* it): what queryFn answered last, whether that was invalidated since, and *)
(* the request in flight.  The client retries once, never refetches on      *)
(* focus, and lets data age for five minutes, which is left out.           *)
(***************************************************************************)
EXTENDS Naturals

\* fetch: "idle", "sent", or "read" once the server has answered `ans`.
EmptyEntry(nothing) ==
    [has |-> FALSE, data |-> nothing, valid |-> FALSE, fetch |-> "idle",
     ans |-> nothing, tried |-> 0, failed |-> FALSE]

Fetch(e) == [e EXCEPT !.fetch = "sent", !.ans = e.data, !.tried = 0]

\* A component starts to show the entry.
Observe(e) ==
    IF e.fetch = "idle" /\ ~(e.has /\ e.valid) THEN Fetch(e) ELSE e

\* refetch(): a request in flight is dropped, unless it is the first load.
Refetch(e) == IF e.has \/ e.fetch = "idle" THEN Fetch(e) ELSE e

\* invalidateQueries: entries on the screen are fetched at once.
Invalidate(e, observed) ==
    LET stale == [e EXCEPT !.valid = FALSE]
    IN  IF observed THEN Refetch(stale) ELSE stale

\* The server answers the request in flight with v.
ServerReads(e, v) == [e EXCEPT !.fetch = "read", !.ans = v]

Land(e) ==
    [e EXCEPT !.has = TRUE, !.data = e.ans, !.valid = TRUE, !.fetch = "idle",
              !.tried = 0, !.failed = FALSE]

\* The request or its answer is lost: retry: 1.
Lose(e) ==
    IF e.tried = 0 THEN [e EXCEPT !.fetch = "sent", !.ans = e.data, !.tried = 1]
                   ELSE [e EXCEPT !.fetch = "idle", !.ans = e.data, !.tried = 0, !.failed = TRUE]

\* A change does not reach an entry by the request in flight: the server read
\* for that before the change, and invalidateQueries does not send it again.
Overtaken(e, observed, readBefore) ==
    e.fetch = "read" /\ readBefore /\ ~(observed /\ e.has)

Loading(e) == ~e.has /\ e.fetch # "idle"
AtRest(e) == e.has /\ e.fetch = "idle" /\ ~e.failed
=============================================================================
