------------------------------ MODULE Exchange ------------------------------
(***************************************************************************)
(* What a Mux promises about one HTTP exchange, seen from outside: a       *)
(* request gets at most one status, never replaced; the status fits what   *)
(* happened to the request, unless the application handled its failure; an *)
(* answer that does not exist yet is only replaced by a dropped connection.*)
(***************************************************************************)
EXTENDS Integers

CONSTANT Requests

VARIABLES
    stage,     \* "idle", "open", "closed", or "dropped" by the server
    verdict,   \* what happened to the request, "none" before it is known
    answer     \* the status sent, 0 before

vars == <<stage, verdict, answer>>

\* "handled": left to a middleware or a handler of failures of the application;
\* "notfound": the handler called NotFound.
Verdicts == {"ok", "bad", "broken", "notfound", "unrouted", "handled"}

\* Redirect answers before the handler has returned.
Early == 307

\* The statuses that fit a verdict.  Which one NotFound gives is left open: its
\* comment promises the client a NotFound error (src/request.go:280), the default
\* error handler answers 500.
Fitting(v) ==
    CASE v = "none"     -> {Early}
      [] v = "ok"       -> 100 .. 999
      [] v = "handled"  -> 100 .. 999
      [] v = "bad"      -> {400}
      [] v = "broken"   -> {500}
      [] v = "notfound" -> {404, 500}
      [] v = "unrouted" -> {404, 405}

Init ==
    /\ stage = [r \in Requests |-> "idle"]
    /\ verdict = [r \in Requests |-> "none"]
    /\ answer = [r \in Requests |-> 0]

Open(r) == stage[r] = "open"

Receive(r, v) ==
    /\ stage[r] = "idle"
    /\ v \in {"none", "unrouted", "handled"}
    /\ stage' = [stage EXCEPT ![r] = "open"]
    /\ verdict' = [verdict EXCEPT ![r] = v]
    /\ UNCHANGED answer

Judge(r, v) ==
    /\ Open(r)
    /\ verdict[r] = "none"
    /\ v \in Verdicts
    /\ verdict' = [verdict EXCEPT ![r] = v]
    /\ UNCHANGED <<stage, answer>>

Answer(r) ==
    /\ Open(r)
    /\ answer[r] = 0
    /\ answer'[r] \in Fitting(verdict[r])
    /\ answer' = [answer EXCEPT ![r] = answer'[r]]
    /\ UNCHANGED <<stage, verdict>>

\* A response that was aborted while it was rendered is an empty 200, and so
\* is the answer of a custom handler that gave none.
Close(r) ==
    /\ Open(r)
    /\ verdict[r] # "none"
    /\ answer[r] = 0 => verdict[r] \in {"ok", "handled"}
    /\ answer' = [answer EXCEPT ![r] = IF @ = 0 THEN 200 ELSE @]
    /\ stage' = [stage EXCEPT ![r] = "closed"]
    /\ UNCHANGED verdict

\* A panic outside every recover.  Once a request is judged fine none is left.
Drop(r) ==
    /\ Open(r)
    /\ verdict[r] # "ok"
    /\ stage' = [stage EXCEPT ![r] = "dropped"]
    /\ UNCHANGED <<verdict, answer>>

Next ==
    \E r \in Requests :
        \/ \E v \in {"none"} \cup Verdicts : Receive(r, v) \/ Judge(r, v)
        \/ Answer(r)
        \/ Close(r)
        \/ Drop(r)

Spec == Init /\ [][Next]_vars
=============================================================================
