---------------------------- MODULE MCLifecycle ----------------------------
(* Instances of Lifecycle for TLC. *)
EXTENDS Lifecycle

CONSTANTS r1

MCOneRequest == {r1}

\* 99 makes WriteHeader panic, 204 forbids a body.  The code sets 307, 400,
\* 404, 405 and 500 itself.
MCStatuses   == {99, 204}
MCResponses  == ResponseKinds \cup {"nil"}
MCHandlers   == {"default", "custom"}
=============================================================================
