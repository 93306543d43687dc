--------------------------- MODULE DocumentedLoader ---------------------------
(***************************************************************************)
(* What a test of src/reflect_test.go says of the bodies a handler may     *)
(* take, as a property of Loader the code does not satisfy.                *)
(***************************************************************************)
EXTENDS Loader

\* src/reflect_test.go:180-183 declares a ValidJSONRequest, with the field
\* Field map[string]interface{} and the tag body:"json", and registers it at
\* 208-213 under "With valid JSON".  A request for a handler that was accepted
\* does not panic, unless its struct has a field the package cannot set, or a
\* parser of its own that does.
AcceptedBodyIsLoaded ==
    stage = "panicked" =>
        \/ meta.customParser
        \/ \E i \in DOMAIN handler.fields :
               ~Ignored(handler.fields[i]) /\ ~handler.fields[i].exported
=============================================================================
