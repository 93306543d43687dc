----------------------- MODULE DocumentedAcceptParser -----------------------
(***************************************************************************)
(* What a comment of src/content_type.go says of a parsed range, as a      *)
(* property of AcceptParser the code does not satisfy.                     *)
(***************************************************************************)
EXTENDS AcceptParser

\* Parameters of MediaType, src/content_type.go:365: "represents the list of
\* parameters for a parsed media type. For instance, for "text/plain;foo=bar",
\* Parameters will have as its contents a map[string][]string{"foo": {"bar"}}".
\* Every range of a header that is parsed has its own, and no others.
ParametersAreListed ==
    Parsed =>
        \A i \in DOMAIN header.written :
            LET params == header.written[i].params
            IN  i \in DOMAIN result /\ HasParams(result[i].params, params, Len(params))
=============================================================================
