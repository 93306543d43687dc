------------------------------ MODULE MCLoader ------------------------------
(* Instances of Loader for TLC. *)
EXTENDS DocumentedLoader, TLC

MCNames   == {"a", "b"}
MCTexts   == {"blank", "word", "1", "-1", "200"}
MCNumbers == "1" :> 1 @@ "-1" :> -1 @@ "200" :> 200

-----------------------------------------------------------------------------
(* Handlers *)

Type(kind)        == [kind |-> kind, elem |-> "none", defined |-> FALSE]
SliceOf(elem)     == [kind |-> "slice", elem |-> elem, defined |-> FALSE]
DefinedType(kind) == [kind |-> kind, elem |-> "none", defined |-> TRUE]
PointerTo(elem)   == [kind |-> "ptr", elem |-> elem, defined |-> FALSE]

Plain(src, type) ==
    [resolvers |-> {src}, name |-> "a", body |-> "empty", type |-> type, exported |-> TRUE,
     required |-> "unset", blank |-> "unset", pattern |-> "unset"]

Body(parser, type) == [Plain("body", type) EXCEPT !.body = parser]
Strict(f)   == [f EXCEPT !.required = "true", !.blank = "false"]
Patterned(f) == [f EXCEPT !.pattern = "valid"]
Hidden(f)   == [f EXCEPT !.exported = FALSE]
Renamed(f)  == [f EXCEPT !.name = "b"]

MCLoadable ==
    {Strict(Plain("query", Type("string"))),
     Plain("query", Type("int8")),
     Strict(Plain("url-param", Type("uint8"))),
     Patterned(Plain("header", SliceOf("string"))),
     Strict(Plain("header", Type("bool"))),
     Plain("form", SliceOf("int8")),
     Patterned(Strict(Plain("form", Type("string")))),
     Strict(Plain("form", PointerTo("file"))),
     Plain("form", SliceOf("fileptr"))}

MCRare ==
    {Body("json", Type("struct")), Body("json", Type("map")),
     Body("text", Type("string")), Body("text", DefinedType("string")),
     Body("bytes", SliceOf("uint8")), Body("stream", Type("interface")),
     Body("bytes", [SliceOf("uint8") EXCEPT !.defined = TRUE]),
     Hidden(Plain("query", Type("string"))), Hidden(Plain("form", SliceOf("string"))),
     Hidden(Plain("form", PointerTo("file"))), Hidden(Body("json", Type("struct"))),
     Plain("url-param", Type("int16")), Plain("query", Type("float")),
     Plain("header", Type("ptr"))}

\* Each is refused for one reason.
MCInvalid ==
    {[Plain("query", Type("string")) EXCEPT !.resolvers = {"query", "header"}],
     [Strict(Plain("query", Type("string"))) EXCEPT !.resolvers = {}],
     [Plain("query", Type("string")) EXCEPT !.pattern = "invalid"],
     [Plain("query", Type("string")) EXCEPT !.pattern = "empty"],
     Plain("form", Type("file")), Plain("form", SliceOf("file")),
     Body("empty", Type("struct")), Body("unknown", Type("struct")),
     Body("json", Type("int8")), Body("text", Type("struct")),
     Body("bytes", SliceOf("string")), Body("stream", Type("struct"))}

MCUntagged == [Plain("query", Type("string")) EXCEPT !.resolvers = {}]

MCStructs ==
    {<<f>> : f \in MCLoadable \cup MCRare \cup MCInvalid \cup {MCUntagged}}
    \cup {<<f, g>> : f, g \in MCLoadable}
    \cup {<<f, Renamed(g)>> : f, g \in MCLoadable}
    \cup {<<MCUntagged, f>> : f \in MCLoadable}
    \cup {<<Body("json", Type("struct")), f>> :
             f \in MCLoadable \cup {Body("text", Type("string"))}}

Function(fields, parser, wantsPtr) ==
    [signature |-> TRUE, wantsPtr |-> wantsPtr, parser |-> parser, fields |-> fields]

MCHandlers ==
    {Function(fields, "none", TRUE) : fields \in MCStructs}
    \cup {Function(<<f>>, parser, wantsPtr) :
             f \in MCLoadable \cup {Body("json", Type("struct"))},
             parser \in {"value", "pointer"}, wantsPtr \in BOOLEAN}
    \cup {[Function(<<>>, "none", FALSE) EXCEPT !.signature = FALSE]}

\* The structs of src/reflect_test.go:180 and 185, and README.md.
MCMapBody == {Function(<<Body("json", Type(kind))>>, "none", TRUE) : kind \in {"map", "struct"}}

-----------------------------------------------------------------------------
(* Requests *)

MCValues == {<<"blank">>, <<"word">>, <<"1">>, <<"200", "word">>, <<"-1", "1">>}

MCOneName  == {NoValues} \cup {"a" :> v : v \in MCValues}
MCTwoNames == {"a" :> <<"1">> @@ "b" :> v : v \in {<<"1">>, <<"blank">>, <<"200", "word">>}}

MCFiles == {NoValues, "a" :> <<"content">>, "a" :> <<"content", "empty">>}

MCOne == "a" :> <<"1">>

\* What satisfies a strict field in each source but the form.
MCParams == [NoRequest EXCEPT !.query = MCOne, !.header = MCOne, !.url = <<<<"a", "1">>>>]

\* chi's parameters: none, one, or one that two routers name alike.
MCRoutes ==
    {<<>>} \cup {<<<<"a", v>>>> : v \in MCTexts}
    \cup {<<<<"a", "word">>, <<"a", "1">>>>, <<<<"b", "-1">>, <<"a", "200">>>>}

MCRequests ==
    {[MCParams EXCEPT !.query = map] : map \in MCOneName \cup MCTwoNames}
    \cup {[MCParams EXCEPT !.header = map] : map \in MCOneName \cup MCTwoNames}
    \cup {[MCParams EXCEPT !.url = url] : url \in MCRoutes}
    \cup {[MCParams EXCEPT !.body = body] : body \in {"valid", "broken"}}
    \cup {[MCParams EXCEPT !.query = map, !.form = "urlencoded", !.values = values] :
              map \in {NoValues, MCOne}, values \in MCOneName \cup MCTwoNames}
    \cup {[MCParams EXCEPT !.form = "multipart", !.values = values, !.files = files] :
              values \in MCOneName \cup MCTwoNames, files \in MCFiles}
    \cup {[MCParams EXCEPT !.form = form] : form \in {"eof", "error"}}
=============================================================================
