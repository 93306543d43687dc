--------------------------- MODULE HandlerMetadata ---------------------------
(***************************************************************************)
(* determineFuncParams (src/reflect.go): what a Mux keeps of a handler it  *)
(* is given, or why it panics.  The struct's fields are read one by one    *)
(* for their tags; which error a struct is refused for is not told apart.  *)
(***************************************************************************)
EXTENDS Integers, Sequences, FiniteSets

CONSTANTS
    Handlers,   \* the functions given to Mux.Get, Mux.Post...
    FieldNames  \* names in tags: of parameters, headers, form fields

\* "file" is a FileHeader of either package, "fileptr" a pointer to one.  A type
\* is defined if it, or a slice's element, has a name of its own beside its kind.
Primitives == {"bool", "int8", "int16", "uint8", "float", "string"}
Kinds == Primitives \cup {"struct", "file", "fileptr", "ptr", "map", "slice", "interface"}
FieldType == [kind : Kinds, elem : Kinds \cup {"none"}, defined : BOOLEAN]

Sources   == {"query", "url-param", "header", "form"}
Resolvers == Sources \cup {"body"}
Flags     == {"unset", "true", "false"}

\* "json" stands for "xml" too.
BodyParsers == {"json", "text", "bytes", "stream"}

Field ==
    [resolvers : SUBSET Resolvers,
     name      : FieldNames,
     body      : BodyParsers \cup {"empty", "unknown"},
     type      : FieldType,
     exported  : BOOLEAN,
     required  : Flags,
     blank     : Flags,
     pattern   : {"unset", "empty", "invalid", "valid"}]

\* parser: the receiver of the struct's ParseRequest method.
Handler ==
    [signature : BOOLEAN,
     wantsPtr  : BOOLEAN,
     parser    : {"none", "value", "pointer"},
     fields    : Seq(Field)]

ASSUME HandlersAssumption == Handlers \subseteq Handler

NoFields  == [name \in {} |-> 0]
NoHandler == [signature |-> FALSE, wantsPtr |-> FALSE, parser |-> "none", fields |-> <<>>]
NoMeta    == [customParser |-> FALSE, body |-> 0, params |-> [src \in Sources |-> NoFields]]

VARIABLES
    handler,   \* the function given to the Mux
    meta,      \* its handlerMetadata: fields by number, 0 for none
    scanned,   \* the fields read so far
    stage      \* where the Mux is with the handler, and a request for it

metaVars == <<handler, meta, scanned>>

\* NumField counts from 0, fields here from 1.
MetaTypeOK ==
    /\ handler \in Handlers \cup {NoHandler}
    /\ scanned \in 0 .. Len(handler.fields)
    /\ meta.customParser \in BOOLEAN
    /\ meta.body \in 0 .. scanned
    /\ \A src \in Sources : \A name \in DOMAIN meta.params[src] :
            name \in FieldNames /\ meta.params[src][name] \in 1 .. scanned

kindForFileField(type) ==
    CASE type.kind = "ptr" /\ type.elem = "file"      -> "single"
      [] type.kind = "slice" /\ type.elem = "fileptr" -> "many"
      [] type.kind = "file" \/ (type.kind = "slice" /\ type.elem = "file") -> "refused"
      [] OTHER -> "none"

typeValidator(parser, type) ==
    CASE parser = "json"   -> type.kind \in {"struct", "file", "slice", "ptr", "map"}
      [] parser = "text"   -> type.kind = "string"
      [] parser = "bytes"  -> type.kind = "slice" /\ type.elem = "uint8"
      [] parser = "stream" -> type.kind = "interface"

Tagged(f) == f.blank # "unset" \/ f.pattern # "unset" \/ f.required # "unset"

Ignored(f) == f.resolvers = {} /\ ~Tagged(f)

BodyRefused(f) ==
    \/ meta.body # 0
    \/ f.body \in BodyParsers => ~typeValidator(f.body, f.type)

Refused(f) ==
    \/ f.resolvers = {} /\ Tagged(f)
    \/ Cardinality(f.resolvers) > 1
    \/ kindForFileField(f.type) = "refused"
    \/ f.pattern \in {"empty", "invalid"}
    \/ f.resolvers = {"body"} /\ BodyRefused(f)

-----------------------------------------------------------------------------

MetaInit ==
    /\ handler = NoHandler /\ meta = NoMeta /\ scanned = 0
    /\ stage = "idle"

\* A pointer receiver is only in the method set of a pointer.
Implements(h) == h.parser = "value" \/ (h.parser = "pointer" /\ h.wantsPtr)

Register(h) ==
    /\ stage = "idle"
    /\ handler' = h
    /\ meta' = [NoMeta EXCEPT !.customParser = Implements(h)]
    /\ stage' = IF h.signature THEN "scanning" ELSE "refused"
    /\ UNCHANGED scanned

\* A name used twice in a source: the later field replaces the earlier one.
Keep(f, i) ==
    LET src == CHOOSE resolver \in f.resolvers : TRUE
        old == meta.params[src]
    IN  IF src = "body"
        THEN [meta EXCEPT !.body = i]
        ELSE [meta EXCEPT !.params[src] =
                 [name \in DOMAIN old \cup {f.name} |-> IF name = f.name THEN i ELSE old[name]]]

ScanField ==
    /\ stage = "scanning"
    /\ scanned < Len(handler.fields)
    /\ LET i == scanned + 1
           f == handler.fields[i]
       IN  \/ Ignored(f) /\ scanned' = i /\ UNCHANGED <<handler, meta, stage>>
           \/ Refused(f) /\ stage' = "refused" /\ UNCHANGED metaVars
           \/ /\ ~Ignored(f) /\ ~Refused(f)
              /\ scanned' = i
              /\ meta' = Keep(f, i)
              /\ UNCHANGED <<handler, stage>>

\* Faulty variant: a custom parser may have form fields beside it.
Conflicting_FormsOnly(m) == m.body # 0 /\ DOMAIN m.params["form"] # {}

\* The body is read by one of: a custom parser, a body parser, a form.
Conflicting(m) ==
    LET forms == DOMAIN m.params["form"]
    IN  (m.customParser /\ (m.body # 0 \/ forms # {})) \/ (m.body # 0 /\ forms # {})

EndOfStruct ==
    /\ stage = "scanning"
    /\ scanned = Len(handler.fields)
    /\ stage' = IF Conflicting(meta) THEN "refused" ELSE "registered"
    /\ UNCHANGED metaVars

\* makeResponder panics; the Mux has not changed.
Refuse ==
    /\ stage = "refused"
    /\ handler' = NoHandler /\ meta' = NoMeta /\ scanned' = 0
    /\ stage' = "idle"

determineFuncParams == ScanField \/ EndOfStruct
=============================================================================
