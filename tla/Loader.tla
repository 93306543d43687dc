------------------------------- MODULE Loader -------------------------------
(***************************************************************************)
(* loadAndApplyMeta (src/loader.go) up to the call of the handler: the     *)
(* fields of its struct are loaded source by source, in the order Go       *)
(* happens to range over the maps of the metadata; the first that does not *)
(* satisfy its tags ends it.                                               *)
(***************************************************************************)
EXTENDS HandlerMetadata, Functions

CONSTANTS
    Texts,     \* values a client may send
    Blank,     \* the one that is blank, or empty
    Numbers,   \* the texts that are numbers, to their values
    Truths,    \* the texts strconv.ParseBool accepts
    Matched,   \* the texts a field's pattern matches
    Requests   \* the requests a client may make

ASSUME TextsAssumption ==
    /\ Blank \in Texts /\ Truths \subseteq Texts /\ Matched \subseteq Texts
    /\ DOMAIN Numbers \subseteq Texts
    /\ Blank \notin Truths \cup DOMAIN Numbers
    /\ \A text \in DOMAIN Numbers : Numbers[text] \in Int

\* Files are told apart by whether they are empty.
Files == {"empty", "content"}

\* url: chi's route parameters, the outermost router's first.
\* body: as ParseMultipartForm and the body parsers find it.
IsRequest(r) ==
    /\ \A src \in {"query", "header"} : \A name \in DOMAIN r[src] :
            r[src][name] \in Seq(Texts)
    /\ r.url \in Seq(FieldNames \X Texts)
    /\ r.form \in {"multipart", "urlencoded", "eof", "error"}
    /\ \A name \in DOMAIN r.values : r.values[name] \in Seq(Texts)
    /\ \A name \in DOMAIN r.files : r.files[name] \in Seq(Files)
    /\ r.body \in {"valid", "broken"}

ASSUME RequestsAssumption == \A r \in Requests : IsRequest(r)

NoValues  == [name \in {} |-> <<>>]
NoRequest == [query |-> NoValues, header |-> NoValues, url |-> <<>>,
              form |-> "urlencoded", values |-> NoValues, files |-> NoValues,
              body |-> "broken"]

VARIABLES
    request,   \* the request being loaded
    todo,      \* the names of the current source not loaded yet
    inst,      \* the struct: what each field was set to, <<>> if it was not
    problem    \* the field and the tag of a ValidationError

loadVars == <<request, todo, inst, problem>>
vars     == <<metaVars, stage, loadVars>>

ErrorKinds == {"required", "blank", "pattern", "parsing"}
NoProblem  == [field |-> 0, kind |-> "none"]

\* A ValidationError a custom parser made, about whatever it likes.
ParserProblem == [field |-> 0, kind |-> "custom"]

Registering == {"idle", "scanning", "registered", "refused"}
Loading     == Sources \cup {"source", "parser"}
Ended       == {"called", "invalid", "eof", "handled", "failed", "panicked"}

-----------------------------------------------------------------------------
(* Where a field's values are *)

Found(values) == [exists |-> TRUE, values |-> values]

In(map, name) ==
    IF name \in DOMAIN map THEN Found(map[name]) ELSE [exists |-> FALSE, values |-> <<>>]

\* The loop runs to the first key of that name, and an absent parameter is a
\* list with an empty text.
urlParam(name) ==
    LET keys == {k \in DOMAIN request.url : request.url[k][1] = name}
    IN  IF keys = {}
        THEN [exists |-> FALSE, values |-> <<Blank>>]
        ELSE Found(<<request.url[CHOOSE k \in keys : \A j \in keys : k <= j][2]>>)

\* net/http appends the query to a form that is not multipart.
Form ==
    [name \in DOMAIN request.values \cup DOMAIN request.query |->
        In(request.values, name).values \o In(request.query, name).values]

formValues == IF request.form = "multipart" THEN request.values ELSE Form

lookup(src, name) ==
    CASE src = "query"     -> In(request.query, name)
      [] src = "url-param" -> urlParam(name)
      [] src = "header"    -> In(request.header, name)
      [] src = "form"      -> In(formValues, name)

\* The files of a form that is not multipart are looked for as texts.
AsFile(src, f) ==
    src = "form" /\ request.form = "multipart" /\ kindForFileField(f.type) # "none"

-----------------------------------------------------------------------------
(* What a field takes *)

Bits == [int8 |-> 8, int16 |-> 16, uint8 |-> 8]

\* Faulty variant: every integer is parsed with 64 bits.
doPrimitiveCoercion_Wide(text, kind) ==
    CASE kind = "string" -> TRUE
      [] kind = "bool"   -> text \in Truths
      [] kind \in {"float", "int8", "int16", "uint8"} -> text \in DOMAIN Numbers
      [] OTHER -> FALSE

doPrimitiveCoercion(text, kind) ==
    CASE kind = "string" -> TRUE
      [] kind = "bool"   -> text \in Truths
      [] kind = "float"  -> text \in DOMAIN Numbers
      [] kind = "uint8"  -> text \in DOMAIN Numbers /\ Numbers[text] \in 0 .. 2 ^ Bits[kind] - 1
      [] kind \in {"int8", "int16"} ->
            /\ text \in DOMAIN Numbers
            /\ Numbers[text] \in -(2 ^ (Bits[kind] - 1)) .. 2 ^ (Bits[kind] - 1) - 1
      [] OTHER -> FALSE

\* Of several values a field that is no slice takes the first; one of another
\* kind takes none, without an error.
Coerces(values, type) ==
    CASE type.kind \in Primitives ->
            values = <<>> \/ doPrimitiveCoercion(values[1], type.kind)
      [] type.kind = "slice" ->
            \A k \in DOMAIN values : doPrimitiveCoercion(values[k], type.elem)
      [] OTHER -> TRUE

Coerced(values, type) ==
    CASE type.kind \in Primitives /\ values # <<>> -> <<values[1]>>
      [] type.kind = "slice" -> values
      [] OTHER -> <<>>

\* Whether the field is assigned at all, which panics for one not exported.
Assigns(values, type) ==
    type.kind = "slice" \/ (type.kind \in Primitives /\ values # <<>>)

Set(f, i, assigns, value) ==
    /\ IF assigns /\ ~f.exported
       THEN stage' = "panicked" /\ UNCHANGED inst
       ELSE inst' = [inst EXCEPT ![i] = value] /\ UNCHANGED stage
    /\ UNCHANGED problem

Reject(i, kind) ==
    /\ stage' = "invalid"
    /\ problem' = [field |-> i, kind |-> kind]
    /\ UNCHANGED inst

\* Faulty variant: a field without the blank tag may not be blank.
paramProblem_NeverBlank(look, f) ==
    IF f.required = "true" /\ ~look.exists THEN "required"
    ELSE IF f.blank # "true" /\ (\E k \in DOMAIN look.values : look.values[k] = Blank) THEN "blank"
    ELSE IF f.pattern = "valid" /\ (\E k \in DOMAIN look.values : look.values[k] \notin Matched) THEN "pattern"
    ELSE IF ~Coerces(look.values, f.type) THEN "parsing"
    ELSE "none"

\* The first tag that is not satisfied.
paramProblem(look, f) ==
    IF f.required = "true" /\ ~look.exists THEN "required"
    ELSE IF f.blank = "false" /\ (\E k \in DOMAIN look.values : look.values[k] = Blank) THEN "blank"
    ELSE IF f.pattern = "valid" /\ (\E k \in DOMAIN look.values : look.values[k] \notin Matched) THEN "pattern"
    ELSE IF ~Coerces(look.values, f.type) THEN "parsing"
    ELSE "none"

applyParam(look, f, i) ==
    LET kind == paramProblem(look, f)
    IN  \/ kind # "none" /\ Reject(i, kind)
        \/ kind = "none" /\ Set(f, i, Assigns(look.values, f.type), Coerced(look.values, f.type))

fileProblem(look, f) ==
    IF f.required = "true" /\ (~look.exists \/ look.values = <<>>) THEN "required"
    ELSE IF f.blank = "false" /\ (\E k \in DOMAIN look.values : look.values[k] = "empty") THEN "blank"
    ELSE "none"

\* Of several files a field for one takes the first.
applyFileParam(look, f, i) ==
    LET kind == fileProblem(look, f)
        many == kindForFileField(f.type) = "many"
    IN  \/ kind # "none" /\ Reject(i, kind)
        \/ /\ kind = "none"
           /\ Set(f, i, many \/ look.values # <<>>,
                  IF many \/ look.values = <<>> THEN look.values ELSE <<look.values[1]>>)

-----------------------------------------------------------------------------
(* The steps *)

Init ==
    /\ MetaInit
    /\ request = NoRequest /\ todo = {} /\ inst = <<>> /\ problem = NoProblem

Receive(r) ==
    /\ stage = "registered"
    /\ request' = r
    /\ inst' = [i \in DOMAIN handler.fields |-> <<>>]
    /\ stage' = "query"
    /\ todo' = DOMAIN meta.params["query"]
    /\ UNCHANGED <<metaVars, problem>>

LoadField ==
    /\ stage \in Sources
    /\ \E name \in todo :
        LET i == meta.params[stage][name]
            f == handler.fields[i]
        IN  /\ todo' = todo \ {name}
            /\ IF AsFile(stage, f)
               THEN applyFileParam(In(request.files, name), f, i)
               ELSE applyParam(lookup(stage, name), f, i)
    /\ UNCHANGED <<metaVars, request>>

\* Faulty variant: headers are loaded before the route's parameters.
Following_HeadersFirst(src) ==
    CASE src = "query"     -> "header"
      [] src = "header"    -> "url-param"
      [] src = "url-param" -> "source"
      [] src = "form"      -> "called"

\* Faulty variant: headers are forgotten.
Following_NoHeaders(src) ==
    CASE src = "query" -> "url-param" [] src = "form" -> "called" [] OTHER -> "source"

Following(src) ==
    CASE src = "query"     -> "url-param"
      [] src = "url-param" -> "header"
      [] src = "header"    -> "source"
      [] src = "form"      -> "called"

NextSource ==
    /\ stage \in Sources /\ todo = {}
    /\ stage' = Following(stage)
    /\ todo' = IF Following(stage) \in Sources THEN DOMAIN meta.params[Following(stage)] ELSE {}
    /\ UNCHANGED <<metaVars, request, inst, problem>>

CustomParser ==
    /\ stage = "source" /\ meta.customParser
    /\ stage' = "parser"
    /\ UNCHANGED <<metaVars, loadVars>>

\* The parser is application code: it may fail, with a ValidationError too, and
\* nothing recovers its panics.
ParserReturns ==
    /\ stage = "parser"
    /\ \/ stage' \in {"called", "eof", "failed", "panicked"} /\ UNCHANGED problem
       \/ stage' = "invalid" /\ problem' = ParserProblem
    /\ UNCHANGED <<metaVars, request, todo, inst>>

\* json hands over a pointer to what it decoded, and only a struct is taken out
\* of it; text hands over a string and bytes a []byte, which no string, and no
\* slice of a byte, that has a name of its own takes.
Storable(f) ==
    CASE f.body = "json"              -> f.type.kind \in {"struct", "file"}
      [] f.body \in {"text", "bytes"} -> ~f.type.defined
      [] OTHER                        -> TRUE

\* Tags other than body are not looked at.
handleBodyParsing ==
    /\ stage = "source" /\ ~meta.customParser /\ meta.body # 0
    /\ LET f == handler.fields[meta.body]
       IN  \/ f.body # "stream" /\ request.body = "broken" /\ Reject(meta.body, "parsing")
           \/ /\ f.body = "stream" \/ request.body = "valid"
              /\ IF Storable(f) /\ f.exported
                 THEN /\ inst' = [inst EXCEPT ![meta.body] = <<"body">>]
                      /\ stage' = "called"
                 ELSE stage' = "panicked" /\ UNCHANGED inst
              /\ UNCHANGED problem
    /\ UNCHANGED <<metaVars, request, todo>>

HasForm == ~meta.customParser /\ meta.body = 0 /\ DOMAIN meta.params["form"] # {}

\* Faulty variant: every error is returned, for the caller to handle.
ParseForm_Returns ==
    /\ stage = "source" /\ HasForm
    /\ \/ request.form = "eof" /\ stage' = "eof" /\ UNCHANGED todo
       \/ request.form = "error" /\ stage' = "failed" /\ UNCHANGED todo
       \/ /\ request.form \in {"multipart", "urlencoded"}
          /\ stage' = "form"
          /\ todo' = DOMAIN meta.params["form"]
    /\ UNCHANGED <<metaVars, request, inst, problem>>

\* Other errors than an early end go to the error handler, in here.
ParseForm ==
    /\ stage = "source" /\ HasForm
    /\ \/ request.form = "eof" /\ stage' = "eof" /\ UNCHANGED todo
       \/ request.form = "error" /\ stage' = "handled" /\ UNCHANGED todo
       \/ /\ request.form \in {"multipart", "urlencoded"}
          /\ stage' = "form"
          /\ todo' = DOMAIN meta.params["form"]
    /\ UNCHANGED <<metaVars, request, inst, problem>>

NoSource ==
    /\ stage = "source" /\ ~meta.customParser /\ meta.body = 0 /\ ~HasForm
    /\ stage' = "called"
    /\ UNCHANGED <<metaVars, loadVars>>

loadAndApplyMeta ==
    \/ LoadField \/ NextSource
    \/ CustomParser \/ ParserReturns
    \/ handleBodyParsing \/ ParseForm \/ NoSource

\* The next request finds the metadata as registered, and a new struct.
Return ==
    /\ stage \in Ended
    /\ stage' = "registered"
    /\ request' = NoRequest /\ todo' = {} /\ inst' = <<>> /\ problem' = NoProblem
    /\ UNCHANGED metaVars

Next ==
    \/ \E h \in Handlers : Register(h) /\ UNCHANGED loadVars
    \/ determineFuncParams /\ UNCHANGED loadVars
    \/ Refuse /\ UNCHANGED loadVars
    \/ \E r \in Requests : Receive(r)
    \/ loadAndApplyMeta
    \/ Return

Spec == Init /\ [][Next]_vars

-----------------------------------------------------------------------------
(* What makes it correct *)

\* What a text of a field of that type may be once it is loaded.
Fits(text, type) ==
    LET kind == IF type.kind = "slice" THEN type.elem ELSE type.kind
    IN  CASE kind = "int8"  -> text \in DOMAIN Numbers /\ Numbers[text] \in -128 .. 127
          [] kind = "uint8" -> text \in DOMAIN Numbers /\ Numbers[text] \in 0 .. 255
          [] kind = "bool"  -> text \in Truths
          [] OTHER          -> text \in Texts

\* A field for files holds files, one for values values its type has.
FieldOK(i) ==
    LET type == handler.fields[i].type
    IN  \A k \in DOMAIN inst[i] :
            IF i = meta.body THEN inst[i][k] = "body"
            ELSE IF kindForFileField(type) # "none" THEN inst[i][k] \in Files
            ELSE Fits(inst[i][k], type)

TypeOK ==
    /\ MetaTypeOK
    /\ stage \in Registering \cup Loading \cup Ended
    /\ IsRequest(request)
    /\ todo \subseteq FieldNames
    /\ DOMAIN inst \in {{}, DOMAIN handler.fields}
    /\ \A i \in DOMAIN inst : FieldOK(i)
    /\ stage = "invalid" <=> problem # NoProblem
    /\ \/ problem \in {NoProblem, ParserProblem}
       \/ problem.field \in 1 .. scanned /\ problem.kind \in ErrorKinds

Sent(src, f) == IF AsFile(src, f) THEN In(request.files, f.name) ELSE lookup(src, f.name)

\* The tags that what was sent does not satisfy.
Violated(src, f) ==
    LET sent  == Sent(src, f)
        texts == Range(sent.values)
    IN  {kind \in ErrorKinds :
            \/ /\ kind = "required" /\ f.required = "true"
               /\ ~sent.exists \/ (AsFile(src, f) /\ sent.values = <<>>)
            \/ /\ kind = "blank" /\ f.blank = "false"
               /\ (IF AsFile(src, f) THEN "empty" ELSE Blank) \in texts
            \/ /\ ~AsFile(src, f)
               /\ \/ kind = "pattern" /\ f.pattern = "valid" /\ ~(texts \subseteq Matched)
                  \/ kind = "parsing" /\ ~Coerces(sent.values, f.type)}

\* Of two fields with one name in one source only the later is loaded.  (A name
\* of a header stands for its canonical form.)
Superseded(i) ==
    \E j \in DOMAIN handler.fields :
        /\ i < j
        /\ handler.fields[j].resolvers = handler.fields[i].resolvers
        /\ handler.fields[j].name = handler.fields[i].name

\* The field satisfies its tags and was set to what was sent for it: to all of
\* it for slices, to the first for others.
Loaded(src, i) ==
    LET f    == handler.fields[i]
        sent == Sent(src, f).values
    IN  /\ Violated(src, f) = {}
        /\ IF f.type.kind = "slice" THEN inst[i] = sent
           ELSE IF AsFile(src, f) \/ f.type.kind \in Primitives
           THEN inst[i] = SubSeq(sent, 1, IF sent = <<>> THEN 0 ELSE 1)
           ELSE inst[i] = <<>>

From(sources) ==
    {i \in DOMAIN handler.fields :
        ~Superseded(i) /\ \E src \in sources : handler.fields[i].resolvers = {src}}

SourceOf(i) == CHOOSE src \in handler.fields[i].resolvers : TRUE

Params == {"query", "url-param", "header"}

\* A body is not read, and a custom parser not called, before every other field
\* is loaded and satisfies its tags.
BodyAfterParams ==
    stage \in {"source", "parser", "form", "eof", "handled", "failed"} =>
        \A i \in From(Params) : Loaded(SourceOf(i), i)

\* A handler is called with a struct of which every field tagged with a source
\* has what that source holds and satisfies its tags, whatever order the maps
\* were ranged over, and however the tags of other fields combine with its own.
HandlerSeesWhatWasSent ==
    stage = "called" => \A i \in From(Sources) : Loaded(SourceOf(i), i)

\* Where the fault is that a request is refused for.
Blamed == IF problem = ParserProblem THEN "parser" ELSE SourceOf(problem.field)

\* The sources that go before: the query, then the route's parameters, then the
\* headers, then the one that reads the body.
Before(src) ==
    CASE src = "query"     -> {}
      [] src = "url-param" -> {"query"}
      [] src = "header"    -> {"query", "url-param"}
      [] OTHER             -> Params

\* A request is refused for a tag that it violates, for a body that cannot be
\* read as the field's parser wants it, or by the handler's own parser; and for
\* nothing in one source while a field of an earlier one is not in order.
ErrorIsEarned ==
    stage = "invalid" =>
        /\ \A i \in From(Before(Blamed)) : Loaded(SourceOf(i), i)
        /\ CASE Blamed = "parser" -> meta.customParser
             [] Blamed = "body"   -> /\ problem = [field |-> meta.body, kind |-> "parsing"]
                                     /\ handler.fields[meta.body].body # "stream"
                                     /\ request.body = "broken"
             [] OTHER -> problem.kind \in Violated(Blamed, handler.fields[problem.field])

-----------------------------------------------------------------------------
(* The loading as Lifecycle has it *)

Req == INSTANCE Request

label ==
    CASE stage \in Registering           -> "idle"
      [] stage \in Params                -> "load"
      [] stage \in {"source", "form"}    -> "source"
      [] stage = "parser"                -> "parser"
      [] stage = "called"                -> "handler"
      [] stage = "panicked"              -> "dropped"
      [] OTHER                           -> "error"

met ==
    CASE stage = "invalid"               -> "validation"
      [] stage = "eof"                   -> "eof"
      [] stage \in {"handled", "failed"} -> "runtime"
      [] OTHER                           -> "none"

\* One request; the loading never touches its response.
L == INSTANCE Lifecycle
     WITH Requests <- {1}, Statuses <- {}, Responses <- {},
          Handlers <- {"default"}, MaxReaders <- 0,
          pc      <- [r \in {1} |-> label],
          req     <- [r \in {1} |-> Req!newRequest],
          err     <- [r \in {1} |-> met],
          resume  <- [r \in {1} |-> IF stage = "handled" THEN "respond" ELSE "finish"],
          media   <- [r \in {1} |-> "none"],
          readers <- [r \in {1} |-> 0],
          errorHandler           <- "default",
          validationErrorHandler <- "default"

\* Whatever the struct and whatever was sent, a request is loaded along the
\* path Lifecycle gives it: fields before their source, a parser's error or a
\* ValidationError to the caller, a form that cannot be parsed to the error
\* handler with a response still to come, a panic to the server.
LoadsAsInLifecycle ==
    [][stage \notin Ended => L!Receive(1) \/ L!Load(1)]_(L!vars)
=============================================================================
