---------------------------- MODULE LoaderProofs ----------------------------
(***************************************************************************)
(* Theorems about Loader for any handlers, texts and requests.             *)
(*                                                                         *)
(* None of its properties is inductive.  What is added (LInv): the         *)
(* metadata names, in each source, the last field of each name, and nothing*)
(* else (MetaOK), so that loading one field disturbs no other; and in each *)
(* source passed every field it names is loaded, in the current one those  *)
(* that are not left to do (LoadOK).                                       *)
(***************************************************************************)
EXTENDS Loader, FiniteSetTheorems, SequenceTheorems, NaturalsInduction,
        WellFoundedInduction, TLAPS

Names(src)      == DOMAIN meta.params[src]
FieldAt(src, name) == meta.params[src][name]

\* The tags of a field number i in the metadata for that name.
Entered(src, name) ==
    LET f == handler.fields[FieldAt(src, name)]
    IN  f.resolvers = {src} /\ f.name = name /\ kindForFileField(f.type) # "refused"

\* A field read so far is in the metadata, unless a later one took its place.
Kept(i) ==
    \A src \in Sources :
        handler.fields[i].resolvers = {src} =>
            /\ handler.fields[i].name \in Names(src)
            /\ FieldAt(src, handler.fields[i].name) >= i

Complete == stage \notin {"idle", "scanning", "refused"}

MetaOK ==
    /\ DOMAIN meta = {"customParser", "body", "params"} /\ DOMAIN meta.params = Sources
    /\ \A src \in Sources : \A name \in Names(src) : Entered(src, name)
    /\ \A i \in 1 .. scanned : Kept(i)
    /\ meta.body # 0 => handler.fields[meta.body].resolvers = {"body"}
    /\ stage = "idle" => scanned = 0
    /\ Complete => scanned = Len(handler.fields) /\ ~Conflicting(meta)

\* The sources all of whose fields are loaded at that stage.
Passed(at) ==
    CASE at = "url-param" -> {"query"}
      [] at = "header"    -> {"query", "url-param"}
      [] at \in {"source", "parser", "form", "eof", "handled", "failed"} -> Params
      [] at = "called"    -> Sources
      [] OTHER            -> {}

AllLoaded(src) == \A name \in Names(src) : Loaded(src, FieldAt(src, name))

\* A body its field cannot be read from.
BadBody(i, kind) ==
    /\ i = meta.body /\ kind = "parsing"
    /\ handler.fields[i].body # "stream" /\ request.body = "broken"

\* The parser is at fault, or the body, or a field that violates the tag; and
\* the sources that go before are loaded.
Earned ==
    \/ /\ problem = ParserProblem /\ meta.customParser
       /\ \A earlier \in Params : AllLoaded(earlier)
    \/ /\ problem.field # 0 /\ BadBody(problem.field, problem.kind)
       /\ problem = [field |-> problem.field, kind |-> problem.kind]
       /\ \A earlier \in Params : AllLoaded(earlier)
    \/ \E src \in Sources : \E name \in Names(src) :
          /\ problem.field = FieldAt(src, name)
          /\ problem.kind \in Violated(src, handler.fields[problem.field])
          /\ \A earlier \in Passed(src) : AllLoaded(earlier)

LoadOK ==
    /\ stage \in Registering => inst = <<>>
    /\ stage \in Loading \cup Ended => DOMAIN inst = DOMAIN handler.fields
    /\ stage \in Sources => todo \subseteq Names(stage)
    /\ stage \in Sources =>
           \A name \in Names(stage) \ todo : Loaded(stage, FieldAt(stage, name))
    /\ \A src \in Passed(stage) : AllLoaded(src)
    /\ stage = "parser" => meta.customParser
    /\ stage = "invalid" => Earned

LInv == TypeOK /\ MetaOK /\ LoadOK

-----------------------------------------------------------------------------
(* Requests and what is looked up in them *)

LEMMA Least ==
    ASSUME NEW S \in SUBSET Nat, S # {}
    PROVE  \E x \in S : \A y \in S : x <= y
<1> DEFINE R == OpToRel(<, Nat)
<1>1. \E x \in S : \A y \in S : ~(<<y, x>> \in R)
  <2>1. IsWellFoundedOn(R, Nat)
    BY NatLessThanWellFounded
  <2> HIDE DEF R
  <2> QED
    BY <2>1, WFMin
<1>2. \A x, y \in Nat : x < y => <<x, y>> \in R
  BY DEF OpToRel
<1> HIDE DEF R
<1>3. PICK x \in S : \A y \in S : ~(<<y, x>> \in R)
  BY <1>1
<1>4. ASSUME NEW y \in S
      PROVE  x <= y
  <2>1. ~(y < x)
    BY <1>2, <1>3
  <2> QED
    BY <2>1
<1> QED
  BY <1>4

LEMMA NoRequestIs == IsRequest(NoRequest)
<1>1. <<>> \in Seq(FieldNames \X Texts)
  OBVIOUS
<1> QED
  BY <1>1 DEF IsRequest, NoRequest, NoValues

LEMMA HandlerIs ==
    ASSUME MetaTypeOK
    PROVE  /\ handler \in Handler /\ Len(handler.fields) \in Nat
           /\ DOMAIN handler.fields = 1 .. Len(handler.fields)
           /\ \A i \in DOMAIN handler.fields : handler.fields[i] \in Field
<1>1. NoHandler \in Handler
  BY DEF NoHandler, Handler
<1>2. handler \in Handler
  BY <1>1, HandlersAssumption DEF MetaTypeOK
<1> QED
  BY <1>2 DEF Handler

\* What In, urlParam and lookup return.
Look(values) == [exists : BOOLEAN, values : Seq(values)]

LEMMA InIs ==
    ASSUME NEW T, NEW map, NEW name,
           \A n \in DOMAIN map : map[n] \in Seq(T)
    PROVE  In(map, name) \in Look(T)
BY DEF In, Found, Look

LEMMA UrlParamIs ==
    ASSUME request.url \in Seq(FieldNames \X Texts), NEW name
    PROVE  urlParam(name) \in Look(Texts)
<1> DEFINE keys == {k \in DOMAIN request.url : request.url[k][1] = name}
           first == CHOOSE k \in keys : \A j \in keys : k <= j
<1>1. CASE keys = {}
  BY <1>1, TextsAssumption DEF urlParam, Look
<1>2. CASE keys # {}
  <2>1. keys \in SUBSET Nat
    OBVIOUS
  <2>2. first \in keys
    BY <1>2, <2>1, Least
  <2>3. urlParam(name) = Found(<<request.url[first][2]>>)
    BY <1>2 DEF urlParam
  <2> HIDE DEF first
  <2>4. first \in DOMAIN request.url
    BY <2>2
  <2> HIDE DEF keys
  <2>5. request.url[first] \in FieldNames \X Texts
    BY <2>4
  <2>6. request.url[first][2] \in Texts
    BY <2>5
  <2> QED
    BY <2>3, <2>6 DEF Found, Look
<1> QED
  BY <1>1, <1>2

LEMMA FormIs ==
    ASSUME IsRequest(request), NEW name \in DOMAIN Form
    PROVE  Form[name] \in Seq(Texts)
<1> DEFINE a == In(request.values, name).values
           b == In(request.query, name).values
<1>1. a \in Seq(Texts) /\ b \in Seq(Texts)
  BY InIs DEF IsRequest, Look
<1>2. Form[name] = a \o b
  BY DEF Form
<1> HIDE DEF a, b
<1> QED
  BY <1>1, <1>2

LEMMA LookupIs ==
    ASSUME IsRequest(request), NEW src \in Sources, NEW name
    PROVE  lookup(src, name) \in Look(Texts)
<1>1. CASE src = "query"
  BY <1>1, InIs DEF lookup, IsRequest
<1>2. CASE src = "url-param"
  BY <1>2, UrlParamIs DEF lookup, IsRequest
<1>3. CASE src = "header"
  BY <1>3, InIs DEF lookup, IsRequest
<1>4. CASE src = "form"
  <2>1. lookup(src, name) = In(formValues, name)
    BY <1>4 DEF lookup
  <2>2. \A n \in DOMAIN formValues : formValues[n] \in Seq(Texts)
    BY FormIs DEF formValues, IsRequest
  <2> QED
    BY <2>1, <2>2, InIs
<1> QED
  BY <1>1, <1>2, <1>3, <1>4 DEF Sources

\* Nothing of it changes while the request and the handler do not.
LEMMA SentFrame ==
    ASSUME UNCHANGED request, NEW src, NEW f
    PROVE  /\ Sent(src, f)' = Sent(src, f)
           /\ AsFile(src, f)' = AsFile(src, f)
           /\ Violated(src, f)' = Violated(src, f)
<1>1. AsFile(src, f)' = AsFile(src, f)
  BY DEF AsFile
<1>2. urlParam(f.name)' = urlParam(f.name)
  BY DEF urlParam
<1>3. Form' = Form
  BY DEF Form
<1>4. lookup(src, f.name)' = lookup(src, f.name)
  BY <1>2, <1>3 DEF lookup, formValues
<1>5. Sent(src, f)' = Sent(src, f)
  BY <1>1, <1>4 DEF Sent
<1> QED
  BY <1>1, <1>5 DEF Violated

LEMMA LoadedFrame ==
    ASSUME UNCHANGED <<request, handler>>, NEW src, NEW i, inst'[i] = inst[i]
    PROVE  Loaded(src, i)' <=> Loaded(src, i)
BY SentFrame DEF Loaded

-----------------------------------------------------------------------------
(* What the tags of a field make of what was sent for it *)

LEMMA ParamJudged ==
    ASSUME NEW src, NEW f, ~AsFile(src, f)
    PROVE  LET kind == paramProblem(lookup(src, f.name), f)
           IN  IF kind = "none" THEN Violated(src, f) = {} ELSE kind \in Violated(src, f)
<1> DEFINE look == lookup(src, f.name)
<1>1. Sent(src, f) = look
  BY DEF Sent
<1> HIDE DEF look
<1>2. \A x : x \in Range(look.values) <=> \E k \in DOMAIN look.values : look.values[k] = x
  BY DEF Range
<1> QED
  BY <1>1, <1>2 DEF Violated, paramProblem, ErrorKinds, look

LEMMA FileJudged ==
    ASSUME NEW src, NEW f, AsFile(src, f)
    PROVE  LET kind == fileProblem(In(request.files, f.name), f)
           IN  IF kind = "none" THEN Violated(src, f) = {} ELSE kind \in Violated(src, f)
<1> DEFINE look == In(request.files, f.name)
<1>1. Sent(src, f) = look
  BY DEF Sent
<1> HIDE DEF look
<1>2. \A x : x \in Range(look.values) <=> \E k \in DOMAIN look.values : look.values[k] = x
  BY DEF Range
<1> QED
  BY <1>1, <1>2 DEF Violated, fileProblem, ErrorKinds, look

\* The first of the values, if there is one.
First(values) == SubSeq(values, 1, IF values = <<>> THEN 0 ELSE 1)

LEMMA FirstIs ==
    ASSUME NEW T, NEW values \in Seq(T)
    PROVE  /\ values = <<>> => First(values) = <<>>
           /\ values # <<>> => First(values) = <<values[1]>> /\ values[1] \in T
<1>1. CASE values = <<>>
  BY <1>1 DEF First
<1>2. CASE values # <<>>
  <2>1. 1 \in 1 .. Len(values)
    BY <1>2
  <2>2. First(values) = SubSeq(values, 1, 1)
    BY <1>2 DEF First
  <2>3. SubSeq(values, 1, 1) \in Seq(T) /\ Len(SubSeq(values, 1, 1)) = 1
    BY <2>1
  <2>4. SubSeq(values, 1, 1)[1] = values[1]
    BY <2>1
  <2> DEFINE first == SubSeq(values, 1, 1)
  <2> HIDE DEF first
  <2>5. first = <<values[1]>>
    <3> DEFINE one == <<values[1]>>
    <3>1. one \in Seq(T) /\ Len(one) = 1 /\ one[1] = values[1]
      BY <2>1
    <3>2. first \in Seq(T) /\ Len(first) = 1 /\ first[1] = values[1]
      BY <2>3, <2>4 DEF first
    <3> HIDE DEF one
    <3> QED
      BY <3>1, <3>2, SeqEqual
  <2> QED
    BY <1>2, <2>1, <2>2, <2>5 DEF first
<1> QED
  BY <1>1, <1>2

LEMMA KindOfFile ==
    ASSUME NEW type \in FieldType
    PROVE  /\ kindForFileField(type) \in {"single", "many", "refused", "none"}
           /\ (kindForFileField(type) = "many") <=> (type.kind = "slice" /\ type.elem = "fileptr")
           /\ kindForFileField(type) = "single" => type.kind = "ptr"
           /\ kindForFileField(type) # "none" =>
                  /\ type.kind \notin Primitives
                  /\ type.kind = "slice" => type.elem \notin Primitives
<1>1. CASE type.kind = "ptr" /\ type.elem = "file"
  <2>1. kindForFileField(type) = "single"
    BY <1>1 DEF kindForFileField
  <2> QED
    BY <1>1, <2>1 DEF Primitives
<1>2. CASE type.kind = "slice" /\ type.elem = "fileptr"
  <2>1. kindForFileField(type) = "many"
    BY <1>2 DEF kindForFileField
  <2> QED
    BY <1>2, <2>1 DEF Primitives
<1>3. CASE type.kind = "file" \/ (type.kind = "slice" /\ type.elem = "file")
  <2>1. kindForFileField(type) = "refused"
    BY <1>3 DEF kindForFileField
  <2> QED
    BY <1>3, <2>1 DEF Primitives
<1>4. CASE /\ ~(type.kind = "ptr" /\ type.elem = "file")
           /\ ~(type.kind = "slice" /\ type.elem = "fileptr")
           /\ ~(type.kind = "file" \/ (type.kind = "slice" /\ type.elem = "file"))
  <2>1. kindForFileField(type) = "none"
    BY <1>4 DEF kindForFileField
  <2> QED
    BY <1>4, <2>1
<1> QED
  BY <1>1, <1>2, <1>3, <1>4

LEMMA CoercionFits ==
    ASSUME NEW text \in Texts, NEW kind, doPrimitiveCoercion(text, kind)
    PROVE  /\ kind \in Primitives
           /\ kind = "int8" => text \in DOMAIN Numbers /\ Numbers[text] \in -128 .. 127
           /\ kind = "uint8" => text \in DOMAIN Numbers /\ Numbers[text] \in 0 .. 255
           /\ kind = "bool" => text \in Truths
<1>1. kind \in Primitives
  BY DEF doPrimitiveCoercion, Primitives
<1>2. ASSUME kind = "int8"
      PROVE  text \in DOMAIN Numbers /\ Numbers[text] \in -128 .. 127
  <2>1. /\ text \in DOMAIN Numbers
        /\ Numbers[text] \in -(2 ^ (Bits[kind] - 1)) .. 2 ^ (Bits[kind] - 1) - 1
    BY <1>2 DEF doPrimitiveCoercion
  <2>2. Bits[kind] = 8
    BY <1>2 DEF Bits
  <2>3. 2 ^ (8 - 1) = 128
    OBVIOUS
  <2> QED
    BY <2>1, <2>2, <2>3
<1>3. ASSUME kind = "uint8"
      PROVE  text \in DOMAIN Numbers /\ Numbers[text] \in 0 .. 255
  <2>1. text \in DOMAIN Numbers /\ Numbers[text] \in 0 .. 2 ^ Bits[kind] - 1
    BY <1>3 DEF doPrimitiveCoercion
  <2>2. Bits[kind] = 8
    BY <1>3 DEF Bits
  <2>3. 2 ^ 8 = 256
    OBVIOUS
  <2> QED
    BY <2>1, <2>2, <2>3
<1>4. kind = "bool" => text \in Truths
  BY DEF doPrimitiveCoercion
<1> QED
  BY <1>1, <1>2, <1>3, <1>4

LEMMA CoercedIs ==
    ASSUME NEW values \in Seq(Texts), NEW type \in FieldType, Coerces(values, type)
    PROVE  LET c == Coerced(values, type)
           IN  /\ c = IF type.kind = "slice" THEN values
                      ELSE IF type.kind \in Primitives THEN First(values) ELSE <<>>
               /\ c \in Seq(Texts)
               /\ \A k \in DOMAIN c :
                      /\ type.kind = "slice" => doPrimitiveCoercion(c[k], type.elem)
                      /\ type.kind # "slice" => doPrimitiveCoercion(c[k], type.kind)
<1>0. "slice" \notin Primitives
  BY DEF Primitives
<1>1. CASE type.kind = "slice"
  BY <1>0, <1>1 DEF Coerced, Coerces
<1>2. CASE type.kind \in Primitives /\ values # <<>>
  <2>1. Coerced(values, type) = <<values[1]>>
    BY <1>0, <1>2 DEF Coerced
  <2>2. doPrimitiveCoercion(values[1], type.kind)
    BY <1>0, <1>2 DEF Coerces
  <2>3. First(values) = <<values[1]>> /\ values[1] \in Texts
    BY <1>2, FirstIs
  <2> QED
    BY <1>0, <1>2, <2>1, <2>2, <2>3
<1>3. CASE type.kind # "slice" /\ ~(type.kind \in Primitives /\ values # <<>>)
  <2>1. Coerced(values, type) = <<>>
    BY <1>3 DEF Coerced
  <2> QED
    BY <1>3, <2>1, FirstIs
<1> QED
  BY <1>1, <1>2, <1>3

LEMMA CoercedFits ==
    ASSUME NEW values \in Seq(Texts), NEW type \in FieldType, Coerces(values, type),
           NEW k \in DOMAIN Coerced(values, type)
    PROVE  /\ kindForFileField(type) = "none"
           /\ Fits(Coerced(values, type)[k], type)
<1> DEFINE c == Coerced(values, type)
           kind == IF type.kind = "slice" THEN type.elem ELSE type.kind
<1>1. c[k] \in Texts /\ doPrimitiveCoercion(c[k], kind)
  BY CoercedIs
<1>2. kind \in Kinds \cup {"none"}
  BY DEF FieldType
<1> HIDE DEF c
<1>3. /\ kind \in Primitives
      /\ kind = "int8" => c[k] \in DOMAIN Numbers /\ Numbers[c[k]] \in -128 .. 127
      /\ kind = "uint8" => c[k] \in DOMAIN Numbers /\ Numbers[c[k]] \in 0 .. 255
      /\ kind = "bool" => c[k] \in Truths
  <2> HIDE DEF kind
  <2> QED
    BY <1>1, <1>2, CoercionFits
<1>4. kindForFileField(type) = "none"
  BY <1>3, KindOfFile
<1>5. Fits(c[k], type)
  BY <1>1, <1>3 DEF Fits
<1> QED
  BY <1>4, <1>5 DEF c

-----------------------------------------------------------------------------
(* Registering a handler *)

LEMMA OneResolver ==
    ASSUME NEW f \in Field, ~Ignored(f), ~Refused(f)
    PROVE  \E src \in Resolvers : f.resolvers = {src}
<1> DEFINE S == f.resolvers
<1>1. S \in SUBSET Resolvers
  BY DEF Field
<1>2. IsFiniteSet(Resolvers)
  <2>1. Resolvers = {"query", "url-param", "header", "form", "body"}
    BY DEF Resolvers, Sources
  <2>2. \A a : IsFiniteSet({a})
    BY FS_Singleton
  <2>3. IsFiniteSet({"query"} \cup {"url-param"} \cup {"header"} \cup {"form"} \cup {"body"})
    BY <2>2, FS_Union
  <2> QED
    BY <2>1, <2>3
<1>3. IsFiniteSet(S)
  BY <1>1, <1>2, FS_Subset
<1>4. S # {} /\ ~(Cardinality(S) > 1)
  BY DEF Ignored, Refused
<1> HIDE DEF S
<1>5. Cardinality(S) = 1
  BY <1>3, <1>4, FS_CardinalityType, FS_EmptySet
<1>6. \E x : S = {x}
  BY <1>3, <1>5, FS_Singleton
<1> QED
  BY <1>1, <1>6 DEF S

\* While a handler is registered nothing of a request matters.
LEMMA RegisteringOK ==
    ASSUME LInv, stage \in Registering, UNCHANGED loadVars, stage' \in Registering,
           MetaTypeOK', MetaOK'
    PROVE  LInv'
<1>1. inst = <<>> /\ problem = NoProblem
  BY DEF LInv, LoadOK, TypeOK, Registering
<1>2. inst' = <<>> /\ problem' = NoProblem /\ request' = request /\ todo' = todo
  BY <1>1 DEF loadVars
<1>3. IsRequest(request)' <=> IsRequest(request)
  BY <1>2 DEF IsRequest
<1>4. TypeOK'
  BY <1>2, <1>3 DEF LInv, TypeOK, Registering
<1>5. Passed(stage') = {}
  BY DEF Passed, Registering
<1>6. LoadOK'
  BY <1>2, <1>5 DEF LoadOK, Registering, Loading, Ended, Sources
<1> QED
  BY <1>4, <1>6 DEF LInv

LEMMA RegisterOK ==
    ASSUME LInv, NEW h \in Handlers, Register(h), UNCHANGED loadVars
    PROVE  LInv'
<1>1. /\ stage = "idle" /\ stage' \in {"scanning", "refused"}
      /\ handler' = h /\ scanned' = 0
  BY DEF Register, LInv, MetaOK
<1>2. /\ meta' = [customParser |-> Implements(h), body |-> 0,
                  params |-> [src \in Sources |-> NoFields]]
  BY DEF Register, NoMeta
<1>3. Implements(h) \in BOOLEAN
  BY DEF Implements
<1>4. h \in Handler /\ Len(h.fields) \in Nat
  BY HandlersAssumption DEF Handler
<1>5. \A src \in Sources : DOMAIN meta'.params[src] = {}
  BY <1>2 DEF NoFields
<1>6. MetaTypeOK'
  BY <1>1, <1>2, <1>3, <1>4, <1>5 DEF MetaTypeOK
<1>7. MetaOK'
  BY <1>1, <1>2, <1>5 DEF MetaOK, Names, Complete
<1> QED
  BY <1>1, <1>6, <1>7, RegisteringOK DEF Registering

LEMMA RefuseOK ==
    ASSUME LInv, Refuse, UNCHANGED loadVars
    PROVE  LInv'
<1>1. stage = "refused" /\ stage' = "idle" /\ handler' = NoHandler /\ scanned' = 0
  BY DEF Refuse
<1>2. meta' = [customParser |-> FALSE, body |-> 0,
               params |-> [src \in Sources |-> NoFields]]
  BY DEF Refuse, NoMeta
<1>3. \A src \in Sources : DOMAIN meta'.params[src] = {}
  BY <1>2 DEF NoFields
<1>4. MetaTypeOK'
  BY <1>1, <1>2, <1>3 DEF MetaTypeOK, NoHandler
<1>5. MetaOK'
  BY <1>1, <1>2, <1>3 DEF MetaOK, Names, Complete
<1> QED
  BY <1>1, <1>4, <1>5, RegisteringOK DEF Registering

LEMMA EndOfStructOK ==
    ASSUME LInv, EndOfStruct, UNCHANGED loadVars
    PROVE  LInv'
<1>1. /\ stage = "scanning" /\ scanned = Len(handler.fields)
      /\ UNCHANGED <<handler, meta, scanned>>
      /\ stage' = IF Conflicting(meta) THEN "refused" ELSE "registered"
  BY DEF EndOfStruct, metaVars
<1>2. MetaTypeOK'
  BY <1>1 DEF LInv, TypeOK, MetaTypeOK
<1>3. MetaOK'
  BY <1>1 DEF LInv, MetaOK, Names, FieldAt, Entered, Kept, Complete, Conflicting
<1> QED
  BY <1>1, <1>2, <1>3, RegisteringOK DEF Registering

LEMMA KeepIs ==
    ASSUME MetaOK, NEW i, NEW f, NEW src \in Sources, f.resolvers = {src}
    PROVE  LET m == Keep(f, i)
           IN  /\ DOMAIN m = DOMAIN meta /\ DOMAIN m.params = Sources
               /\ m.customParser = meta.customParser /\ m.body = meta.body
               /\ DOMAIN m.params[src] = Names(src) \cup {f.name}
               /\ \A name \in DOMAIN m.params[src] :
                      m.params[src][name] = IF name = f.name THEN i ELSE FieldAt(src, name)
               /\ \A other \in Sources \ {src} : m.params[other] = meta.params[other]
<1> DEFINE old == meta.params[src]
           new == [name \in DOMAIN old \cup {f.name} |-> IF name = f.name THEN i ELSE old[name]]
<1>1. (CHOOSE resolver \in f.resolvers : TRUE) = src
  OBVIOUS
<1>2. src # "body"
  BY DEF Sources
<1>3. Keep(f, i) = [meta EXCEPT !.params[src] = new]
  BY <1>1, <1>2 DEF Keep
<1>4. DOMAIN meta = {"customParser", "body", "params"} /\ DOMAIN meta.params = Sources
  BY DEF MetaOK
<1>5. DOMAIN new = Names(src) \cup {f.name}
  BY DEF Names
<1>6. \A name \in DOMAIN new : new[name] = IF name = f.name THEN i ELSE FieldAt(src, name)
  BY DEF FieldAt
<1> HIDE DEF new
<1> QED
  BY <1>3, <1>4, <1>5, <1>6

LEMMA ScanFieldOK ==
    ASSUME LInv, ScanField, UNCHANGED loadVars
    PROVE  LInv'
<1> DEFINE i == scanned + 1
           f == handler.fields[i]
<1>1. /\ stage = "scanning" /\ scanned < Len(handler.fields) /\ handler' = handler
      /\ stage' \in {"scanning", "refused"}
  BY DEF ScanField, metaVars
<1>2. /\ scanned \in Nat /\ Len(handler.fields) \in Nat /\ i \in 1 .. Len(handler.fields)
      /\ f \in Field
  BY <1>1, HandlerIs DEF LInv, TypeOK, MetaTypeOK
<1>3. CASE Refused(f) /\ stage' = "refused" /\ UNCHANGED metaVars
  <2>1. MetaTypeOK'
    BY <1>3 DEF LInv, TypeOK, MetaTypeOK, metaVars
  <2>2. MetaOK'
    BY <1>1, <1>3 DEF LInv, MetaOK, Names, FieldAt, Entered, Kept, Complete, metaVars
  <2> QED
    BY <1>1, <2>1, <2>2, RegisteringOK DEF Registering
<1>4. CASE Ignored(f) /\ scanned' = i /\ UNCHANGED <<handler, meta, stage>>
  <2>1. MetaTypeOK'
    BY <1>2, <1>4 DEF LInv, TypeOK, MetaTypeOK
  <2>2. \A src \in Sources : f.resolvers # {src}
    BY <1>4 DEF Ignored
  <2>3. \A j \in 1 .. i : j = i \/ j \in 1 .. scanned
    BY <1>2
  <2> HIDE DEF i
  <2>4. \A j \in 1 .. i : Kept(j)
    BY <2>2, <2>3 DEF LInv, MetaOK, Kept
  <2>5. MetaOK'
    BY <1>1, <1>4, <2>4 DEF LInv, MetaOK, Names, FieldAt, Entered, Kept, Complete
  <2> QED
    BY <1>1, <1>4, <2>1, <2>5, RegisteringOK DEF Registering
<1>5. CASE /\ ~Ignored(f) /\ ~Refused(f)
           /\ scanned' = i /\ meta' = Keep(f, i) /\ UNCHANGED <<handler, stage>>
  <2>1. PICK src \in Resolvers : f.resolvers = {src}
    BY <1>2, <1>5, OneResolver
  <2>2. \A j \in 1 .. i : j = i \/ j \in 1 .. scanned
    BY <1>2
  <2>3. CASE src = "body"
    <3>1. (CHOOSE resolver \in f.resolvers : TRUE) = "body"
      BY <2>1, <2>3
    <3>2. meta' = [meta EXCEPT !.body = i]
      BY <1>5, <3>1 DEF Keep
    <3>3. /\ DOMAIN meta' = DOMAIN meta /\ meta'.body = i
          /\ meta'.customParser = meta.customParser /\ meta'.params = meta.params
      BY <3>2 DEF LInv, MetaOK
    <3>4. \A s \in Sources : f.resolvers # {s}
      BY <2>1, <2>3 DEF Sources
    <3>5. MetaTypeOK'
      BY <1>2, <1>5, <3>3 DEF LInv, TypeOK, MetaTypeOK
    <3> HIDE DEF i
    <3>6. \A j \in 1 .. i : Kept(j)
      BY <2>2, <3>4 DEF LInv, MetaOK, Kept
    <3>7. MetaOK'
      BY <1>1, <1>5, <2>1, <2>3, <3>3, <3>6
         DEF LInv, MetaOK, Names, FieldAt, Entered, Kept, Complete
    <3> QED
      BY <1>1, <1>5, <3>5, <3>7, RegisteringOK DEF Registering
  <2>4. CASE src # "body"
    <3>1. src \in Sources
      BY <2>4 DEF Resolvers
    <3>2. /\ DOMAIN meta' = DOMAIN meta /\ DOMAIN meta'.params = Sources
          /\ meta'.customParser = meta.customParser /\ meta'.body = meta.body
          /\ DOMAIN meta'.params[src] = Names(src) \cup {f.name}
          /\ \A name \in DOMAIN meta'.params[src] :
                 meta'.params[src][name] = IF name = f.name THEN i ELSE FieldAt(src, name)
          /\ \A other \in Sources \ {src} : meta'.params[other] = meta.params[other]
      BY <1>5, <2>1, <3>1, KeepIs DEF LInv
    <3>3. f.name \in FieldNames
      BY <1>2 DEF Field
    <3>4. kindForFileField(f.type) # "refused"
      BY <1>5 DEF Refused
    <3>5. MetaTypeOK'
      BY <1>2, <1>5, <3>2, <3>3 DEF LInv, TypeOK, MetaTypeOK, Names, FieldAt
    <3>6. ASSUME NEW s \in Sources, NEW name \in DOMAIN meta'.params[s]
          PROVE  Entered(s, name)'
      <4>1. CASE s = src /\ name = f.name
        <5>1. meta'.params[s][name] = i
          BY <3>2, <3>6, <4>1
        <5> QED
          BY <1>1, <2>1, <3>4, <4>1, <5>1 DEF Entered, FieldAt
      <4>2. CASE ~(s = src /\ name = f.name)
        <5>1. name \in Names(s) /\ meta'.params[s][name] = FieldAt(s, name)
          BY <3>2, <3>6, <4>2 DEF Names, FieldAt
        <5>2. Entered(s, name)
          BY <5>1 DEF LInv, MetaOK
        <5> QED
          BY <1>1, <5>1, <5>2 DEF Entered, FieldAt
      <4> QED
        BY <4>1, <4>2
    <3>7. ASSUME NEW j \in 1 .. i
          PROVE  Kept(j)'
      <4>1. CASE j = i
        BY <1>1, <1>2, <2>1, <3>2, <4>1 DEF Kept, Names, FieldAt
      <4>2. CASE j \in 1 .. scanned
        <5>1. Kept(j) /\ i >= j
          BY <1>2, <4>2 DEF LInv, MetaOK
        <5> HIDE DEF i
        <5> QED
          BY <1>1, <2>1, <3>2, <5>1 DEF Kept, Names, FieldAt
      <4> QED
        BY <2>2, <4>1, <4>2
    <3>8. meta.body # 0 => handler.fields[meta.body].resolvers = {"body"}
      BY DEF LInv, MetaOK
    <3>9. MetaOK'
      BY <1>1, <1>5, <3>2, <3>6, <3>7, <3>8 DEF LInv, MetaOK, Names, Complete
    <3> QED
      BY <1>1, <1>5, <3>5, <3>9, RegisteringOK DEF Registering
  <2> QED
    BY <2>3, <2>4
<1> QED
  BY <1>3, <1>4, <1>5 DEF ScanField

-----------------------------------------------------------------------------
(* Loading *)

LEMMA EntryIs ==
    ASSUME LInv, NEW src \in Sources, NEW name \in Names(src)
    PROVE  LET i == FieldAt(src, name)
               f == handler.fields[i]
           IN  /\ i \in 1 .. scanned /\ i \in DOMAIN handler.fields /\ i # meta.body
               /\ f \in Field /\ f.resolvers = {src} /\ f.name = name /\ name \in FieldNames
               /\ kindForFileField(f.type) # "refused"
<1> DEFINE i == FieldAt(src, name)
<1>1. name \in FieldNames /\ i \in 1 .. scanned /\ scanned \in 0 .. Len(handler.fields)
  BY DEF LInv, TypeOK, MetaTypeOK, Names, FieldAt
<1>2. /\ Len(handler.fields) \in Nat /\ DOMAIN handler.fields = 1 .. Len(handler.fields)
      /\ \A j \in DOMAIN handler.fields : handler.fields[j] \in Field
  BY HandlerIs DEF LInv, TypeOK
<1>3. Entered(src, name)
  BY DEF LInv, MetaOK
<1>4. meta.body # 0 => handler.fields[meta.body].resolvers = {"body"}
  BY DEF LInv, MetaOK
<1>5. i \in DOMAIN handler.fields /\ i # 0
  BY <1>1, <1>2
<1>6. i # meta.body
  <2>1. handler.fields[i].resolvers = {src}
    BY <1>3 DEF Entered
  <2>2. src # "body"
    BY DEF Sources
  <2> HIDE DEF i
  <2> QED
    BY <1>4, <1>5, <2>1, <2>2
<1> QED
  BY <1>1, <1>2, <1>3, <1>5, <1>6 DEF Entered

LEMMA EntriesDiffer ==
    ASSUME LInv, NEW s \in Sources, NEW m \in Names(s), NEW t \in Sources, NEW n \in Names(t),
           FieldAt(s, m) = FieldAt(t, n)
    PROVE  s = t /\ m = n
<1>1. /\ handler.fields[FieldAt(s, m)].resolvers = {s}
      /\ handler.fields[FieldAt(s, m)].name = m
  BY EntryIs
<1>2. /\ handler.fields[FieldAt(t, n)].resolvers = {t}
      /\ handler.fields[FieldAt(t, n)].name = n
  BY EntryIs
<1> QED
  BY <1>1, <1>2

LEMMA MetaFrame ==
    ASSUME LInv, UNCHANGED metaVars, stage \notin {"idle", "scanning", "refused"},
           stage' # "idle"
    PROVE  MetaTypeOK' /\ MetaOK'
<1>1. handler' = handler /\ meta' = meta /\ scanned' = scanned
  BY DEF metaVars
<1>2. MetaTypeOK'
  BY <1>1 DEF LInv, TypeOK, MetaTypeOK
<1>3. scanned = Len(handler.fields) /\ ~Conflicting(meta)
  BY DEF LInv, MetaOK, Complete
<1>4. MetaOK'
  BY <1>1, <1>3 DEF LInv, MetaOK, Names, FieldAt, Entered, Kept, Conflicting
<1> QED
  BY <1>2, <1>4

LEMMA FieldFrame ==
    ASSUME UNCHANGED <<handler, meta>>, NEW i, inst'[i] = inst[i]
    PROVE  FieldOK(i)' <=> FieldOK(i)
BY DEF FieldOK

LEMMA AllLoadedFrame ==
    ASSUME UNCHANGED <<handler, meta, request, inst>>, NEW src
    PROVE  AllLoaded(src)' <=> AllLoaded(src)
<1>1. ASSUME NEW name
      PROVE  Loaded(src, FieldAt(src, name))' <=> Loaded(src, FieldAt(src, name))
  <2>1. FieldAt(src, name)' = FieldAt(src, name)
    BY DEF FieldAt
  <2> QED
    BY <2>1, LoadedFrame
<1>2. Names(src)' = Names(src)
  BY DEF Names
<1> QED
  BY <1>1, <1>2 DEF AllLoaded

\* A step on which nothing is loaded.
LEMMA MoveOK ==
    ASSUME LInv, stage \in Loading, NEW l \in (Loading \cup Ended) \ {"invalid"}, stage' = l,
           UNCHANGED <<metaVars, request, inst, problem>>, todo' \subseteq FieldNames,
           l \in Sources => todo' = Names(l),
           \A src \in Passed(l) : AllLoaded(src),
           l = "parser" => meta.customParser
    PROVE  LInv'
<1>1. /\ handler' = handler /\ meta' = meta /\ scanned' = scanned
      /\ request' = request /\ inst' = inst /\ problem' = problem
  BY DEF metaVars
<1>2. MetaTypeOK' /\ MetaOK'
  BY MetaFrame DEF Loading, Ended, Sources
<1>3. problem = NoProblem
  BY DEF LInv, TypeOK, Loading, Sources
<1>4. \A i : FieldOK(i)' <=> FieldOK(i)
  BY <1>1, FieldFrame
<1>5. IsRequest(request)'
  BY <1>1 DEF LInv, TypeOK, IsRequest
<1>6. TypeOK'
  BY <1>1, <1>2, <1>3, <1>4, <1>5 DEF LInv, TypeOK
<1>7. \A src : AllLoaded(src)' <=> AllLoaded(src)
  BY <1>1, AllLoadedFrame
<1>8. \A src : Names(src)' = Names(src)
  BY <1>1 DEF Names
<1>9. LoadOK'
  <2>1. DOMAIN inst' = DOMAIN handler'.fields
    BY <1>1 DEF LInv, LoadOK
  <2>2. stage' \notin Registering
    BY DEF Registering, Loading, Ended, Sources
  <2>3. l \in Sources => todo' = DOMAIN meta'.params[l]
    BY <1>8 DEF Names
  <2>4. \A src \in Passed(l) : AllLoaded(src)'
    BY <1>7
  <2>5. stage' = "parser" => meta'.customParser
    BY <1>1
  <2> QED
    BY <2>1, <2>2, <2>3, <2>4, <2>5 DEF LoadOK, Names
<1> QED
  BY <1>2, <1>6, <1>9 DEF LInv

\* A field is refused, which ends the loading.
LEMMA RejectOK ==
    ASSUME LInv, stage \in Loading, NEW i \in 1 .. scanned, NEW kind \in ErrorKinds,
           Reject(i, kind), UNCHANGED <<metaVars, request>>, todo' \subseteq FieldNames,
           \/ BadBody(i, kind) /\ \A earlier \in Params : AllLoaded(earlier)
           \/ \E src \in Sources : \E name \in Names(src) :
                 /\ i = FieldAt(src, name) /\ kind \in Violated(src, handler.fields[i])
                 /\ \A earlier \in Passed(src) : AllLoaded(earlier)
    PROVE  LInv'
<1>1. /\ handler' = handler /\ meta' = meta /\ scanned' = scanned
      /\ request' = request /\ inst' = inst
  BY DEF metaVars, Reject
<1>2. stage' = "invalid" /\ problem' = [field |-> i, kind |-> kind]
  BY DEF Reject
<1>3. MetaTypeOK' /\ MetaOK'
  BY <1>2, MetaFrame DEF Loading, Sources
<1>4. \A j : FieldOK(j)' <=> FieldOK(j)
  BY <1>1, FieldFrame
<1>5. IsRequest(request)'
  BY <1>1 DEF LInv, TypeOK, IsRequest
<1>6. problem' # NoProblem
  BY <1>2 DEF NoProblem, ErrorKinds
<1>7. TypeOK'
  BY <1>1, <1>2, <1>3, <1>4, <1>5, <1>6 DEF LInv, TypeOK, Ended
<1>8. Earned'
  <2>0. /\ problem'.field = i /\ problem'.kind = kind
        /\ problem' = [field |-> problem'.field, kind |-> problem'.kind]
    BY <1>2
  <2>1. CASE BadBody(i, kind) /\ \A earlier \in Params : AllLoaded(earlier)
    <3>1. \A earlier \in Params : AllLoaded(earlier)'
      BY <1>1, <2>1, AllLoadedFrame
    <3>2. BadBody(i, kind)'
      BY <1>1, <2>1 DEF BadBody
    <3>3. i # 0
      OBVIOUS
    <3> QED
      BY <2>0, <3>1, <3>2, <3>3 DEF Earned, BadBody
  <2>2. ASSUME NEW src \in Sources, NEW name \in Names(src), i = FieldAt(src, name),
               kind \in Violated(src, handler.fields[i]),
               \A earlier \in Passed(src) : AllLoaded(earlier)
        PROVE  Earned'
    <3>1. Names(src)' = Names(src) /\ FieldAt(src, name)' = FieldAt(src, name)
      BY <1>1 DEF Names, FieldAt
    <3>2. kind \in Violated(src, handler.fields[i])'
      BY <1>1, <2>2, SentFrame
    <3>3. \A earlier : AllLoaded(earlier)' <=> AllLoaded(earlier)
      BY <1>1, AllLoadedFrame
    <3> QED
      BY <1>1, <1>2, <2>2, <3>1, <3>2, <3>3 DEF Earned
  <2> QED
    BY <2>1, <2>2
<1>9. LoadOK'
  <2>1. DOMAIN inst' = DOMAIN handler'.fields
    BY <1>1 DEF LInv, LoadOK
  <2>2. stage' \notin Registering \cup Sources /\ Passed(stage') = {}
    BY <1>2 DEF Registering, Sources, Passed
  <2> QED
    BY <1>2, <1>8, <2>1, <2>2 DEF LoadOK
<1> QED
  BY <1>3, <1>7, <1>9 DEF LInv

LEMMA PassedIs ==
    ASSUME stage \in Sources
    PROVE  Passed(stage) \subseteq Sources /\ stage \notin Passed(stage)
BY DEF Passed, Params, Sources

\* A field is given what was sent for it.
LEMMA SetOK ==
    ASSUME LInv, NEW here \in Sources, stage = here, NEW name \in todo, NEW assigns, NEW value, NEW i, NEW f,
           i = FieldAt(here, name), f = handler.fields[i],
           Set(f, i, assigns, value), UNCHANGED <<metaVars, request>>, todo' = todo \ {name},
           Violated(here, f) = {},
           value = IF f.type.kind = "slice" THEN Sent(here, f).values
                   ELSE IF AsFile(here, f) \/ f.type.kind \in Primitives
                   THEN First(Sent(here, f).values) ELSE <<>>,
           \A k \in DOMAIN value : IF kindForFileField(f.type) # "none"
                                   THEN value[k] \in Files ELSE Fits(value[k], f.type)
    PROVE  LInv'
<1>1. /\ handler' = handler /\ meta' = meta /\ scanned' = scanned
      /\ request' = request /\ problem' = problem
  BY DEF metaVars, Set
<1>2. /\ todo \subseteq Names(here) /\ todo \subseteq FieldNames
      /\ DOMAIN inst = DOMAIN handler.fields /\ problem = NoProblem
  BY DEF LInv, LoadOK, TypeOK, Loading, Sources
<1>3. name \in Names(here) /\ todo' \subseteq Names(here) /\ todo' \subseteq FieldNames
  BY <1>2
<1>4. i \in DOMAIN handler.fields /\ i # meta.body
  BY <1>3, EntryIs
<1>5. CASE stage' = "panicked" /\ inst' = inst
  <2>1. stage \in Loading /\ "panicked" \in (Loading \cup Ended) \ {"invalid"}
    BY DEF Loading, Ended
  <2>2. "panicked" \notin Sources /\ Passed("panicked") = {}
    BY DEF Sources, Passed
  <2> QED
    BY <1>1, <1>3, <1>5, <2>1, <2>2, MoveOK
<1>6. CASE stage' = here /\ inst' = [inst EXCEPT ![i] = value]
  <2>1. inst'[i] = value /\ DOMAIN inst' = DOMAIN inst /\ \A j : j # i => inst'[j] = inst[j]
    BY <1>2, <1>4, <1>6
  <2>2. MetaTypeOK' /\ MetaOK'
    BY <1>6, MetaFrame DEF Sources
  <2>3. FieldOK(i)'
    BY <1>1, <1>4, <2>1 DEF FieldOK
  <2>4. \A j : j # i => (FieldOK(j)' <=> FieldOK(j))
    BY <1>1, <2>1, FieldFrame
  <2>5. IsRequest(request)'
    BY <1>1 DEF LInv, TypeOK, IsRequest
  <2>6. TypeOK'
    BY <1>1, <1>2, <1>3, <1>6, <2>1, <2>2, <2>3, <2>4, <2>5 DEF LInv, TypeOK
  <2>7. Loaded(here, i)'
    <3>1. Violated(here, f)' = {} /\ Sent(here, f)' = Sent(here, f)
          /\ AsFile(here, f)' = AsFile(here, f)
      BY <1>1, <1>6, SentFrame
    <3>2. f = handler'.fields[i]
      BY <1>1
    <3>3. /\ Violated(here, handler.fields[i])' = {}
          /\ Sent(here, handler.fields[i])' = Sent(here, f)
          /\ AsFile(here, handler.fields[i])' = AsFile(here, f)
      BY <3>1, <3>2
    <3> QED
      BY <2>1, <3>2, <3>3 DEF Loaded, First
  <2>8. ASSUME NEW src \in Sources, NEW n \in Names(src), src # here \/ n # name,
               Loaded(src, FieldAt(src, n))
        PROVE  Loaded(src, FieldAt(src, n))'
    <3>1. FieldAt(src, n) # i
      BY <1>3, <2>8, EntriesDiffer
    <3>2. FieldAt(src, n)' = FieldAt(src, n)
      BY <1>1 DEF FieldAt
    <3>3. inst'[FieldAt(src, n)] = inst[FieldAt(src, n)]
      BY <2>1, <3>1
    <3> QED
      BY <1>1, <2>8, <3>2, <3>3, LoadedFrame
  <2>9. \A s : Names(s)' = Names(s)
    BY <1>1 DEF Names
  <2>10. ASSUME NEW n \in Names(here) \ todo'
         PROVE  Loaded(here, FieldAt(here, n))'
    <3>1. CASE n = name
      <4>1. FieldAt(here, name)' = i
        BY <1>1, <1>6 DEF FieldAt
      <4> QED
        BY <2>7, <3>1, <4>1
    <3>2. CASE n # name
      <4>1. Loaded(here, FieldAt(here, n))
        BY <3>2 DEF LInv, LoadOK
      <4> QED
        BY <2>8, <3>2, <4>1
    <3> QED
      BY <3>1, <3>2
  <2>11. ASSUME NEW src \in Passed(here)
         PROVE  AllLoaded(src)'
    <3>1. src \in Sources /\ src # here /\ AllLoaded(src)
      BY <2>11, PassedIs DEF LInv, LoadOK
    <3> QED
      BY <2>8, <2>9, <3>1 DEF AllLoaded
  <2>12. LoadOK'
    <3>1. stage \notin Registering /\ stage # "parser" /\ stage # "invalid"
      BY DEF Registering, Sources
    <3> QED
      BY <1>1, <1>2, <1>3, <1>6, <2>1, <2>9, <2>10, <2>11, <3>1 DEF LoadOK
  <2> QED
    BY <2>2, <2>6, <2>12 DEF LInv
<1> QED
  BY <1>5, <1>6 DEF Set

LEMMA LoadFieldOK ==
    ASSUME LInv, LoadField
    PROVE  LInv'
<1>1. PICK here \in Sources : stage = here
  BY DEF LoadField
<1>2. PICK name \in todo :
          LET i == meta.params[stage][name]
              f == handler.fields[i]
          IN  /\ todo' = todo \ {name}
              /\ IF AsFile(stage, f)
                 THEN applyFileParam(In(request.files, name), f, i)
                 ELSE applyParam(lookup(stage, name), f, i)
  BY DEF LoadField
<1>3. PICK i : i = FieldAt(here, name)
  OBVIOUS
<1>4. PICK f : f = handler.fields[i]
  OBVIOUS
<1>5. /\ todo \subseteq Names(here) /\ todo \subseteq FieldNames /\ IsRequest(request)
      /\ UNCHANGED <<metaVars, request>>
  BY <1>1 DEF LoadField, LInv, LoadOK, TypeOK
<1>6. /\ name \in Names(here) /\ todo' = todo \ {name} /\ todo' \subseteq FieldNames
      /\ IF AsFile(here, f) THEN applyFileParam(In(request.files, name), f, i)
                            ELSE applyParam(lookup(here, name), f, i)
  BY <1>1, <1>2, <1>3, <1>4, <1>5 DEF FieldAt
<1>7. /\ i \in 1 .. scanned /\ f \in Field /\ f.name = name
      /\ kindForFileField(f.type) # "refused" /\ f.type \in FieldType
  BY <1>3, <1>4, <1>6, EntryIs DEF Field
<1>8. \A earlier \in Passed(here) : AllLoaded(earlier)
  BY <1>1 DEF LInv, LoadOK
<1>9. ASSUME NEW kind, kind \in Violated(here, f), Reject(i, kind)
      PROVE  LInv'
  <2>1. kind \in ErrorKinds /\ kind \in Violated(here, handler.fields[i])
    BY <1>4, <1>9 DEF Violated
  <2>2. stage \in Loading
    BY <1>1 DEF Loading
  <2> QED
    BY <1>3, <1>5, <1>6, <1>7, <1>8, <1>9, <2>1, <2>2, RejectOK
<1>10. CASE AsFile(here, f)
  <2>1. PICK look : look = In(request.files, f.name)
    OBVIOUS
  <2>2. look.values \in Seq(Files) /\ Sent(here, f) = look
    BY <1>5, <1>10, <2>1, InIs DEF IsRequest, Look, Sent
  <2>3. applyFileParam(look, f, i)
    BY <1>6, <1>7, <1>10, <2>1
  <2>4. CASE fileProblem(look, f) # "none" /\ Reject(i, fileProblem(look, f))
    BY <1>9, <1>10, <2>1, <2>4, FileJudged
  <2>5. CASE fileProblem(look, f) = "none"
    <3> DEFINE many == kindForFileField(f.type) = "many"
    <3>1. PICK value : value = IF many \/ look.values = <<>> THEN look.values ELSE <<look.values[1]>>
      OBVIOUS
    <3>2. PICK assigns : Set(f, i, assigns, value)
      BY <2>3, <2>5, <3>1 DEF applyFileParam
    <3>3. Violated(here, f) = {}
      BY <1>10, <2>1, <2>5, FileJudged
    <3>4. /\ f.type.kind = "slice" <=> many
          /\ kindForFileField(f.type) # "none"
      BY <1>7, <1>10, KindOfFile DEF AsFile
    <3>5. value = IF f.type.kind = "slice" THEN look.values ELSE First(look.values)
      BY <2>2, <3>1, <3>4, FirstIs
    <3>6. \A k \in DOMAIN value : value[k] \in Files
      <4>1. value \in Seq(Files)
        BY <2>2, <3>1, FirstIs
      <4> QED
        BY <4>1
    <3> HIDE DEF many
    <3> QED
      BY <1>1, <1>3, <1>4, <1>5, <1>6, <1>10, <2>2, <3>2, <3>3, <3>4, <3>5, <3>6, SetOK
  <2> QED
    BY <2>3, <2>4, <2>5 DEF applyFileParam
<1>11. CASE ~AsFile(here, f)
  <2>1. PICK look : look = lookup(here, f.name)
    OBVIOUS
  <2>2. look.values \in Seq(Texts) /\ Sent(here, f) = look
    BY <1>5, <1>11, <2>1, LookupIs DEF Look, Sent
  <2>3. applyParam(look, f, i)
    BY <1>6, <1>7, <1>11, <2>1
  <2>4. CASE paramProblem(look, f) # "none" /\ Reject(i, paramProblem(look, f))
    BY <1>9, <1>11, <2>1, <2>4, ParamJudged
  <2>5. CASE paramProblem(look, f) = "none"
    <3>1. PICK value : value = Coerced(look.values, f.type)
      OBVIOUS
    <3>2. PICK assigns : Set(f, i, assigns, value)
      BY <2>3, <2>5, <3>1 DEF applyParam
    <3>3. Violated(here, f) = {}
      BY <1>11, <2>1, <2>5, ParamJudged
    <3>4. Coerces(look.values, f.type)
      BY <2>5 DEF paramProblem
    <3>5. value = IF f.type.kind = "slice" THEN look.values
                  ELSE IF f.type.kind \in Primitives THEN First(look.values) ELSE <<>>
      BY <1>7, <2>2, <3>1, <3>4, CoercedIs
    <3>6. \A k \in DOMAIN value : kindForFileField(f.type) = "none" /\ Fits(value[k], f.type)
      BY <1>7, <2>2, <3>1, <3>4, CoercedFits
    <3> QED
      BY <1>1, <1>3, <1>4, <1>5, <1>6, <1>11, <2>2, <3>2, <3>3, <3>5, <3>6, SetOK
  <2> QED
    BY <2>3, <2>4, <2>5 DEF applyParam
<1> QED
  BY <1>10, <1>11

LEMMA SourceIs ==
    ASSUME LInv, stage = "source"
    PROVE  /\ stage \in Loading /\ todo \subseteq FieldNames /\ \A src \in Params : AllLoaded(src)
           /\ Passed("called") = Params \cup {"form"} /\ Passed("form") = Params
           /\ meta.customParser \/ meta.body # 0 => Names("form") = {}
<1>1. stage \in Loading /\ todo \subseteq FieldNames /\ Passed(stage) = Params
  BY DEF Loading, Passed, LInv, TypeOK
<1>2. \A src \in Params : AllLoaded(src)
  BY <1>1 DEF LInv, LoadOK
<1>3. ~Conflicting(meta)
  BY DEF LInv, MetaOK, Complete
<1> QED
  BY <1>1, <1>2, <1>3 DEF Conflicting, Names, Passed, Params, Sources

\* Where there are no form fields, all of them are loaded.
LEMMA NoForm ==
    ASSUME Names("form") = {}, \A src \in Params : AllLoaded(src)
    PROVE  \A src \in Sources : AllLoaded(src)
BY DEF AllLoaded, Params, Sources

LEMMA NextSourceOK ==
    ASSUME LInv, NextSource
    PROVE  LInv'
<1>1. /\ stage \in Sources /\ todo = {} /\ UNCHANGED <<metaVars, request, inst, problem>>
      /\ stage' = Following(stage)
      /\ todo' = IF Following(stage) \in Sources THEN Names(Following(stage)) ELSE {}
  BY DEF NextSource, Names
<1>2. PICK l : l = Following(stage)
  OBVIOUS
<1>3. l \in (Loading \cup Ended) \ {"invalid", "parser"}
  BY <1>1, <1>2 DEF Following, Loading, Ended, Sources
<1>4. Passed(l) = Passed(stage) \cup {stage}
  BY <1>1, <1>2 DEF Following, Passed, Params, Sources
<1>5. AllLoaded(stage)
  BY <1>1 DEF LInv, LoadOK, AllLoaded
<1>6. \A src \in Passed(l) : AllLoaded(src)
  BY <1>4, <1>5 DEF LInv, LoadOK
<1>7. l \in Sources => todo' = Names(l)
  BY <1>1, <1>2
<1>8. todo' \subseteq FieldNames
  BY <1>1, <1>2 DEF LInv, TypeOK, MetaTypeOK, Names
<1>9. stage \in Loading
  BY <1>1 DEF Loading
<1> QED
  BY <1>1, <1>2, <1>3, <1>6, <1>7, <1>8, <1>9, MoveOK

LEMMA CustomParserOK ==
    ASSUME LInv, CustomParser
    PROVE  LInv'
<1>1. /\ stage = "source" /\ meta.customParser /\ stage' = "parser" /\ todo' = todo
      /\ UNCHANGED <<metaVars, request, inst, problem>>
  BY DEF CustomParser, loadVars
<1>2. /\ "parser" \in (Loading \cup Ended) \ {"invalid"} /\ "parser" \notin Sources
      /\ Passed("parser") = Params
  BY DEF Loading, Ended, Sources, Passed
<1> QED
  BY <1>1, <1>2, SourceIs, MoveOK

LEMMA ParserReturnsOK ==
    ASSUME LInv, ParserReturns
    PROVE  LInv'
<1>1. /\ stage = "parser" /\ todo' = todo /\ todo \subseteq FieldNames /\ stage \in Loading
      /\ UNCHANGED <<metaVars, request, inst>> /\ meta.customParser
  BY DEF ParserReturns, LInv, LoadOK, TypeOK, Loading
<1>2. \A src \in Params : AllLoaded(src)
  BY <1>1 DEF LInv, LoadOK, Passed
<1>3. ASSUME NEW l \in {"called", "eof", "failed", "panicked"}, stage' = l, UNCHANGED problem
      PROVE  LInv'
  <2>1. l \in (Loading \cup Ended) \ {"invalid"} /\ l \notin Sources /\ l # "parser"
    BY DEF Loading, Ended, Sources
  <2>2. Names("form") = {}
    BY <1>1 DEF LInv, MetaOK, Complete, Conflicting, Names
  <2>3. Passed(l) \subseteq Sources
    BY DEF Passed, Params, Sources
  <2> QED
    BY <1>1, <1>2, <1>3, <2>1, <2>2, <2>3, NoForm, MoveOK
<1>4. CASE stage' = "invalid" /\ problem' = ParserProblem
  <2>1. /\ handler' = handler /\ meta' = meta /\ scanned' = scanned
        /\ request' = request /\ inst' = inst
    BY <1>1 DEF metaVars
  <2>2. MetaTypeOK' /\ MetaOK'
    BY <1>1, <1>4, MetaFrame
  <2>3. TypeOK'
    <3>1. \A j : FieldOK(j)' <=> FieldOK(j)
      BY <2>1, FieldFrame
    <3>2. IsRequest(request)'
      BY <2>1 DEF LInv, TypeOK, IsRequest
    <3>3. ParserProblem # NoProblem
      BY DEF ParserProblem, NoProblem
    <3>4. DOMAIN inst' \in {{}, DOMAIN handler'.fields} /\ todo' \subseteq FieldNames
      BY <1>1, <2>1 DEF LInv, TypeOK
    <3>5. \A j \in DOMAIN inst' : FieldOK(j)'
      BY <2>1, <3>1 DEF LInv, TypeOK
    <3> QED
      BY <1>4, <2>2, <3>2, <3>3, <3>4, <3>5 DEF TypeOK, Ended
  <2>4. Earned'
    <3>1. \A src \in Params : AllLoaded(src)'
      BY <1>2, <2>1, AllLoadedFrame
    <3> QED
      BY <1>1, <1>4, <2>1, <3>1 DEF Earned
  <2>5. LoadOK'
    <3>1. DOMAIN inst' = DOMAIN handler'.fields
      BY <1>1, <2>1 DEF LInv, LoadOK
    <3>2. stage' \notin Registering \cup Sources /\ Passed(stage') = {}
      BY <1>4 DEF Registering, Sources, Passed
    <3> QED
      BY <1>4, <2>4, <3>1, <3>2 DEF LoadOK
  <2> QED
    BY <2>2, <2>3, <2>5 DEF LInv
<1> QED
  BY <1>3, <1>4 DEF ParserReturns

LEMMA NoSourceOK ==
    ASSUME LInv, NoSource
    PROVE  LInv'
<1>1. /\ stage = "source" /\ stage' = "called" /\ todo' = todo /\ Names("form") = {}
      /\ UNCHANGED <<metaVars, request, inst, problem>>
  BY DEF NoSource, HasForm, Names, loadVars
<1>2. /\ "called" \in (Loading \cup Ended) \ {"invalid"} /\ "called" \notin Sources
      /\ Passed("called") = Sources
  BY DEF Loading, Ended, Sources, Passed
<1> QED
  BY <1>1, <1>2, SourceIs, NoForm, MoveOK

LEMMA ParseFormOK ==
    ASSUME LInv, ParseForm
    PROVE  LInv'
<1>1. /\ stage = "source" /\ UNCHANGED <<metaVars, request, inst, problem>>
      /\ \/ stage' \in {"eof", "handled"} /\ todo' = todo
         \/ stage' = "form" /\ todo' = Names("form")
  BY DEF ParseForm, Names
<1>2. /\ {"eof", "handled", "form"} \subseteq (Loading \cup Ended) \ {"invalid", "parser"}
      /\ "eof" \notin Sources /\ "handled" \notin Sources /\ "form" \in Sources
      /\ Passed("eof") = Params /\ Passed("handled") = Params
  BY DEF Loading, Ended, Sources, Passed
<1>3. Names("form") \subseteq FieldNames
  BY <1>2 DEF LInv, TypeOK, MetaTypeOK, Names
<1> QED
  BY <1>1, <1>2, <1>3, SourceIs, MoveOK

LEMMA BodyOK ==
    ASSUME LInv, handleBodyParsing
    PROVE  LInv'
<1>0. PICK b : b = meta.body
  OBVIOUS
<1>1. /\ stage = "source" /\ ~meta.customParser /\ b # 0 /\ todo' = todo
      /\ UNCHANGED <<metaVars, request>>
  BY <1>0 DEF handleBodyParsing
<1>2. /\ b \in 1 .. scanned /\ b \in DOMAIN handler.fields
      /\ DOMAIN inst = DOMAIN handler.fields /\ problem = NoProblem
  <2>1. b \in 0 .. scanned /\ scanned \in 0 .. Len(handler.fields)
    BY <1>0 DEF LInv, TypeOK, MetaTypeOK
  <2>2. DOMAIN handler.fields = 1 .. Len(handler.fields) /\ Len(handler.fields) \in Nat
    BY HandlerIs DEF LInv, TypeOK
  <2> QED
    BY <1>1, <2>1, <2>2 DEF LInv, LoadOK, TypeOK, Loading
<1>3. \A src \in Sources : AllLoaded(src)
  BY <1>0, <1>1, SourceIs, NoForm
<1>4. CASE handler.fields[b].body # "stream" /\ request.body = "broken" /\ Reject(b, "parsing")
  <2>1. \A src \in Params : AllLoaded(src)
    BY <1>3 DEF Params, Sources
  <2>2. BadBody(b, "parsing") /\ "parsing" \in ErrorKinds
    BY <1>0, <1>4 DEF BadBody, ErrorKinds
  <2>3. stage \in Loading /\ todo' \subseteq FieldNames
    BY <1>1, SourceIs DEF Loading
  <2> QED
    BY <1>1, <1>2, <1>4, <2>1, <2>2, <2>3, RejectOK
<1>5. CASE stage' = "panicked" /\ UNCHANGED <<inst, problem>>
  <2>1. /\ "panicked" \in (Loading \cup Ended) \ {"invalid"} /\ "panicked" \notin Sources
        /\ Passed("panicked") = {}
    BY DEF Loading, Ended, Sources, Passed
  <2> QED
    BY <1>1, <1>5, <2>1, SourceIs, MoveOK
<1>6. CASE inst' = [inst EXCEPT ![b] = <<"body">>] /\ stage' = "called" /\ UNCHANGED problem
  <2>1. /\ handler' = handler /\ meta' = meta /\ scanned' = scanned
        /\ request' = request /\ problem' = problem
    BY <1>1, <1>6 DEF metaVars
  <2>2. /\ inst'[b] = <<"body">> /\ DOMAIN inst' = DOMAIN inst
        /\ \A j : j # b => inst'[j] = inst[j]
    BY <1>2, <1>6
  <2>3. MetaTypeOK' /\ MetaOK'
    BY <1>1, <1>6, MetaFrame
  <2>4. FieldOK(b)'
    <3>1. meta'.body = b
      BY <1>0, <2>1
    <3>2. \A k \in DOMAIN <<"body">> : <<"body">>[k] = "body"
      OBVIOUS
    <3> QED
      BY <2>2, <3>1, <3>2 DEF FieldOK
  <2>5. \A j : j # b => (FieldOK(j)' <=> FieldOK(j))
    BY <2>1, <2>2, FieldFrame
  <2>6. IsRequest(request)'
    BY <2>1 DEF LInv, TypeOK, IsRequest
  <2>7. TypeOK'
    <3>1. \A j \in DOMAIN inst' : FieldOK(j)'
      BY <2>2, <2>4, <2>5 DEF LInv, TypeOK
    <3> QED
      BY <1>1, <1>2, <1>6, <2>1, <2>2, <2>3, <2>6, <3>1 DEF LInv, TypeOK, Ended
  <2>8. ASSUME NEW src \in Sources
        PROVE  AllLoaded(src)'
    <3>1. ASSUME NEW name \in Names(src)
          PROVE  Loaded(src, FieldAt(src, name))'
      <4>1. Loaded(src, FieldAt(src, name)) /\ FieldAt(src, name) # b
        BY <1>0, <1>3, EntryIs DEF AllLoaded
      <4>2. FieldAt(src, name)' = FieldAt(src, name)
        BY <2>1 DEF FieldAt
      <4>3. inst'[FieldAt(src, name)] = inst[FieldAt(src, name)]
        BY <2>2, <4>1
      <4> QED
        BY <2>1, <4>1, <4>2, <4>3, LoadedFrame
    <3>2. Names(src)' = Names(src)
      BY <2>1 DEF Names
    <3> QED
      BY <3>1, <3>2 DEF AllLoaded
  <2>9. LoadOK'
    <3>1. Passed("called") = Sources /\ "called" \notin Sources /\ "called" \notin Registering
      BY DEF Passed, Sources, Registering
    <3> QED
      BY <1>2, <1>6, <2>1, <2>2, <2>8, <3>1 DEF LoadOK
  <2> QED
    BY <2>3, <2>7, <2>9 DEF LInv
<1> QED
  BY <1>0, <1>4, <1>5, <1>6 DEF handleBodyParsing

LEMMA ReceiveOK ==
    ASSUME LInv, NEW r \in Requests, Receive(r)
    PROVE  LInv'
<1>1. /\ stage = "registered" /\ stage' = "query" /\ request' = r
      /\ inst' = [i \in DOMAIN handler.fields |-> <<>>] /\ todo' = Names("query")
      /\ UNCHANGED <<metaVars, problem>>
  BY DEF Receive, Names
<1>2. handler' = handler /\ meta' = meta /\ scanned' = scanned
  BY <1>1 DEF metaVars
<1>3. MetaTypeOK' /\ MetaOK'
  BY <1>1, MetaFrame
<1>4. IsRequest(request)'
  BY <1>1, RequestsAssumption DEF IsRequest
<1>5. problem = NoProblem
  BY <1>1 DEF LInv, TypeOK
<1>6. Names("query") \subseteq FieldNames
  BY DEF LInv, TypeOK, MetaTypeOK, Names, Sources
<1>7. \A i \in DOMAIN inst' : inst'[i] = <<>>
  BY <1>1
<1>8. \A i \in DOMAIN inst' : FieldOK(i)'
  BY <1>7 DEF FieldOK
<1>9. TypeOK'
  BY <1>1, <1>2, <1>3, <1>4, <1>5, <1>6, <1>8 DEF TypeOK, Loading, Sources
<1>10. LoadOK'
  <2>1. Names("query")' = Names("query")
    BY <1>2 DEF Names
  <2>2. Passed("query") = {} /\ "query" \notin Registering
    BY DEF Passed, Registering
  <2> QED
    BY <1>1, <1>2, <2>1, <2>2 DEF LoadOK
<1> QED
  BY <1>3, <1>9, <1>10 DEF LInv

LEMMA ReturnOK ==
    ASSUME LInv, Return
    PROVE  LInv'
<1>1. /\ stage \in Ended /\ stage' = "registered" /\ request' = NoRequest /\ todo' = {}
      /\ inst' = <<>> /\ problem' = NoProblem /\ UNCHANGED metaVars
  BY DEF Return
<1>2. MetaTypeOK' /\ MetaOK'
  BY <1>1, MetaFrame DEF Ended
<1>3. IsRequest(request)'
  BY <1>1, NoRequestIs DEF IsRequest
<1>4. DOMAIN inst' = {}
  BY <1>1
<1>5. TypeOK'
  BY <1>1, <1>2, <1>3, <1>4 DEF TypeOK, Registering
<1>6. LoadOK'
  BY <1>1 DEF LoadOK, Passed, Loading, Ended, Sources
<1> QED
  BY <1>2, <1>5, <1>6 DEF LInv

LEMMA InitLInv == Init => LInv
<1> SUFFICES ASSUME Init
             PROVE  LInv
  OBVIOUS
<1>1. /\ stage = "idle" /\ handler = NoHandler /\ scanned = 0
      /\ meta = [customParser |-> FALSE, body |-> 0, params |-> [src \in Sources |-> NoFields]]
      /\ request = NoRequest /\ todo = {} /\ inst = <<>> /\ problem = NoProblem
  BY DEF Init, MetaInit, NoMeta
<1>2. \A src \in Sources : DOMAIN meta.params[src] = {}
  BY <1>1 DEF NoFields
<1>3. MetaTypeOK
  BY <1>1, <1>2 DEF MetaTypeOK, NoHandler
<1>4. MetaOK
  BY <1>1, <1>2 DEF MetaOK, Names, Complete
<1>5. TypeOK
  BY <1>1, <1>3, NoRequestIs DEF TypeOK, Registering
<1>6. LoadOK
  BY <1>1 DEF LoadOK, Passed, Loading, Ended, Sources
<1> QED
  BY <1>4, <1>5, <1>6 DEF LInv

LEMMA NextLInv == LInv /\ [Next]_vars => LInv'
<1> SUFFICES ASSUME LInv, [Next]_vars
             PROVE  LInv'
  OBVIOUS
<1>1. ASSUME NEW h \in Handlers, Register(h), UNCHANGED loadVars
      PROVE  LInv'
  BY <1>1, RegisterOK
<1>2. CASE determineFuncParams /\ UNCHANGED loadVars
  BY <1>2, ScanFieldOK, EndOfStructOK DEF determineFuncParams
<1>3. CASE Refuse /\ UNCHANGED loadVars
  BY <1>3, RefuseOK
<1>4. ASSUME NEW r \in Requests, Receive(r)
      PROVE  LInv'
  BY <1>4, ReceiveOK
<1>5. CASE loadAndApplyMeta
  BY <1>5, LoadFieldOK, NextSourceOK, CustomParserOK, ParserReturnsOK, BodyOK, ParseFormOK,
     NoSourceOK DEF loadAndApplyMeta
<1>6. CASE Return
  BY <1>6, ReturnOK
<1>7. CASE UNCHANGED vars
  <2>1. UNCHANGED <<handler, meta, scanned, stage, request, todo, inst, problem>>
    BY <1>7 DEF vars, metaVars, loadVars
  <2>2. TypeOK'
    BY <2>1 DEF LInv, TypeOK, MetaTypeOK, IsRequest, FieldOK
  <2>3. MetaOK'
    BY <2>1 DEF LInv, MetaOK, Names, FieldAt, Entered, Kept, Complete, Conflicting
  <2>4. \A src : AllLoaded(src)' <=> AllLoaded(src)
    BY <2>1, AllLoadedFrame
  <2>5. \A src, i : Loaded(src, i)' <=> Loaded(src, i)
    BY <2>1, LoadedFrame
  <2>6. \A src, f : Violated(src, f)' = Violated(src, f)
    BY <2>1, SentFrame
  <2>7. Earned' <=> Earned
    BY <2>1, <2>4, <2>6 DEF Earned, BadBody, Names, FieldAt
  <2>8. LoadOK'
    BY <2>1, <2>4, <2>5, <2>7 DEF LInv, LoadOK, Names, FieldAt
  <2> QED
    BY <2>2, <2>3, <2>8 DEF LInv
<1> QED
  BY <1>1, <1>2, <1>3, <1>4, <1>5, <1>6, <1>7 DEF Next

-----------------------------------------------------------------------------
(* The theorems *)

\* The strengthening holds in every reachable state.
THEOREM LoaderInvariance == Spec => []LInv
BY InitLInv, NextLInv, PTL DEF Spec

\* Whatever handlers are registered and requests made, a field holds what its
\* type can: integers in its range, files where files are wanted.
THEOREM LoaderTypeCorrect == Spec => []TypeOK
<1>1. LInv => TypeOK
  BY DEF LInv
<1> QED
  BY <1>1, LoaderInvariance, PTL

LEMMA LastIsEntered ==
    ASSUME LInv, Complete, NEW srcs \in SUBSET Sources, NEW i \in From(srcs)
    PROVE  /\ SourceOf(i) \in srcs
           /\ \E name \in Names(SourceOf(i)) : i = FieldAt(SourceOf(i), name)
<1>1. PICK src \in srcs : handler.fields[i].resolvers = {src}
  BY DEF From
<1>2. SourceOf(i) = src
  BY <1>1 DEF SourceOf
<1>3. i \in DOMAIN handler.fields /\ ~Superseded(i)
  BY DEF From
<1>4. Kept(i)
  BY <1>3, HandlerIs DEF LInv, TypeOK, MetaOK
<1> DEFINE name == handler.fields[i].name
           j == FieldAt(src, name)
<1>5. name \in Names(src) /\ j >= i
  BY <1>1, <1>4 DEF Kept
<1>6. j \in DOMAIN handler.fields /\ handler.fields[j].resolvers = {src}
      /\ handler.fields[j].name = name
  BY <1>5, EntryIs
<1>7. ~(i < j)
  <2> HIDE DEF j
  <2> QED
    BY <1>1, <1>3, <1>6 DEF Superseded
<1>8. i \in Int /\ j \in Int
  BY <1>3, <1>6, HandlerIs DEF LInv, TypeOK
<1>9. i = j
  <2> HIDE DEF j
  <2> QED
    BY <1>5, <1>7, <1>8
<1> QED
  BY <1>2, <1>5, <1>9

\* In any order of the maps, no body is read and no custom parser called while
\* a query, url-param or header field is not loaded, or violates its tags.
THEOREM BodyComesLast == Spec => []BodyAfterParams
<1>1. LInv => BodyAfterParams
  <2> SUFFICES ASSUME LInv,
                      stage \in {"source", "parser", "form", "eof", "handled", "failed"},
                      NEW i \in From(Params)
               PROVE  Loaded(SourceOf(i), i)
    BY DEF BodyAfterParams
  <2>1. Complete /\ Passed(stage) = Params /\ Params \in SUBSET Sources
    BY DEF Complete, Passed, Params, Sources
  <2>2. SourceOf(i) \in Params /\ \E name \in Names(SourceOf(i)) : i = FieldAt(SourceOf(i), name)
    BY <2>1, LastIsEntered
  <2> QED
    BY <2>1, <2>2 DEF LInv, LoadOK, AllLoaded
<1> QED
  BY <1>1, LoaderInvariance, PTL

\* For any struct and any request, a handler that is called finds every field
\* tagged with a source set to what the source holds, its tags satisfied.
THEOREM HandlerGetsWhatWasSent == Spec => []HandlerSeesWhatWasSent
<1>1. LInv => HandlerSeesWhatWasSent
  <2> SUFFICES ASSUME LInv, stage = "called", NEW i \in From(Sources)
               PROVE  Loaded(SourceOf(i), i)
    BY DEF HandlerSeesWhatWasSent
  <2>1. Complete /\ Passed(stage) = Sources
    BY DEF Complete, Passed
  <2>2. SourceOf(i) \in Sources /\ \E name \in Names(SourceOf(i)) : i = FieldAt(SourceOf(i), name)
    BY <2>1, LastIsEntered
  <2> QED
    BY <2>1, <2>2 DEF LInv, LoadOK, AllLoaded
<1> QED
  BY <1>1, LoaderInvariance, PTL

\* A ValidationError names a field and a tag that what was sent violates, or a
\* body that cannot be read, or is the custom parser's own; and each is met only
\* where every field of the sources that go before is in order.
THEOREM RefusalIsEarned == Spec => []ErrorIsEarned
<1>1. LInv => ErrorIsEarned
  <2> SUFFICES ASSUME LInv, stage = "invalid"
               PROVE  ErrorIsEarned
    BY DEF ErrorIsEarned
  <2>1. Complete /\ Earned
    BY DEF Complete, LInv, LoadOK
  <2>2. ASSUME NEW srcs \in SUBSET Sources, \A src \in srcs : AllLoaded(src),
               NEW i \in From(srcs)
        PROVE  Loaded(SourceOf(i), i)
    <3>1. SourceOf(i) \in srcs /\ \E name \in Names(SourceOf(i)) : i = FieldAt(SourceOf(i), name)
      BY <2>1, LastIsEntered
    <3> QED
      BY <2>2, <3>1 DEF AllLoaded
  <2>3. Params \in SUBSET Sources
    BY DEF Params, Sources
  <2>4. CASE problem = ParserProblem /\ meta.customParser /\ \A src \in Params : AllLoaded(src)
    <3>1. Blamed = "parser" /\ Before(Blamed) = Params
      BY <2>4 DEF Blamed, Before
    <3> QED
      BY <2>2, <2>3, <2>4, <3>1 DEF ErrorIsEarned
  <2>5. CASE /\ problem.field # 0 /\ BadBody(problem.field, problem.kind)
             /\ problem = [field |-> problem.field, kind |-> problem.kind]
             /\ \A src \in Params : AllLoaded(src)
    <3>1. problem # ParserProblem
      BY <2>5 DEF ParserProblem
    <3>2. handler.fields[problem.field].resolvers = {"body"}
      BY <2>5 DEF BadBody, LInv, MetaOK
    <3>3. Blamed = "body" /\ Before(Blamed) = Params
      BY <3>1, <3>2 DEF Blamed, SourceOf, Before
    <3> QED
      BY <2>2, <2>3, <2>5, <3>3 DEF ErrorIsEarned, BadBody
  <2>6. ASSUME NEW src \in Sources, NEW name \in Names(src), problem.field = FieldAt(src, name),
               problem.kind \in Violated(src, handler.fields[problem.field]),
               \A earlier \in Passed(src) : AllLoaded(earlier)
        PROVE  ErrorIsEarned
    <3>1. handler.fields[problem.field].resolvers = {src}
      BY <2>6, EntryIs
    <3>2. problem # ParserProblem
      <4>1. "custom" \notin Violated(src, handler.fields[problem.field])
        BY DEF Violated, ErrorKinds
      <4> QED
        BY <2>6, <4>1 DEF ParserProblem
    <3>3. Blamed = src /\ src \notin {"parser", "body"}
      BY <3>1, <3>2 DEF Blamed, SourceOf, Sources
    <3>4. Before(src) = Passed(src) /\ Passed(src) \in SUBSET Sources
      BY DEF Before, Passed, Params, Sources
    <3>5. \A i \in From(Before(Blamed)) : Loaded(SourceOf(i), i)
      BY <2>2, <2>6, <3>3, <3>4
    <3> QED
      BY <2>6, <3>3, <3>5 DEF ErrorIsEarned
  <2> QED
    BY <2>1, <2>4, <2>5, <2>6 DEF Earned
<1> QED
  BY <1>1, LoaderInvariance, PTL

-----------------------------------------------------------------------------
(* The loading as Lifecycle has it *)

Onward == IF stage = "handled" THEN "respond" ELSE "finish"

LEMMA StillSeen ==
    ASSUME label' = label, met' = met, Onward' = Onward
    PROVE  UNCHANGED L!vars
BY DEF L!vars, Onward

LEMMA LeaveSeen ==
    ASSUME NEW e, NEW l, label' = l, met' = e, Onward' = Onward
    PROVE  L!Leave(1, e, l)
BY DEF L!Leave, L!Fail, L!Goto, L!mux, Onward

LEMMA ReceiveSeen ==
    ASSUME NEW r \in Requests, Receive(r)
    PROVE  L!Receive(1)
<1>1. stage = "registered" /\ stage' = "query"
  BY DEF Receive
<1>2. label = "idle" /\ label' = "load" /\ met' = met /\ Onward' = Onward
  BY <1>1 DEF label, met, Onward, Registering, Params
<1>3. Req!newRequest = L!newRequest
  BY DEF Req!newRequest, L!newRequest, Req!NewWriter, L!NewWriter
<1> QED
  BY <1>2, <1>3 DEF L!Receive, L!At, L!Step, L!Become, L!Goto, L!mux, Onward


\* The steps that load, by the stages they lead from and to.
LEMMA MoveSeen ==
    ASSUME NEW from, NEW to, stage = from, stage' = to,
           \/ from \in Sources /\ to = from
           \/ from = "query" /\ to = "url-param"
           \/ from = "url-param" /\ to = "header"
           \/ from = "header" /\ to = "source"
           \/ from \in Sources /\ to \in {"invalid", "panicked"}
           \/ from = "form" /\ to = "called"
           \/ from = "source" /\ to \in {"parser", "called", "invalid", "panicked", "form",
                                         "eof", "handled"}
           \/ from = "parser" /\ to \in {"called", "invalid", "eof", "failed", "panicked"}
    PROVE  [L!Load(1)]_(L!vars)
<1>1. \/ from \in Params /\ label = "load"
      \/ from \in {"source", "form"} /\ label = "source"
      \/ from = "parser" /\ label = "parser"
  BY DEF label, Registering, Params, Sources
<1>2. met = "none" /\ Onward = "finish"
  BY DEF met, Onward, Sources
<1>3. CASE to \in {"query", "url-param", "header", "form"}
  <2>1. label' = label
    BY <1>1, <1>3 DEF label, Registering, Params, Sources
  <2>2. met' = met /\ Onward' = Onward
    BY <1>2, <1>3 DEF met, Onward
  <2> QED
    BY <2>1, <2>2, StillSeen
<1>4. CASE to = "source"
  <2>1. label = "load" /\ label' = "source" /\ met' = "none" /\ Onward' = Onward
    BY <1>1, <1>2, <1>4 DEF label, met, Onward, Registering, Params, Sources
  <2>2. L!Leave(1, "none", "source")
    BY <2>1, LeaveSeen
  <2> QED
    BY <2>1, <2>2 DEF L!Load, L!LoadFields, L!At
<1>5. CASE to = "parser"
  <2>1. label = "source" /\ label' = "parser" /\ met' = "none" /\ Onward' = Onward
    BY <1>1, <1>2, <1>5 DEF label, met, Onward, Registering, Params, Sources
  <2>2. L!Leave(1, "none", "parser")
    BY <2>1, LeaveSeen
  <2> QED
    BY <2>1, <2>2 DEF L!Load, L!LoadSource, L!At
<1>6. CASE to = "called"
  <2>1. /\ label \in {"source", "parser"}
        /\ label' = "handler" /\ met' = "none" /\ Onward' = Onward
    BY <1>1, <1>2, <1>6 DEF label, met, Onward, Registering, Params, Sources
  <2>2. L!Leave(1, "none", "handler")
    BY <2>1, LeaveSeen
  <2> QED
    BY <2>1, <2>2 DEF L!Load, L!LoadSource, L!ParserReturns, L!At
<1>7. CASE to = "panicked"
  <2>1. label' = "dropped" /\ met' = "none" /\ Onward' = Onward
    BY <1>2, <1>7 DEF label, met, Onward, Registering, Params
  <2>2. L!Leave(1, "none", "dropped")
    BY <2>1, LeaveSeen
  <2> QED
    BY <1>1, <2>2 DEF L!Load, L!LoadFields, L!LoadSource, L!ParserReturns, L!At
<1>8. CASE to = "invalid"
  <2>1. /\ label \in {"load", "source", "parser"}
        /\ label' = "error" /\ met' = "validation" /\ Onward' = Onward
    BY <1>1, <1>2, <1>8 DEF label, met, Onward, Registering, Params, Sources
  <2>2. L!Leave(1, "validation", "error")
    BY <2>1, LeaveSeen
  <2> QED
    BY <2>1, <2>2 DEF L!Load, L!LoadFields, L!LoadSource, L!ParserReturns, L!AppErrors, L!At
<1>9. CASE to = "eof"
  <2>1. /\ label \in {"source", "parser"}
        /\ label' = "error" /\ met' = "eof" /\ Onward' = Onward
    BY <1>1, <1>2, <1>9 DEF label, met, Onward, Registering, Params, Sources
  <2>2. L!Leave(1, "eof", "error")
    BY <2>1, LeaveSeen
  <2> QED
    BY <2>1, <2>2 DEF L!Load, L!LoadSource, L!ParserReturns, L!AppErrors, L!At
<1>10. CASE to = "failed"
  <2>1. /\ label = "parser"
        /\ label' = "error" /\ met' = "runtime" /\ Onward' = Onward
    BY <1>1, <1>2, <1>10 DEF label, met, Onward, Registering, Params, Sources
  <2>2. L!Leave(1, "runtime", "error")
    BY <2>1, LeaveSeen
  <2> QED
    BY <2>1, <2>2 DEF L!Load, L!ParserReturns, L!AppErrors, L!At
<1>11. CASE to = "handled"
  <2>1. /\ label = "source"
        /\ label' = "error" /\ met' = "runtime" /\ Onward' = "respond"
    BY <1>1, <1>11 DEF label, met, Onward, Registering, Params, Sources
  <2>2. L!FormParseFails(1)
    BY <2>1 DEF L!FormParseFails, L!Fail, L!Goto, L!At, L!mux, Onward
  <2> QED
    BY <2>2 DEF L!Load
<1> QED
  BY <1>3, <1>4, <1>5, <1>6, <1>7, <1>8, <1>9, <1>10, <1>11 DEF Sources

LEMMA LoadStepSeen ==
    ASSUME loadAndApplyMeta
    PROVE  [L!Load(1)]_(L!vars)
<1>1. PICK from, to : stage = from /\ stage' = to
  OBVIOUS
<1>2. CASE LoadField
  <2>1. from \in Sources /\ to \in {from, "invalid", "panicked"}
    BY <1>1, <1>2 DEF LoadField, applyFileParam, applyParam, Reject, Set
  <2> QED
    BY <1>1, <2>1, MoveSeen
<1>3. CASE NextSource
  <2>1. from \in Sources /\ to = Following(from)
    BY <1>1, <1>3 DEF NextSource
  <2> QED
    BY <1>1, <2>1, MoveSeen DEF Following, Sources
<1>4. CASE CustomParser \/ NoSource \/ ParseForm \/ handleBodyParsing
  <2>1. from = "source" /\ to \in {"parser", "called", "invalid", "panicked", "form", "eof", "handled"}
    BY <1>1, <1>4 DEF CustomParser, NoSource, ParseForm, handleBodyParsing, Reject
  <2> QED
    BY <1>1, <2>1, MoveSeen
<1>5. CASE ParserReturns
  <2>1. from = "parser" /\ to \in {"called", "invalid", "eof", "failed", "panicked"}
    BY <1>1, <1>5 DEF ParserReturns
  <2> QED
    BY <1>1, <2>1, MoveSeen
<1> QED
  BY <1>2, <1>3, <1>4, <1>5 DEF loadAndApplyMeta

\* Registering is none of a request's business.
LEMMA RegisteringSeen ==
    ASSUME stage \in Registering, stage' \in Registering
    PROVE  UNCHANGED L!vars
<1>1. label = "idle" /\ met = "none" /\ Onward = "finish"
  BY DEF label, met, Onward, Registering, Params, Sources
<1>2. label' = "idle" /\ met' = "none" /\ Onward' = "finish"
  BY DEF label, met, Onward, Registering, Params, Sources
<1> QED
  BY <1>1, <1>2, StillSeen

\* Every step of the loading is one Lifecycle has, or none, for any struct and
\* any request: what Lifecycle leaves open Loader decides, and nothing else.
THEOREM LoadingImplementsLifecycle == Spec => LoadsAsInLifecycle
<1>1. [Next]_vars => [stage \notin Ended => L!Receive(1) \/ L!Load(1)]_(L!vars)
  <2> SUFFICES ASSUME [Next]_vars, stage \notin Ended
               PROVE  L!Receive(1) \/ [L!Load(1)]_(L!vars)
    OBVIOUS
  <2>1. CASE \E h \in Handlers : Register(h)
    BY <2>1, RegisteringSeen DEF Register, Registering
  <2>2. CASE determineFuncParams \/ Refuse
    <3>1. stage \in Registering /\ stage' \in Registering
      BY <2>2 DEF determineFuncParams, ScanField, EndOfStruct, Refuse, Registering
    <3> QED
      BY <3>1, RegisteringSeen
  <2>3. CASE \E r \in Requests : Receive(r)
    BY <2>3, ReceiveSeen
  <2>4. CASE loadAndApplyMeta
    BY <2>4, LoadStepSeen
  <2>5. CASE UNCHANGED vars
    BY <2>5, StillSeen DEF vars, metaVars, label, met, Onward
  <2> QED
    BY <2>1, <2>2, <2>3, <2>4, <2>5 DEF Next, Return
<1> QED
  BY <1>1, PTL DEF Spec, LoadsAsInLifecycle
=============================================================================
