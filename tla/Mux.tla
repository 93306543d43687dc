---------------------------------- MODULE Mux ----------------------------------
(***************************************************************************)
(* raggett.Mux (src/raggett.go): NewMux's Mux and the copies With and      *)
(* UseLogOpts make of it, their configuration, and how a request that one  *)
(* of them serves finds its handler, its logger, its identifier and its    *)
(* error page (src/default_handlers.go, src/default_error_responses.go).   *)
(*                                                                         *)
(* Application code configures: before, between or within requests.  The   *)
(* fields of a Mux are copied; what they point to is shared: the table of  *)
(* handlers, chi's routing tree, and the Mux a default handler is bound to.*)
(*                                                                         *)
(* chi (v5.0.12, the version of go.mod) is external.  What is modelled of  *)
(* it: a router that handles or has a With is built, and refuses Use from  *)
(* then on; With returns an inline router with the tree of its parent,     *)
(* whose routes run its middlewares; an unbuilt router finds nothing, and  *)
(* runs no middleware; neither does an inline one that is itself served.   *)
(***************************************************************************)
EXTENDS Integers, FiniteSets, Functions, SequencesExt

CONSTANTS
    MaxMuxes,    \* bound on Muxes
    MaxCalls,    \* bound on calls that configure them
    Methods,     \* HTTP methods of the routes and requests
    Patterns,    \* patterns chi takes
    Malformed,   \* patterns that make it panic
    Handlers     \* handlers whose argument is accepted

ASSUME BoundsAssumption   == MaxMuxes \in Nat \ {0} /\ MaxCalls \in Nat
ASSUME PatternsAssumption == Patterns \cap Malformed = {}

VARIABLES
    muxes,      \* Muxes, in the order they were made; the first is NewMux's
    routers,    \* chi routers: one for that, and one for each With
    tree,       \* chi's routing tree: what each endpoint runs
    handlers,   \* the Muxes' table of handlers, by endpoint
    calls,      \* calls that configured a Mux
    request     \* the request being served

config == <<muxes, routers, tree, handlers>>
vars   == <<config, calls, request>>

Original  == 1
Endpoints == Methods \X Patterns

\* A handler of errors: one the application gave, or the default one of a Mux.
Custom == 0

Middlewares == {"muxContextInjector", "requestLogger", "custom"}

\* served: the Mux the server gave it to; mux: the one its route was registered
\* with; writer: the one whose default handler answers it.  id is the one in its
\* context, header the Request-ID of its response; logger its Request's.
NoRequest ==
    [stage |-> "idle", served |-> Original, wanted |-> <<>>, id |-> "undefined",
     header |-> "none", log |-> {}, mux |-> 0, logger |-> {}, kind |-> "none",
     writer |-> 0, status |-> 0, page |-> {}]

\* NewMux.  A Mux's fields that never change are left out; a logger is the set
\* of Muxes whose LogWith gave it fields.  lineage is history: the Mux itself
\* and those it was copied from.
NewMux(middlewares) ==
    /\ muxes = << [internalMux |-> 1, errorHandler |-> Original,
                   validationErrorHandler |-> Original, notFoundHandler |-> Original,
                   identifierGenerator |-> "default", logger |-> {},
                   lineage |-> {Original}, Development |-> FALSE] >>
    /\ routers = << [inline |-> FALSE, parent |-> 0, built |-> FALSE,
                     middlewares |-> middlewares,
                     methodNotAllowed |-> [handler |-> Original, chain |-> <<>>]] >>
    /\ tree = <<>> /\ handlers = <<>> /\ calls = 0 /\ request = NoRequest

\* Faulty variant: the middlewares change places.
Init_LoggerFirst == NewMux(<<"requestLogger", "muxContextInjector">>)

Init == NewMux(<<"muxContextInjector", "requestLogger">>)

-----------------------------------------------------------------------------
(* Configuring *)

Router(i) == routers[muxes[i].internalMux]

\* Where the application's code runs.
Configure ==
    /\ request.stage \in {"idle", "routing", "handling", "custom"}
    /\ calls < MaxCalls
    /\ calls' = calls + 1
    /\ UNCHANGED request

SetField(i, mx) == muxes' = [muxes EXCEPT ![i] = mx] /\ UNCHANGED <<routers, tree, handlers>>

LogWith(i) == SetField(i, [muxes[i] EXCEPT !.logger = @ \cup {i}])

RequestIdentifierGenerator(i) == SetField(i, [muxes[i] EXCEPT !.identifierGenerator = "custom"])

SetDevelopment(i) == SetField(i, [muxes[i] EXCEPT !.Development = ~@])

\* nil installs the Mux's own default.
HandleError(i) == \E h \in {Custom, i} : SetField(i, [muxes[i] EXCEPT !.errorHandler = h])

HandleValidationError(i) ==
    \E h \in {Custom, i} : SetField(i, [muxes[i] EXCEPT !.validationErrorHandler = h])

NotFound(i) == \E h \in {Custom, i} : SetField(i, [muxes[i] EXCEPT !.notFoundHandler = h])

\* nil installs NewMux's default, which every copy's field still holds.  chi
\* sets an inline router's handler on its parent.
MethodNotAllowed(i) ==
    /\ \E h \in {Custom, Original} :
        routers' =
            IF Router(i).inline
            THEN [routers EXCEPT ![Router(i).parent].methodNotAllowed =
                     [handler |-> h, chain |-> Router(i).middlewares]]
            ELSE [routers EXCEPT ![muxes[i].internalMux].methodNotAllowed =
                     [handler |-> h, chain |-> <<>>]]
    /\ UNCHANGED <<muxes, tree, handlers>>

Use(i) ==
    /\ ~Router(i).built
    /\ routers' = [routers EXCEPT ![muxes[i].internalMux].middlewares = Append(@, "custom")]
    /\ UNCHANGED <<muxes, tree, handlers>>

\* Faulty variant: the logger is changed before the Mux is copied.
UseLogOpts_Parent(i) ==
    /\ Len(muxes) < MaxMuxes
    /\ LET fields == muxes[i].logger \cup {Len(muxes) + 1}
           copy   == [muxes[i] EXCEPT !.logger = fields, !.lineage = @ \cup {Len(muxes) + 1}]
       IN  muxes' = Append([muxes EXCEPT ![i].logger = fields], copy)
    /\ UNCHANGED <<routers, tree, handlers>>

\* copy: default handlers stay bound to the Mux they were taken from.
UseLogOpts(i) ==
    /\ Len(muxes) < MaxMuxes
    /\ muxes' = Append(muxes, [muxes[i] EXCEPT !.logger  = @ \cup {Len(muxes) + 1},
                                               !.lineage = @ \cup {Len(muxes) + 1}])
    /\ UNCHANGED <<routers, tree, handlers>>

Built(k) == [routers EXCEPT ![k].built = TRUE]

\* Faulty variant: the parent is left as it is.
BuiltParent_Not(i) == routers

BuiltParent(i) == IF Router(i).inline THEN routers ELSE Built(muxes[i].internalMux)

With(i) ==
    /\ Len(muxes) < MaxMuxes
    /\ \E given \in {<<>>, <<"custom">>} :
        LET child == [inline |-> TRUE, parent |-> muxes[i].internalMux, built |-> FALSE,
                      middlewares |-> IF Router(i).inline
                                      THEN Router(i).middlewares \o given ELSE given,
                      methodNotAllowed |-> Router(i).methodNotAllowed]
        IN  routers' = Append(BuiltParent(i), child)
    /\ muxes' = Append(muxes, [muxes[i] EXCEPT !.internalMux = Len(routers) + 1,
                                               !.lineage = @ \cup {Len(muxes) + 1}])
    /\ UNCHANGED <<tree, handlers>>

\* What a map is after map[key] = value.
Put(map, key, value) ==
    [k \in {key} \cup DOMAIN map |-> IF k = key THEN value ELSE map[k]]

\* Faulty variant: the first handler of an endpoint stays in the table.
registerHandler_Once(endpoint, f) ==
    handlers' = IF endpoint \in DOMAIN handlers THEN handlers ELSE Put(handlers, endpoint, f)

registerHandler(endpoint, f) == handlers' = Put(handlers, endpoint, f)

\* Connect, Delete, Get and the others.  chi refuses a pattern when the table
\* already has it.
Handle(i) ==
    /\ \E m \in Methods, p \in Patterns \cup Malformed, f \in Handlers :
        /\ registerHandler(<<m, p>>, f)
        /\ IF p \in Malformed
           THEN UNCHANGED <<routers, tree>>
           ELSE /\ routers' = Built(muxes[i].internalMux)
                /\ tree' = Put(tree, <<m, p>>,
                               [mux |-> i, handler |-> f,
                                chain |-> IF Router(i).inline
                                          THEN Router(i).middlewares ELSE <<>>])
    /\ UNCHANGED muxes

-----------------------------------------------------------------------------
(* Serving *)

At(stage) == request.stage = stage
Become(r) == request' = r /\ UNCHANGED <<config, calls>>
Move(stage) == Become([request EXCEPT !.stage = stage])

\* requestLogger logs with NewMux's logger, a Request with its own.
AccessLine(id)  == [by |-> "requestLogger", id |-> id, fields |-> muxes[Original].logger]
RequestLine(r)  == [by |-> "Request", id |-> r.id, fields |-> r.logger]
Logged(r)       == [r EXCEPT !.log = @ \cup {RequestLine(r)}]

\* What the middlewares NewMux gave its router do to a request's context, its
\* response's header and the log; the application's own pass it on, or answer it.
Pass(seen, middleware) ==
    CASE middleware = "muxContextInjector" ->
            [seen EXCEPT !.id = muxes[Original].identifierGenerator]
      [] middleware = "requestLogger" ->
            [seen EXCEPT !.log = @ \cup {AccessLine(seen.id)}, !.header = seen.id]
      [] OTHER -> seen

Through(r, chain) ==
    LET seen == FoldLeft(Pass, [id |-> r.id, header |-> r.header, log |-> r.log], chain)
    IN  [r EXCEPT !.id = seen.id, !.header = seen.header, !.log = seen.log]

\* A request becomes r behind the chain, unless one of the chain answers.
Run(r, chain) ==
    \/ Become(Through(r, chain))
    \/ /\ "custom" \in Range(chain)
       /\ Become([Through(r, chain) EXCEPT !.stage = "custom", !.kind = "custom",
                                           !.mux = 0, !.logger = {}])

ServeHTTP(i, endpoint) ==
    /\ At("idle")
    /\ LET k == muxes[i].internalMux
           r == [NoRequest EXCEPT !.served = i, !.wanted = endpoint]
       IN  IF routers[k].built
           THEN Run([r EXCEPT !.stage = "routing"],
                    IF routers[k].inline THEN <<>> ELSE routers[k].middlewares)
           ELSE Become([r EXCEPT !.stage = "unrouted", !.kind = "noroute"])

\* The router of the Mux that serves.
Via == muxes[request.served].internalMux

Allowed == {m \in Methods : <<m, request.wanted[2]>> \in DOMAIN tree}

\* chi finds the route; makeResponder's closure makes a Request of the Mux the
\* route was registered with.
Route ==
    /\ At("routing")
    /\ LET endpoint == request.wanted
       IN  IF endpoint \in DOMAIN tree
           THEN LET i == tree[endpoint].mux
                IN  Run([request EXCEPT !.stage = "handling", !.mux = i,
                                        !.logger = muxes[i].logger],
                        tree[endpoint].chain)
           ELSE IF Allowed # {}
           THEN Run([request EXCEPT !.stage = "unrouted", !.kind = "notallowed"],
                    routers[Via].methodNotAllowed.chain)
           ELSE Become([request EXCEPT !.stage = "unrouted", !.kind = "noroute"])

\* An error of some kind goes to a handler: a custom one, or the default one of
\* a Mux, which makes r of the request and writes a page.
Dispatch(kind, handler, r) ==
    Become(IF handler = Custom
           THEN [request EXCEPT !.stage = "custom", !.kind = "custom"]
           ELSE [r EXCEPT !.stage = "page", !.kind = kind, !.writer = handler])

\* The default 404 and 405 handlers make a Request of their Mux.
newRequest(handler) == [request EXCEPT !.logger = muxes[handler].logger]

\* chi's handler for what it does not find is NewMux's own for good.
internalNotFoundDispatch ==
    At("unrouted") /\ request.kind = "noroute"
        /\ LET handler == muxes[Original].notFoundHandler
           IN  Dispatch("noroute", handler, newRequest(handler))

internalMethodNotAllowedDispatch ==
    At("unrouted") /\ request.kind = "notallowed"
        /\ LET handler == routers[Via].methodNotAllowed.handler
           IN  Dispatch("notallowed", handler, newRequest(handler))

HandlerReturns == At("handling") /\ Become([request EXCEPT !.stage = "respond", !.kind = "ok"])

\* How the loading and the handler get there is in Lifecycle.  A panic of the
\* loading is not recovered.
HandlerPanics == At("handling") /\ Move("panicked")

UnexpectedEOF == At("handling") /\ Become([request EXCEPT !.stage = "eof", !.kind = "eof"])

\* The default handlers of a Request's failures log them first.
ValidationFails ==
    /\ At("handling")
    /\ Dispatch("validation", muxes[request.mux].validationErrorHandler, Logged(request))

\* "notfound" is what Request.NotFound raises.
RuntimeFails ==
    /\ At("handling")
    /\ \E kind \in {"runtime", "notfound"} :
         Dispatch(kind, muxes[request.mux].errorHandler, Logged(request))

Reply(r, status, page) ==
    Become([r EXCEPT !.stage = "answered", !.status = status, !.page = page])

\* What fails before the headers are out is logged and answered 500 by the
\* recover; what fails later is logged, if it is no Abort.
Respond ==
    /\ At("respond")
    /\ \/ Reply(Logged(request), 500, {})
       \/ \E r \in {request, Logged(request)} : Reply(r, 200, {})

badRequestUnexpectedEOF == At("eof") /\ Reply(Logged(request), 400, {})

\* A middleware, or a handler of errors the application gave.
CustomReplies ==
    /\ At("custom")
    /\ Reply(request, 403, {}) \/ Reply(request, 0, {}) \/ Move("panicked")

-----------------------------------------------------------------------------
(* The default pages *)

StatusOf(kind) ==
    CASE kind = "validation"              -> 400
      [] kind \in {"runtime", "notfound"} -> 500
      [] kind = "noroute"                 -> 404
      [] kind = "notallowed"              -> 405

\* What a page tells the client beyond its status, the same in every format.
\* The message of a ValidationError names the struct and the tagged field.
Details == {"request", "environment"}

validationErrorToTemplate(constrained) ==
    IF constrained THEN {"message", "structName", "requestID"}
    ELSE Details \cup {"message", "structName", "structField"}

errorToTemplate(constrained) ==
    IF constrained THEN {"requestID"} ELSE Details \cup {"message", "stackTrace"}

notFoundToTemplate(constrained) ==
    IF constrained THEN {} ELSE Details \cup {"routes"}

pageOf(kind, constrained) ==
    CASE kind = "validation"              -> validationErrorToTemplate(constrained)
      [] kind \in {"runtime", "notfound"} -> errorToTemplate(constrained)
      [] OTHER                            -> notFoundToTemplate(constrained)

\* Faulty variant: the Development of NewMux's Mux decides.
isConstrained_ByOriginal == ~muxes[Original].Development

\* The Development of the Mux whose default handler it is.
isConstrained == ~muxes[request.writer].Development

\* Faulty variant: the responder goes on after the page.
WritePage_NoReturn ==
    /\ At("page")
    /\ Become([request EXCEPT !.stage  = "respond", !.status = StatusOf(request.kind),
                              !.page   = pageOf(request.kind, isConstrained)])

\* A page is rendered outside of every recover; what fails to encode is logged.
WritePage ==
    /\ At("page")
    /\ \/ Reply(request, StatusOf(request.kind), pageOf(request.kind, isConstrained))
       \/ \E r \in {request, Logged(request)} : Become([r EXCEPT !.stage = "panicked"])

\* The handler the routes of a 404 or 405 page name for each endpoint.
listRoutes ==
    [endpoint \in DOMAIN tree |->
        IF endpoint \in DOMAIN handlers THEN handlers[endpoint] ELSE "unknown"]

\* requestLogger ends what it began, even when the handler panics.  An answer
\* nobody gave is 200.
Finish ==
    /\ request.stage \in {"answered", "panicked"}
    /\ LET panicked == At("panicked")
           logged   == request.header # "none"
       IN  Become([request EXCEPT
                !.stage  = IF panicked THEN "dropped" ELSE "done",
                !.status = IF @ = 0 /\ ~panicked THEN 200 ELSE @,
                !.log    = IF logged THEN @ \cup {AccessLine(request.header)} ELSE @])

Return == request.stage \in {"done", "dropped"} /\ Become(NoRequest)

-----------------------------------------------------------------------------
Configuring(i) ==
    \/ LogWith(i) \/ UseLogOpts(i) \/ RequestIdentifierGenerator(i)
    \/ HandleError(i) \/ HandleValidationError(i)
    \/ NotFound(i) \/ MethodNotAllowed(i)
    \/ SetDevelopment(i) \/ Use(i) \/ With(i) \/ Handle(i)

Serving ==
    \/ \E i \in DOMAIN muxes, endpoint \in Endpoints : ServeHTTP(i, endpoint)
    \/ Route \/ internalNotFoundDispatch \/ internalMethodNotAllowedDispatch
    \/ HandlerReturns \/ HandlerPanics \/ UnexpectedEOF
    \/ ValidationFails \/ RuntimeFails
    \/ Respond \/ badRequestUnexpectedEOF \/ CustomReplies \/ WritePage
    \/ Finish

Next ==
    \/ Configure /\ \E i \in DOMAIN muxes : Configuring(i)
    \/ Serving
    \/ Return

Spec == Init /\ [][Next]_vars

-----------------------------------------------------------------------------
(* What makes it correct *)

Stages == {"idle", "routing", "unrouted", "handling", "respond", "eof", "custom",
           "page", "answered", "panicked", "done", "dropped"}
Kinds  == {"none", "ok", "eof", "validation", "runtime", "notfound", "noroute", "notallowed",
           "custom"}
IDs    == {"undefined", "default", "custom"}

MuxRecord ==
    [internalMux : 1 .. MaxMuxes, errorHandler : 0 .. MaxMuxes,
     validationErrorHandler : 0 .. MaxMuxes, notFoundHandler : 0 .. MaxMuxes,
     identifierGenerator : IDs, logger : SUBSET (1 .. MaxMuxes),
     lineage : SUBSET (1 .. MaxMuxes), Development : BOOLEAN]

RouterRecord ==
    [inline : BOOLEAN, parent : 0 .. MaxMuxes, built : BOOLEAN,
     middlewares : Seq(Middlewares),
     methodNotAllowed : [handler : {Custom, Original}, chain : Seq(Middlewares)]]

\* A Mux refers to routers and Muxes no younger than itself; its logger has the
\* fields of none but those it comes from.
MuxOK(i) ==
    LET mx == muxes[i]
    IN  /\ mx.internalMux \in DOMAIN routers
        /\ {mx.errorHandler, mx.validationErrorHandler, mx.notFoundHandler} \subseteq 0 .. i
        /\ mx.logger \subseteq mx.lineage
        /\ mx.lineage \subseteq 1 .. i /\ {Original, i} \subseteq mx.lineage

MuxesOK ==
    /\ muxes \in Seq(MuxRecord) /\ Len(muxes) \in 1 .. MaxMuxes
    /\ \A i \in DOMAIN muxes : MuxOK(i)

\* NewMux's router is the root of those With made.
RoutersOK ==
    /\ routers \in Seq(RouterRecord) /\ Len(routers) \in 1 .. Len(muxes)
    /\ \A k \in DOMAIN routers :
            IF k = Original THEN ~routers[k].inline
            ELSE routers[k].inline /\ routers[k].parent \in 1 .. k - 1

TablesOK ==
    /\ DOMAIN tree \subseteq Endpoints
    /\ \A e \in DOMAIN tree : tree[e].mux \in DOMAIN muxes /\ tree[e].handler \in Handlers
    /\ DOMAIN handlers \subseteq Methods \X (Patterns \cup Malformed)

RequestOK ==
    /\ request.stage \in Stages /\ request.kind \in Kinds
    /\ request.served \in DOMAIN muxes
    /\ request.mux \in 0 .. Len(muxes) /\ request.writer \in 0 .. Len(muxes)

TypeOK == MuxesOK /\ RoutersOK /\ TablesOK /\ RequestOK /\ calls \in 0 .. MaxCalls

\* The pages that list the routes name, for every endpoint that is served, the
\* handler that serves it: the table the copies share and chi's tree agree,
\* whichever copies registered what, twice or with a pattern chi refused.
RoutesListedAreServed == \A e \in DOMAIN tree : listRoutes[e] = tree[e].handler

\* The Muxes that have to do with a request: the one that serves it, the one its
\* route was registered with, the one whose default handler answers it.
Concerned == {request.served, request.mux, request.writer} \ {0}

\* A request that finds its route through NewMux's router has an identifier, and
\* its response names it.  Every line about a request, in the access log or of
\* its Request, has the identifier of its context, the access log's the one the
\* response names; and no line has fields that were given to a Mux other than
\* the Request's own and, in the access log, the one that serves, or one they
\* were copied from: not to a copy of theirs, nor to another copy.
LoggedUnderItsID ==
    /\ request.mux # 0 /\ ~routers[Via].inline =>
           request.id # "undefined" /\ request.header = request.id
    /\ \A line \in request.log :
           /\ line.id = request.id
           /\ line.by = "requestLogger" =>
                  /\ line.id # "undefined" /\ line.id = request.header
                  /\ line.fields \subseteq UNION {muxes[i].lineage : i \in Concerned}
           /\ line.by = "Request" =>
                  line.fields \subseteq
                      muxes[IF request.mux # 0 THEN request.mux ELSE request.writer].lineage

\* What a page has in Development, beyond what any has.  The struct's name is in
\* the message of a ValidationError, with or without it.
ExtraInformation == {"environment", "stackTrace", "structField", "routes"}

\* A default error page tells none of it when no Mux concerned is in
\* Development, and some when all are.  Which one decides where they differ,
\* a copy, the Mux it was copied from or the one that serves, is left open.
DevelopmentDecides ==
    request.writer # 0 /\ request.status # 0 =>
        LET told == request.page \cap ExtraInformation
        IN  /\ (\A i \in Concerned : ~muxes[i].Development) => told = {}
            /\ (\A i \in Concerned : muxes[i].Development)  => told # {}

\* What is registered with NewMux's Mux or a copy of it is found by a request
\* that NewMux's router takes.
RegisteredIsFound ==
    [][/\ request.stage # "unrouted" /\ request'.stage = "unrouted"
       /\ ~routers[Via'].inline
       => request'.wanted \notin DOMAIN tree]_vars

-----------------------------------------------------------------------------
(* The exchange *)

stage ==
    CASE request.stage \in {"idle", "dropped"} -> request.stage
      [] request.stage = "done"                -> "closed"
      [] OTHER                                 -> "open"

verdict ==
    IF request.stage \in {"idle", "routing", "unrouted", "handling"}
    THEN "none"
    ELSE CASE request.kind = "custom"                      -> "handled"
           [] request.kind \in {"eof", "validation"}       -> "bad"
           [] request.kind = "runtime"                     -> "broken"
           [] request.kind \in {"noroute", "notallowed"}   -> "unrouted"
           [] OTHER                                        -> request.kind

E == INSTANCE Exchange WITH
        Requests <- {1},
        stage    <- [r \in {1} |-> stage],
        verdict  <- [r \in {1} |-> verdict],
        answer   <- [r \in {1} |-> request.status]

\* Whichever Mux serves a request, and however they were copied and configured,
\* the client sees an Exchange: the failures of a handler are told apart by the
\* status, unless a handler of errors of the Mux it was registered with takes
\* them.
ServesAsInExchange == [][~Return => E!Next]_(E!vars)
=============================================================================
