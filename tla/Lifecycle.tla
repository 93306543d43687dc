----------------------------- MODULE Lifecycle -----------------------------
(***************************************************************************)
(* The life of a request in a Mux: the closure makeResponder returns       *)
(* (src/raggett.go), the loading of the handler's argument and the call of *)
(* the handler (loadAndApplyMeta, src/loader.go), the error handlers       *)
(* (src/default_handlers.go) and doRespond/writeResponder                  *)
(* (src/request.go, src/responder.go).                                     *)
(*                                                                         *)
(* Each request is a goroutine of net/http; requests share the Mux's two   *)
(* error handlers.  Application code (the handler, ParseRequest, custom    *)
(* error handlers) may call the Request's methods in any order before it   *)
(* returns or panics.                                                      *)
(***************************************************************************)
EXTENDS Request

CONSTANTS
    Requests,     \* requests the server ever receives
    Statuses,     \* statuses the application passes to SetStatus, WriteHeader
    Responses,    \* kinds of responses the application gives, or "nil"
    Handlers,     \* error handlers it installs: "default", "custom"
    MaxReaders    \* bound on RespondReader calls whose readers are not closed

ASSUME StatusesAssumption   == Statuses \subseteq Int
ASSUME ResponsesAssumption  == Responses \subseteq ResponseKinds \cup {"nil"}
ASSUME HandlersAssumption   == "default" \in Handlers
                               /\ Handlers \subseteq {"default", "custom"}
ASSUME MaxReadersAssumption == MaxReaders \in Nat

VARIABLES
    pc,                     \* where each request's goroutine is
    req,                    \* its *Request
    err,                    \* the error the request met, "none" so far
    resume,                 \* where it goes on after the error handler
    media,                  \* the Content-Type writeResponder/doRespond picked
    readers,                \* io.ReadClosers handed over and not closed
    errorHandler,           \* Mux.errorHandler
    validationErrorHandler  \* Mux.validationErrorHandler

vars == <<pc, req, err, resume, media, readers,
          errorHandler, validationErrorHandler>>
mux  == <<errorHandler, validationErrorHandler>>

\* What application code can fail with: io.ErrUnexpectedEOF, a
\* ValidationError, or anything else.
AppErrors == {"eof", "validation", "runtime"}
\* ... and what Abort and NotFound panic with; "unrouted" is a request the
\* router found no handler for, "handled" any error once a custom error handler
\* was given it.
Errors == AppErrors \cup {"abort", "notfound", "unrouted", "handled"}

Labels == {"idle", "load", "source", "parser", "handler", "error", "custom",
           "page", "pageBody", "respond", "render", "body", "close",
           "finish", "done", "dropped"}

PageTypes    == {"html", "json", "xml", "text"}
GenericTypes == PageTypes \cup {"bytes"}

TypeOK ==
    /\ pc \in [Requests -> Labels]
    /\ req \in [Requests -> RequestRecord]
    /\ err \in [Requests -> Errors \cup {"none"}]
    /\ resume \in [Requests -> {"finish", "respond"}]
    /\ media \in [Requests -> ContentTypes \cup {"none"}]
    /\ readers \in [Requests -> 0 .. MaxReaders]
    /\ errorHandler \in Handlers
    /\ validationErrorHandler \in Handlers

Init ==
    /\ pc = [r \in Requests |-> "idle"]
    /\ req = [r \in Requests |-> newRequest]
    /\ err = [r \in Requests |-> "none"]
    /\ resume = [r \in Requests |-> "finish"]
    /\ media = [r \in Requests |-> "none"]
    /\ readers = [r \in Requests |-> 0]
    /\ errorHandler = "default"
    /\ validationErrorHandler = "default"

At(r, label) == pc[r] = label
Goto(r, label) == pc' = [pc EXCEPT ![r] = label]
Become(r, q) == req' = [req EXCEPT ![r] = q]
Fail(r, e) == err' = [err EXCEPT ![r] = e]

\* A step that only moves r and its Request.
Step(r, q, label) ==
    /\ Become(r, q)
    /\ Goto(r, label)
    /\ UNCHANGED <<err, resume, media, readers, mux>>

\* A step that only moves r: an error, or nil with e = "none".
Leave(r, e, label) ==
    /\ Fail(r, e)
    /\ Goto(r, label)
    /\ UNCHANGED <<req, resume, media, readers, mux>>

-----------------------------------------------------------------------------
(* Receiving, and loading the handler's argument *)

Receive(r) == At(r, "idle") /\ Step(r, newRequest, "load")

\* The default 404 and 405 handlers make a Request of their own.
ReceiveUnrouted(r, status) ==
    /\ At(r, "idle")
    /\ Become(r, SetStatus(newRequest, status))
    /\ Fail(r, "unrouted")
    /\ Goto(r, "page")
    /\ UNCHANGED <<resume, media, readers, mux>>

\* Query, url-param and header fields: every failure is a ValidationError.
\* Setting one that is not exported panics, and nothing recovers here.
LoadFields(r) ==
    /\ At(r, "load")
    /\ \/ Leave(r, "none", "source")
       \/ Leave(r, "validation", "error")
       \/ Leave(r, "none", "dropped")

\* Either a custom parser, or the body field, or form fields, or none.
\* A value the body parser produced that the field cannot hold panics, and
\* nothing recovers here.
LoadSource(r) ==
    /\ At(r, "source")
    /\ \/ Leave(r, "none", "parser")
       \/ Leave(r, "none", "handler")
       \/ Leave(r, "validation", "error")
       \/ Leave(r, "eof", "error")
       \/ Leave(r, "none", "dropped")

\* Faulty variant: the error is swallowed.
FormParseFails_Swallowed(r) == At(r, "source") /\ Leave(r, "runtime", "respond")

\* ParseMultipartForm failed: the error handler is invoked in place and nil
\* returned, so makeResponder goes on to respond.
FormParseFails(r) ==
    /\ At(r, "source")
    /\ Fail(r, "runtime")
    /\ resume' = [resume EXCEPT ![r] = "respond"]
    /\ Goto(r, "error")
    /\ UNCHANGED <<req, media, readers, mux>>

ParserReturns(r) ==
    /\ At(r, "parser")
    /\ \/ Leave(r, "none", "handler")
       \/ \E e \in AppErrors : Leave(r, e, "error")
       \/ Leave(r, "none", "dropped")     \* panics are not recovered

-----------------------------------------------------------------------------
(* Application code *)

InApplication(r) == pc[r] \in {"parser", "handler", "custom"}

Call(r, q) ==
    /\ InApplication(r)
    /\ Become(r, q)
    /\ UNCHANGED <<pc, err, resume, media, readers, mux>>

CallSetStatus(r) == \E s \in Statuses : Call(r, SetStatus(req[r], s))
CallSetContentType(r) == Call(r, SetContentType(req[r]))
CallSetHeader(r) == Call(r, SetHeader(req[r], "header"))
CallAddHeader(r) == Call(r, AddHeader(req[r]))
CallRedirect(r) == Call(r, Redirect(req[r]))

CallRespond(r) ==
    \E kind \in Responses \ {"file"} : Call(r, Respond(req[r], kind))

CallRespondReader(r) ==
    /\ InApplication(r)
    /\ "file" \in Responses
    /\ readers[r] < MaxReaders
    /\ Become(r, Respond(req[r], "file"))
    /\ readers' = [readers EXCEPT ![r] = @ + 1]
    /\ UNCHANGED <<pc, err, resume, media, mux>>

\* The handler's panics are recovered into errors; a non-nil result that is
\* no error makes the conversion of the result panic, outside the recover.
HandlerReturns(r) ==
    /\ At(r, "handler")
    /\ \/ Leave(r, "none", "respond")
       \/ \E e \in AppErrors \cup {"abort", "notfound"} : Leave(r, e, "error")
       \/ Leave(r, "none", "dropped")

-----------------------------------------------------------------------------
(* Error handlers *)

\* Faulty variant: makeResponder does not return after the EOF answer.
badRequestUnexpectedEOF_NoReturn(r) ==
    /\ At(r, "error")
    /\ err[r] = "eof"
    /\ Step(r, writeBody(flushHeaders(SetStatus(req[r], 400)), "eof", "any"),
            "respond")

\* Faulty variant: it waits for a connection whose headers are not out.
badRequestUnexpectedEOF_Waits(r) ==
    /\ At(r, "error")
    /\ err[r] = "eof"
    /\ ~req[r].flushedHeaders
    /\ Step(r, writeBody(flushHeaders(SetStatus(req[r], 400)), "eof", "any"),
            resume[r])

\* badRequestUnexpectedEOF: no look at flushedHeaders.
badRequestUnexpectedEOF(r) ==
    /\ At(r, "error")
    /\ err[r] = "eof"
    /\ Step(r, writeBody(flushHeaders(SetStatus(req[r], 400)), "eof", "any"),
            resume[r])

\* The two default error handlers, up to writeResponder.
defaultErrorHandler(r, status) ==
    IF req[r].flushedHeaders
    THEN Step(r, req[r], resume[r])
    ELSE Step(r, SetStatus(req[r], status), "page")

dispatchValidationError(r) ==
    /\ At(r, "error")
    /\ err[r] = "validation"
    /\ IF validationErrorHandler = "default"
       THEN defaultErrorHandler(r, 400)
       ELSE Leave(r, "handled", "custom")

dispatchError(r) ==
    /\ At(r, "error")
    /\ err[r] \notin {"eof", "validation"}
    /\ IF errorHandler = "default"
       THEN defaultErrorHandler(r, 500)
       ELSE Leave(r, "handled", "custom")

\* writeResponder with one of the four error responses: any of the formats
\* they offer, then the rendering and the Write.  Nothing recovers a panic
\* of these: the connection is dropped.
WritePage(r) ==
    /\ At(r, "page")
    /\ \E type \in PageTypes :
         /\ Become(r, flushHeaders(setContentTypeNoOverride(req[r], type)))
         /\ media' = [media EXCEPT ![r] = type]
    /\ Goto(r, "pageBody")
    /\ UNCHANGED <<err, resume, readers, mux>>

WritePageBody(r) ==
    /\ At(r, "pageBody")
    /\ \/ Step(r, writeBody(req[r], "page", media[r]), resume[r])
       \/ Step(r, req[r], "dropped")

\* A custom error handler is given the http.ResponseWriter itself.
CallWriter(r) ==
    /\ At(r, "custom")
    /\ \E w \in {WriteHeader(req[r].httpResponse, s) : s \in Statuses \cap ValidStatuses}
             \cup {Write(req[r].httpResponse, [by |-> "raw", as |-> "any"])} :
         Step(r, [req[r] EXCEPT !.httpResponse = [w EXCEPT !.raw = TRUE]], "custom")

\* Faulty variant: pending readers are closed when an error was handled.
CustomHandlerReturns_ClosesReaders(r) ==
    /\ At(r, "custom")
    /\ readers' = [readers EXCEPT ![r] = 0]
    /\ Goto(r, resume[r])
    /\ UNCHANGED <<req, err, resume, media, mux>>

CustomHandlerReturns(r) ==
    /\ At(r, "custom")
    /\ Step(r, req[r], resume[r]) \/ Step(r, req[r], "dropped")

-----------------------------------------------------------------------------
(* Responding *)

\* makeResponder's recover around doRespond.
Recovered(q) ==
    IF q.flushedHeaders THEN q ELSE flushHeaders(SetStatus(q, 500))

\* flushHeaders inside doRespond, going on to label unless it panics.
Flush(r, q, label) ==
    IF flushPanics(q)
    THEN Become(r, Recovered(flushHeaders(q))) /\ Goto(r, "finish")
    ELSE Become(r, flushHeaders(q)) /\ Goto(r, label)

Responding(r, kinds) == At(r, "respond") /\ req[r].response \in kinds

Bodiless(q) == q.response = "nil" \/ ~bodyAllowedForStatus(q)

RespondNothing(r) ==
    /\ At(r, "respond")
    /\ Bodiless(req[r])
    /\ Flush(r, req[r], "finish")
    /\ UNCHANGED <<err, resume, media, readers, mux>>

\* Faulty variant: the headers are flushed before the type is set.
RespondAs_FlushFirst(r, type) ==
    /\ ~Bodiless(req[r])
    /\ ~flushPanics(req[r])
    /\ media' = [media EXCEPT ![r] = type]
    /\ Become(r, setContentTypeNoOverride(flushHeaders(req[r]), type))
    /\ Goto(r, "body")
    /\ UNCHANGED <<err, resume, readers, mux>>

\* One of the concrete responses, or a format writeResponder negotiated.
RespondAs(r, type) ==
    /\ ~Bodiless(req[r])
    /\ media' = [media EXCEPT ![r] = type]
    /\ Flush(r, setContentTypeNoOverride(req[r], type), "body")
    /\ UNCHANGED <<err, resume, readers, mux>>

RespondConcrete(r) ==
    Responding(r, Concrete) /\ RespondAs(r, ContentTypeOf(req[r].response))

RespondGeneric(r) ==
    Responding(r, {"generic"}) /\ \E type \in GenericTypes : RespondAs(r, type)

\* No responder interface at all: writeResponder panics.
RespondUnknown(r) ==
    /\ Responding(r, {"unknown"})
    /\ ~Bodiless(req[r])
    /\ Step(r, Recovered(req[r]), "finish")

\* A CustomResponder renders into a buffer before anything is flushed.
RespondCustom(r) ==
    /\ Responding(r, {"custom"})
    /\ ~Bodiless(req[r])
    /\ Become(r, setContentTypeNoOverride(req[r], "custom"))
    /\ media' = [media EXCEPT ![r] = "custom"]
    /\ Goto(r, "render")
    /\ UNCHANGED <<err, resume, readers, mux>>

CustomRendered(r) ==
    /\ At(r, "render")
    /\ Flush(r, setContentTypeNoOverride(req[r], media[r]), "body")
    /\ UNCHANGED <<err, resume, media, readers, mux>>

\* It fails or panics, or it calls Abort, which the recover lets pass.
CustomFails(r) ==
    /\ At(r, "render")
    /\ \/ Step(r, Recovered(req[r]), "finish")
       \/ Step(r, req[r], "finish")

\* Only a completely copied reader is closed.
WriteBody(r) ==
    /\ At(r, "body")
    /\ LET q == writeBody(req[r], "response", media[r])
       IN  Step(r, q, IF q.response = "file" /\ ~q.httpResponse.refused
                      THEN "close" ELSE "finish")

\* Faulty variant: the failure path closes a reader whatever the response is.
WriteBodyFails_Closes(r) ==
    /\ At(r, "body")
    /\ readers' = [readers EXCEPT ![r] = @ - 1]
    /\ Goto(r, "finish")
    /\ UNCHANGED <<req, err, resume, media, mux>>

\* The encoder or the connection fails, before or after a part of the body is
\* out: logged, or panicked and recovered.
WriteBodyFails(r) ==
    /\ At(r, "body")
    /\ \E q \in {req[r], writeBody(req[r], "response", media[r])} :
         Step(r, Recovered(q), "finish")

CloseReader(r) ==
    /\ At(r, "close")
    /\ readers' = [readers EXCEPT ![r] = @ - 1]
    /\ Goto(r, "finish")
    /\ UNCHANGED <<req, err, resume, media, mux>>

Finish(r) ==
    /\ At(r, "finish")
    /\ Step(r, [req[r] EXCEPT !.httpResponse = EndOfHandler(@)], "done")

-----------------------------------------------------------------------------
(* Configuring the Mux, at any time *)

HandleError ==
    /\ \E h \in Handlers : errorHandler' = h
    /\ UNCHANGED <<pc, req, err, resume, media, readers, validationErrorHandler>>

HandleValidationError ==
    /\ \E h \in Handlers : validationErrorHandler' = h
    /\ UNCHANGED <<pc, req, err, resume, media, readers, errorHandler>>

-----------------------------------------------------------------------------
CallRequest(r) ==
    \/ CallSetStatus(r) \/ CallSetContentType(r) \/ CallSetHeader(r)
    \/ CallAddHeader(r) \/ CallRedirect(r) \/ CallRespond(r) \/ CallRespondReader(r)
    \/ CallWriter(r)

Load(r) ==
    \/ LoadFields(r) \/ LoadSource(r) \/ FormParseFails(r)
    \/ ParserReturns(r) \/ HandlerReturns(r)

HandleFailure(r) ==
    \/ badRequestUnexpectedEOF(r) \/ dispatchValidationError(r)
    \/ dispatchError(r) \/ WritePage(r) \/ WritePageBody(r)
    \/ CustomHandlerReturns(r)

doRespond(r) ==
    \/ RespondNothing(r) \/ RespondConcrete(r) \/ RespondGeneric(r)
    \/ RespondUnknown(r) \/ RespondCustom(r) \/ CustomRendered(r)
    \/ CustomFails(r) \/ WriteBody(r) \/ WriteBodyFails(r) \/ CloseReader(r)

Advance(r) == Load(r) \/ HandleFailure(r) \/ doRespond(r) \/ Finish(r)

Next ==
    \/ \E r \in Requests :
         \/ Receive(r)
         \/ \E status \in {404, 405} : ReceiveUnrouted(r, status)
         \/ CallRequest(r)
         \/ Advance(r)
    \/ HandleError
    \/ HandleValidationError

\* The goroutine of a request keeps running, and application code returns.
Fairness == \A r \in Requests : WF_vars(Advance(r))

Spec == Init /\ [][Next]_vars /\ Fairness

-----------------------------------------------------------------------------
(* What makes it correct *)

Answer(r) == req[r].httpResponse
Raw(r) == Answer(r).raw

\* The status the client got, the one in the access log and the one the
\* Request believes it sent are the same, whatever was called after the
\* headers were flushed (SetStatus, doRespond, flushHeaders again).
StatusAgreement ==
    \A r \in Requests :
        req[r].flushedHeaders /\ ~Raw(r) =>
            /\ Answer(r).status = statusForRequest(req[r])
            /\ Answer(r).status = Answer(r).proxy

\* No path through doRespond, the error pages or the EOF answer ever writes
\* a body under a status that forbids one (bodyAllowedForStatus).
NoForbiddenBody ==
    \A r \in Requests : ~Raw(r) => ~Answer(r).refused

\* A Content-Type chosen by the application before the headers went out is
\* the one sent: neither inference nor negotiation replaces it.
ContentTypeNotOverridden ==
    \A r \in Requests :
        req[r].flushedHeaders /\ req[r].setContentType /\ ~Raw(r)
            => Answer(r).sent \in {"app", "header"}

\* Without SetContentType the Content-Type sent names the format the body
\* was then written in.  An answer to Redirect is already out (307).
ContentTypeDescribesBody ==
    \A r \in Requests : \A chunk \in Answer(r).body :
        \/ chunk.as = "any" \/ req[r].setContentType
        \/ Raw(r) \/ Answer(r).status = 307
        \/ Answer(r).sent = chunk.as

\* An error page is never followed, or preceded, by the handler's response,
\* nor the EOF answer by either: one author per body.
OneAuthor ==
    \A r \in Requests : \A c, d \in Answer(r).body :
        "raw" \in {c.by, d.by} \/ c.by = d.by

\* The reader doRespond is about to copy or to close is still open: it is
\* never closed before it was copied, nor twice.
ReaderStillOpen ==
    \A r \in Requests :
        pc[r] \in {"respond", "body", "close"} /\ req[r].response = "file"
            => readers[r] > 0

\* Every request is answered or dropped, whichever errors it meets and
\* however its handlers are switched meanwhile.
EveryRequestEnds ==
    \A r \in Requests : pc[r] # "idle" ~> pc[r] \in {"done", "dropped"}

-----------------------------------------------------------------------------
(* The exchange the client sees *)

stage ==
    [r \in Requests |->
        CASE pc[r] = "idle"    -> "idle"
          [] pc[r] = "done"    -> "closed"
          [] pc[r] = "dropped" -> "dropped"
          [] OTHER             -> "open"]

Judged == {"respond", "render", "body", "close", "finish", "done"}

verdict ==
    [r \in Requests |->
        IF pc[r] = "error" /\ err[r] # "eof" THEN "none"
        ELSE CASE err[r] \in {"eof", "validation"}               -> "bad"
               [] err[r] \in {"runtime", "abort"}                -> "broken"
               [] err[r] \in {"notfound", "unrouted", "handled"} -> err[r]
               [] err[r] = "none" /\ pc[r] \in Judged            -> "ok"
               [] OTHER                                          -> "none"]

answer == [r \in Requests |-> Answer(r).status]

E == INSTANCE Exchange

\* However the error handlers are switched, every step of a request is one of
\* the abstract exchange, or none of the client's business: one status, never
\* replaced, and, where the default error handlers answer, 400 for bad
\* requests and 500 for failures, unless Redirect answered first.  Whether
\* NotFound's should be 404 is left open.
ImplementsExchange == E!Spec
=============================================================================
