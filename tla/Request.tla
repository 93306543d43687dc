------------------------------ MODULE Request ------------------------------
(***************************************************************************)
(* raggett.Request (src/request.go): the response-building methods, each   *)
(* as an operator from a request record to the updated one.                *)
(***************************************************************************)
EXTENDS ResponseWriter

\* What Request.response may hold: nil, one of the five concrete responses
\* of doRespond's type switch, or a value handed to Respond that implements
\* responder interfaces, a CustomResponder, or none of them.
Concrete     == {"json", "xml", "file", "string", "bytes"}
ResponseKinds == Concrete \cup {"generic", "custom", "unknown"}

RequestRecord == [responseStatus : Int,
                  statusSet      : BOOLEAN,
                  response       : ResponseKinds \cup {"nil"},
                  setContentType : BOOLEAN,
                  flushedHeaders : BOOLEAN,
                  httpResponse   : Writer]

newRequest == [responseStatus |-> 200,   statusSet      |-> FALSE,
               response       |-> "nil", setContentType |-> FALSE,
               flushedHeaders |-> FALSE, httpResponse   |-> NewWriter]

statusForRequest(q) ==
    IF q.statusSet THEN q.responseStatus
    ELSE IF q.response = "nil" THEN 204 ELSE 200

\* Faulty variant: 204 forgotten.
bodyAllowedForStatus_Forgets204(q) ==
    statusForRequest(q) \notin BodilessStatuses \ {204}

bodyAllowedForStatus(q) == statusForRequest(q) \notin BodilessStatuses

\* Faulty variant: flushedHeaders is not looked at.
SetStatus_AfterFlush(q, status) ==
    [q EXCEPT !.responseStatus = status, !.statusSet = TRUE]

\* The setters only log a warning once the headers are out.
SetStatus(q, status) ==
    IF q.flushedHeaders THEN q
    ELSE [q EXCEPT !.responseStatus = status, !.statusSet = TRUE]

\* SetHeader("Content-Type", ...); other headers are not tracked.
SetHeader(q, value) ==
    IF q.flushedHeaders THEN q
    ELSE [q EXCEPT !.httpResponse.type = value]

\* AddHeader("Content-Type", ...): a value already there stays the first, the
\* one that counts.  A cookie is a header this does not track.
AddHeader(q) ==
    IF q.flushedHeaders \/ q.httpResponse.type # "" THEN q
    ELSE SetHeader(q, "header")

SetContentType(q) ==
    IF q.flushedHeaders THEN q
    ELSE [SetHeader(q, "app") EXCEPT !.setContentType = TRUE]

\* Faulty variant: inference wins.
setContentTypeNoOverride_Overrides(q, type) ==
    [q EXCEPT !.httpResponse.type = type]

\* Unlike the setters it does not look at flushedHeaders.
setContentTypeNoOverride(q, type) ==
    IF q.setContentType THEN q
    ELSE [q EXCEPT !.httpResponse.type = type]

\* Respond and RespondJSON, XML, Reader, String, Bytes.
Respond(q, kind) == [q EXCEPT !.response = kind]

flushPanics(q) == WriteHeaderPanics(q.httpResponse, statusForRequest(q))

\* flushedHeaders is assigned after WriteHeader, so not when that panics.
flushHeaders(q) ==
    [q EXCEPT !.httpResponse   = WriteHeader(@, statusForRequest(q)),
              !.flushedHeaders = @ \/ ~flushPanics(q)]

\* The Location header is not tracked.
Redirect(q) == flushHeaders(SetStatus(q, 307))

\* A Write to r.httpResponse.
writeBody(q, by, as) ==
    [q EXCEPT !.httpResponse = Write(@, [by |-> by, as |-> as])]

\* doRespond: the Content-Type each concrete response infers.
ContentTypeOf(response) ==
    CASE response = "json"   -> "json"
      [] response = "xml"    -> "xml"
      [] response = "string" -> "text"
      [] OTHER               -> "bytes"
=============================================================================
