-------------------------- MODULE LifecycleProofs --------------------------
(***************************************************************************)
(* Theorems about Lifecycle for any set of requests, statuses, responses   *)
(* and error handlers.                                                     *)
(*                                                                         *)
(* IInv is inductive.  StatusAgreement alone is not: a Respond after the   *)
(* headers are out would change the status the Request believes in if none *)
(* was set explicitly.  What excludes it is where that can be: headers     *)
(* flushed without an explicit status were flushed by doRespond, after all *)
(* application code (Implicit).                                            *)
(***************************************************************************)
EXTENDS Lifecycle, TLAPS

\* Labels from which no application code runs any more.
Past == {"body", "close", "finish", "done"}

\* What a request at label l knows of its Request q.
Flushed(q)  == q.flushedHeaders = TRUE
Explicit(q) == q.statusSet = TRUE

Agreement(q) ==
    Flushed(q) =>
        /\ Committed(q.httpResponse)
        /\ ~q.httpResponse.raw =>
              /\ q.httpResponse.status = statusForRequest(q)
              /\ q.httpResponse.status = q.httpResponse.proxy

\* Before the headers are out nothing is committed, unless by a custom
\* error handler.
Unsent(q) == Flushed(q) \/ q.httpResponse.raw \/ ~Committed(q.httpResponse)

Implicit(l, q) == Flushed(q) /\ ~Explicit(q) => l \in Past

Position(l, q) ==
    /\ l \in {"body", "close", "pageBody"} => Flushed(q)
    /\ l = "page" => Explicit(q) /\ q.responseStatus \in ValidStatuses

\* The reader is open until it is closed, the media type chosen when used.
Resources(l, q, m, n) ==
    /\ l \in {"pageBody", "render", "body"} => m # "none"
    /\ l = "close" => q.response = "file"
    /\ q.response = "file" /\ l \notin {"finish", "done", "dropped"} => n > 0

Good(l, q, m, n) ==
    /\ Agreement(q)
    /\ l # "done" => Unsent(q)
    /\ Implicit(l, q)
    /\ Position(l, q)
    /\ Resources(l, q, m, n)

IInv ==
    /\ TypeOK
    /\ \A r \in Requests : Good(pc[r], req[r], media[r], readers[r])

-----------------------------------------------------------------------------
(* The operators of ResponseWriter and Request *)

LEMMA CommitType ==
    ASSUME NEW w \in Writer, NEW s \in Nat
    PROVE  Commit(w, s) \in Writer
BY DEF Writer, Commit

LEMMA WriteHeaderType ==
    ASSUME NEW w \in Writer, NEW s \in Int
    PROVE  WriteHeader(w, s) \in Writer
<1> DEFINE logged == [w EXCEPT !.proxy = s]
<1>1. logged \in Writer
  BY DEF Writer
<1>2. CASE Committed(w) \/ WriteHeaderPanics(w, s)
  <2>1. WriteHeader(w, s) = logged
    BY <1>2 DEF WriteHeader
  <2> QED
    BY <1>1, <2>1
<1>3. CASE ~(Committed(w) \/ WriteHeaderPanics(w, s))
  <2>1. WriteHeader(w, s) = Commit(logged, s)
    BY <1>3 DEF WriteHeader
  <2>2. s \in Nat
    BY <1>3 DEF WriteHeaderPanics, ValidStatuses
  <2> QED
    BY <1>1, <2>1, <2>2, CommitType
<1> QED
  BY <1>2, <1>3

LEMMA WriteType ==
    ASSUME NEW w \in Writer, NEW c \in Chunks
    PROVE  Write(w, c) \in Writer
<1> DEFINE committed == IF Committed(w) THEN w ELSE Commit(w, 200)
<1>1. committed \in Writer
  BY CommitType
<1>2. Write(w, c) \in {[committed EXCEPT !.refused = TRUE],
                       [committed EXCEPT !.body = @ \cup {c}]}
  BY DEF Write
<1>3. [committed EXCEPT !.refused = TRUE] \in Writer
  BY <1>1 DEF Writer
<1>4. [committed EXCEPT !.body = @ \cup {c}] \in Writer
  BY <1>1 DEF Writer
<1> QED
  BY <1>2, <1>3, <1>4

LEMMA StatusForRequestType ==
    ASSUME NEW q \in RequestRecord
    PROVE  statusForRequest(q) \in Int
BY DEF RequestRecord, statusForRequest

LEMMA NewRequestType == newRequest \in RequestRecord
BY DEF newRequest, RequestRecord, NewWriter, Writer, HeaderValues

LEMMA SetStatusType ==
    ASSUME NEW q \in RequestRecord, NEW s \in Int
    PROVE  SetStatus(q, s) \in RequestRecord
BY DEF SetStatus, RequestRecord

LEMMA FlushType ==
    ASSUME NEW q \in RequestRecord
    PROVE  flushHeaders(q) \in RequestRecord
<1> DEFINE w == WriteHeader(q.httpResponse, statusForRequest(q))
<1> DEFINE f == q.flushedHeaders \/ ~flushPanics(q)
<1>1. w \in Writer
  BY WriteHeaderType, StatusForRequestType DEF RequestRecord
<1>2. f \in BOOLEAN
  OBVIOUS
<1>3. flushHeaders(q) = [q EXCEPT !.httpResponse = w, !.flushedHeaders = f]
  BY DEF flushHeaders
<1> HIDE DEF w, f
<1> QED
  BY <1>1, <1>2, <1>3 DEF RequestRecord

LEMMA ContentTypeType ==
    ASSUME NEW q \in RequestRecord, NEW type \in HeaderValues
    PROVE  /\ SetHeader(q, type) \in RequestRecord
           /\ SetContentType(q) \in RequestRecord
           /\ setContentTypeNoOverride(q, type) \in RequestRecord
BY DEF SetHeader, SetContentType, setContentTypeNoOverride, RequestRecord,
       Writer, HeaderValues

LEMMA RespondType ==
    ASSUME NEW q \in RequestRecord, NEW kind \in ResponseKinds \cup {"nil"}
    PROVE  Respond(q, kind) \in RequestRecord
BY DEF Respond, RequestRecord

LEMMA WriteBodyType ==
    ASSUME NEW q \in RequestRecord, NEW by \in Writers,
           NEW as \in ContentTypes \cup {"any"}
    PROVE  writeBody(q, by, as) \in RequestRecord
<1>1. [by |-> by, as |-> as] \in Chunks
  BY DEF Chunks
<1> QED
  BY <1>1, WriteType DEF writeBody, RequestRecord

LEMMA RecoveredType ==
    ASSUME NEW q \in RequestRecord
    PROVE  Recovered(q) \in RequestRecord
BY SetStatusType, FlushType DEF Recovered

-----------------------------------------------------------------------------
(* What the operators do to the status *)

SameResponse(p, q) == p.response = q.response

\* Requests the invariant cannot tell apart.
Alike(p, q) ==
    /\ p.flushedHeaders = q.flushedHeaders
    /\ p.statusSet = q.statusSet
    /\ p.response = q.response
    /\ p.responseStatus = q.responseStatus
    /\ p.httpResponse.status = q.httpResponse.status
    /\ p.httpResponse.proxy = q.httpResponse.proxy
    /\ p.httpResponse.raw = q.httpResponse.raw

LEMMA AlikeRefl ==
    ASSUME NEW q
    PROVE  Alike(q, q)
BY DEF Alike

LEMMA AlikeGood ==
    ASSUME NEW l, NEW m, NEW n, NEW p, NEW q, Alike(p, q), Good(l, q, m, n)
    PROVE  Good(l, p, m, n)
BY DEF Alike, Good, Agreement, Unsent, Implicit, Position, Resources,
       Flushed, Explicit, Committed, statusForRequest

LEMMA AlikeUnsent ==
    ASSUME NEW p, NEW q, Alike(p, q)
    PROVE  /\ Agreement(q) => Agreement(p)
           /\ Unsent(q) => Unsent(p)
           /\ flushPanics(p) = flushPanics(q)
           /\ SameResponse(p, q)
           /\ Explicit(q) => Explicit(p)
BY DEF Alike, Agreement, Unsent, Flushed, Explicit, Committed, SameResponse,
       statusForRequest, flushPanics, WriteHeaderPanics

\* Naming a type and writing under committed headers leave the status alone.
LEMMA ContentTypeAlike ==
    ASSUME NEW q \in RequestRecord, NEW type \in HeaderValues
    PROVE  /\ Alike(SetHeader(q, type), q)
           /\ Alike(SetContentType(q), q)
           /\ Alike(setContentTypeNoOverride(q, type), q)
BY DEF Alike, SetHeader, SetContentType, setContentTypeNoOverride,
       RequestRecord, Writer

LEMMA WriteBodyAlike ==
    ASSUME NEW q \in RequestRecord, NEW by \in Writers,
           NEW as \in ContentTypes \cup {"any"}, Agreement(q), Flushed(q)
    PROVE  Alike(writeBody(q, by, as), q)
<1>1. Committed(q.httpResponse)
  BY DEF Agreement
<1> QED
  BY <1>1 DEF Alike, writeBody, Write, RequestRecord, Writer

\* After a flush the three statuses agree, whoever flushed before.
LEMMA FlushAgrees ==
    ASSUME NEW q \in RequestRecord, ~flushPanics(q), Agreement(q), Unsent(q)
    PROVE  /\ flushHeaders(q) \in RequestRecord
           /\ Agreement(flushHeaders(q))
           /\ Flushed(flushHeaders(q))
           /\ Explicit(q) => Explicit(flushHeaders(q))
           /\ SameResponse(flushHeaders(q), q)
<1> DEFINE s == statusForRequest(q)
<1> DEFINE w == WriteHeader(q.httpResponse, s)
<1> DEFINE g == flushHeaders(q)
<1>0. s \in Int /\ q.httpResponse \in Writer
  BY StatusForRequestType DEF RequestRecord
<1>1. g = [q EXCEPT !.httpResponse = w, !.flushedHeaders = TRUE]
  BY DEF flushHeaders, RequestRecord
<1>2. /\ g.httpResponse = w /\ g.flushedHeaders = TRUE
      /\ g.statusSet = q.statusSet /\ g.response = q.response
      /\ g.responseStatus = q.responseStatus
  BY <1>1 DEF RequestRecord
<1>3. statusForRequest(g) = s
  BY <1>2 DEF statusForRequest
<1>4. /\ w.proxy = s /\ w.raw = q.httpResponse.raw
      /\ w.status = IF Committed(q.httpResponse) THEN q.httpResponse.status ELSE s
  BY <1>0 DEF WriteHeader, Commit, Committed, Writer, flushPanics
<1>5. ~Committed(q.httpResponse) => s # 0
  BY DEF flushPanics, WriteHeaderPanics, ValidStatuses
<1>6. Agreement(g)
  BY <1>2, <1>3, <1>4, <1>5 DEF Agreement, Unsent, Flushed, Committed
<1>7. g \in RequestRecord
  BY FlushType
<1> QED
  BY <1>2, <1>6, <1>7 DEF Flushed, Explicit, SameResponse

\* Setting a status keeps what was agreed; it takes effect only before.
LEMMA SetStatusAgrees ==
    ASSUME NEW q \in RequestRecord, NEW s \in Int, Agreement(q), Unsent(q)
    PROVE  /\ SetStatus(q, s) \in RequestRecord
           /\ Agreement(SetStatus(q, s))
           /\ Unsent(SetStatus(q, s))
           /\ SameResponse(SetStatus(q, s), q)
           /\ Explicit(q) => Explicit(SetStatus(q, s))
           /\ Flushed(SetStatus(q, s)) <=> Flushed(q)
           /\ Flushed(q) => SetStatus(q, s) = q
           /\ ~Flushed(q) => /\ Explicit(SetStatus(q, s))
                             /\ SetStatus(q, s).responseStatus = s
                             /\ statusForRequest(SetStatus(q, s)) = s
BY DEF SetStatus, Agreement, Unsent, SameResponse, Flushed, Explicit,
       RequestRecord, statusForRequest

\* SetStatus of a valid status and a flush, as Redirect, the EOF answer and
\* the recover do: it never panics.
LEMMA SetAndFlush ==
    ASSUME NEW q \in RequestRecord, NEW s \in ValidStatuses, Agreement(q), Unsent(q)
    PROVE  /\ flushHeaders(SetStatus(q, s)) \in RequestRecord
           /\ Agreement(flushHeaders(SetStatus(q, s)))
           /\ Flushed(flushHeaders(SetStatus(q, s)))
           /\ SameResponse(flushHeaders(SetStatus(q, s)), q)
           /\ (Flushed(q) => Explicit(q)) => Explicit(flushHeaders(SetStatus(q, s)))
<1> DEFINE p == SetStatus(q, s)
<1>1. /\ p \in RequestRecord
      /\ Agreement(p)
      /\ Unsent(p)
      /\ SameResponse(p, q)
      /\ (Flushed(q) => Explicit(q)) => Explicit(p)
  BY SetStatusAgrees DEF ValidStatuses
<1>2. ~flushPanics(p)
  <2>1. CASE Flushed(q)
    <3>1. p = q /\ Committed(q.httpResponse)
      BY <2>1, SetStatusAgrees DEF Agreement, ValidStatuses
    <3> QED
      BY <3>1 DEF flushPanics, WriteHeaderPanics
  <2>2. CASE ~Flushed(q)
    <3>1. statusForRequest(p) = s
      BY <2>2, SetStatusAgrees DEF ValidStatuses
    <3> QED
      BY <3>1 DEF flushPanics, WriteHeaderPanics
  <2> QED
    BY <2>1, <2>2
<1> HIDE DEF p
<1>3. /\ flushHeaders(p) \in RequestRecord
      /\ Agreement(flushHeaders(p))
      /\ Flushed(flushHeaders(p))
      /\ Explicit(p) => Explicit(flushHeaders(p))
      /\ SameResponse(flushHeaders(p), p)
  BY <1>1, <1>2, FlushAgrees
<1>4. SameResponse(flushHeaders(p), q)
  BY <1>1, <1>3 DEF SameResponse
<1> QED
  BY <1>1, <1>3, <1>4 DEF p

\* What the recover leaves: headers that are out, and agreement.
LEMMA RecoveredAgrees ==
    ASSUME NEW q \in RequestRecord, Agreement(q), Unsent(q)
    PROVE  /\ Recovered(q) \in RequestRecord
           /\ Agreement(Recovered(q))
           /\ Flushed(Recovered(q))
           /\ SameResponse(Recovered(q), q)
<1>1. CASE Flushed(q)
  <2>1. Recovered(q) = q
    BY <1>1 DEF Recovered, Flushed
  <2> QED
    BY <1>1, <2>1 DEF SameResponse
<1>2. CASE ~Flushed(q)
  <2>1. PICK s \in ValidStatuses : s = 500
    BY DEF ValidStatuses
  <2>2. Recovered(q) = flushHeaders(SetStatus(q, s))
    BY <1>2, <2>1 DEF Recovered, Flushed, RequestRecord
  <2> QED
    BY <2>2, SetAndFlush
<1> QED
  BY <1>1, <1>2

\* A flush that panics and is recovered ends in a 500 all agree on.
LEMMA PanicRecovered ==
    ASSUME NEW q \in RequestRecord, flushPanics(q), Agreement(q)
    PROVE  /\ Recovered(flushHeaders(q)) \in RequestRecord
           /\ Agreement(Recovered(flushHeaders(q)))
           /\ Flushed(Recovered(flushHeaders(q)))
           /\ SameResponse(Recovered(flushHeaders(q)), q)
<1> DEFINE p == flushHeaders(q)
<1>1. ~Committed(q.httpResponse) /\ ~Flushed(q)
  BY DEF flushPanics, WriteHeaderPanics, Agreement
<1>2. p \in RequestRecord
  BY FlushType
<1>3. p.httpResponse = [q.httpResponse EXCEPT !.proxy = statusForRequest(q)]
  BY DEF flushHeaders, flushPanics, WriteHeader, RequestRecord
<1>4. ~Flushed(p) /\ SameResponse(p, q) /\ ~Committed(p.httpResponse)
  BY <1>1, <1>3 DEF flushHeaders, RequestRecord, Committed, Writer, Flushed,
                    SameResponse
<1>5. Agreement(p) /\ Unsent(p)
  BY <1>4 DEF Agreement, Unsent
<1> HIDE DEF p
<1>6. /\ Recovered(p) \in RequestRecord
      /\ Agreement(Recovered(p))
      /\ Flushed(Recovered(p))
      /\ SameResponse(Recovered(p), p)
  BY <1>2, <1>5, RecoveredAgrees
<1>7. SameResponse(Recovered(p), q)
  BY <1>4, <1>6 DEF SameResponse
<1> QED
  BY <1>6, <1>7 DEF p

-----------------------------------------------------------------------------
(* Steps of one request *)

\* An action that gives r a good label, Request, media type and number of
\* readers, and leaves the other requests alone, preserves the invariant.
LEMMA Frame ==
    ASSUME IInv, NEW r \in Requests, NEW l \in Labels, NEW q \in RequestRecord,
           NEW m \in ContentTypes \cup {"none"}, NEW n \in 0 .. MaxReaders,
           pc' = [pc EXCEPT ![r] = l], req' = [req EXCEPT ![r] = q],
           media' = [media EXCEPT ![r] = m], readers' = [readers EXCEPT ![r] = n],
           err' \in [Requests -> Errors \cup {"none"}],
           resume' \in [Requests -> {"finish", "respond"}],
           errorHandler' \in Handlers, validationErrorHandler' \in Handlers,
           Good(l, q, m, n)
    PROVE  IInv'
<1>1. TypeOK'
  BY DEF IInv, TypeOK
<1>2. ASSUME NEW s \in Requests
      PROVE  Good(pc'[s], req'[s], media'[s], readers'[s])
  <2>1. CASE s = r
    <3>1. pc'[s] = l /\ req'[s] = q /\ media'[s] = m /\ readers'[s] = n
      BY <2>1 DEF IInv, TypeOK
    <3> QED
      BY <3>1
  <2>2. CASE s # r
    <3>1. /\ pc'[s] = pc[s] /\ req'[s] = req[s]
          /\ media'[s] = media[s] /\ readers'[s] = readers[s]
      BY <2>2 DEF IInv, TypeOK
    <3>2. Good(pc[s], req[s], media[s], readers[s])
      BY DEF IInv
    <3> QED
      BY <3>1, <3>2
  <2> QED
    BY <2>1, <2>2
<1>3. (\A s \in Requests : Good(pc[s], req[s], media[s], readers[s]))'
  BY <1>2
<1> QED
  BY <1>1, <1>3 DEF IInv

LEMMA StepFrame ==
    ASSUME IInv, NEW r \in Requests, NEW q \in RequestRecord, NEW l \in Labels,
           Step(r, q, l), Good(l, q, media[r], readers[r])
    PROVE  IInv'
<1>1. /\ media' = [media EXCEPT ![r] = media[r]]
      /\ readers' = [readers EXCEPT ![r] = readers[r]]
      /\ media[r] \in ContentTypes \cup {"none"}
      /\ readers[r] \in 0 .. MaxReaders
      /\ err' \in [Requests -> Errors \cup {"none"}]
      /\ resume' \in [Requests -> {"finish", "respond"}]
      /\ errorHandler' \in Handlers /\ validationErrorHandler' \in Handlers
  BY DEF IInv, TypeOK, Step, mux
<1>2. pc' = [pc EXCEPT ![r] = l] /\ req' = [req EXCEPT ![r] = q]
  BY DEF Step, Goto, Become
<1> QED
  BY <1>1, <1>2, Frame

LEMMA LeaveFrame ==
    ASSUME IInv, NEW r \in Requests, NEW e \in Errors \cup {"none"},
           NEW l \in Labels, Leave(r, e, l),
           Good(l, req[r], media[r], readers[r])
    PROVE  IInv'
<1>1. /\ media' = [media EXCEPT ![r] = media[r]]
      /\ readers' = [readers EXCEPT ![r] = readers[r]]
      /\ req' = [req EXCEPT ![r] = req[r]]
      /\ req[r] \in RequestRecord
      /\ media[r] \in ContentTypes \cup {"none"}
      /\ readers[r] \in 0 .. MaxReaders
      /\ err' \in [Requests -> Errors \cup {"none"}]
      /\ resume' \in [Requests -> {"finish", "respond"}]
      /\ errorHandler' \in Handlers /\ validationErrorHandler' \in Handlers
  BY DEF IInv, TypeOK, Leave, Fail, mux
<1>2. pc' = [pc EXCEPT ![r] = l]
  BY DEF Leave, Goto
<1> QED
  BY <1>1, <1>2, Frame

\* Labels at which nothing about the answer is known yet, and those a
\* request reaches from them without touching its Request.
Neutral == {"load", "source", "parser", "handler", "error", "custom", "respond"}

LEMMA Onward ==
    ASSUME NEW l \in Neutral \cup {"pageBody", "render"},
           NEW k \in Neutral \cup {"finish", "dropped"},
           l = "render" => k = "finish",
           NEW q, NEW m, NEW n, Good(l, q, m, n)
    PROVE  Good(k, q, m, n)
BY DEF Good, Implicit, Position, Resources, Neutral, Past

-----------------------------------------------------------------------------
(* What a good label says of its Request *)

LEMMA GoodNow ==
    ASSUME IInv, NEW r \in Requests
    PROVE  /\ pc[r] \in Labels /\ req[r] \in RequestRecord
           /\ media[r] \in ContentTypes \cup {"none"}
           /\ readers[r] \in 0 .. MaxReaders
           /\ resume[r] \in {"finish", "respond"}
           /\ err[r] \in Errors \cup {"none"}
           /\ Good(pc[r], req[r], media[r], readers[r])
BY DEF IInv, TypeOK

\* A Request just flushed is good wherever no application code runs any
\* more, and, when its status was set, anywhere its page is not awaited.
LEMMA FlushedGood ==
    ASSUME NEW l, NEW q, NEW m, NEW n, Agreement(q), Flushed(q),
           l # "page", Explicit(q) \/ l \in Past, Resources(l, q, m, n)
    PROVE  Good(l, q, m, n)
BY DEF Good, Unsent, Implicit, Position

\* At a neutral label flushed headers were given an explicit status.
LEMMA NeutralExplicit ==
    ASSUME NEW l \in Neutral, NEW q, NEW m, NEW n, Good(l, q, m, n), Flushed(q)
    PROVE  Explicit(q)
BY DEF Good, Implicit, Neutral, Past

LEMMA SameResources ==
    ASSUME NEW l, NEW p, NEW q, NEW m, NEW n, SameResponse(p, q),
           Resources(l, q, m, n)
    PROVE  Resources(l, p, m, n)
BY DEF Resources, SameResponse

LEMMA MovesPreserve ==
    ASSUME IInv, NEW r \in Requests, pc[r] \in Neutral \cup {"pageBody"},
           NEW k \in Neutral \cup {"finish", "dropped"},
           \/ Step(r, req[r], k)
           \/ \E e \in Errors \cup {"none"} : Leave(r, e, k)
    PROVE  IInv'
<1>1. Good(k, req[r], media[r], readers[r])
  <2>1. pc[r] # "render"
    BY DEF Neutral
  <2> QED
    BY <2>1, GoodNow, Onward
<1>2. k \in Labels
  BY DEF Labels, Neutral
<1>3. CASE Step(r, req[r], k)
  BY <1>1, <1>2, <1>3, GoodNow, StepFrame
<1>4. CASE \E e \in Errors \cup {"none"} : Leave(r, e, k)
  BY <1>1, <1>2, <1>4, LeaveFrame
<1> QED
  BY <1>3, <1>4

-----------------------------------------------------------------------------
(* One lemma per group of actions: each preserves the invariant *)

LEMMA ReceivePreserves ==
    ASSUME IInv, NEW r \in Requests,
           Receive(r) \/ \E s \in {404, 405} : ReceiveUnrouted(r, s)
    PROVE  IInv'
<1> DEFINE m == media[r]
<1> DEFINE n == readers[r]
<1>1. /\ newRequest \in RequestRecord
      /\ Agreement(newRequest) /\ Unsent(newRequest)
      /\ newRequest.response = "nil" /\ ~Flushed(newRequest)
  BY NewRequestType
     DEF newRequest, NewWriter, Agreement, Unsent, Flushed, Committed
<1>2. CASE Receive(r)
  <2>1. Good("load", newRequest, m, n)
    BY <1>1 DEF Good, Implicit, Position, Resources
  <2>2. Step(r, newRequest, "load") /\ "load" \in Labels
    BY <1>2 DEF Receive, Labels
  <2> QED
    BY <1>1, <2>1, <2>2, StepFrame
<1>3. ASSUME NEW s \in {404, 405}, ReceiveUnrouted(r, s)
      PROVE  IInv'
  <2> DEFINE q == SetStatus(newRequest, s)
  <2>1. s \in ValidStatuses /\ s \in Int
    BY DEF ValidStatuses
  <2>2. /\ q \in RequestRecord /\ Agreement(q) /\ Unsent(q)
        /\ SameResponse(q, newRequest) /\ Explicit(q) /\ ~Flushed(q)
        /\ q.responseStatus = s
    BY <1>1, <2>1, SetStatusAgrees
  <2> HIDE DEF q
  <2>3. Good("page", q, m, n)
    BY <1>1, <2>1, <2>2 DEF Good, Implicit, Position, Resources, SameResponse
  <2>4. /\ pc' = [pc EXCEPT ![r] = "page"] /\ req' = [req EXCEPT ![r] = q]
        /\ media' = [media EXCEPT ![r] = m]
        /\ readers' = [readers EXCEPT ![r] = n]
        /\ err' \in [Requests -> Errors \cup {"none"}]
        /\ resume' \in [Requests -> {"finish", "respond"}]
        /\ errorHandler' \in Handlers /\ validationErrorHandler' \in Handlers
    BY <1>3 DEF ReceiveUnrouted, Become, Fail, Goto, mux, IInv, TypeOK,
                Errors, q
  <2>5. "page" \in Labels
    BY DEF Labels
  <2>6. m \in ContentTypes \cup {"none"} /\ n \in 0 .. MaxReaders
    BY GoodNow
  <2> HIDE DEF m, n
  <2> QED
    BY <2>2, <2>3, <2>4, <2>5, <2>6, Frame
<1> QED
  BY <1>2, <1>3

LEMMA LoadPreserves ==
    ASSUME IInv, NEW r \in Requests,
           LoadFields(r) \/ LoadSource(r) \/ ParserReturns(r) \/ HandlerReturns(r)
    PROVE  IInv'
<1>1. pc[r] \in Neutral
  BY DEF LoadFields, LoadSource, ParserReturns, HandlerReturns, At, Neutral
<1>2. \E k \in Neutral \cup {"finish", "dropped"}, e \in Errors \cup {"none"} :
          Leave(r, e, k)
  BY DEF LoadFields, LoadSource, ParserReturns, HandlerReturns, Neutral,
         Errors, AppErrors
<1> QED
  BY <1>1, <1>2, MovesPreserve

LEMMA FormParseFailsPreserves ==
    ASSUME IInv, NEW r \in Requests, FormParseFails(r)
    PROVE  IInv'
<1>1. Good("error", req[r], media[r], readers[r])
  <2>1. pc[r] = "source"
    BY DEF FormParseFails, At
  <2> QED
    BY <2>1, GoodNow, Onward DEF Neutral
<1>2. /\ pc' = [pc EXCEPT ![r] = "error"]
      /\ req' = [req EXCEPT ![r] = req[r]]
      /\ media' = [media EXCEPT ![r] = media[r]]
      /\ readers' = [readers EXCEPT ![r] = readers[r]]
      /\ err' \in [Requests -> Errors \cup {"none"}]
      /\ resume' \in [Requests -> {"finish", "respond"}]
      /\ errorHandler' \in Handlers /\ validationErrorHandler' \in Handlers
  BY DEF FormParseFails, Fail, Goto, mux, IInv, TypeOK, Errors, AppErrors
<1>3. "error" \in Labels
  BY DEF Labels
<1> QED
  BY <1>1, <1>2, <1>3, GoodNow, Frame

\* Calls of the Request's methods that leave the label and the readers.
LEMMA CallFrame ==
    ASSUME IInv, NEW r \in Requests, NEW q \in RequestRecord, Call(r, q),
           Good(pc[r], q, media[r], readers[r])
    PROVE  IInv'
<1>1. /\ pc' = [pc EXCEPT ![r] = pc[r]]
      /\ req' = [req EXCEPT ![r] = q]
      /\ media' = [media EXCEPT ![r] = media[r]]
      /\ readers' = [readers EXCEPT ![r] = readers[r]]
      /\ err' \in [Requests -> Errors \cup {"none"}]
      /\ resume' \in [Requests -> {"finish", "respond"}]
      /\ errorHandler' \in Handlers /\ validationErrorHandler' \in Handlers
  BY DEF Call, Become, mux, IInv, TypeOK
<1> QED
  BY <1>1, GoodNow, Frame

\* What holds of a request whose application code is running.
LEMMA InApplicationFacts ==
    ASSUME IInv, NEW r \in Requests, InApplication(r)
    PROVE  /\ pc[r] \in {"parser", "handler", "custom"}
           /\ pc[r] \in Neutral
           /\ req[r] \in RequestRecord
           /\ Agreement(req[r]) /\ Unsent(req[r])
           /\ Flushed(req[r]) => Explicit(req[r])
           /\ Resources(pc[r], req[r], media[r], readers[r])
<1>1. pc[r] \in {"parser", "handler", "custom"} /\ pc[r] \in Neutral
  BY DEF InApplication, Neutral
<1>2. Good(pc[r], req[r], media[r], readers[r]) /\ req[r] \in RequestRecord
  BY GoodNow
<1>3. Flushed(req[r]) => Explicit(req[r])
  BY <1>1, <1>2, NeutralExplicit
<1> QED
  BY <1>1, <1>2, <1>3 DEF Good

\* Whoever keeps these facts is good where application code runs.
LEMMA ApplicationGood ==
    ASSUME NEW l \in {"parser", "handler", "custom"}, NEW q, NEW m, NEW n,
           Agreement(q), Unsent(q), Flushed(q) => Explicit(q),
           Resources(l, q, m, n)
    PROVE  Good(l, q, m, n)
BY DEF Good, Implicit, Position

LEMMA SettersPreserve ==
    ASSUME IInv, NEW r \in Requests,
           \/ CallSetStatus(r) \/ CallSetContentType(r)
           \/ CallSetHeader(r) \/ CallAddHeader(r)
    PROVE  IInv'
<1>0. InApplication(r)
  BY DEF CallSetStatus, CallSetContentType, CallSetHeader, CallAddHeader, Call
<1>1. CASE CallSetStatus(r)
  <2>1. PICK s \in Statuses : Call(r, SetStatus(req[r], s))
    BY <1>1 DEF CallSetStatus
  <2> DEFINE q == SetStatus(req[r], s)
  <2>2. s \in Int
    BY <2>1, StatusesAssumption
  <2>3. /\ q \in RequestRecord /\ Agreement(q) /\ Unsent(q)
        /\ SameResponse(q, req[r])
        /\ Flushed(q) => Explicit(q)
    BY <1>0, <2>2, InApplicationFacts, SetStatusAgrees
  <2> HIDE DEF q
  <2>4. Resources(pc[r], q, media[r], readers[r])
    BY <1>0, <2>3, InApplicationFacts, SameResources
  <2>5. Good(pc[r], q, media[r], readers[r])
    BY <1>0, <2>3, <2>4, InApplicationFacts, ApplicationGood
  <2>6. Call(r, q)
    BY <2>1 DEF q
  <2> QED
    BY <2>3, <2>5, <2>6, CallFrame
<1>2. ASSUME NEW q \in RequestRecord, Call(r, q), Alike(q, req[r])
      PROVE  IInv'
  <2>1. Good(pc[r], q, media[r], readers[r])
    BY <1>2, GoodNow, AlikeGood
  <2> QED
    BY <1>2, <2>1, CallFrame
<1>3. req[r] \in RequestRecord /\ "header" \in HeaderValues
  BY GoodNow DEF HeaderValues
<1>4. CASE CallSetContentType(r)
  <2>1. /\ SetContentType(req[r]) \in RequestRecord
        /\ Alike(SetContentType(req[r]), req[r])
    BY <1>3, ContentTypeType, ContentTypeAlike
  <2> QED
    BY <1>2, <1>4, <2>1 DEF CallSetContentType
<1>5. CASE CallSetHeader(r)
  <2>1. /\ SetHeader(req[r], "header") \in RequestRecord
        /\ Alike(SetHeader(req[r], "header"), req[r])
    BY <1>3, ContentTypeType, ContentTypeAlike
  <2> QED
    BY <1>2, <1>5, <2>1 DEF CallSetHeader
<1>6. CASE CallAddHeader(r)
  <2>1. /\ AddHeader(req[r]) \in RequestRecord
        /\ Alike(AddHeader(req[r]), req[r])
    BY <1>3, ContentTypeType, ContentTypeAlike, AlikeRefl DEF AddHeader
  <2> QED
    BY <1>2, <1>6, <2>1 DEF CallAddHeader
<1> QED
  BY <1>1, <1>4, <1>5, <1>6

LEMMA CallRedirectPreserves ==
    ASSUME IInv, NEW r \in Requests, CallRedirect(r)
    PROVE  IInv'
<1> DEFINE q == Redirect(req[r])
<1>0. InApplication(r) /\ Call(r, q)
  BY DEF CallRedirect, Call
<1>1. PICK s \in ValidStatuses : s = 307
  BY DEF ValidStatuses
<1>2. q = flushHeaders(SetStatus(req[r], s))
  BY <1>1 DEF Redirect
<1> HIDE DEF q
<1>3. /\ q \in RequestRecord /\ Agreement(q) /\ Flushed(q) /\ Explicit(q)
      /\ SameResponse(q, req[r])
  BY <1>0, <1>2, InApplicationFacts, SetAndFlush
<1>4. Resources(pc[r], q, media[r], readers[r])
  BY <1>0, <1>3, InApplicationFacts, SameResources
<1>5. Good(pc[r], q, media[r], readers[r])
  BY <1>0, <1>3, <1>4, InApplicationFacts, FlushedGood
<1> QED
  BY <1>0, <1>3, <1>5, CallFrame

\* A new response does not change a status that was set explicitly.
LEMMA RespondKeeps ==
    ASSUME NEW q \in RequestRecord, NEW kind \in ResponseKinds \cup {"nil"},
           Agreement(q), Unsent(q), Flushed(q) => Explicit(q)
    PROVE  /\ Respond(q, kind) \in RequestRecord
           /\ Agreement(Respond(q, kind)) /\ Unsent(Respond(q, kind))
           /\ Flushed(Respond(q, kind)) => Explicit(Respond(q, kind))
           /\ Respond(q, kind).response = kind
BY RespondType DEF Respond, RequestRecord, Agreement, Unsent, Flushed, Explicit,
   statusForRequest

LEMMA CallRespondPreserves ==
    ASSUME IInv, NEW r \in Requests, CallRespond(r)
    PROVE  IInv'
<1>1. PICK kind \in Responses \ {"file"} : Call(r, Respond(req[r], kind))
  BY DEF CallRespond
<1> DEFINE q == Respond(req[r], kind)
<1>2. InApplication(r) /\ Call(r, q)
  BY <1>1 DEF Call
<1>0. pc[r] \in {"parser", "handler", "custom"} /\ req[r] \in RequestRecord
  BY <1>2, InApplicationFacts
<1>3. kind \in ResponseKinds \cup {"nil"} /\ kind # "file"
  BY ResponsesAssumption
<1>4. /\ q \in RequestRecord /\ Agreement(q) /\ Unsent(q)
      /\ Flushed(q) => Explicit(q)
      /\ q.response = kind
  BY <1>2, <1>3, InApplicationFacts, RespondKeeps
<1> HIDE DEF q
<1>5. Resources(pc[r], q, media[r], readers[r])
  BY <1>0, <1>3, <1>4 DEF Resources
<1>6. Good(pc[r], q, media[r], readers[r])
  BY <1>0, <1>4, <1>5, ApplicationGood
<1> QED
  BY <1>2, <1>4, <1>6, CallFrame

LEMMA CallRespondReaderPreserves ==
    ASSUME IInv, NEW r \in Requests, CallRespondReader(r)
    PROVE  IInv'
<1> DEFINE q == Respond(req[r], "file")
<1> DEFINE n == readers[r] + 1
<1>1. InApplication(r)
  BY DEF CallRespondReader
<1>2. /\ q \in RequestRecord /\ Agreement(q) /\ Unsent(q)
      /\ Flushed(q) => Explicit(q)
  <2>1. "file" \in ResponseKinds \cup {"nil"}
    BY DEF ResponseKinds, Concrete
  <2> QED
    BY <1>1, <2>1, InApplicationFacts, RespondKeeps
<1>3. n \in 0 .. MaxReaders /\ n > 0
  BY GoodNow, MaxReadersAssumption DEF CallRespondReader
<1>4. Resources(pc[r], q, media[r], n)
  BY <1>1, <1>3, InApplicationFacts DEF Resources
<1>5. Good(pc[r], q, media[r], n)
  BY <1>1, <1>2, <1>4, InApplicationFacts, ApplicationGood
<1>6. /\ pc' = [pc EXCEPT ![r] = pc[r]]
      /\ req' = [req EXCEPT ![r] = q]
      /\ media' = [media EXCEPT ![r] = media[r]]
      /\ readers' = [readers EXCEPT ![r] = n]
      /\ err' \in [Requests -> Errors \cup {"none"}]
      /\ resume' \in [Requests -> {"finish", "respond"}]
      /\ errorHandler' \in Handlers /\ validationErrorHandler' \in Handlers
  BY DEF CallRespondReader, Become, mux, IInv, TypeOK
<1> HIDE DEF q, n
<1> QED
  BY <1>2, <1>3, <1>5, <1>6, GoodNow, Frame

LEMMA EOFPreserves ==
    ASSUME IInv, NEW r \in Requests, badRequestUnexpectedEOF(r)
    PROVE  IInv'
<1>1. PICK s \in ValidStatuses : s = 400
  BY DEF ValidStatuses
<1> DEFINE p == flushHeaders(SetStatus(req[r], s))
<1> DEFINE q == writeBody(p, "eof", "any")
<1>2. pc[r] = "error" /\ pc[r] \in Neutral /\ pc[r] # "render"
  BY DEF badRequestUnexpectedEOF, At, Neutral
<1>3. /\ req[r] \in RequestRecord
      /\ Agreement(req[r]) /\ Unsent(req[r])
      /\ Resources(pc[r], req[r], media[r], readers[r])
  BY <1>2, GoodNow DEF Good
<1>4. Flushed(req[r]) => Explicit(req[r])
  BY <1>2, GoodNow, NeutralExplicit
<1>5. /\ p \in RequestRecord /\ Agreement(p) /\ Flushed(p) /\ Explicit(p)
      /\ SameResponse(p, req[r])
  BY <1>3, <1>4, SetAndFlush
<1>6. Step(r, q, resume[r])
  BY <1>1 DEF badRequestUnexpectedEOF
<1> HIDE DEF p
<1>7. Good(pc[r], p, media[r], readers[r])
  <2>1. Resources(pc[r], p, media[r], readers[r])
    BY <1>3, <1>5, SameResources
  <2> QED
    BY <1>2, <1>5, <2>1, FlushedGood
<1>8. q \in RequestRecord /\ Alike(q, p)
  <2>1. "eof" \in Writers /\ "any" \in ContentTypes \cup {"any"}
    BY DEF Writers
  <2> QED
    BY <1>5, <2>1, WriteBodyType, WriteBodyAlike
<1> HIDE DEF q
<1>9. Good(pc[r], q, media[r], readers[r])
  BY <1>7, <1>8, AlikeGood
<1>10. /\ resume[r] \in Neutral \cup {"finish", "dropped"}
       /\ resume[r] \in Labels
  BY GoodNow DEF Neutral, Labels
<1>11. Good(resume[r], q, media[r], readers[r])
  BY <1>2, <1>9, <1>10, Onward
<1> QED
  BY <1>6, <1>8, <1>10, <1>11, StepFrame

\* The default error handlers: a 400 or 500 to put on the page, unless
\* flushed.
LEMMA DefaultHandlerPreserves ==
    ASSUME IInv, NEW r \in Requests, pc[r] = "error",
           NEW s \in ValidStatuses, defaultErrorHandler(r, s)
    PROVE  IInv'
<1> DEFINE q == SetStatus(req[r], s)
<1>1. pc[r] \in Neutral
  BY DEF Neutral
<1>2. CASE Flushed(req[r])
  <2>1. Step(r, req[r], resume[r])
    BY <1>2 DEF defaultErrorHandler, Flushed
  <2>2. resume[r] \in Neutral \cup {"finish", "dropped"}
    BY GoodNow DEF Neutral
  <2> QED
    BY <1>1, <2>1, <2>2, MovesPreserve
<1>3. CASE ~Flushed(req[r])
  <2>1. /\ req[r] \in RequestRecord /\ Agreement(req[r]) /\ Unsent(req[r])
        /\ Resources("error", req[r], media[r], readers[r])
    BY GoodNow DEF Good
  <2>2. s \in Int
    BY DEF ValidStatuses
  <2>3. /\ q \in RequestRecord /\ Agreement(q) /\ Unsent(q)
        /\ SameResponse(q, req[r]) /\ Explicit(q) /\ q.responseStatus = s
        /\ ~Flushed(q)
    BY <1>3, <2>1, <2>2, SetStatusAgrees
  <2>4. Step(r, q, "page")
    BY <1>3, <2>1 DEF defaultErrorHandler, Flushed, RequestRecord
  <2> HIDE DEF q
  <2>5. Good("page", q, media[r], readers[r])
    BY <2>1, <2>3 DEF Good, Implicit, Position, Resources, SameResponse
  <2>6. "page" \in Labels
    BY DEF Labels
  <2> QED
    BY <2>3, <2>4, <2>5, <2>6, StepFrame
<1> QED
  BY <1>2, <1>3

LEMMA DispatchPreserves ==
    ASSUME IInv, NEW r \in Requests,
           dispatchValidationError(r) \/ dispatchError(r)
    PROVE  IInv'
<1>1. pc[r] = "error" /\ pc[r] \in Neutral /\ "custom" \in Neutral
  BY DEF dispatchValidationError, dispatchError, At, Neutral
<1>2. \/ \E s \in {400, 500} : defaultErrorHandler(r, s)
      \/ Leave(r, "handled", "custom")
  BY DEF dispatchValidationError, dispatchError
<1>3. CASE Leave(r, "handled", "custom")
  <2>1. "handled" \in Errors
    BY DEF Errors
  <2> QED
    BY <1>1, <1>3, <2>1, MovesPreserve
<1>4. ASSUME NEW s \in {400, 500}, defaultErrorHandler(r, s)
      PROVE  IInv'
  <2>1. s \in ValidStatuses
    BY DEF ValidStatuses
  <2> QED
    BY <1>1, <1>4, <2>1, DefaultHandlerPreserves
<1> QED
  BY <1>2, <1>3, <1>4

LEMMA WritePagePreserves ==
    ASSUME IInv, NEW r \in Requests, WritePage(r)
    PROVE  IInv'
<1>1. PICK type \in PageTypes :
          /\ Become(r, flushHeaders(setContentTypeNoOverride(req[r], type)))
          /\ media' = [media EXCEPT ![r] = type]
  BY DEF WritePage
<1> DEFINE p == setContentTypeNoOverride(req[r], type)
<1> DEFINE q == flushHeaders(p)
<1>2. /\ type \in HeaderValues /\ type \in ContentTypes
      /\ type \in ContentTypes \cup {"none"} /\ type # "none"
  BY DEF PageTypes, ContentTypes, HeaderValues
<1>3. pc[r] = "page"
  BY DEF WritePage, At
<1>4. /\ req[r] \in RequestRecord /\ Agreement(req[r]) /\ Unsent(req[r])
      /\ Explicit(req[r]) /\ ~flushPanics(req[r])
      /\ Resources("page", req[r], media[r], readers[r])
  BY <1>3, GoodNow
     DEF Good, Position, flushPanics, WriteHeaderPanics, statusForRequest, Explicit
<1>5. /\ p \in RequestRecord /\ Agreement(p) /\ Unsent(p) /\ Explicit(p)
      /\ ~flushPanics(p) /\ SameResponse(p, req[r])
  <2>1. p \in RequestRecord /\ Alike(p, req[r])
    BY <1>2, <1>4, ContentTypeType, ContentTypeAlike
  <2> HIDE DEF p
  <2> QED
    BY <1>4, <2>1, AlikeUnsent
<1> HIDE DEF p
<1>6. /\ q \in RequestRecord /\ Agreement(q) /\ Flushed(q) /\ Explicit(q)
      /\ SameResponse(q, p)
  BY <1>5, FlushAgrees
<1> HIDE DEF q
<1>7. Resources("pageBody", q, type, readers[r])
  BY <1>2, <1>4, <1>5, <1>6 DEF Resources, SameResponse
<1>8. Good("pageBody", q, type, readers[r])
  BY <1>6, <1>7, FlushedGood
<1>9. /\ pc' = [pc EXCEPT ![r] = "pageBody"]
      /\ req' = [req EXCEPT ![r] = q]
      /\ media' = [media EXCEPT ![r] = type]
      /\ readers' = [readers EXCEPT ![r] = readers[r]]
      /\ err' \in [Requests -> Errors \cup {"none"}]
      /\ resume' \in [Requests -> {"finish", "respond"}]
      /\ errorHandler' \in Handlers /\ validationErrorHandler' \in Handlers
  BY <1>1 DEF WritePage, Become, Goto, mux, IInv, TypeOK, q, p
<1>10. "pageBody" \in Labels
  BY DEF Labels
<1> QED
  BY <1>2, <1>6, <1>8, <1>9, <1>10, GoodNow, Frame

LEMMA WritePageBodyPreserves ==
    ASSUME IInv, NEW r \in Requests, WritePageBody(r)
    PROVE  IInv'
<1>1. pc[r] = "pageBody" /\ pc[r] \in Neutral \cup {"pageBody"}
  BY DEF WritePageBody, At
<1>2. resume[r] \in Neutral \cup {"finish", "dropped"} /\ resume[r] \in Labels
      /\ "dropped" \in Neutral \cup {"finish", "dropped"}
  BY GoodNow DEF Neutral, Labels
<1>3. CASE Step(r, req[r], "dropped")
  BY <1>1, <1>2, <1>3, MovesPreserve
<1>4. CASE Step(r, writeBody(req[r], "page", media[r]), resume[r])
  <2> DEFINE q == writeBody(req[r], "page", media[r])
  <2>1. /\ req[r] \in RequestRecord /\ Agreement(req[r]) /\ Flushed(req[r])
        /\ media[r] \in ContentTypes \cup {"any"}
    BY <1>1, GoodNow DEF Good, Position, Resources
  <2>2. q \in RequestRecord /\ Alike(q, req[r])
    BY <2>1, WriteBodyType, WriteBodyAlike DEF Writers
  <2> HIDE DEF q
  <2>3. Good(pc[r], q, media[r], readers[r])
    BY <2>2, GoodNow, AlikeGood
  <2>4. Good(resume[r], q, media[r], readers[r])
    BY <1>1, <1>2, <2>3, Onward
  <2> QED
    BY <1>2, <1>4, <2>2, <2>4, StepFrame DEF q
<1> QED
  BY <1>3, <1>4 DEF WritePageBody

LEMMA CustomHandlerPreserves ==
    ASSUME IInv, NEW r \in Requests, CustomHandlerReturns(r)
    PROVE  IInv'
<1>1. pc[r] \in Neutral
  BY DEF CustomHandlerReturns, At, Neutral
<1>2. \E k \in Neutral \cup {"finish", "dropped"} : Step(r, req[r], k)
  BY GoodNow DEF CustomHandlerReturns, Neutral
<1> QED
  BY <1>1, <1>2, MovesPreserve

LEMMA CallWriterPreserves ==
    ASSUME IInv, NEW r \in Requests, CallWriter(r)
    PROVE  IInv'
<1> DEFINE o == req[r].httpResponse
<1> DEFINE chunk == [by |-> "raw", as |-> "any"]
<1>1. PICK w \in {WriteHeader(o, s) : s \in Statuses \cap ValidStatuses}
                 \cup {Write(o, chunk)} :
          Step(r, [req[r] EXCEPT !.httpResponse = [w EXCEPT !.raw = TRUE]], "custom")
  BY DEF CallWriter
<1> DEFINE v == [w EXCEPT !.raw = TRUE]
<1> DEFINE q == [req[r] EXCEPT !.httpResponse = v]
<1>2. pc[r] = "custom"
  BY DEF CallWriter, At
<1>3. InApplication(r)
  BY <1>2 DEF InApplication
<1>4. /\ req[r] \in RequestRecord /\ Agreement(req[r])
      /\ Flushed(req[r]) => Explicit(req[r])
      /\ Resources("custom", req[r], media[r], readers[r])
  BY <1>2, <1>3, InApplicationFacts
<1>5. o \in Writer
  BY <1>4 DEF RequestRecord
<1>6. w \in Writer /\ (Committed(o) => Committed(w))
  <2>1. ASSUME NEW s \in Statuses \cap ValidStatuses, w = WriteHeader(o, s)
        PROVE  w \in Writer /\ (Committed(o) => Committed(w))
    <3>1. s \in Int
      BY StatusesAssumption
    <3>2. Committed(o) => w.status = o.status
      BY <1>5, <2>1 DEF WriteHeader, Writer
    <3> QED
      BY <1>5, <2>1, <3>1, <3>2, WriteHeaderType DEF Committed
  <2>2. CASE w = Write(o, chunk)
    <3>1. chunk \in Chunks
      BY DEF Chunks, Writers
    <3>2. Committed(o) => w.status = o.status
      BY <1>5, <2>2 DEF Write, Writer
    <3> QED
      BY <1>5, <2>2, <3>1, <3>2, WriteType DEF Committed
  <2> QED
    BY <1>1, <2>1, <2>2
<1> HIDE DEF o
<1>7. /\ v \in Writer /\ v.raw = TRUE
      /\ Committed(w) => Committed(v)
  BY <1>6 DEF Writer, Committed
<1> HIDE DEF v
<1>8. /\ q \in RequestRecord
      /\ q.httpResponse = v /\ q.flushedHeaders = req[r].flushedHeaders
      /\ q.statusSet = req[r].statusSet /\ q.response = req[r].response
  BY <1>4, <1>7 DEF RequestRecord
<1>9. Step(r, q, "custom")
  BY <1>1 DEF v
<1> HIDE DEF q
<1>10. Agreement(q) /\ Unsent(q) /\ (Flushed(q) => Explicit(q))
  BY <1>4, <1>6, <1>7, <1>8 DEF Agreement, Unsent, Flushed, Explicit, o
<1>11. Resources("custom", q, media[r], readers[r])
  BY <1>4, <1>8, SameResources DEF SameResponse
<1>12. Good("custom", q, media[r], readers[r])
  BY <1>10, <1>11, ApplicationGood
<1> QED
  BY <1>8, <1>9, <1>12, StepFrame DEF Labels

-----------------------------------------------------------------------------
(* doRespond *)

\* Flush from a label before the headers must be out, to one after it.
LEMMA FlushMoves ==
    ASSUME IInv, NEW r \in Requests, NEW q \in RequestRecord,
           NEW k \in {"body", "finish"}, NEW m \in ContentTypes \cup {"none"},
           k = "body" => m # "none",
           pc[r] \in {"respond", "render"}, Alike(q, req[r]), Flush(r, q, k),
           media' = [media EXCEPT ![r] = m],
           UNCHANGED <<err, resume, readers, mux>>
    PROVE  IInv'
<1>1. /\ Agreement(req[r]) /\ Unsent(req[r])
      /\ readers[r] \in 0 .. MaxReaders
      /\ req[r].response = "file" => readers[r] > 0
  BY GoodNow DEF Good, Resources
<1>2. Agreement(q) /\ Unsent(q) /\ SameResponse(q, req[r])
  BY <1>1, AlikeUnsent
<1>3. /\ readers' = [readers EXCEPT ![r] = readers[r]]
      /\ err' \in [Requests -> Errors \cup {"none"}]
      /\ resume' \in [Requests -> {"finish", "respond"}]
      /\ errorHandler' \in Handlers /\ validationErrorHandler' \in Handlers
  BY DEF mux, IInv, TypeOK
<1>4. ASSUME NEW g \in RequestRecord, NEW l \in {"body", "finish"},
             Agreement(g), Flushed(g), SameResponse(g, q), l \in {k, "finish"},
             Become(r, g), Goto(r, l)
      PROVE  IInv'
  <2>1. Resources(l, g, m, readers[r])
    BY <1>1, <1>2, <1>4 DEF Resources, SameResponse
  <2>2. Good(l, g, m, readers[r])
    BY <1>4, <2>1, FlushedGood DEF Past
  <2>3. l \in Labels
    BY DEF Labels
  <2> QED
    BY <1>1, <1>3, <1>4, <2>2, <2>3, Frame DEF Become, Goto
<1>5. CASE flushPanics(q)
  <2> DEFINE g == Recovered(flushHeaders(q))
  <2>1. /\ g \in RequestRecord /\ Agreement(g) /\ Flushed(g)
        /\ SameResponse(g, q)
    BY <1>2, <1>5, PanicRecovered
  <2>2. Become(r, g) /\ Goto(r, "finish")
    BY <1>5 DEF Flush
  <2> HIDE DEF g
  <2> QED
    BY <1>4, <2>1, <2>2
<1>6. CASE ~flushPanics(q)
  <2> DEFINE g == flushHeaders(q)
  <2>1. /\ g \in RequestRecord /\ Agreement(g) /\ Flushed(g)
        /\ SameResponse(g, q)
    BY <1>2, <1>6, FlushAgrees
  <2>2. Become(r, g) /\ Goto(r, k)
    BY <1>6 DEF Flush
  <2> HIDE DEF g
  <2> QED
    BY <1>4, <2>1, <2>2
<1> QED
  BY <1>5, <1>6

LEMMA RespondFlushPreserves ==
    ASSUME IInv, NEW r \in Requests,
           \/ RespondNothing(r) \/ RespondConcrete(r) \/ RespondGeneric(r)
           \/ CustomRendered(r)
    PROVE  IInv'
<1>1. /\ req[r] \in RequestRecord /\ media[r] \in ContentTypes \cup {"none"}
      /\ media = [media EXCEPT ![r] = media[r]]
  BY GoodNow DEF IInv, TypeOK
<1>2. CASE RespondNothing(r)
  <2>1. pc[r] = "respond" /\ Flush(r, req[r], "finish")
        /\ media' = [media EXCEPT ![r] = media[r]]
        /\ UNCHANGED <<err, resume, readers, mux>>
    BY <1>1, <1>2 DEF RespondNothing, At
  <2> QED
    BY <1>1, <2>1, AlikeRefl, FlushMoves
<1>3. ASSUME NEW type \in ContentTypes, RespondAs(r, type), pc[r] = "respond"
      PROVE  IInv'
  <2> DEFINE q == setContentTypeNoOverride(req[r], type)
  <2>1. q \in RequestRecord /\ Alike(q, req[r])
    BY <1>1, ContentTypeType, ContentTypeAlike DEF HeaderValues
  <2>2. Flush(r, q, "body") /\ media' = [media EXCEPT ![r] = type]
        /\ UNCHANGED <<err, resume, readers, mux>>
    BY <1>3 DEF RespondAs
  <2>3. type # "none" /\ type \in ContentTypes \cup {"none"}
    BY DEF ContentTypes
  <2> HIDE DEF q
  <2> QED
    BY <1>3, <2>1, <2>2, <2>3, FlushMoves
<1>4. CASE RespondConcrete(r)
  <2>1. ContentTypeOf(req[r].response) \in ContentTypes
    BY DEF ContentTypeOf, ContentTypes
  <2> QED
    BY <1>3, <1>4, <2>1 DEF RespondConcrete, Responding, At
<1>5. CASE RespondGeneric(r)
  <2>1. GenericTypes \subseteq ContentTypes
    BY DEF GenericTypes, PageTypes, ContentTypes
  <2> QED
    BY <1>3, <1>5, <2>1 DEF RespondGeneric, Responding, At
<1>6. CASE CustomRendered(r)
  <2> DEFINE q == setContentTypeNoOverride(req[r], media[r])
  <2>1. pc[r] = "render"
    BY <1>6 DEF CustomRendered, At
  <2>2. media[r] # "none" /\ media[r] \in HeaderValues
    BY <1>1, <2>1, GoodNow DEF Good, Resources, HeaderValues
  <2>3. q \in RequestRecord /\ Alike(q, req[r])
    BY <1>1, <2>2, ContentTypeType, ContentTypeAlike
  <2>4. Flush(r, q, "body") /\ media' = [media EXCEPT ![r] = media[r]]
        /\ UNCHANGED <<err, resume, readers, mux>>
    BY <1>1, <1>6 DEF CustomRendered
  <2> HIDE DEF q
  <2> QED
    BY <1>1, <2>1, <2>2, <2>3, <2>4, FlushMoves
<1> QED
  BY <1>2, <1>4, <1>5, <1>6

\* The recover around doRespond, from any label of it, ends the request.
LEMMA RecoverMoves ==
    ASSUME IInv, NEW r \in Requests, pc[r] # "done",
           Step(r, Recovered(req[r]), "finish")
    PROVE  IInv'
<1> DEFINE q == Recovered(req[r])
<1>1. req[r] \in RequestRecord /\ Agreement(req[r]) /\ Unsent(req[r])
  BY GoodNow DEF Good
<1>2. q \in RequestRecord /\ Agreement(q) /\ Flushed(q)
  BY <1>1, RecoveredAgrees
<1> HIDE DEF q
<1>3. Resources("finish", q, media[r], readers[r])
  BY DEF Resources
<1>4. Good("finish", q, media[r], readers[r])
  BY <1>2, <1>3, FlushedGood DEF Past
<1>5. "finish" \in Labels
  BY DEF Labels
<1> QED
  BY <1>2, <1>4, <1>5, StepFrame DEF q

\* Where a body is written the headers are out: a failure leaves what is there.
LEMMA WriteBodyFailsIs ==
    ASSUME IInv, NEW r \in Requests, WriteBodyFails(r)
    PROVE  /\ pc[r] = "body"
           /\ \/ Step(r, Recovered(req[r]), "finish")
              \/ Step(r, writeBody(req[r], "response", media[r]), "finish")
<1> DEFINE q == writeBody(req[r], "response", media[r])
<1>1. /\ pc[r] = "body"
      /\ Step(r, Recovered(req[r]), "finish") \/ Step(r, Recovered(q), "finish")
  BY DEF WriteBodyFails, At
<1>2. /\ req[r] \in RequestRecord /\ Agreement(req[r]) /\ Flushed(req[r])
      /\ media[r] \in ContentTypes \cup {"any"}
  BY <1>1, GoodNow DEF Good, Position, Resources
<1>3. Alike(q, req[r])
  BY <1>2, WriteBodyAlike DEF Writers
<1> HIDE DEF q
<1>4. Recovered(q) = q
  BY <1>2, <1>3 DEF Recovered, Alike, Flushed
<1> QED
  BY <1>1, <1>4 DEF q

LEMMA RespondFailurePreserves ==
    ASSUME IInv, NEW r \in Requests,
           RespondUnknown(r) \/ CustomFails(r)
    PROVE  IInv'
<1>1. pc[r] # "done"
  BY DEF RespondUnknown, CustomFails, Responding, At
<1>2. CASE Step(r, Recovered(req[r]), "finish")
  BY <1>1, <1>2, RecoverMoves
<1>3. CASE CustomFails(r) /\ Step(r, req[r], "finish")
  <2>1. pc[r] = "render"
    BY <1>3 DEF CustomFails, At
  <2>2. Good("finish", req[r], media[r], readers[r])
    BY <2>1, GoodNow, Onward
  <2> QED
    BY <1>3, <2>2, GoodNow, StepFrame DEF Labels
<1> QED
  BY <1>2, <1>3 DEF RespondUnknown, CustomFails

LEMMA RespondCustomPreserves ==
    ASSUME IInv, NEW r \in Requests, RespondCustom(r)
    PROVE  IInv'
<1> DEFINE q == setContentTypeNoOverride(req[r], "custom")
<1>1. pc[r] = "respond" /\ req[r].response = "custom"
  BY DEF RespondCustom, Responding, At
<1>2. q \in RequestRecord /\ Alike(q, req[r])
  BY GoodNow, ContentTypeType, ContentTypeAlike DEF HeaderValues, ContentTypes
<1>3. Good("respond", q, media[r], readers[r])
  <2> HIDE DEF q
  <2> QED
    BY <1>1, <1>2, GoodNow, AlikeGood
<1>4. /\ pc' = [pc EXCEPT ![r] = "render"]
      /\ req' = [req EXCEPT ![r] = q]
      /\ media' = [media EXCEPT ![r] = "custom"]
      /\ readers' = [readers EXCEPT ![r] = readers[r]]
      /\ err' \in [Requests -> Errors \cup {"none"}]
      /\ resume' \in [Requests -> {"finish", "respond"}]
      /\ errorHandler' \in Handlers /\ validationErrorHandler' \in Handlers
  BY DEF RespondCustom, Become, Goto, mux, IInv, TypeOK
<1> HIDE DEF q
<1>5. q.response = "custom"
  BY <1>1, <1>2 DEF Alike
<1>6. Good("render", q, "custom", readers[r])
  BY <1>3, <1>5 DEF Good, Implicit, Position, Resources, Past
<1>7. "render" \in Labels /\ "custom" \in ContentTypes \cup {"none"}
  BY DEF Labels, ContentTypes
<1> QED
  BY <1>2, <1>4, <1>6, <1>7, GoodNow, Frame

\* The body is written, completely or until something fails.
LEMMA BodyMoves ==
    ASSUME IInv, NEW r \in Requests, pc[r] = "body", NEW k \in {"close", "finish"},
           Step(r, writeBody(req[r], "response", media[r]), k),
           k = "close" => writeBody(req[r], "response", media[r]).response = "file"
    PROVE  IInv'
<1> DEFINE q == writeBody(req[r], "response", media[r])
<1>1. Step(r, q, k) /\ (k = "close" => q.response = "file")
  OBVIOUS
<1>2. pc[r] = "body"
  OBVIOUS
<1>3. /\ req[r] \in RequestRecord /\ Agreement(req[r]) /\ Flushed(req[r])
      /\ media[r] \in ContentTypes \cup {"any"}
      /\ Good("body", req[r], media[r], readers[r])
  BY <1>2, GoodNow DEF Good, Position, Resources
<1>4. q \in RequestRecord /\ Alike(q, req[r])
  BY <1>3, WriteBodyType, WriteBodyAlike DEF Writers
<1> HIDE DEF q
<1>5. Good("body", q, media[r], readers[r])
  BY <1>3, <1>4, AlikeGood
<1>6. Good(k, q, media[r], readers[r])
  BY <1>1, <1>5 DEF Good, Implicit, Position, Resources, Past
<1> QED
  BY <1>1, <1>4, <1>6, StepFrame DEF Labels

LEMMA WriteBodyPreserves ==
    ASSUME IInv, NEW r \in Requests, WriteBody(r)
    PROVE  IInv'
<1> DEFINE q == writeBody(req[r], "response", media[r])
<1>1. PICK k \in {"close", "finish"} :
          Step(r, q, k) /\ (k = "close" => q.response = "file")
  BY DEF WriteBody
<1>2. pc[r] = "body"
  BY DEF WriteBody, At
<1> QED
  BY <1>1, <1>2, BodyMoves

LEMMA WriteBodyFailsPreserves ==
    ASSUME IInv, NEW r \in Requests, WriteBodyFails(r)
    PROVE  IInv'
<1>1. pc[r] = "body"
  BY WriteBodyFailsIs
<1>2. CASE Step(r, Recovered(req[r]), "finish")
  BY <1>1, <1>2, RecoverMoves
<1>3. CASE Step(r, writeBody(req[r], "response", media[r]), "finish")
  BY <1>1, <1>3, BodyMoves
<1> QED
  BY <1>2, <1>3, WriteBodyFailsIs

LEMMA CloseReaderPreserves ==
    ASSUME IInv, NEW r \in Requests, CloseReader(r)
    PROVE  IInv'
<1> DEFINE n == readers[r] - 1
<1>1. pc[r] = "close"
  BY DEF CloseReader, At
<1>2. /\ Good("close", req[r], media[r], readers[r])
      /\ n \in 0 .. MaxReaders
  BY <1>1, GoodNow, MaxReadersAssumption DEF Good, Resources
<1>3. Good("finish", req[r], media[r], n)
  BY <1>2 DEF Good, Implicit, Position, Resources, Past
<1>4. /\ pc' = [pc EXCEPT ![r] = "finish"]
      /\ req' = [req EXCEPT ![r] = req[r]]
      /\ media' = [media EXCEPT ![r] = media[r]]
      /\ readers' = [readers EXCEPT ![r] = n]
      /\ err' \in [Requests -> Errors \cup {"none"}]
      /\ resume' \in [Requests -> {"finish", "respond"}]
      /\ errorHandler' \in Handlers /\ validationErrorHandler' \in Handlers
  BY DEF CloseReader, Goto, mux, IInv, TypeOK
<1>5. "finish" \in Labels
  BY DEF Labels
<1> HIDE DEF n
<1> QED
  BY <1>2, <1>3, <1>4, <1>5, GoodNow, Frame

LEMMA FinishPreserves ==
    ASSUME IInv, NEW r \in Requests, Finish(r)
    PROVE  IInv'
<1> DEFINE o == req[r].httpResponse
<1> DEFINE q == [req[r] EXCEPT !.httpResponse = EndOfHandler(@)]
<1>1. pc[r] = "finish" /\ Step(r, q, "done")
  BY DEF Finish, At
<1>2. req[r] \in RequestRecord /\ Agreement(req[r]) /\ o \in Writer
  BY <1>1, GoodNow DEF Good, RequestRecord
<1>3. EndOfHandler(o) \in Writer /\ (Committed(o) => EndOfHandler(o) = o)
  BY <1>2, CommitType DEF EndOfHandler
<1>4. /\ q \in RequestRecord
      /\ q.flushedHeaders = req[r].flushedHeaders
      /\ Committed(o) => q = req[r]
  BY <1>2, <1>3 DEF RequestRecord
<1>5. Agreement(q)
  BY <1>2, <1>4 DEF Agreement, Flushed
<1> HIDE DEF q
<1>6. Good("done", q, media[r], readers[r])
  BY <1>5 DEF Good, Implicit, Position, Resources, Past
<1> QED
  BY <1>1, <1>4, <1>6, StepFrame DEF Labels

-----------------------------------------------------------------------------
(* The theorems *)

\* IInv holds initially.
LEMMA InitIInv == Init => IInv
<1> SUFFICES ASSUME Init PROVE IInv
  OBVIOUS
<1>1. newRequest \in RequestRecord
  BY NewRequestType
<1>2. TypeOK
  BY <1>1, HandlersAssumption, MaxReadersAssumption DEF Init, TypeOK, Labels
<1>3. ASSUME NEW r \in Requests
      PROVE  Good(pc[r], req[r], media[r], readers[r])
  <2>1. Good("idle", newRequest, "none", 0)
    BY DEF Good, Agreement, Unsent, Implicit, Position, Resources, Flushed,
           newRequest, NewWriter, Committed
  <2> QED
    BY <2>1 DEF Init
<1> QED
  BY <1>2, <1>3 DEF IInv

\* Every step preserves IInv.
LEMMA NextIInv == IInv /\ [Next]_vars => IInv'
<1> SUFFICES ASSUME IInv, [Next]_vars PROVE IInv'
  OBVIOUS
<1>1. CASE UNCHANGED vars
  BY <1>1 DEF vars, IInv, TypeOK
<1>2. ASSUME NEW r \in Requests,
             Receive(r) \/ \E s \in {404, 405} : ReceiveUnrouted(r, s)
      PROVE  IInv'
  BY <1>2, ReceivePreserves
<1>3. ASSUME NEW r \in Requests, CallRequest(r)
      PROVE  IInv'
  BY <1>3, SettersPreserve, CallRedirectPreserves, CallRespondPreserves,
     CallRespondReaderPreserves, CallWriterPreserves DEF CallRequest
<1>4. ASSUME NEW r \in Requests, Load(r)
      PROVE  IInv'
  BY <1>4, LoadPreserves, FormParseFailsPreserves DEF Load
<1>5. ASSUME NEW r \in Requests, HandleFailure(r)
      PROVE  IInv'
  BY <1>5, EOFPreserves, DispatchPreserves, WritePagePreserves,
     WritePageBodyPreserves, CustomHandlerPreserves DEF HandleFailure
<1>6. ASSUME NEW r \in Requests, doRespond(r)
      PROVE  IInv'
  BY <1>6, RespondFlushPreserves, RespondFailurePreserves,
     RespondCustomPreserves, WriteBodyPreserves, WriteBodyFailsPreserves,
     CloseReaderPreserves DEF doRespond
<1>7. ASSUME NEW r \in Requests, Finish(r)
      PROVE  IInv'
  BY <1>7, FinishPreserves
<1>8. CASE HandleError \/ HandleValidationError
  BY <1>8 DEF HandleError, HandleValidationError, IInv, TypeOK
<1> QED
  BY <1>1, <1>2, <1>3, <1>4, <1>5, <1>6, <1>7, <1>8 DEF Next, Advance

\* The invariant holds in every reachable state.
THEOREM Invariance == Spec => []IInv
BY InitIInv, NextIInv, PTL DEF Spec

\* Every state of every execution is well typed: in particular no reader is
\* closed more often than it was handed over.
THEOREM TypeCorrect == Spec => []TypeOK
<1>1. IInv => TypeOK
  BY DEF IInv
<1> QED
  BY <1>1, Invariance, PTL

\* The client's status, the logged one and the Request's own agree once the
\* headers are flushed (doRespond, Redirect, the error pages, the recover).
THEOREM StatusAgrees == Spec => []StatusAgreement
<1>1. IInv => StatusAgreement
  <2> SUFFICES ASSUME IInv, NEW r \in Requests, req[r].flushedHeaders, ~Raw(r)
               PROVE  /\ Answer(r).status = statusForRequest(req[r])
                      /\ Answer(r).status = Answer(r).proxy
    BY DEF StatusAgreement
  <2>1. Flushed(req[r]) /\ Agreement(req[r])
    BY GoodNow DEF Good, Flushed, RequestRecord
  <2> QED
    BY <2>1 DEF Agreement, Raw, Answer
<1> QED
  BY <1>1, Invariance, PTL

\* A reader doRespond will copy or close is open.
THEOREM ReaderOpen == Spec => []ReaderStillOpen
<1>1. IInv => ReaderStillOpen
  <2> SUFFICES ASSUME IInv, NEW r \in Requests,
                      pc[r] \in {"respond", "body", "close"},
                      req[r].response = "file"
               PROVE  readers[r] > 0
    BY DEF ReaderStillOpen
  <2> QED
    BY GoodNow DEF Good, Resources
<1> QED
  BY <1>1, Invariance, PTL
=============================================================================
