------------------------ MODULE LifecycleBodyProofs ------------------------
(***************************************************************************)
(* Theorems about the bodies and Content-Types of Lifecycle's answers, and *)
(* about the exchange the client sees, for any set of requests, statuses,  *)
(* responses and error handlers.                                           *)
(*                                                                         *)
(* BInv is inductive together with IInv.  What it adds to the properties:  *)
(* before a response or a page is due nothing but Redirect has flushed the *)
(* headers and nobody but a custom error handler has written (Early); a    *)
(* response follows an error page only where there is none, as the handler *)
(* was never called (Resumed); and a body awaits headers that allow it and *)
(* name its type (Due).                                                    *)
(*                                                                         *)
(* XInv, inductive with IInv, ties the error a request met to where it is  *)
(* and to its answer; from it every step is one of Exchange (Conforms).    *)
(***************************************************************************)
EXTENDS LifecycleProofs

\* Nothing was written, unless by a custom error handler.
Unused(q) == \A c \in q.httpResponse.body : c.by = "raw"

Named(q, m) ==
    \/ q.setContentType \/ q.httpResponse.raw
    \/ q.httpResponse.status = 307 \/ q.httpResponse.sent = m

\* One author, unless a custom error handler has written.
Solo(body) == \A c, d \in body : "raw" \in {c.by, d.by} \/ c.by = d.by

\* The body is in the format the headers name.
Described(q) == \A c \in q.httpResponse.body : c.as = "any" \/ Named(q, c.as)

\* What holds of any answer.
Sound(q) ==
    LET w == q.httpResponse
    IN  /\ ~w.raw => ~w.refused
        /\ ~w.raw /\ q.setContentType =>
               (IF Flushed(q) THEN w.sent ELSE w.type) \in {"app", "header"}
        /\ ~w.raw /\ ~Flushed(q) => w.body = {}
        /\ Solo(w.body) /\ Described(q)

Redirected(q) == Flushed(q) /\ ~q.httpResponse.raw => q.httpResponse.status = 307

Waiting == {"idle", "load", "source", "parser", "handler", "error", "custom"}

Early(l, q) ==
    /\ l \in Waiting \cup {"render"} => Redirected(q)
    /\ l \in Waiting \cup {"page", "pageBody", "render", "body"} => Unused(q)
    /\ l = "respond" => (Redirected(q) /\ Unused(q)) \/ q.response = "nil"

\* k is where the request goes on after an error.
Resumed(l, q, k) ==
    /\ l \in {"idle", "load", "source"} => q.response = "nil"
    /\ l \in Waiting \ {"error", "custom"} => k = "finish"
    /\ l \in {"error", "page", "pageBody"} /\ k = "respond" => q.response = "nil"

Due(l, q, m) ==
    /\ l = "page" => ~Flushed(q) /\ q.responseStatus \notin BodilessStatuses
    /\ l \in {"pageBody", "render", "body"} => bodyAllowedForStatus(q)
    /\ l \in {"pageBody", "body"} => Named(q, m)

Fit(l, q, m, k) == Sound(q) /\ Early(l, q) /\ Resumed(l, q, k) /\ Due(l, q, m)

BInv == \A r \in Requests : Fit(pc[r], req[r], media[r], resume[r])

-----------------------------------------------------------------------------
(* What the operators do to the answer *)

\* The answers the invariant cannot tell apart once the headers are out.
SameAnswer(p, q) ==
    /\ p.httpResponse.body = q.httpResponse.body
    /\ p.httpResponse.refused = q.httpResponse.refused
    /\ p.httpResponse.raw = q.httpResponse.raw
    /\ p.httpResponse.sent = q.httpResponse.sent
    /\ p.httpResponse.status = q.httpResponse.status

LEMMA SetStatusIs ==
    ASSUME NEW q \in RequestRecord, NEW s \in Int
    PROVE  /\ SetStatus(q, s) \in RequestRecord
           /\ SetStatus(q, s).httpResponse = q.httpResponse
           /\ SetStatus(q, s).response = q.response
           /\ SetStatus(q, s).setContentType = q.setContentType
           /\ Flushed(SetStatus(q, s)) <=> Flushed(q)
           /\ Flushed(q) => SetStatus(q, s) = q
           /\ ~Flushed(q) => statusForRequest(SetStatus(q, s)) = s
           /\ ~Flushed(q) => SetStatus(q, s).responseStatus = s
BY SetStatusType DEF SetStatus, RequestRecord, Flushed, statusForRequest

\* A flush commits the type and the status there are, unless it is not the first.
LEMMA FlushIs ==
    ASSUME NEW q \in RequestRecord, ~flushPanics(q)
    PROVE  LET g == flushHeaders(q)
               v == q.httpResponse
               w == g.httpResponse
           IN  /\ g \in RequestRecord /\ Flushed(g)
               /\ g.response = q.response /\ g.setContentType = q.setContentType
               /\ statusForRequest(g) = statusForRequest(q)
               /\ w.body = v.body /\ w.refused = v.refused /\ w.raw = v.raw
               /\ w.sent = IF Committed(v) THEN v.sent ELSE v.type
               /\ w.status = IF Committed(v) THEN v.status ELSE statusForRequest(q)
<1> DEFINE s == statusForRequest(q)
           g == flushHeaders(q)
           w == WriteHeader(q.httpResponse, s)
<1>1. s \in Int /\ q.httpResponse \in Writer
  BY StatusForRequestType DEF RequestRecord
<1>2. g = [q EXCEPT !.httpResponse = w, !.flushedHeaders = TRUE]
  BY DEF flushHeaders, RequestRecord
<1>3. /\ g.httpResponse = w /\ g.flushedHeaders = TRUE /\ g.response = q.response
      /\ g.setContentType = q.setContentType /\ statusForRequest(g) = s
  BY <1>2 DEF RequestRecord, statusForRequest
<1>4. LET v == q.httpResponse
      IN  /\ w.body = v.body /\ w.refused = v.refused /\ w.raw = v.raw
          /\ w.sent = IF Committed(v) THEN v.sent ELSE v.type
          /\ w.status = IF Committed(v) THEN v.status ELSE s
  BY <1>1 DEF WriteHeader, Commit, Committed, Writer, flushPanics
<1>5. g \in RequestRecord
  BY FlushType
<1> HIDE DEF g, w, s
<1> QED
  BY <1>3, <1>4, <1>5 DEF Flushed, g, s

LEMMA FlushSound ==
    ASSUME NEW q \in RequestRecord, ~flushPanics(q), Agreement(q), Unsent(q), Sound(q)
    PROVE  /\ Sound(flushHeaders(q))
           /\ Unused(q) => Unused(flushHeaders(q))
<1> DEFINE g == flushHeaders(q)
<1>1. /\ Flushed(g) /\ g.setContentType = q.setContentType
      /\ g.httpResponse.body = q.httpResponse.body
      /\ g.httpResponse.refused = q.httpResponse.refused
      /\ g.httpResponse.raw = q.httpResponse.raw
      /\ Committed(q.httpResponse) =>
             /\ g.httpResponse.sent = q.httpResponse.sent
             /\ g.httpResponse.status = q.httpResponse.status
      /\ ~Committed(q.httpResponse) => g.httpResponse.sent = q.httpResponse.type
  BY FlushIs
<1> HIDE DEF g
<1>2. Described(g)
  <2>1. CASE q.httpResponse.raw
    BY <1>1, <2>1 DEF Described, Named
  <2>2. CASE ~q.httpResponse.raw /\ Flushed(q)
    BY <1>1, <2>2 DEF Sound, Described, Named, Agreement
  <2>3. CASE ~q.httpResponse.raw /\ ~Flushed(q)
    BY <1>1, <2>3 DEF Sound, Described
  <2> QED
    BY <2>1, <2>2, <2>3
<1>3. ~q.httpResponse.raw => (Committed(q.httpResponse) <=> Flushed(q))
  BY DEF Agreement, Unsent
<1>4. Sound(g)
  BY <1>1, <1>2, <1>3 DEF Sound
<1>5. Unused(q) => Unused(g)
  BY <1>1 DEF Unused
<1> QED
  BY <1>4, <1>5 DEF g

\* A status that is set leaves the answer as it is.
LEMMA SetStatusSound ==
    ASSUME NEW q \in RequestRecord, NEW s \in Int
    PROVE  /\ Sound(q) => Sound(SetStatus(q, s))
           /\ Unused(q) => Unused(SetStatus(q, s))
           /\ Redirected(q) => Redirected(SetStatus(q, s))
BY SetStatusIs DEF Sound, Unused, Redirected, Described, Named

\* What SetStatus of a valid status and a flush answer.
LEMMA SetAndFlushIs ==
    ASSUME NEW q \in RequestRecord, NEW s \in ValidStatuses,
           Agreement(q), Unsent(q), Sound(q)
    PROVE  LET g == flushHeaders(SetStatus(q, s))
           IN  /\ g \in RequestRecord /\ Sound(g) /\ Flushed(g)
               /\ g.response = q.response
               /\ Unused(q) => Unused(g)
               /\ g.httpResponse.raw = q.httpResponse.raw
               /\ ~q.httpResponse.raw =>
                      g.httpResponse.status =
                          IF Flushed(q) THEN q.httpResponse.status ELSE s
<1> DEFINE p == SetStatus(q, s)
           g == flushHeaders(p)
<1>0. s \in Int
  BY DEF ValidStatuses
<1>1. /\ p \in RequestRecord /\ p.httpResponse = q.httpResponse
      /\ p.response = q.response /\ (Flushed(p) <=> Flushed(q))
      /\ Flushed(q) => p = q
      /\ ~Flushed(q) => statusForRequest(p) = s
  BY <1>0, SetStatusIs
<1>2. Agreement(p) /\ Unsent(p) /\ Sound(p) /\ (Unused(q) => Unused(p))
  BY <1>0, SetStatusAgrees, SetStatusSound
<1> HIDE DEF p
<1>3. ~flushPanics(p)
  BY <1>1 DEF Agreement, flushPanics, WriteHeaderPanics, Flushed
<1>4. Sound(g) /\ (Unused(p) => Unused(g))
  BY <1>1, <1>2, <1>3, FlushSound
<1>5. /\ g \in RequestRecord /\ Flushed(g) /\ g.response = p.response
      /\ g.httpResponse.raw = p.httpResponse.raw
      /\ g.httpResponse.status = IF Committed(p.httpResponse) THEN p.httpResponse.status
                                 ELSE statusForRequest(p)
  BY <1>1, <1>3, FlushIs
<1> HIDE DEF g
<1>6. ~q.httpResponse.raw => (Committed(q.httpResponse) <=> Flushed(q))
  BY DEF Agreement, Unsent
<1> QED
  BY <1>1, <1>2, <1>4, <1>5, <1>6 DEF g, p

\* The recover leaves a sound answer, also when the flush itself panicked.
LEMMA RecoveredSound ==
    ASSUME NEW q \in RequestRecord, Agreement(q), Unsent(q), Sound(q)
    PROVE  Sound(Recovered(q))
<1>1. CASE Flushed(q)
  BY <1>1 DEF Recovered, Flushed
<1>2. CASE ~Flushed(q)
  <2>1. PICK s \in ValidStatuses : s = 500
    BY DEF ValidStatuses
  <2>2. Recovered(q) = flushHeaders(SetStatus(q, s))
    BY <1>2, <2>1 DEF Recovered, Flushed, RequestRecord
  <2> QED
    BY <2>2, SetAndFlushIs
<1> QED
  BY <1>1, <1>2

LEMMA PanicSound ==
    ASSUME NEW q \in RequestRecord, flushPanics(q), Agreement(q), Sound(q)
    PROVE  Sound(Recovered(flushHeaders(q)))
<1> DEFINE p == flushHeaders(q)
<1>1. ~Committed(q.httpResponse) /\ ~Flushed(q)
  BY DEF flushPanics, WriteHeaderPanics, Agreement
<1>2. p \in RequestRecord
  BY FlushType
<1>3. p.httpResponse = [q.httpResponse EXCEPT !.proxy = statusForRequest(q)]
  BY DEF flushHeaders, flushPanics, WriteHeader, RequestRecord
<1>4. /\ ~Flushed(p) /\ ~Committed(p.httpResponse) /\ SameAnswer(p, q)
      /\ p.httpResponse.type = q.httpResponse.type /\ p.setContentType = q.setContentType
  BY <1>1, <1>3 DEF flushHeaders, RequestRecord, Committed, Writer, Flushed, SameAnswer
<1>5. Agreement(p) /\ Unsent(p)
  BY <1>4 DEF Agreement, Unsent
<1> HIDE DEF p
<1>6. Sound(p)
  BY <1>1, <1>4 DEF Sound, SameAnswer, Described, Named
<1>7. Sound(Recovered(p))
  BY <1>2, <1>5, <1>6, RecoveredSound
<1> QED
  BY <1>7 DEF p

\* A type that is inferred is the one sent, unless it was chosen.
LEMMA NoOverrideIs ==
    ASSUME NEW q \in RequestRecord, NEW t \in HeaderValues
    PROVE  LET p == setContentTypeNoOverride(q, t)
           IN  /\ SameAnswer(p, q)
               /\ p.setContentType = q.setContentType /\ p.response = q.response
               /\ statusForRequest(p) = statusForRequest(q)
               /\ Flushed(p) <=> Flushed(q)
               /\ p.httpResponse.type = IF q.setContentType THEN q.httpResponse.type ELSE t
BY DEF setContentTypeNoOverride, SameAnswer, RequestRecord, Writer, statusForRequest, Flushed

LEMMA NoOverrideSound ==
    ASSUME NEW q \in RequestRecord, NEW t \in HeaderValues, Sound(q)
    PROVE  LET p == setContentTypeNoOverride(q, t)
           IN  /\ Sound(p) /\ (bodyAllowedForStatus(p) <=> bodyAllowedForStatus(q))
               /\ Unused(q) => Unused(p)
               /\ Redirected(q) => Redirected(p)
<1> DEFINE p == setContentTypeNoOverride(q, t)
<1>1. /\ SameAnswer(p, q) /\ p.setContentType = q.setContentType
      /\ statusForRequest(p) = statusForRequest(q)
      /\ Flushed(p) <=> Flushed(q)
      /\ q.setContentType => p.httpResponse.type = q.httpResponse.type
  BY NoOverrideIs
<1> HIDE DEF p
<1> QED
  BY <1>1 DEF Sound, SameAnswer, Described, Named, Unused, Redirected, bodyAllowedForStatus, p

\* The type is inferred and flushed, as for a page or a response.
LEMMA InferAndFlush ==
    ASSUME NEW q \in RequestRecord, NEW t \in HeaderValues,
           Agreement(q), Unsent(q), Sound(q), Unused(q), Redirected(q),
           bodyAllowedForStatus(q), ~flushPanics(setContentTypeNoOverride(q, t))
    PROVE  LET g == flushHeaders(setContentTypeNoOverride(q, t))
           IN  /\ Sound(g) /\ Unused(g) /\ bodyAllowedForStatus(g) /\ Named(g, t)
               /\ g.response = q.response
<1> DEFINE p == setContentTypeNoOverride(q, t)
           g == flushHeaders(p)
<1>1. /\ p \in RequestRecord /\ Agreement(p) /\ Unsent(p)
  BY ContentTypeType, ContentTypeAlike, AlikeUnsent
<1>2. /\ Sound(p) /\ Unused(p) /\ bodyAllowedForStatus(p)
  BY NoOverrideSound
<1>3. /\ p.setContentType = q.setContentType /\ p.response = q.response
      /\ SameAnswer(p, q)
      /\ ~q.setContentType => p.httpResponse.type = t
  BY NoOverrideIs
<1> HIDE DEF p
<1>4. Sound(g) /\ Unused(g)
  BY <1>1, <1>2, FlushSound DEF p
<1>5. /\ g.setContentType = p.setContentType /\ g.response = p.response
      /\ statusForRequest(g) = statusForRequest(p)
      /\ g.httpResponse.raw = p.httpResponse.raw
      /\ g.httpResponse.sent = IF Committed(p.httpResponse) THEN p.httpResponse.sent
                               ELSE p.httpResponse.type
      /\ g.httpResponse.status = IF Committed(p.httpResponse) THEN p.httpResponse.status
                                 ELSE statusForRequest(p)
  BY <1>1, FlushIs DEF p
<1> HIDE DEF g
<1>6. bodyAllowedForStatus(g)
  BY <1>2, <1>5 DEF bodyAllowedForStatus
<1>7. Named(g, t)
  BY <1>3, <1>5 DEF Named, SameAnswer, Redirected, Unsent, Committed
<1> QED
  BY <1>3, <1>4, <1>5, <1>6, <1>7 DEF g, p

\* A body whose headers allow it and name its type is accepted.
LEMMA WriteSound ==
    ASSUME NEW q \in RequestRecord, NEW by \in Writers, NEW as \in ContentTypes \cup {"any"},
           Agreement(q), Flushed(q), Sound(q), Unused(q),
           q.httpResponse.raw \/ q.httpResponse.status \notin BodilessStatuses,
           as = "any" \/ Named(q, as)
    PROVE  /\ Sound(writeBody(q, by, as))
           /\ writeBody(q, by, as).response = q.response
<1> DEFINE v == q.httpResponse
           chunk == [by |-> by, as |-> as]
           w == Write(v, chunk)
           p == writeBody(q, by, as)
<1>1. Committed(v) /\ v \in Writer
  BY DEF Agreement, RequestRecord
<1>2. /\ w.raw = v.raw /\ w.sent = v.sent /\ w.status = v.status /\ w.type = v.type
      /\ w.body \subseteq v.body \cup {chunk}
      /\ v.status \notin BodilessStatuses => w.refused = v.refused
  BY <1>1 DEF Write, Writer
<1>3. /\ p.httpResponse = w /\ p.response = q.response
      /\ p.setContentType = q.setContentType /\ Flushed(p)
  BY DEF writeBody, RequestRecord, Flushed
<1>4. chunk.by = by /\ chunk.as = as
  OBVIOUS
<1> HIDE DEF v, w, p, chunk
<1>5. Solo(w.body)
  BY <1>2 DEF Unused, Solo, v
<1>6. Described(p)
  <2>1. ASSUME NEW as_, Named(q, as_)
        PROVE  Named(p, as_)
    BY <1>2, <1>3, <2>1 DEF Named, v
  <2>2. ASSUME NEW c \in v.body
        PROVE  c.as = "any" \/ Named(p, c.as)
    BY <2>1 DEF Sound, Described, v
  <2>3. chunk.as = "any" \/ Named(p, chunk.as)
    BY <1>4, <2>1
  <2> QED
    BY <1>2, <1>3, <2>2, <2>3 DEF Described
<1>7. Sound(p)
  BY <1>2, <1>3, <1>5, <1>6 DEF Sound, v
<1> QED
  BY <1>3, <1>7 DEF p

-----------------------------------------------------------------------------
(* Steps of one request *)

LEMMA FitFrame ==
    ASSUME IInv, BInv, NEW r \in Requests, NEW l, NEW q, NEW m, NEW k,
           pc' = [pc EXCEPT ![r] = l], req' = [req EXCEPT ![r] = q],
           media' = [media EXCEPT ![r] = m], resume' = [resume EXCEPT ![r] = k],
           Fit(l, q, m, k)
    PROVE  BInv'
<1>1. ASSUME NEW s \in Requests
      PROVE  Fit(pc'[s], req'[s], media'[s], resume'[s])
  <2>1. CASE s = r
    <3>1. pc'[s] = l /\ req'[s] = q /\ media'[s] = m /\ resume'[s] = k
      BY <2>1 DEF IInv, TypeOK
    <3> QED
      BY <3>1
  <2>2. CASE s # r
    <3>1. /\ pc'[s] = pc[s] /\ req'[s] = req[s]
          /\ media'[s] = media[s] /\ resume'[s] = resume[s]
      BY <2>2 DEF IInv, TypeOK
    <3>2. Fit(pc[s], req[s], media[s], resume[s])
      BY DEF BInv
    <3> QED
      BY <3>1, <3>2
  <2> QED
    BY <2>1, <2>2
<1>2. (\A s \in Requests : Fit(pc[s], req[s], media[s], resume[s]))'
  BY <1>1
<1> QED
  BY <1>2 DEF BInv

LEMMA StepFit ==
    ASSUME IInv, BInv, NEW r \in Requests, NEW l, NEW q, Step(r, q, l),
           Fit(l, q, media[r], resume[r])
    PROVE  BInv'
<1>1. /\ media' = [media EXCEPT ![r] = media[r]]
      /\ resume' = [resume EXCEPT ![r] = resume[r]]
      /\ pc' = [pc EXCEPT ![r] = l] /\ req' = [req EXCEPT ![r] = q]
  BY DEF Step, Goto, Become, IInv, TypeOK
<1> QED
  BY <1>1, FitFrame

LEMMA LeaveFit ==
    ASSUME IInv, BInv, NEW r \in Requests, NEW e, NEW l, Leave(r, e, l),
           Fit(l, req[r], media[r], resume[r])
    PROVE  BInv'
<1>1. /\ media' = [media EXCEPT ![r] = media[r]]
      /\ resume' = [resume EXCEPT ![r] = resume[r]]
      /\ pc' = [pc EXCEPT ![r] = l] /\ req' = [req EXCEPT ![r] = req[r]]
  BY DEF Leave, Goto, IInv, TypeOK
<1> QED
  BY <1>1, FitFrame

LEMMA FitNow ==
    ASSUME IInv, BInv, NEW r \in Requests
    PROVE  /\ req[r] \in RequestRecord /\ resume[r] \in {"finish", "respond"}
           /\ media[r] \in ContentTypes \cup {"none"}
           /\ Agreement(req[r]) /\ (pc[r] # "done" => Unsent(req[r]))
           /\ Fit(pc[r], req[r], media[r], resume[r])
           /\ Sound(req[r])
BY GoodNow DEF BInv, Fit, Good

\* Where nothing is due any more a sound answer is all there is to say.
LEMMA Settled ==
    ASSUME NEW l \in {"close", "finish", "done", "dropped"}, NEW q, NEW m, NEW k, Sound(q)
    PROVE  Fit(l, q, m, k)
BY DEF Fit, Early, Resumed, Due, Waiting

\* Where a request with a sound answer goes on after an error.
LEMMA ResumedFit ==
    ASSUME NEW k \in {"finish", "respond"}, NEW q, NEW m, Sound(q),
           k = "respond" => q.response = "nil" \/ (Redirected(q) /\ Unused(q))
    PROVE  Fit(k, q, m, k)
BY DEF Fit, Early, Resumed, Due, Waiting

\* A request that waits for its response moves on as it is.
LEMMA WaitingFit ==
    ASSUME NEW l \in Waiting, NEW q, NEW m, NEW k, Fit(l, q, m, k),
           NEW n \in {"source", "parser", "handler", "error", "custom", "respond", "dropped"},
           n = "source" => l = "load",
           n \in {"parser", "handler"} => l \in {"source", "parser"},
           n = "error" => l # "custom" /\ l # "error"
    PROVE  Fit(n, q, m, k)
<1>1. Sound(q) /\ Redirected(q) /\ Unused(q)
  BY DEF Fit, Early
<1>2. Early(n, q) /\ Due(n, q, m)
  BY <1>1 DEF Early, Due, Waiting
<1>3. Resumed(n, q, k)
  BY DEF Fit, Resumed, Waiting
<1> QED
  BY <1>1, <1>2, <1>3 DEF Fit

-----------------------------------------------------------------------------
(* One lemma per group of actions *)

LEMMA ReceiveFits ==
    ASSUME IInv, BInv, NEW r \in Requests,
           Receive(r) \/ \E s \in {404, 405} : ReceiveUnrouted(r, s)
    PROVE  BInv'
<1>1. /\ newRequest \in RequestRecord /\ ~Flushed(newRequest)
      /\ newRequest.response = "nil" /\ Sound(newRequest)
      /\ Unused(newRequest) /\ Redirected(newRequest)
  BY NewRequestType
     DEF newRequest, NewWriter, Flushed, Sound, Solo, Described, Unused, Redirected
<1>2. resume[r] = "finish"
  BY FitNow DEF Receive, ReceiveUnrouted, At, Fit, Resumed, Waiting
<1>3. CASE Receive(r)
  <2>1. Fit("load", newRequest, media[r], resume[r])
    BY <1>1, <1>2 DEF Fit, Early, Resumed, Due, Waiting
  <2> QED
    BY <1>3, <2>1, StepFit DEF Receive
<1>4. ASSUME NEW s \in {404, 405}, ReceiveUnrouted(r, s)
      PROVE  BInv'
  <2> DEFINE q == SetStatus(newRequest, s)
  <2>1. s \in Int /\ s \notin BodilessStatuses
    BY DEF BodilessStatuses
  <2>2. ~Flushed(q) /\ q.responseStatus = s /\ Sound(q) /\ Unused(q)
    BY <1>1, <2>1, SetStatusIs, SetStatusSound
  <2> DEFINE m == media[r]
             k == resume[r]
  <2>3. /\ media' = [media EXCEPT ![r] = m] /\ resume' = [resume EXCEPT ![r] = k]
        /\ pc' = [pc EXCEPT ![r] = "page"] /\ req' = [req EXCEPT ![r] = q]
    BY <1>4 DEF ReceiveUnrouted, Become, Goto, IInv, TypeOK
  <2> HIDE DEF q
  <2>4. Fit("page", q, m, k)
    BY <1>2, <2>1, <2>2 DEF Fit, Early, Resumed, Due, Waiting
  <2> HIDE DEF m, k
  <2> QED
    BY <2>3, <2>4, FitFrame
<1> QED
  BY <1>3, <1>4

LEMMA LoadFits ==
    ASSUME IInv, BInv, NEW r \in Requests, Load(r)
    PROVE  BInv'
<1>1. CASE FormParseFails(r)
  <2>1. pc[r] = "source"
    BY <1>1 DEF FormParseFails, At
  <2>2. Fit("error", req[r], media[r], "respond")
    BY <2>1, FitNow DEF Fit, Early, Resumed, Due, Waiting
  <2>3. /\ media' = [media EXCEPT ![r] = media[r]]
        /\ resume' = [resume EXCEPT ![r] = "respond"]
        /\ pc' = [pc EXCEPT ![r] = "error"] /\ req' = [req EXCEPT ![r] = req[r]]
    BY <1>1 DEF FormParseFails, Goto, IInv, TypeOK
  <2> QED
    BY <2>2, <2>3, FitFrame
<1>2. ASSUME NEW e, NEW n \in {"source", "parser", "handler", "error", "respond", "dropped"},
             Leave(r, e, n), pc[r] \in {"load", "source", "parser", "handler"},
             n = "source" => pc[r] = "load",
             n \in {"parser", "handler"} => pc[r] \in {"source", "parser"}
      PROVE  BInv'
  <2>1. pc[r] \in Waiting /\ pc[r] # "custom" /\ pc[r] # "error" /\ n # "custom"
    BY <1>2 DEF Waiting
  <2>2. Fit(n, req[r], media[r], resume[r])
    BY <1>2, <2>1, FitNow, WaitingFit
  <2> QED
    BY <1>2, <2>2, LeaveFit
<1>3. CASE LoadFields(r) \/ LoadSource(r)
  BY <1>2, <1>3 DEF LoadFields, LoadSource, At
<1>4. CASE ParserReturns(r) \/ HandlerReturns(r)
  BY <1>2, <1>4 DEF ParserReturns, HandlerReturns, At
<1> QED
  BY <1>1, <1>3, <1>4 DEF Load

\* A call of application code that leaves a sound answer, which nobody but
\* Redirect or a custom error handler has touched.
LEMMA CallFit ==
    ASSUME IInv, BInv, NEW r \in Requests, NEW q, InApplication(r),
           Sound(q), Unused(q), Redirected(q),
           req' = [req EXCEPT ![r] = q], UNCHANGED <<pc, media, resume>>
    PROVE  BInv'
<1> DEFINE l == pc[r]
           m == media[r]
           k == resume[r]
<1>1. l \in {"parser", "handler", "custom"} /\ Fit(l, req[r], m, k)
  BY FitNow DEF InApplication
<1>2. Fit(l, q, m, k)
  BY <1>1 DEF Fit, Early, Resumed, Due, Waiting
<1>3. /\ media' = [media EXCEPT ![r] = m] /\ resume' = [resume EXCEPT ![r] = k]
      /\ pc' = [pc EXCEPT ![r] = l]
  BY DEF IInv, TypeOK
<1> HIDE DEF l, m, k
<1> QED
  BY <1>2, <1>3, FitFrame

LEMMA InApplicationFits ==
    ASSUME IInv, BInv, NEW r \in Requests, InApplication(r)
    PROVE  /\ req[r] \in RequestRecord /\ Agreement(req[r]) /\ Unsent(req[r])
           /\ Sound(req[r]) /\ Unused(req[r]) /\ Redirected(req[r])
<1>1. pc[r] \in {"parser", "handler", "custom"}
  BY DEF InApplication
<1> QED
  BY <1>1, FitNow DEF Fit, Early, Waiting

\* The setters and Respond do not touch what was written or sent.
LEMMA SettersSound ==
    ASSUME NEW q \in RequestRecord, Sound(q), Unused(q), Redirected(q)
    PROVE  /\ Sound(SetContentType(q)) /\ Unused(SetContentType(q))
           /\ Redirected(SetContentType(q))
           /\ Sound(SetHeader(q, "header")) /\ Unused(SetHeader(q, "header"))
           /\ Redirected(SetHeader(q, "header"))
           /\ \A kind : /\ Sound(Respond(q, kind)) /\ Unused(Respond(q, kind))
                        /\ Redirected(Respond(q, kind))
<1>1. ASSUME NEW p, SameAnswer(p, q), Flushed(p) <=> Flushed(q),
             Flushed(q) \/ p.httpResponse.type \in {"app", "header"}
                \/ p.httpResponse.type = q.httpResponse.type,
             p.setContentType = q.setContentType
      PROVE  Sound(p) /\ Unused(p) /\ Redirected(p)
  <2>1. Described(p)
    BY <1>1 DEF Sound, Described, Named, SameAnswer
  <2> QED
    BY <1>1, <2>1 DEF Sound, Unused, Redirected, SameAnswer
<1>2. LET p == SetContentType(q)
      IN  /\ SameAnswer(p, q) /\ (Flushed(p) <=> Flushed(q))
          /\ Flushed(q) => p = q
          /\ ~Flushed(q) => p.httpResponse.type = "app" /\ p.setContentType = TRUE
  BY DEF SetContentType, SetHeader, SameAnswer, Flushed, RequestRecord, Writer
<1>3. LET p == SetHeader(q, "header")
      IN  /\ SameAnswer(p, q) /\ (Flushed(p) <=> Flushed(q))
          /\ Flushed(q) => p = q
          /\ ~Flushed(q) => p.httpResponse.type = "header"
          /\ p.setContentType = q.setContentType
  BY DEF SetHeader, SameAnswer, Flushed, RequestRecord, Writer
<1>4. ASSUME NEW kind
      PROVE  LET p == Respond(q, kind)
             IN  /\ p.httpResponse = q.httpResponse /\ (Flushed(p) <=> Flushed(q))
                 /\ p.setContentType = q.setContentType
  BY DEF Respond, Flushed, RequestRecord
<1>5. Sound(SetContentType(q)) /\ Unused(SetContentType(q)) /\ Redirected(SetContentType(q))
  <2> DEFINE p == SetContentType(q)
  <2>1. CASE Flushed(q)
    BY <1>2, <2>1
  <2>2. CASE ~Flushed(q)
    <3>1. /\ SameAnswer(p, q) /\ (Flushed(p) <=> Flushed(q))
          /\ p.httpResponse.type = "app" /\ p.setContentType = TRUE
      BY <1>2, <2>2
    <3> HIDE DEF p
    <3>2. Described(p)
      BY <3>1 DEF Described, Named
    <3>3. Sound(p) /\ Unused(p) /\ Redirected(p)
      BY <2>2, <3>1, <3>2 DEF Sound, Unused, Redirected, SameAnswer
    <3> QED
      BY <3>3 DEF p
  <2> QED
    BY <2>1, <2>2
<1>6. /\ Sound(SetHeader(q, "header")) /\ Unused(SetHeader(q, "header"))
      /\ Redirected(SetHeader(q, "header"))
  BY <1>1, <1>3
<1>7. ASSUME NEW kind
      PROVE  /\ Sound(Respond(q, kind)) /\ Unused(Respond(q, kind))
             /\ Redirected(Respond(q, kind))
  <2>1. SameAnswer(Respond(q, kind), q)
    BY <1>4 DEF SameAnswer
  <2> QED
    BY <1>1, <1>4, <2>1
<1> QED
  BY <1>5, <1>6, <1>7

LEMMA CallFits ==
    ASSUME IInv, BInv, NEW r \in Requests,
           \/ CallSetStatus(r) \/ CallSetContentType(r) \/ CallSetHeader(r) \/ CallAddHeader(r)
           \/ CallRedirect(r) \/ CallRespond(r) \/ CallRespondReader(r)
    PROVE  BInv'
<1>1. InApplication(r)
  BY DEF CallSetStatus, CallSetContentType, CallSetHeader, CallAddHeader, CallRedirect,
         CallRespond, CallRespondReader, Call
<1>2. /\ req[r] \in RequestRecord /\ Agreement(req[r]) /\ Unsent(req[r])
      /\ Sound(req[r]) /\ Unused(req[r]) /\ Redirected(req[r])
  BY <1>1, InApplicationFits
<1>3. ASSUME NEW q, Call(r, q), Sound(q), Unused(q), Redirected(q)
      PROVE  BInv'
  BY <1>1, <1>3, CallFit DEF Call, Become
<1>4. CASE CallSetStatus(r)
  <2>1. PICK s \in Statuses : Call(r, SetStatus(req[r], s))
    BY <1>4 DEF CallSetStatus
  <2>2. s \in Int
    BY StatusesAssumption
  <2> QED
    BY <1>2, <1>3, <2>1, <2>2, SetStatusSound
<1>5. CASE CallSetContentType(r) \/ CallSetHeader(r) \/ CallAddHeader(r)
  <2>1. \E q \in {req[r], SetContentType(req[r]), SetHeader(req[r], "header")} : Call(r, q)
    BY <1>5 DEF CallSetContentType, CallSetHeader, CallAddHeader, AddHeader
  <2> QED
    BY <1>2, <1>3, <2>1, SettersSound
<1>6. CASE CallRedirect(r)
  <2>1. PICK s \in ValidStatuses : s = 307
    BY DEF ValidStatuses
  <2> DEFINE q == flushHeaders(SetStatus(req[r], s))
  <2>2. Call(r, q)
    BY <1>6, <2>1 DEF CallRedirect, Redirect
  <2>3. /\ Sound(q) /\ Unused(q)
        /\ q.httpResponse.raw = req[r].httpResponse.raw
        /\ ~req[r].httpResponse.raw =>
               q.httpResponse.status = IF Flushed(req[r]) THEN req[r].httpResponse.status ELSE s
    BY <1>2, SetAndFlushIs
  <2> HIDE DEF q
  <2>4. Redirected(q)
    BY <1>2, <2>1, <2>3 DEF Redirected
  <2> QED
    BY <1>3, <2>2, <2>3, <2>4
<1>7. CASE CallRespond(r)
  BY <1>2, <1>3, <1>7, SettersSound DEF CallRespond
<1>8. CASE CallRespondReader(r)
  <2> DEFINE q == Respond(req[r], "file")
  <2>1. Sound(q) /\ Unused(q) /\ Redirected(q)
    BY <1>2, SettersSound
  <2>2. req' = [req EXCEPT ![r] = q] /\ UNCHANGED <<pc, media, resume>>
    BY <1>8 DEF CallRespondReader, Become
  <2> HIDE DEF q
  <2> QED
    BY <1>1, <2>1, <2>2, CallFit
<1> QED
  BY <1>4, <1>5, <1>6, <1>7, <1>8

\* A custom error handler answers for itself from then on.
LEMMA CallWriterFits ==
    ASSUME IInv, BInv, NEW r \in Requests, CallWriter(r)
    PROVE  BInv'
<1> DEFINE o == req[r].httpResponse
           chunk == [by |-> "raw", as |-> "any"]
<1>1. PICK w \in {WriteHeader(o, s) : s \in Statuses \cap ValidStatuses} \cup {Write(o, chunk)} :
          Step(r, [req[r] EXCEPT !.httpResponse = [w EXCEPT !.raw = TRUE]], "custom")
  BY DEF CallWriter
<1> DEFINE v == [w EXCEPT !.raw = TRUE]
           q == [req[r] EXCEPT !.httpResponse = v]
<1>2. pc[r] = "custom" /\ InApplication(r)
  BY DEF CallWriter, At, InApplication
<1>3. req[r] \in RequestRecord /\ Unused(req[r]) /\ o \in Writer
  BY <1>2, InApplicationFits DEF RequestRecord
<1>4. w \in Writer /\ w.body \subseteq o.body \cup {chunk}
  <2>1. ASSUME NEW s \in Statuses \cap ValidStatuses, w = WriteHeader(o, s)
        PROVE  w \in Writer /\ w.body = o.body
    <3>1. s \in Int
      BY StatusesAssumption
    <3> QED
      BY <1>3, <2>1, <3>1, WriteHeaderType DEF WriteHeader, Commit, Writer
  <2>2. CASE w = Write(o, chunk)
    <3>1. chunk \in Chunks
      BY DEF Chunks, Writers
    <3>2. w \in Writer
      BY <1>3, <2>2, <3>1, WriteType
    <3>3. w.body \subseteq o.body \cup {chunk}
      <4> HIDE DEF chunk, o
      <4> QED
        BY <1>3, <2>2 DEF Write, Commit, Writer
    <3> QED
      BY <3>2, <3>3
  <2> QED
    BY <1>1, <2>1, <2>2
<1>5. v.raw = TRUE /\ v.body = w.body
  BY <1>4 DEF Writer
<1>6. q.httpResponse = v
  BY <1>3 DEF RequestRecord
<1>7. chunk.by = "raw"
  OBVIOUS
<1>8. Step(r, q, "custom")
  BY <1>1
<1>9. \A c \in o.body : c.by = "raw"
  BY <1>3 DEF Unused
<1> HIDE DEF q, v, o, chunk
<1>10. Unused(q)
  BY <1>4, <1>5, <1>6, <1>7, <1>9 DEF Unused
<1>11. Sound(q) /\ Redirected(q)
  BY <1>5, <1>6, <1>10 DEF Sound, Solo, Described, Named, Unused, Redirected
<1>12. req' = [req EXCEPT ![r] = q] /\ UNCHANGED <<pc, media, resume>>
  BY <1>2, <1>8 DEF Step, Become, Goto, IInv, TypeOK
<1> QED
  BY <1>2, <1>10, <1>11, <1>12, CallFit

LEMMA EOFFits ==
    ASSUME IInv, BInv, NEW r \in Requests, badRequestUnexpectedEOF(r)
    PROVE  BInv'
<1>1. PICK s \in ValidStatuses : s = 400
  BY DEF ValidStatuses
<1> DEFINE p == flushHeaders(SetStatus(req[r], s))
           q == writeBody(p, "eof", "any")
<1>2. pc[r] = "error" /\ Step(r, q, resume[r])
  BY <1>1 DEF badRequestUnexpectedEOF, At
<1>3. /\ req[r] \in RequestRecord /\ Agreement(req[r]) /\ Unsent(req[r])
      /\ Sound(req[r]) /\ Unused(req[r]) /\ Redirected(req[r])
      /\ resume[r] \in {"finish", "respond"}
      /\ resume[r] = "respond" => req[r].response = "nil"
  BY <1>2, FitNow DEF Fit, Early, Resumed, Waiting
<1>4. /\ p \in RequestRecord /\ Sound(p) /\ Flushed(p) /\ Unused(p)
      /\ p.response = req[r].response
      /\ p.httpResponse.raw = req[r].httpResponse.raw
      /\ ~req[r].httpResponse.raw =>
             p.httpResponse.status = IF Flushed(req[r]) THEN req[r].httpResponse.status ELSE s
  BY <1>3, SetAndFlushIs
<1>5. Agreement(p)
  BY <1>3, SetAndFlush
<1> HIDE DEF p
<1>6. p.httpResponse.raw \/ p.httpResponse.status \notin BodilessStatuses
  BY <1>1, <1>3, <1>4 DEF Redirected, BodilessStatuses
<1>7. Sound(q) /\ q.response = p.response
  BY <1>4, <1>5, <1>6, WriteSound DEF Writers
<1> DEFINE m == media[r]
           k == resume[r]
<1> HIDE DEF q, m, k
<1>8. Fit(k, q, m, k)
  <2>1. k \in {"finish", "respond"} /\ (k = "respond" => q.response = "nil")
    BY <1>3, <1>4, <1>7 DEF k
  <2> QED
    BY <1>7, <2>1, ResumedFit
<1> QED
  BY <1>2, <1>8, StepFit DEF m, k

LEMMA DispatchFits ==
    ASSUME IInv, BInv, NEW r \in Requests,
           dispatchValidationError(r) \/ dispatchError(r)
    PROVE  BInv'
<1> DEFINE m == media[r]
           k == resume[r]
<1>1. /\ pc[r] = "error" /\ pc[r] \in Waiting
      /\ \/ \E s \in {400, 500} : defaultErrorHandler(r, s)
         \/ Leave(r, "handled", "custom")
  BY DEF dispatchValidationError, dispatchError, At, Waiting
<1>2. /\ req[r] \in RequestRecord /\ Sound(req[r]) /\ Unused(req[r]) /\ Redirected(req[r])
      /\ k \in {"finish", "respond"}
      /\ k = "respond" => req[r].response = "nil"
      /\ Fit(pc[r], req[r], m, k)
  BY <1>1, FitNow DEF Fit, Early, Resumed, Waiting
<1>3. CASE Leave(r, "handled", "custom")
  <2>1. Fit("custom", req[r], m, k)
    BY <1>2 DEF Fit, Early, Resumed, Due, Waiting
  <2> QED
    BY <1>3, <2>1, LeaveFit
<1>4. ASSUME NEW s \in {400, 500}, defaultErrorHandler(r, s)
      PROVE  BInv'
  <2>1. CASE Flushed(req[r])
    <3>1. Step(r, req[r], k)
      BY <1>4, <2>1 DEF defaultErrorHandler, Flushed
    <3>2. Fit(k, req[r], m, k)
      BY <1>2, ResumedFit
    <3> QED
      BY <3>1, <3>2, StepFit
  <2>2. CASE ~Flushed(req[r])
    <3> DEFINE q == SetStatus(req[r], s)
    <3>1. Step(r, q, "page")
      BY <1>2, <1>4, <2>2 DEF defaultErrorHandler, Flushed, RequestRecord
    <3>2. s \in Int /\ s \notin BodilessStatuses
      BY DEF BodilessStatuses
    <3>3. /\ Sound(q) /\ Unused(q) /\ ~Flushed(q) /\ q.responseStatus = s
          /\ q.response = req[r].response
      BY <1>2, <2>2, <3>2, SetStatusIs, SetStatusSound
    <3> HIDE DEF q
    <3>4. Fit("page", q, m, k)
      BY <1>2, <3>2, <3>3 DEF Fit, Early, Resumed, Due, Waiting
    <3> QED
      BY <3>1, <3>4, StepFit
  <2> QED
    BY <2>1, <2>2
<1> QED
  BY <1>1, <1>3, <1>4

LEMMA WritePageFits ==
    ASSUME IInv, BInv, NEW r \in Requests, WritePage(r)
    PROVE  BInv'
<1>1. PICK type \in PageTypes :
          /\ Become(r, flushHeaders(setContentTypeNoOverride(req[r], type)))
          /\ media' = [media EXCEPT ![r] = type]
  BY DEF WritePage
<1> DEFINE p == setContentTypeNoOverride(req[r], type)
           q == flushHeaders(p)
           k == resume[r]
<1>2. type \in HeaderValues
  BY DEF PageTypes, ContentTypes, HeaderValues
<1>3. pc[r] = "page"
  BY DEF WritePage, At
<1>4. /\ req[r] \in RequestRecord /\ Agreement(req[r]) /\ Unsent(req[r])
      /\ Sound(req[r]) /\ Unused(req[r]) /\ ~Flushed(req[r])
      /\ req[r].responseStatus \notin BodilessStatuses
      /\ k = "respond" => req[r].response = "nil"
  BY <1>3, FitNow DEF Fit, Early, Resumed, Due
<1>5. Explicit(req[r]) /\ ~flushPanics(req[r])
  BY <1>3, GoodNow
     DEF Good, Position, flushPanics, WriteHeaderPanics, statusForRequest, Explicit
<1>6. Redirected(req[r]) /\ bodyAllowedForStatus(req[r])
  BY <1>4, <1>5 DEF Redirected, bodyAllowedForStatus, statusForRequest, Explicit
<1>7. ~flushPanics(p)
  BY <1>2, <1>4, <1>5, ContentTypeAlike, AlikeUnsent
<1>8. /\ Sound(q) /\ Unused(q) /\ bodyAllowedForStatus(q) /\ Named(q, type)
      /\ q.response = req[r].response
  BY <1>2, <1>4, <1>6, <1>7, InferAndFlush
<1>9. /\ pc' = [pc EXCEPT ![r] = "pageBody"] /\ req' = [req EXCEPT ![r] = q]
      /\ media' = [media EXCEPT ![r] = type] /\ resume' = [resume EXCEPT ![r] = k]
  BY <1>1 DEF WritePage, Become, Goto, IInv, TypeOK
<1> HIDE DEF q
<1>10. Fit("pageBody", q, type, k)
  BY <1>4, <1>8 DEF Fit, Early, Resumed, Due, Waiting
<1> HIDE DEF k
<1> QED
  BY <1>9, <1>10, FitFrame

\* What is written where a body is due: it is sound.
LEMMA BodyDue ==
    ASSUME IInv, BInv, NEW r \in Requests, pc[r] \in {"pageBody", "body"}, NEW by \in Writers
    PROVE  /\ Sound(writeBody(req[r], by, media[r]))
           /\ writeBody(req[r], by, media[r]).response = req[r].response
<1>1. /\ req[r] \in RequestRecord /\ Agreement(req[r]) /\ Flushed(req[r])
      /\ media[r] \in ContentTypes \cup {"any"}
  BY GoodNow DEF Good, Position, Resources
<1>2. /\ Sound(req[r]) /\ Unused(req[r]) /\ bodyAllowedForStatus(req[r])
      /\ Named(req[r], media[r])
  BY FitNow DEF Fit, Early, Due
<1>3. req[r].httpResponse.raw \/ req[r].httpResponse.status \notin BodilessStatuses
  BY <1>1, <1>2 DEF Agreement, bodyAllowedForStatus
<1> QED
  BY <1>1, <1>2, <1>3, WriteSound

LEMMA WritePageBodyFits ==
    ASSUME IInv, BInv, NEW r \in Requests, WritePageBody(r)
    PROVE  BInv'
<1> DEFINE m == media[r]
           k == resume[r]
           q == writeBody(req[r], "page", media[r])
<1>1. pc[r] = "pageBody"
  BY DEF WritePageBody, At
<1>2. /\ Sound(req[r]) /\ k \in {"finish", "respond"}
      /\ k = "respond" => req[r].response = "nil"
  BY <1>1, FitNow DEF Fit, Resumed
<1>3. Sound(q) /\ q.response = req[r].response
  BY <1>1, BodyDue DEF Writers
<1>4. CASE Step(r, req[r], "dropped")
  BY <1>2, <1>4, Settled, StepFit
<1>5. CASE Step(r, q, k)
  <2>1. k = "respond" => q.response = "nil"
    BY <1>2, <1>3
  <2>2. k \in {"finish", "respond"} /\ Sound(q)
    BY <1>2, <1>3
  <2> HIDE DEF q, k, m
  <2>3. Fit(k, q, m, k)
    BY <2>1, <2>2, ResumedFit
  <2> QED
    BY <1>5, <2>3, StepFit DEF k, m
<1> QED
  BY <1>4, <1>5 DEF WritePageBody

LEMMA CustomReturnsFits ==
    ASSUME IInv, BInv, NEW r \in Requests, CustomHandlerReturns(r)
    PROVE  BInv'
<1> DEFINE m == media[r]
           k == resume[r]
<1>1. pc[r] = "custom"
  BY DEF CustomHandlerReturns, At
<1>2. Sound(req[r]) /\ Unused(req[r]) /\ Redirected(req[r]) /\ k \in {"finish", "respond"}
  BY <1>1, FitNow DEF Fit, Early, Waiting
<1>3. Fit(k, req[r], m, k)
  BY <1>2, ResumedFit
<1>4. Fit("dropped", req[r], m, k)
  BY <1>2, Settled
<1> QED
  BY <1>3, <1>4, StepFit DEF CustomHandlerReturns

-----------------------------------------------------------------------------
(* doRespond *)

\* A flush that ends the request, because it was all or because it panicked.
LEMMA FlushEnds ==
    ASSUME IInv, BInv, NEW r \in Requests, NEW q \in RequestRecord, NEW k,
           Agreement(q), Unsent(q), Sound(q),
           Flush(r, q, k), k = "finish" \/ flushPanics(q),
           resume' = resume, NEW m, media' = [media EXCEPT ![r] = m]
    PROVE  BInv'
<1> DEFINE j == resume[r]
<1>1. resume' = [resume EXCEPT ![r] = j]
  BY DEF IInv, TypeOK
<1>2. ASSUME NEW g, Sound(g), Become(r, g), Goto(r, "finish")
      PROVE  BInv'
  <2>1. Fit("finish", g, m, j)
    BY <1>2, Settled
  <2> HIDE DEF j
  <2> QED
    BY <1>1, <1>2, <2>1, FitFrame DEF Become, Goto
<1>3. CASE flushPanics(q)
  BY <1>2, <1>3, PanicSound DEF Flush
<1>4. CASE ~flushPanics(q)
  BY <1>2, <1>4, FlushSound DEF Flush
<1> QED
  BY <1>3, <1>4

\* A type is inferred and flushed, and its body due.
LEMMA InferFits ==
    ASSUME IInv, BInv, NEW r \in Requests, NEW type \in ContentTypes,
           pc[r] \in {"respond", "render"},
           Unused(req[r]), Redirected(req[r]), bodyAllowedForStatus(req[r]),
           Flush(r, setContentTypeNoOverride(req[r], type), "body"),
           resume' = resume, media' = [media EXCEPT ![r] = type]
    PROVE  BInv'
<1> DEFINE p == setContentTypeNoOverride(req[r], type)
           g == flushHeaders(p)
           k == resume[r]
<1>1. /\ req[r] \in RequestRecord /\ Agreement(req[r]) /\ Unsent(req[r]) /\ Sound(req[r])
      /\ type \in HeaderValues
  BY FitNow DEF HeaderValues
<1>2. p \in RequestRecord /\ Agreement(p) /\ Unsent(p) /\ Sound(p)
  BY <1>1, ContentTypeType, ContentTypeAlike, AlikeUnsent, NoOverrideSound
<1>3. CASE flushPanics(p)
  <2> HIDE DEF p
  <2>1. Flush(r, p, "body")
    BY DEF p
  <2> QED
    BY <1>2, <1>3, <2>1, FlushEnds
<1>4. CASE ~flushPanics(p)
  <2>1. Sound(g) /\ Unused(g) /\ bodyAllowedForStatus(g) /\ Named(g, type)
    BY <1>1, <1>4, InferAndFlush
  <2>2. /\ pc' = [pc EXCEPT ![r] = "body"] /\ req' = [req EXCEPT ![r] = g]
        /\ resume' = [resume EXCEPT ![r] = k]
    BY <1>4 DEF Flush, Become, Goto, IInv, TypeOK
  <2> HIDE DEF g
  <2>3. Fit("body", g, type, k)
    BY <2>1 DEF Fit, Early, Resumed, Due, Waiting
  <2> HIDE DEF k
  <2> QED
    BY <2>2, <2>3, FitFrame
<1> QED
  BY <1>3, <1>4

LEMMA RespondFits ==
    ASSUME IInv, BInv, NEW r \in Requests,
           \/ RespondNothing(r) \/ RespondConcrete(r) \/ RespondGeneric(r)
           \/ CustomRendered(r)
    PROVE  BInv'
<1>1. CASE RespondNothing(r)
  <2> DEFINE m == media[r]
  <2>1. /\ req[r] \in RequestRecord /\ Agreement(req[r]) /\ Unsent(req[r]) /\ Sound(req[r])
    BY <1>1, FitNow DEF RespondNothing, At
  <2>2. /\ Flush(r, req[r], "finish") /\ resume' = resume
        /\ media' = [media EXCEPT ![r] = m]
    BY <1>1 DEF RespondNothing, IInv, TypeOK
  <2> HIDE DEF m
  <2> QED
    BY <2>1, <2>2, FlushEnds
<1>2. ASSUME NEW type \in ContentTypes, RespondAs(r, type), pc[r] = "respond"
      PROVE  BInv'
  <2>1. /\ bodyAllowedForStatus(req[r]) /\ req[r].response # "nil"
        /\ Flush(r, setContentTypeNoOverride(req[r], type), "body")
        /\ resume' = resume /\ media' = [media EXCEPT ![r] = type]
    BY <1>2 DEF RespondAs, Bodiless
  <2>2. Unused(req[r]) /\ Redirected(req[r])
    BY <1>2, <2>1, FitNow DEF Fit, Early
  <2> QED
    BY <1>2, <2>1, <2>2, InferFits
<1>3. CASE RespondConcrete(r)
  <2>1. ContentTypeOf(req[r].response) \in ContentTypes
    BY DEF ContentTypeOf, ContentTypes
  <2> QED
    BY <1>2, <1>3, <2>1 DEF RespondConcrete, Responding, At
<1>4. CASE RespondGeneric(r)
  <2>1. GenericTypes \subseteq ContentTypes
    BY DEF GenericTypes, PageTypes, ContentTypes
  <2> QED
    BY <1>2, <1>4, <2>1 DEF RespondGeneric, Responding, At
<1>5. CASE CustomRendered(r)
  <2>1. pc[r] = "render"
    BY <1>5 DEF CustomRendered, At
  <2>2. media[r] \in ContentTypes
    BY <2>1, GoodNow DEF Good, Resources
  <2>3. Unused(req[r]) /\ Redirected(req[r]) /\ bodyAllowedForStatus(req[r])
    BY <2>1, FitNow DEF Fit, Early, Due
  <2>4. PICK type \in ContentTypes : type = media[r]
    BY <2>2
  <2>5. /\ Flush(r, setContentTypeNoOverride(req[r], type), "body")
        /\ resume' = resume /\ media' = [media EXCEPT ![r] = type]
    BY <1>5, <2>4 DEF CustomRendered, IInv, TypeOK
  <2> QED
    BY <2>1, <2>3, <2>5, InferFits
<1> QED
  BY <1>1, <1>3, <1>4, <1>5

LEMMA RespondCustomFits ==
    ASSUME IInv, BInv, NEW r \in Requests, RespondCustom(r)
    PROVE  BInv'
<1> DEFINE q == setContentTypeNoOverride(req[r], "custom")
           k == resume[r]
<1>1. /\ pc[r] = "respond" /\ req[r].response # "nil" /\ bodyAllowedForStatus(req[r])
  BY DEF RespondCustom, Responding, At, Bodiless
<1>2. req[r] \in RequestRecord /\ Sound(req[r]) /\ Unused(req[r]) /\ Redirected(req[r])
  BY <1>1, FitNow DEF Fit, Early
<1>3. Sound(q) /\ bodyAllowedForStatus(q) /\ Unused(q) /\ Redirected(q)
  BY <1>1, <1>2, NoOverrideSound DEF HeaderValues, ContentTypes
<1>4. /\ pc' = [pc EXCEPT ![r] = "render"] /\ req' = [req EXCEPT ![r] = q]
      /\ media' = [media EXCEPT ![r] = "custom"] /\ resume' = [resume EXCEPT ![r] = k]
  BY DEF RespondCustom, Become, Goto, IInv, TypeOK
<1> HIDE DEF q
<1>5. Fit("render", q, "custom", k)
  BY <1>3 DEF Fit, Early, Resumed, Due, Waiting
<1> HIDE DEF k
<1> QED
  BY <1>4, <1>5, FitFrame

\* Every way for a response to end.
LEMMA EndsFit ==
    ASSUME IInv, BInv, NEW r \in Requests,
           \/ RespondUnknown(r) \/ CustomFails(r) \/ WriteBody(r) \/ WriteBodyFails(r)
           \/ CloseReader(r) \/ Finish(r)
    PROVE  BInv'
<1>1. /\ pc[r] # "done" /\ req[r] \in RequestRecord /\ Agreement(req[r])
      /\ Unsent(req[r]) /\ Sound(req[r])
  <2>1. pc[r] # "done"
    BY DEF RespondUnknown, CustomFails, WriteBody, WriteBodyFails, CloseReader, Finish,
           Responding, At
  <2> QED
    BY <2>1, FitNow
<1>2. ASSUME NEW q, Sound(q), NEW l \in {"close", "finish", "done"}, Step(r, q, l)
      PROVE  BInv'
  <2>1. Fit(l, q, media[r], resume[r])
    BY <1>2, Settled
  <2> QED
    BY <1>2, <2>1, StepFit
<1>3. CASE Step(r, Recovered(req[r]), "finish") \/ CustomFails(r)
  <2>1. Sound(Recovered(req[r]))
    BY <1>1, RecoveredSound
  <2> QED
    BY <1>1, <1>2, <1>3, <2>1 DEF CustomFails
<1>4. CASE WriteBody(r)
  <2>1. Sound(writeBody(req[r], "response", media[r]))
    BY <1>4, BodyDue DEF WriteBody, At, Writers
  <2>2. \E l \in {"close", "finish"} : Step(r, writeBody(req[r], "response", media[r]), l)
    BY <1>4 DEF WriteBody
  <2> QED
    BY <1>2, <2>1, <2>2
<1>7. CASE WriteBodyFails(r)
  <2>1. /\ pc[r] = "body"
        /\ \/ Step(r, Recovered(req[r]), "finish")
           \/ Step(r, writeBody(req[r], "response", media[r]), "finish")
    BY <1>7, WriteBodyFailsIs
  <2>2. Sound(writeBody(req[r], "response", media[r]))
    BY <2>1, BodyDue DEF Writers
  <2> QED
    BY <1>2, <1>3, <2>1, <2>2
<1>8. CASE RespondUnknown(r)
  BY <1>3, <1>8 DEF RespondUnknown
<1>5. CASE CloseReader(r)
  <2> DEFINE m == media[r]
             k == resume[r]
  <2>1. /\ pc' = [pc EXCEPT ![r] = "finish"] /\ req' = [req EXCEPT ![r] = req[r]]
        /\ media' = [media EXCEPT ![r] = m] /\ resume' = [resume EXCEPT ![r] = k]
    BY <1>5 DEF CloseReader, Goto, IInv, TypeOK
  <2>2. Fit("finish", req[r], m, k)
    BY <1>1, Settled
  <2> HIDE DEF m, k
  <2> QED
    BY <2>1, <2>2, FitFrame
<1>6. CASE Finish(r)
  <2> DEFINE o == req[r].httpResponse
             w == EndOfHandler(o)
             q == [req[r] EXCEPT !.httpResponse = w]
  <2>1. Step(r, q, "done")
    BY <1>6 DEF Finish
  <2>2. o \in Writer
    BY <1>1 DEF RequestRecord
  <2>3. /\ w.raw = o.raw /\ w.refused = o.refused /\ w.body = o.body /\ w.type = o.type
        /\ Committed(o) => w = o
    BY <2>2 DEF EndOfHandler, Commit, Writer
  <2>4. /\ q.httpResponse = w /\ q.setContentType = req[r].setContentType
        /\ Flushed(q) <=> Flushed(req[r])
    BY <1>1 DEF RequestRecord, Flushed
  <2>5. Flushed(req[r]) => w = o
    BY <1>1, <2>3 DEF Agreement
  <2> HIDE DEF w, q
  <2>6. Described(q)
    BY <1>1, <2>3, <2>4, <2>5 DEF Sound, Described, Named
  <2>7. Sound(q)
    BY <1>1, <2>3, <2>4, <2>5, <2>6 DEF Sound
  <2> QED
    BY <1>2, <2>1, <2>7
<1> QED
  BY <1>3, <1>4, <1>5, <1>6, <1>7, <1>8

-----------------------------------------------------------------------------
(* The theorems *)

LEMMA InitBInv == Init => BInv
<1> SUFFICES ASSUME Init, NEW r \in Requests
             PROVE  Fit(pc[r], req[r], media[r], resume[r])
  BY DEF BInv
<1>1. Fit("idle", newRequest, "none", "finish")
  BY DEF Fit, Sound, Solo, Described, Early, Resumed, Due, Waiting, Unused, Redirected,
         Flushed, newRequest, NewWriter
<1> QED
  BY <1>1 DEF Init

LEMMA NextBInv == IInv /\ BInv /\ [Next]_vars => BInv'
<1> SUFFICES ASSUME IInv, BInv, [Next]_vars PROVE BInv'
  OBVIOUS
<1>1. CASE UNCHANGED <<pc, req, media, resume>>
  BY <1>1 DEF BInv
<1>2. ASSUME NEW r \in Requests,
             Receive(r) \/ \E s \in {404, 405} : ReceiveUnrouted(r, s)
      PROVE  BInv'
  BY <1>2, ReceiveFits
<1>3. ASSUME NEW r \in Requests, CallRequest(r)
      PROVE  BInv'
  BY <1>3, CallFits, CallWriterFits DEF CallRequest
<1>4. ASSUME NEW r \in Requests, Load(r)
      PROVE  BInv'
  BY <1>4, LoadFits
<1>5. ASSUME NEW r \in Requests, HandleFailure(r)
      PROVE  BInv'
  BY <1>5, EOFFits, DispatchFits, WritePageFits, WritePageBodyFits, CustomReturnsFits
     DEF HandleFailure
<1>6. ASSUME NEW r \in Requests, doRespond(r) \/ Finish(r)
      PROVE  BInv'
  BY <1>6, RespondFits, RespondCustomFits, EndsFit DEF doRespond
<1> QED
  BY <1>1, <1>2, <1>3, <1>4, <1>5, <1>6
     DEF Next, Advance, vars, HandleError, HandleValidationError

\* The strengthening holds in every reachable state.
THEOREM BodyInvariance == Spec => []BInv
BY InitIInv, NextIInv, InitBInv, NextBInv, PTL DEF Spec

\* No path through doRespond, the error pages or the EOF answer writes a body
\* under a status that forbids one.
THEOREM BodiesAreAllowed == Spec => []NoForbiddenBody
<1>1. BInv => NoForbiddenBody
  BY DEF BInv, Fit, Sound, NoForbiddenBody, Raw, Answer
<1> QED
  BY <1>1, BodyInvariance, PTL

\* Neither inference nor negotiation, nor an error page, replaces a
\* Content-Type the application chose before the headers went out.
THEOREM ChosenTypeIsSent == Spec => []ContentTypeNotOverridden
<1>1. BInv => ContentTypeNotOverridden
  <2> SUFFICES ASSUME BInv, NEW r \in Requests, req[r].flushedHeaders,
                      req[r].setContentType, ~Raw(r)
               PROVE  Answer(r).sent \in {"app", "header"}
    BY DEF ContentTypeNotOverridden
  <2>1. Sound(req[r])
    BY DEF BInv, Fit
  <2> QED
    BY <2>1 DEF Sound, Flushed, Raw, Answer
<1> QED
  BY <1>1, BodyInvariance, PTL

\* The Content-Type sent, if inferred, is the format of the body.
THEOREM TypeDescribesBody == Spec => []ContentTypeDescribesBody
<1>1. BInv => ContentTypeDescribesBody
  BY DEF BInv, Fit, Sound, Described, Named, ContentTypeDescribesBody, Raw, Answer
<1> QED
  BY <1>1, BodyInvariance, PTL

\* An error page, the EOF answer and the handler's response exclude each other.
THEOREM BodiesHaveOneAuthor == Spec => []OneAuthor
<1>1. BInv => OneAuthor
  BY DEF BInv, Fit, Sound, Solo, OneAuthor, Answer
<1> QED
  BY <1>1, BodyInvariance, PTL

-----------------------------------------------------------------------------
(* The exchange the client sees *)

\* What a label and an error stand for in an Exchange.
StageAt(l) ==
    CASE l = "idle"    -> "idle"
      [] l = "done"    -> "closed"
      [] l = "dropped" -> "dropped"
      [] OTHER         -> "open"

VerdictAt(l, e) ==
    IF l = "error" /\ e # "eof" THEN "none"
    ELSE CASE e \in {"eof", "validation"}               -> "bad"
           [] e \in {"runtime", "abort"}                -> "broken"
           [] e \in {"notfound", "unrouted", "handled"} -> e
           [] e = "none" /\ l \in Judged                -> "ok"
           [] OTHER                                     -> "none"

\* The errors a request may have met at a label.
Met(l) ==
    CASE l \in {"idle", "load", "source", "parser", "handler"} -> {"none"}
      [] l = "error"                -> Errors \ {"unrouted", "handled"}
      [] l = "custom"               -> {"handled"}
      [] l \in {"page", "pageBody"} -> Errors \ {"eof", "handled"}
      [] OTHER                      -> Errors \cup {"none"}

\* Only custom error handlers write directly; a page is under a status for the
\* error it is about; and an error that no custom handler was given is answered
\* before anything follows.
Told(l, q, e) ==
    /\ e \in Met(l)
    /\ q.httpResponse.raw => e = "handled"
    /\ l = "idle" => ~Committed(q.httpResponse)
    /\ l = "page" => q.responseStatus \in E!Fitting(VerdictAt(l, e))
    /\ l \in Judged /\ e \notin {"none", "handled"} => Committed(q.httpResponse)

XInv == \A r \in Requests : Told(pc[r], req[r], err[r])

\* The ways in which a request's part of an Exchange may move.
Conforms(s, v, a, s2, v2, a2) ==
    \/ s2 = s /\ v2 = v /\ a2 = a
    \/ s = "idle" /\ s2 = "open" /\ v2 \in {"none", "unrouted"} /\ a2 = a
    \/ s = "open" /\ s2 = "open" /\ v = "none" /\ v2 \in E!Verdicts /\ a2 = a
    \/ s = "open" /\ s2 = "open" /\ v2 = v /\ a = 0 /\ a2 \in E!Fitting(v)
    \/ /\ s = "open" /\ s2 = "closed" /\ v2 = v /\ v # "none"
       /\ a = 0 => v \in {"ok", "handled"}
       /\ a2 = IF a = 0 THEN 200 ELSE a
    \/ s = "open" /\ s2 = "dropped" /\ v2 = v /\ v # "ok" /\ a2 = a

\* From where r is to label l with Request q and error e.
Goes(r, l, q, e) ==
    Conforms(StageAt(pc[r]), VerdictAt(pc[r], err[r]), req[r].httpResponse.status,
             StageAt(l), VerdictAt(l, e), q.httpResponse.status)

\* A step that moves one request so is a step of the Exchange, or none.
LEMMA GoesSeen ==
    ASSUME IInv, XInv, NEW r \in Requests, NEW l, NEW q, NEW e,
           pc' = [pc EXCEPT ![r] = l], req' = [req EXCEPT ![r] = q],
           err' = [err EXCEPT ![r] = e], Told(l, q, e), Goes(r, l, q, e)
    PROVE  XInv' /\ [E!Next]_(E!vars)
<1>1. /\ DOMAIN pc = Requests /\ DOMAIN req = Requests /\ DOMAIN err = Requests
      /\ pc'[r] = l /\ req'[r] = q /\ err'[r] = e
      /\ \A s \in Requests \ {r} : pc'[s] = pc[s] /\ req'[s] = req[s] /\ err'[s] = err[s]
  BY DEF IInv, TypeOK
<1>2. XInv'
  <2>1. ASSUME NEW s \in Requests
        PROVE  Told(pc'[s], req'[s], err'[s])
    BY <1>1 DEF XInv
  <2> QED
    BY <2>1 DEF XInv
<1> SUFFICES [E!Next]_(E!vars)
  BY <1>2
<1>3. /\ stage = [s \in Requests |-> StageAt(pc[s])]
      /\ verdict = [s \in Requests |-> VerdictAt(pc[s], err[s])]
      /\ answer = [s \in Requests |-> req[s].httpResponse.status]
  BY DEF stage, StageAt, verdict, VerdictAt, answer, Answer
<1>4. /\ stage' = [s \in Requests |-> StageAt(pc'[s])]
      /\ verdict' = [s \in Requests |-> VerdictAt(pc'[s], err'[s])]
      /\ answer' = [s \in Requests |-> req'[s].httpResponse.status]
  BY DEF stage, StageAt, verdict, VerdictAt, answer, Answer
<1> DEFINE s1 == StageAt(pc[r])
           v1 == VerdictAt(pc[r], err[r])
           a1 == req[r].httpResponse.status
           s2 == StageAt(l)
           v2 == VerdictAt(l, e)
           a2 == q.httpResponse.status
<1>5. stage[r] = s1 /\ verdict[r] = v1 /\ answer[r] = a1
  BY <1>3
<1>6. /\ stage' = [stage EXCEPT ![r] = s2]
      /\ verdict' = [verdict EXCEPT ![r] = v2]
      /\ answer' = [answer EXCEPT ![r] = a2]
  BY <1>1, <1>3, <1>4
<1>7. Conforms(s1, v1, a1, s2, v2, a2)
  BY DEF Goes
<1>8. /\ stage = [stage EXCEPT ![r] = s1] /\ verdict = [verdict EXCEPT ![r] = v1]
      /\ answer = [answer EXCEPT ![r] = a1] /\ answer'[r] = a2
  BY <1>3, <1>6
<1> HIDE DEF s1, v1, a1, s2, v2, a2
<1>9. CASE s2 = s1 /\ v2 = v1 /\ a2 = a1
  BY <1>6, <1>8, <1>9 DEF E!vars
<1>10. CASE s1 = "idle" /\ s2 = "open" /\ v2 \in {"none", "unrouted"} /\ a2 = a1
  <2>1. E!Receive(r, v2)
    BY <1>5, <1>6, <1>8, <1>10 DEF E!Receive
  <2> QED
    BY <1>10, <2>1 DEF E!Next, E!Verdicts
<1>11. CASE s1 = "open" /\ s2 = "open" /\ v1 = "none" /\ v2 \in E!Verdicts /\ a2 = a1
  <2>1. E!Judge(r, v2)
    BY <1>5, <1>6, <1>8, <1>11 DEF E!Judge, E!Open
  <2> QED
    BY <1>11, <2>1 DEF E!Next
<1>12. CASE s1 = "open" /\ s2 = "open" /\ v2 = v1 /\ a1 = 0 /\ a2 \in E!Fitting(v1)
  <2>1. E!Answer(r)
    BY <1>5, <1>6, <1>8, <1>12 DEF E!Answer, E!Open
  <2> QED
    BY <2>1 DEF E!Next
<1>13. CASE /\ s1 = "open" /\ s2 = "closed" /\ v2 = v1 /\ v1 # "none"
            /\ a1 = 0 => v1 \in {"ok", "handled"}
            /\ a2 = IF a1 = 0 THEN 200 ELSE a1
  <2>1. E!Close(r)
    BY <1>5, <1>6, <1>8, <1>13 DEF E!Close, E!Open
  <2> QED
    BY <2>1 DEF E!Next
<1>14. CASE s1 = "open" /\ s2 = "dropped" /\ v2 = v1 /\ v1 # "ok" /\ a2 = a1
  <2>1. E!Drop(r)
    BY <1>5, <1>6, <1>8, <1>14 DEF E!Drop, E!Open
  <2> QED
    BY <2>1 DEF E!Next
<1> QED
  BY <1>7, <1>9, <1>10, <1>11, <1>12, <1>13, <1>14 DEF Conforms

LEMMA StepSeen ==
    ASSUME IInv, XInv, NEW r \in Requests, NEW l, NEW q, Step(r, q, l),
           Told(l, q, err[r]), Goes(r, l, q, err[r])
    PROVE  XInv' /\ [E!Next]_(E!vars)
<1>1. /\ pc' = [pc EXCEPT ![r] = l] /\ req' = [req EXCEPT ![r] = q]
      /\ err' = [err EXCEPT ![r] = err[r]]
  BY DEF Step, Goto, Become, IInv, TypeOK
<1> QED
  BY <1>1, GoesSeen

LEMMA LeaveSeen ==
    ASSUME IInv, XInv, NEW r \in Requests, NEW e, NEW l, Leave(r, e, l),
           Told(l, req[r], e), Goes(r, l, req[r], e)
    PROVE  XInv' /\ [E!Next]_(E!vars)
<1>1. /\ pc' = [pc EXCEPT ![r] = l] /\ req' = [req EXCEPT ![r] = req[r]]
      /\ err' = [err EXCEPT ![r] = e]
  BY DEF Leave, Goto, Fail, IInv, TypeOK
<1> QED
  BY <1>1, GoesSeen

\* p is q with a status of S, if q had none.
Replied(p, q, S) ==
    /\ p.httpResponse.raw = q.httpResponse.raw
    /\ \/ p.httpResponse.status = q.httpResponse.status
       \/ q.httpResponse.status = 0 /\ p.httpResponse.status \in S

LEMMA RepliedToItself ==
    ASSUME NEW q, NEW S
    PROVE  Replied(q, q, S)
BY DEF Replied

LEMMA RepliedWithAnError ==
    ASSUME NEW p, NEW q, Replied(p, q, {500})
    PROVE  Replied(p, q, 100 .. 999)
<1>1. 500 \in 100 .. 999
  OBVIOUS
<1> DEFINE replies == 100 .. 999
<1> HIDE DEF replies
<1>2. 500 \in replies => Replied(p, q, replies)
  BY DEF Replied
<1> QED
  BY <1>1, <1>2 DEF replies

LEMMA RepliedAlike ==
    ASSUME NEW p, NEW q, NEW o, NEW S, Replied(p, q, S), Alike(q, o)
    PROVE  Replied(p, o, S)
BY DEF Replied, Alike

LEMMA FlushReplies ==
    ASSUME NEW q \in RequestRecord, ~flushPanics(q)
    PROVE  /\ Replied(flushHeaders(q), q, {statusForRequest(q)})
           /\ Replied(flushHeaders(q), q, 100 .. 999)
<1> DEFINE g == flushHeaders(q)
<1>1. /\ g.httpResponse.raw = q.httpResponse.raw
      /\ g.httpResponse.status = IF Committed(q.httpResponse) THEN q.httpResponse.status
                                 ELSE statusForRequest(q)
  BY FlushIs
<1>2. ~Committed(q.httpResponse) => statusForRequest(q) \in 100 .. 999
  BY DEF flushPanics, WriteHeaderPanics, ValidStatuses
<1> HIDE DEF g
<1>3. /\ Replied(g, q, {statusForRequest(q)}) /\ Replied(g, q, 100 .. 999)
  BY <1>1, <1>2 DEF Replied, Committed
<1> QED
  BY <1>3 DEF g

LEMMA SetAndFlushReplies ==
    ASSUME NEW q \in RequestRecord, NEW s \in ValidStatuses, Agreement(q), Unsent(q)
    PROVE  Replied(flushHeaders(SetStatus(q, s)), q, {s})
<1> DEFINE p == SetStatus(q, s)
<1>0. s \in Int
  BY DEF ValidStatuses
<1>1. /\ p \in RequestRecord /\ p.httpResponse = q.httpResponse
      /\ ~Flushed(q) => statusForRequest(p) = s
  BY <1>0, SetStatusIs
<1> HIDE DEF p
<1>2. Committed(q.httpResponse) \/ statusForRequest(p) = s
  BY <1>1 DEF Agreement
<1>3. ~flushPanics(p)
  BY <1>1, <1>2 DEF flushPanics, WriteHeaderPanics
<1>4. Replied(flushHeaders(p), p, {statusForRequest(p)})
  BY <1>1, <1>3, FlushReplies
<1>5. Replied(flushHeaders(p), q, {s})
  BY <1>1, <1>2, <1>4 DEF Replied, Committed
<1> QED
  BY <1>5 DEF p

LEMMA RecoveredReplies ==
    ASSUME NEW q \in RequestRecord, Agreement(q), Unsent(q)
    PROVE  Replied(Recovered(q), q, {500})
<1>1. CASE Flushed(q)
  BY <1>1 DEF Recovered, Flushed, Replied
<1>2. CASE ~Flushed(q)
  <2>1. PICK s \in ValidStatuses : s = 500
    BY DEF ValidStatuses
  <2>2. Recovered(q) = flushHeaders(SetStatus(q, s))
    BY <1>2, <2>1 DEF Recovered, Flushed, RequestRecord
  <2> QED
    BY <2>1, <2>2, SetAndFlushReplies
<1> QED
  BY <1>1, <1>2

LEMMA PanicReplies ==
    ASSUME NEW q \in RequestRecord, flushPanics(q), Agreement(q)
    PROVE  Replied(Recovered(flushHeaders(q)), q, {500})
<1> DEFINE p == flushHeaders(q)
<1>1. ~Committed(q.httpResponse) /\ ~Flushed(q)
  BY DEF flushPanics, WriteHeaderPanics, Agreement
<1>2. p \in RequestRecord
  BY FlushType
<1>3. p.httpResponse = [q.httpResponse EXCEPT !.proxy = statusForRequest(q)]
  BY DEF flushHeaders, flushPanics, WriteHeader, RequestRecord
<1>4. /\ ~Flushed(p) /\ ~Committed(p.httpResponse)
      /\ p.httpResponse.raw = q.httpResponse.raw
      /\ p.httpResponse.status = q.httpResponse.status
  BY <1>1, <1>3 DEF flushHeaders, RequestRecord, Committed, Writer, Flushed
<1>5. Agreement(p) /\ Unsent(p)
  BY <1>4 DEF Agreement, Unsent
<1> HIDE DEF p
<1>6. Replied(Recovered(p), p, {500})
  BY <1>2, <1>5, RecoveredReplies
<1>7. Replied(Recovered(p), q, {500})
  BY <1>4, <1>6 DEF Replied
<1> QED
  BY <1>7 DEF p

\* What the two invariants say of a request where it is.
LEMMA ToldNow ==
    ASSUME IInv, XInv, NEW r \in Requests
    PROVE  /\ Told(pc[r], req[r], err[r])
           /\ pc[r] \in Labels /\ req[r] \in RequestRecord
           /\ err[r] \in Met(pc[r])
           /\ resume[r] \in {"finish", "respond"}
           /\ Agreement(req[r]) /\ (pc[r] # "done" => Unsent(req[r]))
           /\ req[r].httpResponse.status \in Nat
BY DEF IInv, TypeOK, XInv, Told, Good, RequestRecord, Writer

-----------------------------------------------------------------------------
(* Receiving, loading and calling the application *)

LEMMA ReceiveTold ==
    ASSUME IInv, XInv, NEW r \in Requests,
           Receive(r) \/ \E s \in {404, 405} : ReceiveUnrouted(r, s)
    PROVE  XInv' /\ [E!Next]_(E!vars)
<1>1. pc[r] = "idle" /\ err[r] = "none" /\ req[r].httpResponse.status = 0
  BY ToldNow DEF Receive, ReceiveUnrouted, At, Told, Met, Committed
<1>2. CASE Receive(r)
  <2>1. newRequest.httpResponse.status = 0 /\ newRequest.httpResponse.raw = FALSE
    BY DEF newRequest, NewWriter
  <2>2. Told("load", newRequest, "none")
    BY <2>1 DEF Told, Met, Judged
  <2>3. Goes(r, "load", newRequest, "none")
    BY <1>1, <2>1 DEF Goes, Conforms, StageAt, VerdictAt, Judged
  <2> QED
    BY <1>1, <1>2, <2>2, <2>3, StepSeen DEF Receive
<1>3. ASSUME NEW s \in {404, 405}, ReceiveUnrouted(r, s)
      PROVE  XInv' /\ [E!Next]_(E!vars)
  <2> DEFINE q == SetStatus(newRequest, s)
  <2>1. /\ q.httpResponse.status = 0 /\ q.httpResponse.raw = FALSE
        /\ q.responseStatus = s
    BY DEF SetStatus, newRequest, NewWriter
  <2>2. /\ pc' = [pc EXCEPT ![r] = "page"] /\ req' = [req EXCEPT ![r] = q]
        /\ err' = [err EXCEPT ![r] = "unrouted"]
    BY <1>3 DEF ReceiveUnrouted, Become, Fail, Goto
  <2> HIDE DEF q
  <2>3. Told("page", q, "unrouted")
    <3>1. VerdictAt("page", "unrouted") = "unrouted"
      BY DEF VerdictAt
    <3>2. s \in E!Fitting("unrouted")
      BY DEF E!Fitting
    <3>3. "unrouted" \in Met("page") /\ "page" \notin Judged
      BY DEF Met, Errors, AppErrors, Judged
    <3> QED
      BY <2>1, <3>1, <3>2, <3>3 DEF Told
  <2>4. Goes(r, "page", q, "unrouted")
    BY <1>1, <2>1 DEF Goes, Conforms, StageAt, VerdictAt, Judged
  <2> QED
    BY <2>2, <2>3, <2>4, GoesSeen
<1> QED
  BY <1>2, <1>3

\* Up to the handler's return no error was met; then one is, or it is fine.
LEMMA LoadTold ==
    ASSUME IInv, XInv, NEW r \in Requests, Load(r)
    PROVE  XInv' /\ [E!Next]_(E!vars)
<1>1. /\ pc[r] \in {"load", "source", "parser", "handler"} /\ err[r] = "none"
      /\ req[r].httpResponse.raw # TRUE
  <2>1. pc[r] \in {"load", "source", "parser", "handler"}
    BY DEF Load, LoadFields, LoadSource, FormParseFails, ParserReturns, HandlerReturns, At
  <2>2. err[r] = "none"
    BY <2>1, ToldNow DEF Met
  <2> QED
    BY <2>1, <2>2, ToldNow DEF Told
<1>2. ASSUME NEW l, NEW e,
             \/ l \in {"source", "parser", "handler", "respond", "dropped"} /\ e = "none"
             \/ l = "error" /\ e \in AppErrors \cup {"abort", "notfound"}
      PROVE  Told(l, req[r], e) /\ Goes(r, l, req[r], e)
  <2>1. Told(l, req[r], e)
    BY <1>1, <1>2 DEF Told, Met, Judged, Errors, AppErrors
  <2> SUFFICES Goes(r, l, req[r], e)
    BY <2>1
  <2>2. VerdictAt(pc[r], err[r]) = "none" /\ StageAt(pc[r]) = "open"
    BY <1>1 DEF VerdictAt, StageAt, Judged
  <2>3. CASE l = "dropped"
    BY <1>2, <2>2, <2>3 DEF Goes, Conforms, VerdictAt, StageAt, Judged
  <2>4. CASE l # "dropped"
    <3>1. StageAt(l) = "open" /\ VerdictAt(l, e) \in {"none"} \cup E!Verdicts
      BY <1>2, <2>4 DEF VerdictAt, StageAt, Judged, AppErrors, E!Verdicts
    <3> QED
      BY <2>2, <3>1 DEF Goes, Conforms
  <2> QED
    BY <2>3, <2>4
<1>3. CASE LoadFields(r) \/ LoadSource(r) \/ ParserReturns(r) \/ HandlerReturns(r)
  <2>1. \E l, e : /\ Leave(r, e, l)
                  /\ \/ /\ l \in {"source", "parser", "handler", "respond", "dropped"}
                        /\ e = "none"
                     \/ l = "error" /\ e \in AppErrors \cup {"abort", "notfound"}
    BY <1>3 DEF LoadFields, LoadSource, ParserReturns, HandlerReturns, AppErrors
  <2> QED
    BY <1>2, <2>1, LeaveSeen
<1>4. CASE FormParseFails(r)
  <2>1. /\ pc' = [pc EXCEPT ![r] = "error"] /\ req' = [req EXCEPT ![r] = req[r]]
        /\ err' = [err EXCEPT ![r] = "runtime"]
    BY <1>4 DEF FormParseFails, Goto, Fail, IInv, TypeOK
  <2>2. Told("error", req[r], "runtime") /\ Goes(r, "error", req[r], "runtime")
    BY <1>2 DEF AppErrors
  <2> QED
    BY <2>1, <2>2, GoesSeen
<1> QED
  BY <1>3, <1>4 DEF Load

\* What application code may do to the answer: Redirect, or, in a custom error
\* handler, anything.
LEMMA InApplicationTold ==
    ASSUME IInv, XInv, NEW r \in Requests, InApplication(r), NEW q,
           Replied(q, req[r], {307}),
           pc' = [pc EXCEPT ![r] = pc[r]], req' = [req EXCEPT ![r] = q],
           err' = [err EXCEPT ![r] = err[r]]
    PROVE  XInv' /\ [E!Next]_(E!vars)
<1>1. pc[r] \in {"parser", "handler", "custom"}
  BY DEF InApplication
<1>2. err[r] = IF pc[r] = "custom" THEN "handled" ELSE "none"
  BY <1>1, ToldNow DEF Met
<1>3. Told(pc[r], q, err[r])
  BY <1>1, <1>2, ToldNow DEF Told, Replied, Judged
<1>4. StageAt(pc[r]) = "open" /\ VerdictAt(pc[r], err[r]) \in {"none", "handled"}
  BY <1>1, <1>2 DEF StageAt, VerdictAt, Judged
<1>5. 307 \in E!Fitting("none") /\ 307 \in E!Fitting("handled")
  BY DEF E!Fitting, E!Early
<1>6. Goes(r, pc[r], q, err[r])
  BY <1>4, <1>5 DEF Goes, Conforms, Replied
<1> QED
  BY <1>3, <1>6, GoesSeen

LEMMA CallTold ==
    ASSUME IInv, XInv, NEW r \in Requests, NEW q, Call(r, q), Replied(q, req[r], {307})
    PROVE  XInv' /\ [E!Next]_(E!vars)
<1>1. /\ pc' = [pc EXCEPT ![r] = pc[r]] /\ req' = [req EXCEPT ![r] = q]
      /\ err' = [err EXCEPT ![r] = err[r]]
  BY DEF Call, Become, IInv, TypeOK
<1> QED
  BY <1>1, InApplicationTold DEF Call

\* A custom error handler's use of the writer gives it a status, if it had none.
LEMMA WriterReplies ==
    ASSUME NEW o \in Writer, NEW c
    PROVE  /\ DOMAIN Write(o, c) = DOMAIN o
           /\ \/ Write(o, c).status = o.status
              \/ o.status = 0 /\ Write(o, c).status \in 100 .. 999
           /\ \A s \in ValidStatuses :
                  /\ DOMAIN WriteHeader(o, s) = DOMAIN o
                  /\ \/ WriteHeader(o, s).status = o.status
                     \/ o.status = 0 /\ WriteHeader(o, s).status \in 100 .. 999
<1>1. CASE Committed(o)
  <2>1. Write(o, c).status = o.status /\ DOMAIN Write(o, c) = DOMAIN o
    BY <1>1 DEF Write, Writer
  <2>2. ASSUME NEW s \in ValidStatuses
        PROVE  WriteHeader(o, s).status = o.status /\ DOMAIN WriteHeader(o, s) = DOMAIN o
    BY <1>1 DEF WriteHeader, Writer
  <2> QED
    BY <2>1, <2>2
<1>2. CASE ~Committed(o)
  <2>1. o.status = 0
    BY <1>2 DEF Committed
  <2>2. Write(o, c).status \in 100 .. 999 /\ DOMAIN Write(o, c) = DOMAIN o
    BY <1>2 DEF Write, Commit, Writer
  <2>3. ASSUME NEW s \in ValidStatuses
        PROVE  /\ WriteHeader(o, s).status \in 100 .. 999
               /\ DOMAIN WriteHeader(o, s) = DOMAIN o
    BY <1>2 DEF WriteHeader, WriteHeaderPanics, Commit, Writer, ValidStatuses
  <2> QED
    BY <2>1, <2>2, <2>3
<1> QED
  BY <1>1, <1>2

LEMMA CallRequestTold ==
    ASSUME IInv, XInv, NEW r \in Requests, CallRequest(r)
    PROVE  XInv' /\ [E!Next]_(E!vars)
<1>0. /\ req[r] \in RequestRecord /\ Agreement(req[r])
      /\ pc[r] \in {"parser", "handler", "custom"} => Unsent(req[r])
  BY ToldNow
<1>1. CASE CallSetStatus(r)
  <2>1. PICK s \in Statuses : Call(r, SetStatus(req[r], s))
    BY <1>1 DEF CallSetStatus
  <2>2. Replied(SetStatus(req[r], s), req[r], {307})
    BY <1>0, <2>1, SetStatusIs, StatusesAssumption DEF Replied
  <2> QED
    BY <2>1, <2>2, CallTold
<1>2. CASE CallSetContentType(r)
  <2>1. Replied(SetContentType(req[r]), req[r], {307})
    BY <1>0 DEF SetContentType, SetHeader, Replied, RequestRecord, Writer
  <2> QED
    BY <1>2, <2>1, CallTold DEF CallSetContentType
<1>3. CASE CallSetHeader(r) \/ CallAddHeader(r)
  <2>1. /\ Replied(SetHeader(req[r], "header"), req[r], {307})
        /\ Replied(AddHeader(req[r]), req[r], {307})
    BY <1>0 DEF AddHeader, SetHeader, Replied, RequestRecord, Writer
  <2> QED
    BY <1>3, <2>1, CallTold DEF CallSetHeader, CallAddHeader
<1>4. CASE CallRedirect(r)
  <2>1. PICK s \in ValidStatuses : s = 307
    BY DEF ValidStatuses
  <2>2. Unsent(req[r])
    BY <1>0, <1>4 DEF CallRedirect, Call, InApplication
  <2>3. Replied(Redirect(req[r]), req[r], {307})
    BY <1>0, <2>1, <2>2, SetAndFlushReplies DEF Redirect
  <2> QED
    BY <1>4, <2>3, CallTold DEF CallRedirect
<1>5. CASE CallRespond(r) \/ CallRespondReader(r)
  <2>1. ASSUME NEW kind
        PROVE  Replied(Respond(req[r], kind), req[r], {307})
    BY <1>0 DEF Respond, Replied, RequestRecord
  <2>2. CASE CallRespond(r)
    BY <2>1, <2>2, CallTold DEF CallRespond
  <2>3. CASE CallRespondReader(r)
    <3>1. /\ pc' = [pc EXCEPT ![r] = pc[r]] /\ req' = [req EXCEPT ![r] = Respond(req[r], "file")]
          /\ err' = [err EXCEPT ![r] = err[r]]
      BY <2>3 DEF CallRespondReader, Become, IInv, TypeOK
    <3> QED
      BY <2>1, <2>3, <3>1, InApplicationTold DEF CallRespondReader
  <2> QED
    BY <1>5, <2>2, <2>3
<1>6. CASE CallWriter(r)
  <2> DEFINE o == req[r].httpResponse
             Ws == {WriteHeader(o, s) : s \in Statuses \cap ValidStatuses}
                      \cup {Write(o, [by |-> "raw", as |-> "any"])}
  <2>1. PICK w \in Ws :
            Step(r, [req[r] EXCEPT !.httpResponse = [w EXCEPT !.raw = TRUE]], "custom")
    BY <1>6 DEF CallWriter
  <2> DEFINE q == [req[r] EXCEPT !.httpResponse = [w EXCEPT !.raw = TRUE]]
  <2>2. pc[r] = "custom" /\ err[r] = "handled"
    BY <1>6, ToldNow DEF CallWriter, At, Met
  <2>3. o \in Writer
    BY <1>0 DEF RequestRecord
  <2>4. DOMAIN w = DOMAIN o /\ (w.status = o.status \/ (o.status = 0 /\ w.status \in 100 .. 999))
    BY <2>3, WriterReplies
  <2>5. q.httpResponse.status = w.status
    BY <1>0, <2>3, <2>4 DEF RequestRecord, Writer
  <2> HIDE DEF q
  <2>6. Told("custom", q, "handled")
    BY DEF Told, Met, Judged
  <2>7. VerdictAt("custom", "handled") = "handled" /\ StageAt("custom") = "open"
    BY DEF VerdictAt, StageAt
  <2>8. E!Fitting("handled") = 100 .. 999
    BY DEF E!Fitting
  <2>9. Goes(r, "custom", q, "handled")
    BY <2>2, <2>4, <2>5, <2>7, <2>8 DEF Goes, Conforms
  <2> QED
    BY <2>1, <2>2, <2>6, <2>9, StepSeen DEF q
<1> QED
  BY <1>1, <1>2, <1>3, <1>4, <1>5, <1>6 DEF CallRequest

-----------------------------------------------------------------------------
(* Error handlers *)

\* A request that moves on with the answer it is due, or with one it had.
LEMMA AnsweredSeen ==
    ASSUME IInv, XInv, NEW r \in Requests, NEW l, NEW q, Step(r, q, l),
           StageAt(pc[r]) = "open", StageAt(l) = "open",
           VerdictAt(l, err[r]) = VerdictAt(pc[r], err[r]),
           Replied(q, req[r], E!Fitting(VerdictAt(l, err[r]))), Told(l, q, err[r])
    PROVE  XInv' /\ [E!Next]_(E!vars)
<1>1. Goes(r, l, q, err[r])
  BY DEF Goes, Conforms, Replied
<1> QED
  BY <1>1, StepSeen

\* Where an error handler lets the request go on.
LEMMA ResumedAt ==
    ASSUME IInv, NEW r \in Requests
    PROVE  /\ resume[r] \in Judged /\ resume[r] # "idle" /\ resume[r] # "page"
           /\ StageAt(resume[r]) = "open" /\ Met(resume[r]) = Errors \cup {"none"}
           /\ resume[r] # "error"
<1>1. resume[r] \in {"finish", "respond"}
  BY DEF IInv, TypeOK
<1> QED
  BY <1>1 DEF Judged, StageAt, Met

LEMMA EOFTold ==
    ASSUME IInv, XInv, NEW r \in Requests, badRequestUnexpectedEOF(r)
    PROVE  XInv' /\ [E!Next]_(E!vars)
<1>1. PICK s \in ValidStatuses : s = 400
  BY DEF ValidStatuses
<1> DEFINE p == flushHeaders(SetStatus(req[r], s))
           q == writeBody(p, "eof", "any")
           k == resume[r]
<1>2. /\ pc[r] = "error" /\ err[r] = "eof" /\ Step(r, q, k)
      /\ req[r] \in RequestRecord /\ Agreement(req[r]) /\ Unsent(req[r])
      /\ req[r].httpResponse.raw # TRUE
  BY <1>1, ToldNow DEF badRequestUnexpectedEOF, At, Told
<1>3. p \in RequestRecord /\ Agreement(p) /\ Flushed(p)
  BY <1>2, SetAndFlush
<1>4. Replied(p, req[r], {400})
  BY <1>1, <1>2, SetAndFlushReplies
<1> HIDE DEF p
<1>5. Alike(q, p)
  BY <1>3, WriteBodyAlike DEF Writers
<1> HIDE DEF q
<1>6. Committed(q.httpResponse) /\ Replied(q, req[r], {400})
  BY <1>3, <1>4, <1>5 DEF Agreement, Alike, Committed, Replied
<1>7. VerdictAt("error", "eof") = "bad" /\ VerdictAt(k, "eof") = "bad" /\ StageAt("error") = "open"
  BY DEF VerdictAt, StageAt
<1>8. E!Fitting("bad") = {400}
  BY DEF E!Fitting
<1>9. Told(k, q, "eof")
  BY <1>2, <1>6, ResumedAt DEF Told, Errors, AppErrors, Replied
<1> HIDE DEF k
<1>10. StageAt(k) = "open"
  BY ResumedAt DEF k
<1> QED
  BY <1>2, <1>6, <1>7, <1>8, <1>9, <1>10, AnsweredSeen

\* The default error handlers judge the request: they leave an answer there is
\* and give a page its status.
LEMMA DefaultHandlerTold ==
    ASSUME IInv, XInv, NEW r \in Requests, pc[r] = "error", NEW s \in ValidStatuses,
           \/ err[r] = "validation" /\ s = 400
           \/ err[r] \notin {"eof", "validation"} /\ s = 500,
           defaultErrorHandler(r, s)
    PROVE  XInv' /\ [E!Next]_(E!vars)
<1> DEFINE e == err[r]
           v == CASE e = "validation" -> "bad"
                  [] e = "notfound"   -> "notfound"
                  [] OTHER            -> "broken"
<1>1. /\ e \in {"validation", "runtime", "abort", "notfound"}
      /\ req[r] \in RequestRecord /\ Agreement(req[r])
      /\ req[r].httpResponse.raw # TRUE
  BY ToldNow DEF Met, Errors, AppErrors, Told
<1>2. s \in E!Fitting(v) /\ v \in E!Verdicts
  BY DEF E!Fitting, E!Verdicts
<1>3. /\ VerdictAt("error", e) = "none" /\ StageAt("error") = "open"
      /\ \A l : l # "error" => VerdictAt(l, e) = v
  BY <1>1 DEF VerdictAt, StageAt
<1>4. CASE Flushed(req[r])
  <2>1. Step(r, req[r], resume[r])
    BY <1>4 DEF defaultErrorHandler, Flushed
  <2>2. Committed(req[r].httpResponse)
    BY <1>1, <1>4 DEF Agreement
  <2>3. Told(resume[r], req[r], e)
    <3>1. e \in Met(resume[r]) /\ e # "handled" /\ resume[r] \notin {"idle", "page"}
      BY <1>1, ResumedAt DEF Errors, AppErrors
    <3> HIDE DEF e
    <3> QED
      BY <1>1, <2>2, <3>1 DEF Told
  <2>4. Goes(r, resume[r], req[r], e)
    BY <1>2, <1>3, ResumedAt DEF Goes, Conforms
  <2> QED
    BY <2>1, <2>3, <2>4, StepSeen
<1>5. CASE ~Flushed(req[r])
  <2> DEFINE q == SetStatus(req[r], s)
  <2>1. Step(r, q, "page")
    BY <1>5 DEF defaultErrorHandler, Flushed
  <2>2. q.httpResponse = req[r].httpResponse /\ q.responseStatus = s
    BY <1>1, <1>5, SetStatusIs DEF ValidStatuses
  <2> HIDE DEF q
  <2>3. Told("page", q, e)
    <3>1. e \in Met("page")
      BY <1>1 DEF Met, Errors, AppErrors
    <3>2. "page" \notin Judged /\ VerdictAt("page", e) = v
      BY <1>3 DEF Judged
    <3> HIDE DEF e, v
    <3>3. q.responseStatus \in E!Fitting(VerdictAt("page", e))
      BY <1>2, <2>2, <3>2
    <3> QED
      BY <1>1, <2>2, <3>1, <3>2, <3>3 DEF Told
  <2>4. StageAt("page") = "open"
    BY DEF StageAt
  <2>5. Goes(r, "page", q, e)
    BY <1>2, <1>3, <2>2, <2>4 DEF Goes, Conforms
  <2> QED
    BY <2>1, <2>3, <2>5, StepSeen
<1> QED
  BY <1>4, <1>5

LEMMA DispatchTold ==
    ASSUME IInv, XInv, NEW r \in Requests,
           dispatchValidationError(r) \/ dispatchError(r)
    PROVE  XInv' /\ [E!Next]_(E!vars)
<1>1. pc[r] = "error" /\ err[r] # "eof"
  BY DEF dispatchValidationError, dispatchError, At
<1>2. CASE Leave(r, "handled", "custom")
  <2>1. Told("custom", req[r], "handled")
    BY DEF Told, Met, Judged
  <2>2. /\ VerdictAt(pc[r], err[r]) = "none" /\ VerdictAt("custom", "handled") = "handled"
        /\ StageAt(pc[r]) = "open" /\ StageAt("custom") = "open"
    BY <1>1 DEF VerdictAt, StageAt
  <2>3. Goes(r, "custom", req[r], "handled")
    BY <2>2 DEF Goes, Conforms, E!Verdicts
  <2> QED
    BY <1>2, <2>1, <2>3, LeaveSeen
<1>3. 400 \in ValidStatuses /\ 500 \in ValidStatuses
  BY DEF ValidStatuses
<1>4. CASE dispatchValidationError(r)
  BY <1>1, <1>2, <1>3, <1>4, DefaultHandlerTold DEF dispatchValidationError
<1>5. CASE dispatchError(r)
  BY <1>1, <1>2, <1>3, <1>5, DefaultHandlerTold DEF dispatchError
<1> QED
  BY <1>4, <1>5

LEMMA WritePageTold ==
    ASSUME IInv, XInv, NEW r \in Requests, WritePage(r)
    PROVE  XInv' /\ [E!Next]_(E!vars)
<1>1. PICK type \in PageTypes :
          Become(r, flushHeaders(setContentTypeNoOverride(req[r], type)))
  BY DEF WritePage
<1> DEFINE p == setContentTypeNoOverride(req[r], type)
           q == flushHeaders(p)
           e == err[r]
<1>2. type \in HeaderValues
  BY DEF PageTypes, ContentTypes, HeaderValues
<1>3. pc[r] = "page"
  BY DEF WritePage, At
<1>4. /\ req[r] \in RequestRecord /\ e \in Met("page")
      /\ req[r].httpResponse.raw # TRUE
      /\ req[r].responseStatus \in E!Fitting(VerdictAt("page", e))
  BY <1>3, ToldNow DEF Told, Met
<1>5. Explicit(req[r]) /\ ~flushPanics(req[r])
  BY <1>3, GoodNow
     DEF Good, Position, flushPanics, WriteHeaderPanics, statusForRequest, Explicit
<1>6. /\ p \in RequestRecord /\ Alike(p, req[r])
  BY <1>2, <1>4, ContentTypeType, ContentTypeAlike
<1> HIDE DEF p
<1>7. ~flushPanics(p) /\ statusForRequest(p) = req[r].responseStatus
  BY <1>5, <1>6, AlikeUnsent DEF Alike, statusForRequest, Explicit
<1>8. Replied(q, p, E!Fitting(VerdictAt("page", e)))
  BY <1>4, <1>6, <1>7, FlushReplies DEF Replied
<1> HIDE DEF q
<1>9. Replied(q, req[r], E!Fitting(VerdictAt("page", e)))
  BY <1>6, <1>8 DEF Alike, Replied
<1>10. /\ VerdictAt("pageBody", e) = VerdictAt("page", e)
       /\ StageAt("page") = "open" /\ StageAt("pageBody") = "open"
  BY DEF VerdictAt, StageAt, Judged
<1>11. Told("pageBody", q, e)
  BY <1>4, <1>9 DEF Told, Met, Judged, Replied
<1>12. Goes(r, "pageBody", q, e)
  BY <1>3, <1>9, <1>10 DEF Goes, Conforms, Replied
<1>13. /\ pc' = [pc EXCEPT ![r] = "pageBody"] /\ req' = [req EXCEPT ![r] = q]
       /\ err' = [err EXCEPT ![r] = e]
  BY <1>1 DEF WritePage, Become, Goto, IInv, TypeOK, p, q
<1> HIDE DEF e
<1> QED
  BY <1>11, <1>12, <1>13, GoesSeen

LEMMA WritePageBodyTold ==
    ASSUME IInv, XInv, NEW r \in Requests, WritePageBody(r)
    PROVE  XInv' /\ [E!Next]_(E!vars)
<1> DEFINE e == err[r]
<1>1. /\ pc[r] = "pageBody" /\ req[r] \in RequestRecord /\ Agreement(req[r])
      /\ e \in Errors \ {"eof", "handled"} /\ req[r].httpResponse.raw # TRUE
  BY ToldNow DEF WritePageBody, At, Told, Met
<1>2. Flushed(req[r]) /\ media[r] \in ContentTypes
  BY <1>1, GoodNow DEF Good, Position, Resources
<1>3. Committed(req[r].httpResponse)
  BY <1>1, <1>2 DEF Agreement
<1>4. /\ VerdictAt("pageBody", e) = VerdictAt(resume[r], e)
      /\ VerdictAt("pageBody", e) = VerdictAt("dropped", e)
      /\ VerdictAt("pageBody", e) # "ok" /\ StageAt("pageBody") = "open"
      /\ StageAt("dropped") = "dropped"
  BY <1>1, ResumedAt DEF VerdictAt, StageAt, Errors, AppErrors
<1>5. CASE Step(r, req[r], "dropped")
  <2>1. Told("dropped", req[r], e)
    BY <1>1 DEF Told, Met, Judged
  <2>2. Goes(r, "dropped", req[r], e)
    BY <1>1, <1>4 DEF Goes, Conforms
  <2> QED
    BY <1>5, <2>1, <2>2, StepSeen
<1>6. CASE Step(r, writeBody(req[r], "page", media[r]), resume[r])
  <2> DEFINE q == writeBody(req[r], "page", media[r])
  <2>1. Alike(q, req[r])
    BY <1>1, <1>2, WriteBodyAlike DEF Writers
  <2> HIDE DEF q
  <2>2. Told(resume[r], q, e)
    BY <1>1, <1>3, <2>1, ResumedAt DEF Told, Alike, Committed
  <2>3. Goes(r, resume[r], q, e)
    BY <1>1, <1>4, <2>1, ResumedAt DEF Goes, Conforms, Alike
  <2> QED
    BY <1>6, <2>2, <2>3, StepSeen DEF q
<1> QED
  BY <1>5, <1>6 DEF WritePageBody

LEMMA CustomReturnsTold ==
    ASSUME IInv, XInv, NEW r \in Requests, CustomHandlerReturns(r)
    PROVE  XInv' /\ [E!Next]_(E!vars)
<1>1. pc[r] = "custom" /\ err[r] = "handled"
  BY ToldNow DEF CustomHandlerReturns, At, Met
<1>2. PICK l \in {resume[r], "dropped"} : Step(r, req[r], l)
  BY DEF CustomHandlerReturns
<1>3. /\ VerdictAt("custom", "handled") = "handled" /\ VerdictAt(l, "handled") = "handled"
      /\ StageAt("custom") = "open" /\ StageAt(l) \in {"open", "dropped"}
  BY ResumedAt DEF VerdictAt, StageAt
<1>4. Told(l, req[r], "handled")
  BY ResumedAt DEF Told, Met, Judged, Errors
<1>5. Goes(r, l, req[r], "handled")
  BY <1>1, <1>3 DEF Goes, Conforms
<1> QED
  BY <1>1, <1>2, <1>4, <1>5, StepSeen

-----------------------------------------------------------------------------
(* Responding *)

\* What is still without a status where a response is given may get any.
LEMMA JudgedTold ==
    ASSUME IInv, XInv, NEW r \in Requests, pc[r] \in Judged \ {"done"},
           NEW l \in Judged \ {"done"}, NEW q, Replied(q, req[r], 100 .. 999),
           pc' = [pc EXCEPT ![r] = l], req' = [req EXCEPT ![r] = q],
           err' = err
    PROVE  XInv' /\ [E!Next]_(E!vars)
<1> DEFINE e == err[r]
<1>1. e \in Errors \cup {"none"} /\ Told(pc[r], req[r], e)
  BY ToldNow DEF IInv, TypeOK
<1>2. VerdictAt(l, e) = VerdictAt(pc[r], e) /\ StageAt(l) = "open" /\ StageAt(pc[r]) = "open"
  BY DEF VerdictAt, StageAt, Judged
<1>3. e \in {"none", "handled"} => E!Fitting(VerdictAt(l, e)) = 100 .. 999
  BY DEF VerdictAt, E!Fitting, Judged
<1>4. e \notin {"none", "handled"} => req[r].httpResponse.status # 0
  BY <1>1 DEF Told, Committed
<1>5. Told(l, q, e)
  BY <1>1, <1>4 DEF Told, Met, Judged, Replied, Committed
<1>6. Goes(r, l, q, e)
  BY <1>2, <1>3, <1>4 DEF Goes, Conforms, Replied
<1>7. err' = [err EXCEPT ![r] = e]
  BY DEF IInv, TypeOK
<1> HIDE DEF e
<1> QED
  BY <1>5, <1>6, <1>7, GoesSeen

LEMMA FlushTold ==
    ASSUME IInv, XInv, NEW r \in Requests, pc[r] \in {"respond", "render"},
           NEW q \in RequestRecord, Alike(q, req[r]), NEW k \in {"body", "finish"},
           Flush(r, q, k), err' = err
    PROVE  XInv' /\ [E!Next]_(E!vars)
<1>1. Agreement(q)
  BY ToldNow, AlikeUnsent
<1>2. PICK g \in {flushHeaders(q), Recovered(flushHeaders(q))}, l \in {k, "finish"} :
          /\ pc' = [pc EXCEPT ![r] = l] /\ req' = [req EXCEPT ![r] = g]
          /\ Replied(g, q, 100 .. 999)
  <2>1. CASE flushPanics(q)
    <3>1. Replied(Recovered(flushHeaders(q)), q, 100 .. 999)
      BY <1>1, <2>1, PanicReplies, RepliedWithAnError
    <3> QED
      BY <2>1, <3>1 DEF Flush, Become, Goto
  <2>2. CASE ~flushPanics(q)
    <3>1. Replied(flushHeaders(q), q, 100 .. 999)
      BY <2>2, FlushReplies
    <3> QED
      BY <2>2, <3>1 DEF Flush, Become, Goto
  <2> QED
    BY <2>1, <2>2
<1>3. Replied(g, req[r], 100 .. 999)
  BY <1>2, RepliedAlike
<1>4. l \in Judged \ {"done"} /\ pc[r] \in Judged \ {"done"}
  BY DEF Judged
<1> QED
  BY <1>2, <1>3, <1>4, JudgedTold

LEMMA RespondTold ==
    ASSUME IInv, XInv, NEW r \in Requests, doRespond(r)
    PROVE  XInv' /\ [E!Next]_(E!vars)
<1>0. /\ req[r] \in RequestRecord /\ Agreement(req[r])
      /\ pc[r] # "done" => Unsent(req[r])
      /\ media[r] \in ContentTypes \cup {"none"}
      /\ DOMAIN pc = Requests /\ DOMAIN req = Requests
  BY ToldNow DEF IInv, TypeOK
<1>1. CASE RespondNothing(r)
  BY <1>0, <1>1, AlikeRefl, FlushTold DEF RespondNothing, At
<1>2. ASSUME NEW type \in ContentTypes, pc[r] = "respond", RespondAs(r, type)
      PROVE  XInv' /\ [E!Next]_(E!vars)
  <2> DEFINE q == setContentTypeNoOverride(req[r], type)
  <2>1. q \in RequestRecord /\ Alike(q, req[r])
    BY <1>0, ContentTypeType, ContentTypeAlike DEF HeaderValues
  <2>2. Flush(r, q, "body") /\ err' = err
    BY <1>2 DEF RespondAs
  <2> HIDE DEF q
  <2> QED
    BY <1>2, <2>1, <2>2, FlushTold
<1>3. CASE RespondConcrete(r)
  <2>1. ContentTypeOf(req[r].response) \in ContentTypes
    BY DEF ContentTypeOf, ContentTypes
  <2> QED
    BY <1>2, <1>3, <2>1 DEF RespondConcrete, Responding, At
<1>4. CASE RespondGeneric(r)
  <2>1. GenericTypes \subseteq ContentTypes
    BY DEF GenericTypes, PageTypes, ContentTypes
  <2> QED
    BY <1>2, <1>4, <2>1 DEF RespondGeneric, Responding, At
<1>5. CASE CustomRendered(r)
  <2> DEFINE q == setContentTypeNoOverride(req[r], media[r])
  <2>1. pc[r] = "render" /\ media[r] \in HeaderValues
    BY <1>0, <1>5, GoodNow DEF CustomRendered, At, Good, Resources, HeaderValues
  <2>2. q \in RequestRecord /\ Alike(q, req[r])
    BY <1>0, <2>1, ContentTypeType, ContentTypeAlike
  <2>3. Flush(r, q, "body") /\ err' = err
    BY <1>5 DEF CustomRendered
  <2> HIDE DEF q
  <2> QED
    BY <2>1, <2>2, <2>3, FlushTold
<1>6. ASSUME NEW q, NEW l \in {"render", "close", "finish"},
             pc[r] \in {"respond", "render", "body"}, Replied(q, req[r], 100 .. 999),
             pc' = [pc EXCEPT ![r] = l], req' = [req EXCEPT ![r] = q], err' = err
      PROVE  XInv' /\ [E!Next]_(E!vars)
  BY <1>6, JudgedTold DEF Judged
<1>7. ASSUME pc[r] \in {"respond", "render", "body"},
             Step(r, Recovered(req[r]), "finish") \/ Step(r, req[r], "finish")
      PROVE  XInv' /\ [E!Next]_(E!vars)
  <2>1. pc[r] \in {"respond", "render", "body"}
    BY <1>7
  <2>2. PICK q \in {Recovered(req[r]), req[r]} : Step(r, q, "finish")
    BY <1>7
  <2>3. Replied(Recovered(req[r]), req[r], 100 .. 999)
    BY <1>0, <2>1, RecoveredReplies, RepliedWithAnError
  <2>4. Replied(q, req[r], 100 .. 999)
    BY <2>2, <2>3, RepliedToItself
  <2> QED
    BY <1>6, <2>1, <2>2, <2>4 DEF Step, Become, Goto
<1>8. CASE RespondCustom(r)
  <2> DEFINE q == setContentTypeNoOverride(req[r], "custom")
  <2>1. Alike(q, req[r])
    BY <1>0, ContentTypeAlike DEF HeaderValues, ContentTypes
  <2>2. /\ pc[r] = "respond" /\ pc' = [pc EXCEPT ![r] = "render"]
        /\ req' = [req EXCEPT ![r] = q] /\ err' = err
    BY <1>8 DEF RespondCustom, Responding, At, Become, Goto
  <2> HIDE DEF q
  <2>3. Replied(q, req[r], 100 .. 999)
    BY <2>1 DEF Alike, Replied
  <2> QED
    BY <1>6, <2>2, <2>3
<1>9. ASSUME pc[r] = "body", NEW l \in {"close", "finish"},
             Step(r, writeBody(req[r], "response", media[r]), l)
      PROVE  XInv' /\ [E!Next]_(E!vars)
  <2> DEFINE q == writeBody(req[r], "response", media[r])
  <2>1. pc[r] = "body" /\ Flushed(req[r]) /\ media[r] \in ContentTypes
    BY <1>0, <1>9, GoodNow DEF Good, Position, Resources
  <2>2. Alike(q, req[r])
    BY <1>0, <2>1, WriteBodyAlike DEF Writers
  <2>3. Step(r, q, l)
    BY <1>9
  <2> HIDE DEF q
  <2>4. Replied(q, req[r], 100 .. 999)
    BY <2>2 DEF Alike, Replied
  <2> QED
    BY <1>6, <2>1, <2>3, <2>4 DEF Step, Become, Goto
<1>10. CASE CloseReader(r)
  <2>1. /\ pc[r] = "close" /\ pc' = [pc EXCEPT ![r] = "finish"]
        /\ req' = [req EXCEPT ![r] = req[r]] /\ err' = err
    BY <1>10 DEF CloseReader, At, Goto, IInv, TypeOK
  <2>2. Replied(req[r], req[r], 100 .. 999)
    BY DEF Replied
  <2> QED
    BY <2>1, <2>2, JudgedTold DEF Judged
<1>11. CASE RespondUnknown(r) \/ CustomFails(r)
  BY <1>7, <1>11 DEF RespondUnknown, CustomFails, Responding, At
<1>12. CASE WriteBody(r)
  BY <1>9, <1>12 DEF WriteBody, At
<1>13. CASE WriteBodyFails(r)
  <2>1. /\ pc[r] = "body"
        /\ \/ Step(r, Recovered(req[r]), "finish")
           \/ Step(r, writeBody(req[r], "response", media[r]), "finish")
    BY <1>13, WriteBodyFailsIs
  <2> QED
    BY <1>7, <1>9, <2>1
<1> QED
  BY <1>1, <1>3, <1>4, <1>5, <1>8, <1>10, <1>11, <1>12, <1>13 DEF doRespond

\* The exchange closes: an answer nobody gave is an empty 200.
LEMMA FinishTold ==
    ASSUME IInv, XInv, NEW r \in Requests, Finish(r)
    PROVE  XInv' /\ [E!Next]_(E!vars)
<1> DEFINE o == req[r].httpResponse
           w == EndOfHandler(o)
           q == [req[r] EXCEPT !.httpResponse = EndOfHandler(@)]
           e == err[r]
<1>1. /\ pc[r] = "finish" /\ Step(r, q, "done") /\ o \in Writer
      /\ req[r] \in RequestRecord /\ Told("finish", req[r], e)
      /\ e \in Errors \cup {"none"}
  BY ToldNow DEF Finish, At, RequestRecord, IInv, TypeOK
<1>2. q.httpResponse = w
  BY <1>1 DEF RequestRecord
<1>3. w.raw = o.raw /\ w.status = (IF o.status = 0 THEN 200 ELSE o.status)
  BY <1>1 DEF EndOfHandler, Commit, Committed, Writer
<1> HIDE DEF q, w
<1>4. Told("done", q, e)
  BY <1>1, <1>2, <1>3 DEF Told, Met, Judged, Committed
<1>5. /\ StageAt("finish") = "open" /\ StageAt("done") = "closed"
      /\ VerdictAt("finish", e) = VerdictAt("done", e)
      /\ VerdictAt("finish", e) # "none"
      /\ e \in {"none", "handled"} => VerdictAt("finish", e) \in {"ok", "handled"}
  BY <1>1 DEF StageAt, VerdictAt, Judged, Errors, AppErrors
<1>6. o.status = 0 => e \in {"none", "handled"}
  BY <1>1 DEF Told, Judged, Committed
<1>7. Goes(r, "done", q, e)
  BY <1>1, <1>2, <1>3, <1>5, <1>6 DEF Goes, Conforms
<1> QED
  BY <1>1, <1>4, <1>7, StepSeen

-----------------------------------------------------------------------------
(* The theorem *)

LEMMA InitXInv == Init => XInv /\ E!Init
<1> SUFFICES ASSUME Init PROVE XInv /\ E!Init
  OBVIOUS
<1>1. newRequest.httpResponse.status = 0 /\ newRequest.httpResponse.raw = FALSE
  BY DEF newRequest, NewWriter
<1>2. XInv
  BY <1>1 DEF Init, XInv, Told, Met, Committed, Judged
<1>3. E!Init
  BY <1>1 DEF Init, E!Init, stage, verdict, answer, Answer, Judged
<1> QED
  BY <1>2, <1>3

LEMMA NextXInv ==
    ASSUME IInv, XInv, [Next]_vars
    PROVE  XInv' /\ [E!Next]_(E!vars)
<1>1. CASE UNCHANGED <<pc, req, err>>
  <2>1. XInv'
    BY <1>1 DEF XInv
  <2>2. UNCHANGED E!vars
    BY <1>1 DEF E!vars, stage, verdict, answer, Answer
  <2> QED
    BY <2>1, <2>2
<1>2. CASE HandleError \/ HandleValidationError \/ UNCHANGED vars
  BY <1>1, <1>2 DEF HandleError, HandleValidationError, vars
<1>3. ASSUME NEW r \in Requests, Advance(r)
      PROVE  XInv' /\ [E!Next]_(E!vars)
  BY <1>3, LoadTold, EOFTold, DispatchTold, WritePageTold, WritePageBodyTold,
     CustomReturnsTold, RespondTold, FinishTold DEF Advance, HandleFailure
<1> QED
  BY <1>2, <1>3, ReceiveTold, CallRequestTold DEF Next

\* However the error handlers are switched and whatever the application does,
\* every request is one abstract exchange: one status, never replaced, that
\* fits what happened to it, and an answer that failed is never an empty 200.
THEOREM LifecycleImplementsExchange == Spec => ImplementsExchange
<1>1. Init => E!Init
  BY InitXInv
<1>2. IInv /\ XInv /\ [Next]_vars => XInv' /\ [E!Next]_(E!vars)
  BY NextXInv
<1> QED
  BY <1>1, <1>2, InitIInv, NextIInv, InitXInv, PTL DEF Spec, ImplementsExchange, E!Spec
=============================================================================
