--------------------------- MODULE ResponseWriter ---------------------------
(***************************************************************************)
(* The http.ResponseWriter a Request writes to: responseProxy              *)
(* (src/response_proxy.go), which remembers the last status for the access *)
(* log, in front of net/http's writer, which keeps the first one.          *)
(*                                                                         *)
(* net/http (Go 1.17, the version of go.mod) is external.  What is modelled*)
(* of it: the header map stays mutable until WriteHeader or Write commits  *)
(* it; later WriteHeaders are ignored; a status outside 100..999 makes     *)
(* WriteHeader panic; Write commits 200 when nothing is committed; a body  *)
(* is refused (http.ErrBodyNotAllowed) under a bodiless status.            *)
(***************************************************************************)
EXTENDS Integers

\* Content types, as far as the code tells them apart.  "app" is one chosen
\* with SetContentType, "header" one put there with SetHeader.
ContentTypes == {"json", "xml", "bytes", "text", "html", "custom"}
HeaderValues == ContentTypes \cup {"", "app", "header"}

\* Who wrote a part of the body, and in which format.
Writers == {"response", "page", "eof", "raw"}
Chunks  == [by : Writers, as : ContentTypes \cup {"any"}]

Writer == [proxy   : Int,                \* responseProxy.status
           status  : Nat,                \* committed status, 0 before
           type    : HeaderValues,       \* Content-Type in the header map
           sent    : HeaderValues,       \* Content-Type when committed
           body    : SUBSET Chunks,      \* what was accepted as body
           refused : BOOLEAN,            \* a Write met ErrBodyNotAllowed
           raw     : BOOLEAN]            \* a custom error handler used it directly

NewWriter == [proxy |-> 0, status |-> 0, type |-> "", sent |-> "",
              body |-> {}, refused |-> FALSE, raw |-> FALSE]

Committed(w) == w.status # 0

BodilessStatuses == (100 .. 199) \cup {204, 304}

ValidStatuses == 100 .. 999

WriteHeaderPanics(w, status) == ~Committed(w) /\ status \notin ValidStatuses

Commit(w, status) == [w EXCEPT !.status = status, !.sent = w.type]

\* responseProxy.WriteHeader: the proxy's copy is assigned before, and
\* whatever, the original does.
WriteHeader(w, status) ==
    LET logged == [w EXCEPT !.proxy = status]
    IN  IF Committed(w) \/ WriteHeaderPanics(w, status)
        THEN logged
        ELSE Commit(logged, status)

\* responseProxy.Write: the proxy's status does not see an implicit 200.
Write(w, chunk) ==
    LET c == IF Committed(w) THEN w ELSE Commit(w, 200)
    IN  IF c.status \in BodilessStatuses
        THEN [c EXCEPT !.refused = TRUE]
        ELSE [c EXCEPT !.body = @ \cup {chunk}]

\* The server's end of the request: a handler that never wrote answers 200.
EndOfHandler(w) == IF Committed(w) THEN w ELSE Commit(w, 200)
=============================================================================
