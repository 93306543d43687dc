# Raggett in TLA+

Raggett (`src/`) is a Go library over chi and net/http: handlers take a struct
whose tagged fields are loaded from the request (query, path, headers, form,
body), and build the response through methods of an embedded `*Request`; the
library negotiates formats, validates, and answers errors.  This directory
models its request handling in TLA+, checks it with TLC and proves, with TLAPS,
every safety property that TLC finds to hold.  All paths below are relative to
the repository's root.

## The system

| Part | State | Operations | What makes it correct |
|---|---|---|---|
| Response writer and log proxy (`response_proxy.go`, net/http) | header map, committed status, the proxy's status | `WriteHeader`, `Write`, the server's implicit 200 | first status wins; the log shows the status sent; no body under 1xx/204/304 |
| `Request` (`request.go`) | status and whether it was set, response, whether a content type was chosen, whether headers are out | `SetStatus`, `SetContentType`, `SetHeader`, `Redirect`, `Respond*`, `Abort`, `NotFound`, `doRespond` | what it believes is what was sent; a chosen content type is kept, an inferred one names the body's format |
| Mux lifecycle (`raggett.go`, `loader.go`, `default_handlers.go`) | where each request is, its error, the two error handlers | `makeResponder`'s closure: load, call, dispatch errors, respond, recover | every request is answered once, with a status that fits what happened; one author per body |
| Mux configuration (`raggett.go`) | per Mux: error handlers, logger, identifier generator, `Development`; shared by its copies: the table of handlers, chi's tree, the defaults' receiver | `Use`, `With`, `UseLogOpts`, `LogWith`, `Get` and the other methods, `HandleError`, `HandleValidationError`, `NotFound`, `MethodNotAllowed` | what any copy registers is found, logged and listed as it is served |
| Error pages (`default_handlers.go`, `default_error_responses.go`) | none | a page per kind of error, full or constrained | the status fits the error; internals if the Muxes concerned are in development, none if none is |
| `writeResponder` (`responder.go`) | the table from media type to renderer, the offers | one renderer per responder interface | a format that was offered, its type sent before its body |
| Content negotiation (`content_type.go`) | the global offers cache | `parseAcceptHeader`, ranking, `doNegotiation`, `NegotiateContentType*` | the result is always one of the offers; what it says of validity is right |
| Argument loading (`loader.go`) | the struct being filled | `applyParam`, `applyFileParam`, coercion | a handler only runs with fields that satisfy their tags; every failure is a validation error |
| Handler metadata, body parsers (`reflect.go`, `body_parser.go`) | metadata per route | `determineFuncParams`, the parsers | whatever is accepted at registration can be loaded |
| Cookies, stack traces, texts of errors, generators | none | formatting | not modelled |

Each request runs in a goroutine of net/http.  Requests share only the Mux;
within one request, library and application code alternate: the handler, a
custom parser and custom error handlers call the `Request`'s methods in any
order, return, fail or panic.  What is hard to test is those orders (a
`Redirect` before an error, a `Respond` after the headers are out), the failure
of one step of several (a form that does not parse, a write that breaks half
way, a panic in a renderer), and the error handlers being replaced while
requests are served.  `PROJECT.json` lists these hazards at their lines.

## The modules

| Module | Models | State | Actions and operators, and the code they stand for |
|---|---|---|---|
| `ResponseWriter` | `responseProxy` over net/http's writer | a `Writer` record | `WriteHeader`, `Write`, `EndOfHandler`; net/http is external: first status wins, a status outside 100..999 panics, bodiless statuses refuse a body |
| `Request` | the response-building methods of `request.go` | a request record | one operator per method, from a record to the updated one |
| `Lifecycle` | the closure of `makeResponder`, what it calls, and application code | `pc`, `req`, `err`, `resume`, `media`, `readers` per request; the two error handlers | `Load*`, `ParserReturns`, `HandlerReturns`; `Call*` for application code; the dispatch of errors; `Respond*` and `WriteBody*` for `doRespond`; `HandleError`, `HandleValidationError` |
| `Mux` | NewMux's Mux, its copies and their configuration; the way of a request through them | `muxes` (with each one's ancestry), `routers`, `tree`, `handlers`, the request and its log | one action per method of a Mux; `ServeHTTP`, `Route` (chi and `makeResponder`), the dispatches, `WritePage`, `Finish` (the access log) |
| `Exchange` | the promise to a client (abstract) | `stage`, `verdict`, `answer` per request | `Receive`, `Judge`, `Answer`, `Close`, `Drop` |
| `WrittenRanges` | no code: what a text of an Accept header may hold | none | characters, and by the places of its parts when ranges are written in a text (`WrittenIn`) |
| `AcceptParser` | `parseAcceptHeader` | `s`, `cur`, `st`, the temporaries, `result` | one action per state of the parser, one for the end of the text |
| `MediaTypes` | `MediaType`: rank, match, name | none | operators |
| `Negotiation` | `NegotiateContentTypeWithMediaTypes`, `doNegotiation` | none | the sort, the tie, the two loops, the fallback, as operators |
| `OffersCache` | `NegotiateContentType` called by concurrent goroutines | `pc`, `args`, `mediaOffers`, `outcome` per caller; `offersCache` | a step for each access of the shared map, and for what the runtime does inside an assignment |
| `Responder` | `writeResponder` | the offers, the table of renderers, the negotiated type, the Content-Type, the body | `Offer`, `Negotiate`, `RenderFormat`, `RenderCustom` |
| `HandlerMetadata` | `determineFuncParams` | the handler, its metadata, the fields scanned | `Register`, `ScanField`, `EndOfStruct`, `Refuse` |
| `Loader` | `loadAndApplyMeta` up to the handler's call | the request, the names to load, the struct, the error | `LoadField` (`applyParam`, `applyFileParam`), `NextSource`, `CustomParser`, `ParserReturns`, `handleBodyParsing`, `ParseForm` |

How they compose:

- `Lifecycle` extends `Request`, which extends `ResponseWriter`, and maps onto
  `Exchange` with `INSTANCE` (the mapping is the last part of `Lifecycle`).
  The verdict is reached when an error is dispatched: whatever error handlers are
  set before and after, the default ones give it its status, and a custom one any.
  `NotFound` has a verdict of its own, which fits a 404 and a 500.
- `Mux` maps onto `Exchange` as well.  It decides what `Lifecycle` takes for
  granted: which Mux a request belongs to, whose error handlers it meets and what
  their pages tell; how a handler's response is built is left to `Lifecycle`.
- `AcceptParser` extends `WrittenRanges`: a header is a text with the ranges its
  writer meant, which no step reads and only `ListedIsParsed` compares with what
  was found.  A text without them is any text at all.
- `OffersCache` and `Responder` extend `Negotiation`; `AcceptParser` instantiates
  it with texts for names, so that what it hands on is an `AcceptHeader` of
  `Negotiation` by its type invariant.
- `Loader` extends `HandlerMetadata`: a request is only loaded with metadata
  that a registration went through.  What `Loader` ends with (`called`,
  `invalid`, `eof`, `handled`, `failed`, `panicked`; a custom parser may end
  with any but `handled`) are the outcomes `Lifecycle` chooses from in
  `LoadFields`, `LoadSource`, `FormParseFails` and `ParserReturns`:
  `LoadsAsInLifecycle` maps each step of the one to a step of the other, or
  none.
- What `Lifecycle` leaves open in `RespondGeneric` (which of the formats) is what
  `Responder` decides.
- The `Documented*` modules state what a comment or test of the repository says
  and the code does not do; the `MC*` modules give constants to TLC; the `*Proofs`
  modules hold theorems.

Operators with an underscore in their name (`SetStatus_AfterFlush`) are faulty
variants of the definition they are named after: with one in its place a
property of the run is violated.  No specification uses them.

### What is abstracted

- **Lifecycle.**  Statuses, content types and responses are kept, contents are
  not.  A Content-Type chosen by the application is one value, `app`.  A
  chunk of body records its author and format; a write that fails may have sent
  one or not.  Headers other than Content-Type,
  cookies among them, matter in that they are refused once the headers are out.
  The access log beyond its status is in `Mux`; the memo of the negotiated type is
  left out.  Panics are modelled wherever the code may raise them, and where
  each is recovered: the handler's own recover, the one around `doRespond`, or
  none (`dropped`).
- **Mux.**  One request at a time, and one call at a time: the application
  configures before, between and within requests (in a middleware, a handler or
  an error handler), which covers what a request can find a Mux in, short of the
  data races of goroutines that configure a Mux another one serves.  A logger is
  the set of Muxes whose `LogWith` gave it fields, a log the set of the lines that
  the access log and the Request wrote, each with its identifier and fields, and a
  page the set of what it tells beyond its status: a `ValidationError`'s message
  names the struct in the full page and in the constrained one
  (`src/errors.go:60`).  `lineage`, the Muxes a Mux comes from, is history: no
  step reads it.  chi is external: whether a router is built, whose
  middlewares a route runs, and which route a request finds.
- **Negotiation.**  Of a range's parameters the ranking uses their number and
  `q`.  Weights count quarters, which float32 represents exactly, so that a rank
  is an integer; `NaN` is left out (see the hazards).
- **Parser.**  Characters are told apart as far as the code does: the separators,
  quote, backslash, blank, letters in both cases, digits, the wildcard, the plus,
  and one for all that no name may contain.  Which texts are numbers is a constant.
  A text is written, for `WrittenIn`, if each range has a type, a slash and a
  subtype, each parameter a key and a value, plain or in quotes, with blanks
  anywhere outside the quotes; a plain value does not start with a quote, and a
  quoted one has its quotes escaped and no backslash before the closing one
  (which the code would take for an escape).
- **Offers cache.**  The map is external: an assignment inserts a zero element and
  copies the value afterwards; an access during an insertion may kill the process,
  and one of two insertions may be lost.  A data race on a Go map can do worse;
  what is modelled suffices for `doc_concurrent`.
- **Loader.**  Texts are constants with the sets of those that are numbers,
  Booleans, or match the pattern; a field has one pattern.  `json` stands for
  `xml`.  A custom parser's `ValidationError` is one value, about no field.  A
  type is defined if it, or its element, has a name of its own: a text or bytes
  body cannot be stored in one.  A file is empty or has content.  A header's
  name stands for its canonical form.  Go ranges over maps in any order:
  `LoadField` takes any name left.

## What is checked

| Run | Question | Instance |
|---|---|---|
| `lifecycle` | Do the status sent, logged and believed agree; is a body ever forbidden, mistyped, or by two authors; is a reader used after it was closed; is every request answered or dropped; is it an `Exchange`: one status, never replaced, fitting what happened? | one request, statuses 99 and 204, every response, both kinds of error handler |
| `mux` | Is what any copy registers found, and listed as it is served; has every line about a request, and its response, one identifier, and no fields of a Mux it has nothing to do with; do pages tell internals if the Muxes concerned are in development, and none if none is; is the exchange the abstract one? | 3 Muxes, 4 calls, 2 methods, 1 pattern and a malformed one, 2 handlers |
| `accept_parser` | Is what is parsed what was written; does the parser end? | every text of up to 5 of 8 characters; texts written from 1–2 ranges with 0–2 parameters, with and without blanks |
| `negotiation` | Is the result an offer, of the least rank that matches, whatever the order; are vendored types given only to who asked? | up to 3 of 12 ranges, up to 2 of 3 offers, one caller |
| `offers_cache` | What does the race leave in the cache? | two callers, two offers of five, among them two spellings of one key, one refused, one invalid and one with an empty half |
| `responder` | Is there a renderer for what was negotiated; is its type announced? | all sets of the 5 formats, 0–2 custom types (one may collide), up to 2 ranges of 5 |
| `loader` | Does a handler only run with what was sent and satisfies every tag; is every refusal earned, and every source before the one blamed in order; is each ending one of `Lifecycle`? | structs of one or two fields, every source and kind, every reason to be refused at registration; requests that satisfy, break or leave out each |

Five runs find a difference between the code and what the repository says of it:

| Run | The code | The text |
|---|---|---|
| `doc_quality` | sorts ranges by ascending rank, so the lower quality wins (`src/content_type.go:78`) | `src/content_type_test.go:214` |
| `doc_concurrent` | shares `offersCache` between goroutines without a lock (`src/content_type.go:44`) | `src/content_type.go:16` |
| `doc_accept` | does not end a range at a comma after a quoted parameter (`src/content_type.go:269`) | `src/content_type.go:365` |
| `doc_responder` | renders the last of a `CustomResponder`'s types whichever was negotiated (`src/responder.go:128`) | `src/request.go:299` |
| `doc_load` | accepts a JSON body for a map and panics when one arrives (`src/body_parser.go:135`) | `src/reflect_test.go:180` |

Met while modelling, and modelled as the code has it, without a run of their own.
Where one of these is about something a property speaks of, the property leaves
open which of the two is right, and holds of either: the status of `NotFound`
(`Exchange` admits 404 and 500), whose `Development` decides where a copy and the
Mux it was copied from differ (`DevelopmentDecides` speaks of requests whose Muxes
agree), whose fields the access log has (`LoggedUnderItsID` admits those of
each Mux the request goes through and of their ancestors), and the header of a
router that is no `NewMux`'s.

- `Redirect` says it leaves no body, but the response set before or after it is
  written behind the 307 (`src/request.go:153`).
- `NotFound` says it returns a NotFound error to the client, but its panic is
  dispatched as a runtime error: 500 (`src/request.go:280`).
- The reader given to `RespondReader` is promised to be closed, and is on one path
  only (`src/request.go:179`, `375`).
- Failures while responding never reach the handler of `HandleError`
  (`src/raggett.go:196`, `376`).
- `HandleError` on a Mux does not reach the routes of copies made earlier
  (`src/raggett.go:153`, `196`), and `NotFound` or `RequestIdentifierGenerator` on a
  copy reaches no request: chi and the middlewares call the original's
  (`src/raggett.go:116`, `158`).
- `Development` set on a copy changes no page, unless the copy was given `nil` for
  an error handler: the default handlers are bound to the Mux they were taken from
  (`src/raggett.go:90`, `src/default_handlers.go:46`).
- A `Request-ID` header is promised on responses (`src/raggett.go:188`); a copy made
  by `With` that is itself served, or a Mux without routes, gives none.
- Fields of `LogWith` are promised in all requests (`src/raggett.go:172`); those of a
  copy are in the log of its routes' Requests, not in the access log.
- The default answer to a 405 is said to have an empty body and is a negotiated
  page (`src/raggett.go:234`, `src/default_handlers.go:62`).
- Of two ranges of equal rank at the front one is dropped before any offer is
  looked at, so that valid may be false although one matches
  (`src/content_type.go:97`, `54`).
- The result of a negotiation does not keep `IsVendor` (`src/content_type.go:113`).

### The bounds, and why they are enough

- *One request* (`lifecycle`, `mux`).  Requests share only the two error
  handlers, and these change at any moment in the instance anyway, which is all
  another goroutine could do to the request.  Two requests multiply the states
  without a new interaction; the theorems below hold for any number.
- *Statuses.*  The code tells apart a status that makes `WriteHeader` panic (99),
  one that forbids a body (204) and the rest (its own 307, 400, 404, 405, 500).
- *`MaxReaders` = 1.*  A second reader adds a leak, not a use of a closed one.
- *Three ranges, two offers.*  Sorting, the tie at the front and a range behind it
  need three ranges; the two loops and the preference for a plain type need two
  offers.  The twelve ranges have each specificity, vendored or not, equal ranks,
  and a weight of zero.
- *One caller, or two.*  One sees the negotiation itself; two are what a race
  needs.  With two, a killed process has no next state, so these runs do not
  check for deadlock.
- *Five characters* reach every state of the parser and every end in it (a range
  with an empty quoted parameter takes seven, and comes with the written texts).
- *Three Muxes, four calls, one pattern.*  Three Muxes make a copy of a copy, by
  `With` and `UseLogOpts` in both orders.  Two calls make them and two are left to
  set something on one and register with another, or twice with the same, which
  is what the properties relate.  Three also make siblings: a line with the
  fields of a copy's sibling, or a page by the wrong one's `Development`, is in
  reach of four calls.  A second method is what a 405 needs; another
  pattern adds no endpoint of another nature.
- *Two fields* are what it takes for the order of loading, for one name twice in
  a source, and for each pair of sources that excludes another.

### Fairness

`Lifecycle` assumes weak fairness of `Advance(r)`: net/http runs each request in
a goroutine, which the scheduler does not starve, and application code returns
(a handler that loops for ever hangs its request, here as there).  Nothing is
assumed of the methods an application calls meanwhile.  `AcceptParser` assumes
weak fairness of the parser's own steps: it runs in the caller's goroutine and
waits for nothing.  The other specifications check safety only and state none.

## What is proved

All theorems are for every value of the constants that satisfies the named
assumptions of the modules (statuses are integers, offers and headers have their
types, names include the wildcard, and so on).

- **`LifecycleProofs`.**  `TypeCorrect`, `StatusAgrees`, `ReaderOpen`.
  `StatusAgreement` is not inductive: a `Respond` after the headers are out would
  change the status the Request believes in if none was set explicitly, and a
  status could have been committed behind the Request's back.  `IInv` adds what
  excludes both: headers flushed without an explicit status were flushed by
  `doRespond`, after all application code (`Implicit`), and before they are
  flushed nothing is committed unless by a custom error handler (`Unsent`).
  `Position` says where they are out already and that an error page has a valid
  status, `Resources` that a media type is picked where it is used and a file's
  reader stays pending until it is closed.  The operators of `Request` have a
  lemma each, `Invariance` one step per action.
- **`LifecycleBodyProofs`.**  `BodiesAreAllowed`, `ChosenTypeIsSent`,
  `TypeDescribesBody`, `BodiesHaveOneAuthor`, from one strengthening, `BInv`,
  inductive together with `IInv`.  Besides what the four say of an answer (`Sound`)
  it says that until a response or a page is due only `Redirect` has flushed the
  headers and only a custom error handler has written (`Early`); that a response
  follows an error page only if there is none, the handler never having been called
  (`Resumed`); and that where a body is due the headers allow it and name its type
  (`Due`).  `LifecycleImplementsExchange` is the refinement: the mapping reads the
  verdict off a request's error and its place, so that a step from a place the code
  never is in with that error would answer against the verdict.  `XInv` excludes
  those: which errors each place can have, that only custom handlers write behind
  the Request's back, that a page's status is its error's, and that nothing follows
  an error that was not answered.  From it each action conforms, one lemma apiece.
- **`NegotiationProofs`.**  `SortIsPermutation`: a range's place is the number of
  ranges ahead of it; `Precedes` is a strict total order, so the sets of those
  ahead are nested, their sizes differ, and each place is taken once.
  `OutcomeIsOffered`: with that, the pair the two loops find and both fallbacks
  name one of the offers.  Its lemmas on rank serve the theorems of the cache: the
  range of the pair is the first in the sorted list that matches anything, the
  tie drops a range only for one of its own rank (`LeastRankWins`), and reordering
  a list whose ranks differ permutes the sets of ranges ahead along with it, so
  that the sorted lists are one (`SortIgnoresOrder`).
- **`OffersCacheProofs`.**  The invariant says where each caller is in its list
  of offers, that what it has read tells vendored types apart (a zero element
  does, too), that an answer is that of the offers as read, and `CacheSound`.
  `EntriesAreSound`, `FallbacksAvoidVendors`, `VendorsByName`,
  `LeastRankIsSelected` and `OrderDoesNotMatter` hold for any goroutines,
  whatever they do to the cache.  `SelectedIsAnOffer` is under the assumption
  that calls do not overlap (`OneCaller`); `doc_concurrent` shows it false
  without.
- **`ResponderProofs`.**  `AlwaysARenderer`: the table's keys are the names of the
  offers, and `OutcomeIsOffered` gives the negotiated type one of these.
  `AnnouncesWhatIsRendered`: the type announced last is that of the renderer.
- **`AcceptParserProofs`.**  `ParserTypeCorrect` for texts of any length: ranges in
  the result have both halves, and what the second loop makes of them is an
  `AcceptHeader`.  `TextIsAnsweredWithAnOffer` composes it with
  `OutcomeIsOffered`: from any text to the name of an offer.  `NoRangeIsMadeOfTwo`
  is by `SInv`, which says what each state of the parser has read: a type that
  ends at the cursor, a subtype behind a slash, or a range that stands already.
  What makes it an invariant is what is left over where the code does not append
  (a comma behind a quoted value): that range has no type or stands in the text,
  and nothing is left in `tmpStr`, or the next type would begin with it.
  `WrittenIsParsed` is the other direction: a text that ranges are written in, any
  number of them, is parsed into those.  `GInv` says at which part of the i-th
  range the cursor is, that the ranges before it are found, that `tmpMedia` has
  what stands before that part, and that `tmpStr` is as much of the part's name as
  was told so far: its first characters, as many as there are places of it before
  the cursor (`Prefix`).  A step over a blank adds no place, any other adds one
  (`PrefixSkips`, `PrefixGrows`), and at the end of the part the name is complete
  (`PrefixOfAll`).  In quotes the invariant also says that a quote at the cursor is
  the closing one, which is what skipping two characters at an escape preserves.
  `OneMoreParam` keeps the values of one key in their order.  Without
  `~QuoteBeforeComma` it would be false, which is what `doc_accept` shows.
- **`LoaderProofs`.**  For structs of any number of fields, any texts and any
  requests.  `LInv` is type correctness with `MetaOK`, by which a source's
  metadata names for each of its names the last field that has it (so loading
  one name disturbs no other), and `LoadOK`, by which what the loader has passed
  is loaded: every source behind it, and of the current one whatever is not in
  `todo`, in whichever order Go ranges over the map.  `BodyComesLast`
  and `HandlerGetsWhatWasSent` follow, and `RefusalIsEarned` with `Earned`: every
  source before the one the error is in is behind the loader, and the error is
  one of that source, of the body that does not parse, or of the custom parser.
  `LoadingImplementsLifecycle` needs no invariant: each action is a step of
  `Lifecycle` by its guards.  The proof of `RefusalIsEarned` corrected
  `Violated`: an empty text and an empty file are told apart by the field's
  type.
- **`MuxProofs`.**  For any number of Muxes and calls.  `ListedAsServed` needs
  no more than itself: each call puts the same handler in both tables or in the
  pages' only.  `EveryRouteIsFound` needs `RootBuilt`: once it has routes or
  children, `NewMux`'s router is built, so its requests are routed; and that
  what refers to a Mux or a router refers to one that is there (`ConfigOK`),
  `With` making a router whose parent is older.  `DevelopmentSettlesPages` needs
  `PageFits`: a page tells what Development adds exactly if the Mux whose
  default handler wrote it is in Development, which no call changes between, as
  no application code runs until the request is over; that Mux is one of those
  concerned.  `ImplementsExchange` shows each step to be one of `Exchange` or a
  stutter; `KindFits` and `AnswerFits` tie the verdict and the status to where
  the request is.  `LoggedUnderOneID` needs `ChainsOK`: the root router has
  `NewMux`'s two middlewares, the injector first, and every other router only
  custom ones.  `LogOK` adds that a line of the access log has fields of
  `NewMux`'s Mux only, and one of the Request those of its Mux's lineage, which
  no call changes (`HistoryKept`).  What a chain leaves of a request is a fold,
  stated as a function of the places folded and followed from one place to the
  next (`FoldIs`); what holds at each place is shown by induction on the set of
  places at which it does (`Climbs`).

Only model-checked: liveness (`EveryRequestEnds`, `ParserEnds`), which is out of
the prover's reach.  The five properties of the runs `doc_*` do not hold, and are
not proved.

The definitions of `WrittenRanges` are stated with proof in mind.  `Spells` says by
counting which characters a name has, rather than by `SelectSeq`, whose recursion
the prover cannot expand; `WrittenIn` says where the parts of a text are, rather
than how to put it together.  The instance does put its texts together
(`MCAcceptParser`), and TLC checks that they are written as assumed.

## What is not modelled

- Cookies: a builder around `http.Cookie`, one field per method.
- Stack traces, the text of error pages and of errors: formatting.
- The generators under `src/generators`: development tools that print Go.
- chi beyond what `Mux` uses of it: patterns with parameters, which of two
  patterns a path matches, mounted routers (the Mux offers no way to mount one).
- `Mux.MaxMemory` and `ClientAccepts`: the former is handed to net/http, the latter
  answers a question and changes nothing but a memo and a log line.
