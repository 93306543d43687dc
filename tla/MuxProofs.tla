------------------------------- MODULE MuxProofs -------------------------------
(***************************************************************************)
(* Theorems about Mux for any number of copies, calls, routes and handlers.*)
(***************************************************************************)
EXTENDS Mux, SequenceTheorems, NaturalsInduction, WellFoundedInduction, TLAPS

(* The table of handlers *)

\* What is in chi's tree is in the table, with the handler that serves it.
Listed ==
    /\ DOMAIN tree \subseteq Endpoints
    /\ \A e \in DOMAIN tree : e \in DOMAIN handlers /\ handlers[e] = tree[e].handler

LEMMA ServingConfig == ASSUME Serving PROVE UNCHANGED <<config, calls>>
BY DEF Serving, ServeHTTP, Route, Run, internalNotFoundDispatch,
       internalMethodNotAllowedDispatch, Dispatch, HandlerReturns, HandlerPanics,
       UnexpectedEOF, ValidationFails, RuntimeFails, Respond,
       badRequestUnexpectedEOF, CustomReplies, WritePage, Finish, Reply, Move, Become

LEMMA HandleListed ==
    ASSUME Listed, NEW i, Handle(i)
    PROVE  Listed'
<1>1. PICK m \in Methods, p \in Patterns \cup Malformed, f \in Handlers :
        /\ registerHandler(<<m, p>>, f)
        /\ IF p \in Malformed
           THEN UNCHANGED <<routers, tree>>
           ELSE /\ routers' = Built(muxes[i].internalMux)
                /\ tree' = Put(tree, <<m, p>>,
                               [mux |-> i, handler |-> f,
                                chain |-> IF Router(i).inline
                                          THEN Router(i).middlewares ELSE <<>>])
  BY DEF Handle
<1> DEFINE e0 == <<m, p>>
<1>2. handlers' = Put(handlers, e0, f)
  BY <1>1 DEF registerHandler
<1> HIDE DEF e0
<1>3. DOMAIN handlers' = {e0} \cup DOMAIN handlers
  BY <1>2 DEF Put
<1>4. handlers'[e0] = f /\ \A e \in DOMAIN handlers : e # e0 => handlers'[e] = handlers[e]
  BY <1>2 DEF Put
<1>5. CASE p \in Malformed
  <2>1. e0 \notin Endpoints
    BY <1>5, PatternsAssumption DEF Endpoints, e0
  <2>2. tree' = tree
    BY <1>1, <1>5
  <2>3. \A e \in DOMAIN tree : e # e0
    BY <2>1 DEF Listed
  <2> QED
    BY <1>3, <1>4, <2>2, <2>3 DEF Listed
<1>6. CASE p \notin Malformed
  <2>1. e0 \in Endpoints
    BY <1>6 DEF Endpoints, e0
  <2>2. PICK route : tree' = Put(tree, e0, route) /\ route.handler = f
    BY <1>1, <1>6 DEF e0
  <2>3. DOMAIN tree' = {e0} \cup DOMAIN tree
    BY <2>2 DEF Put
  <2>4. tree'[e0] = route /\ \A e \in DOMAIN tree : e # e0 => tree'[e] = tree[e]
    BY <2>2 DEF Put
  <2> QED
    BY <1>3, <1>4, <2>1, <2>2, <2>3, <2>4 DEF Listed
<1> QED
  BY <1>5, <1>6

LEMMA ConfiguringListed ==
    ASSUME Listed, NEW i, Configuring(i)
    PROVE  Listed'
<1>1. CASE Handle(i)
  BY <1>1, HandleListed
<1>2. CASE ~Handle(i)
  <2>1. UNCHANGED <<tree, handlers>>
    BY <1>2 DEF Configuring, LogWith, UseLogOpts, RequestIdentifierGenerator,
         HandleError, HandleValidationError, NotFound, MethodNotAllowed,
         SetDevelopment, Use, With, SetField
  <2> QED
    BY <2>1 DEF Listed
<1> QED
  BY <1>1, <1>2

\* Whichever copies registered what, and with what patterns, the pages that
\* list the routes name the handler that serves each.
THEOREM ListedAsServed == Spec => []RoutesListedAreServed
<1>1. Init => Listed
  BY DEF Init, NewMux, Listed
<1>2. Listed /\ [Next]_vars => Listed'
  <2> SUFFICES ASSUME Listed, [Next]_vars PROVE Listed'
    OBVIOUS
  <2>1. CASE Configure /\ \E i \in DOMAIN muxes : Configuring(i)
    BY <2>1, ConfiguringListed
  <2>2. CASE UNCHANGED config
    BY <2>2 DEF Listed, config
  <2> QED
    BY <2>1, <2>2, ServingConfig DEF Next, vars, Return, Become
<1>3. Listed => RoutesListedAreServed
  BY DEF Listed, RoutesListedAreServed, listRoutes
<1> QED
  BY <1>1, <1>2, <1>3, PTL DEF Spec

-----------------------------------------------------------------------------
(* The Muxes and their routers *)

ConfigOK == MuxesOK /\ RoutersOK /\ TablesOK

LEMMA UpdateSeq ==
    ASSUME NEW S, NEW s \in Seq(S), NEW k \in DOMAIN s, NEW v \in S
    PROVE  /\ [s EXCEPT ![k] = v] \in Seq(S)
           /\ Len([s EXCEPT ![k] = v]) = Len(s)
           /\ DOMAIN [s EXCEPT ![k] = v] = DOMAIN s
           /\ \A j \in DOMAIN s : [s EXCEPT ![k] = v][j] = IF j = k THEN v ELSE s[j]
BY ExceptSeq, LenProperties

LEMMA AppendSeq ==
    ASSUME NEW S, NEW s \in Seq(S), NEW v \in S
    PROVE  /\ Append(s, v) \in Seq(S)
           /\ Len(Append(s, v)) = Len(s) + 1
           /\ DOMAIN Append(s, v) = DOMAIN s \cup {Len(s) + 1}
           /\ \A j \in DOMAIN s : Append(s, v)[j] = s[j]
           /\ Append(s, v)[Len(s) + 1] = v
OBVIOUS

\* The i-th Mux may have this content, if these are the routers.
Fit(mx, i, there) ==
    /\ mx \in MuxRecord
    /\ mx.internalMux \in there
    /\ {mx.errorHandler, mx.validationErrorHandler, mx.notFoundHandler} \subseteq 0 .. i
    /\ mx.logger \subseteq mx.lineage
    /\ mx.lineage \subseteq 1 .. i /\ {Original, i} \subseteq mx.lineage

LEMMA MuxFits ==
    ASSUME ConfigOK, NEW i \in DOMAIN muxes
    PROVE  Fit(muxes[i], i, DOMAIN routers) /\ i \in 1 .. Len(muxes) /\ i \in 1 .. MaxMuxes
BY BoundsAssumption DEF ConfigOK, MuxesOK, MuxOK, Fit

\* No call takes Muxes or routers away.
Grows == DOMAIN muxes \subseteq DOMAIN muxes' /\ DOMAIN routers \subseteq DOMAIN routers'

LEMMA SetFieldOK ==
    ASSUME ConfigOK, NEW i \in DOMAIN muxes, NEW mx, Fit(mx, i, DOMAIN routers), SetField(i, mx)
    PROVE  ConfigOK' /\ Grows
<1>1. muxes' = [muxes EXCEPT ![i] = mx] /\ UNCHANGED <<routers, tree, handlers>>
  BY DEF SetField
<1>2. /\ muxes' \in Seq(MuxRecord) /\ Len(muxes') = Len(muxes)
      /\ DOMAIN muxes' = DOMAIN muxes
      /\ \A j \in DOMAIN muxes : muxes'[j] = IF j = i THEN mx ELSE muxes[j]
  BY <1>1, UpdateSeq DEF ConfigOK, MuxesOK, Fit
<1>3. MuxesOK'
  BY <1>1, <1>2 DEF ConfigOK, MuxesOK, MuxOK, Fit
<1> QED
  BY <1>1, <1>2, <1>3 DEF ConfigOK, RoutersOK, TablesOK, Grows

LEMMA CopyOK ==
    ASSUME ConfigOK, NEW mx, Len(muxes) < MaxMuxes,
           NEW n, n = Len(muxes) + 1, Fit(mx, n, DOMAIN routers'), muxes' = Append(muxes, mx),
           RoutersOK', Len(routers') >= Len(routers), UNCHANGED <<tree, handlers>>
    PROVE  ConfigOK' /\ Grows
<1>1. /\ muxes' \in Seq(MuxRecord) /\ Len(muxes') = Len(muxes) + 1
      /\ DOMAIN muxes' = DOMAIN muxes \cup {Len(muxes) + 1}
      /\ \A j \in DOMAIN muxes : muxes'[j] = muxes[j]
      /\ muxes'[Len(muxes) + 1] = mx
  BY AppendSeq DEF ConfigOK, MuxesOK, Fit
<1>2. DOMAIN routers \subseteq DOMAIN routers'
  BY DEF ConfigOK, RoutersOK
<1>3. Len(muxes') \in 1 .. MaxMuxes
  BY <1>1, BoundsAssumption DEF ConfigOK, MuxesOK
<1>4. ASSUME NEW j \in DOMAIN muxes' PROVE MuxOK(j)'
  <2>1. CASE j \in DOMAIN muxes
    BY <1>1, <1>2, <2>1 DEF ConfigOK, MuxesOK, MuxOK
  <2>2. CASE j = n
    BY <1>1, <2>2 DEF MuxOK, Fit
  <2> QED
    BY <1>1, <2>1, <2>2
<1>5. TablesOK'
  BY <1>1 DEF ConfigOK, TablesOK
<1> QED
  BY <1>1, <1>2, <1>3, <1>4, <1>5 DEF ConfigOK, MuxesOK, Grows

LEMMA FieldsOK ==
    ASSUME ConfigOK, NEW i \in DOMAIN muxes,
           \/ LogWith(i) \/ RequestIdentifierGenerator(i) \/ SetDevelopment(i)
           \/ HandleError(i) \/ HandleValidationError(i) \/ NotFound(i)
    PROVE  ConfigOK' /\ Grows
<1>1. Fit(muxes[i], i, DOMAIN routers) /\ i \in 1 .. Len(muxes) /\ i \in 1 .. MaxMuxes
  BY MuxFits
<1> SUFFICES ASSUME NEW mx, SetField(i, mx), Fit(mx, i, DOMAIN routers)
             PROVE  ConfigOK' /\ Grows
  <2>1. CASE LogWith(i)
    <3>1. Fit([muxes[i] EXCEPT !.logger = @ \cup {i}], i, DOMAIN routers)
      BY <1>1 DEF Fit, MuxRecord
    <3> QED
      BY <2>1, <3>1 DEF LogWith
  <2>2. CASE RequestIdentifierGenerator(i)
    <3>1. Fit([muxes[i] EXCEPT !.identifierGenerator = "custom"], i, DOMAIN routers)
      BY <1>1 DEF Fit, MuxRecord, IDs
    <3> QED
      BY <2>2, <3>1 DEF RequestIdentifierGenerator
  <2>3. CASE SetDevelopment(i)
    <3>1. Fit([muxes[i] EXCEPT !.Development = ~@], i, DOMAIN routers)
      BY <1>1 DEF Fit, MuxRecord
    <3> QED
      BY <2>3, <3>1 DEF SetDevelopment
  <2>4. CASE HandleError(i)
    <3>1. \A h \in {Custom, i} : Fit([muxes[i] EXCEPT !.errorHandler = h], i, DOMAIN routers)
      BY <1>1, BoundsAssumption DEF Fit, MuxRecord, Custom
    <3> QED
      BY <2>4, <3>1 DEF HandleError
  <2>5. CASE HandleValidationError(i)
    <3>1. \A h \in {Custom, i} : Fit([muxes[i] EXCEPT !.validationErrorHandler = h], i, DOMAIN routers)
      BY <1>1, BoundsAssumption DEF Fit, MuxRecord, Custom
    <3> QED
      BY <2>5, <3>1 DEF HandleValidationError
  <2>6. CASE NotFound(i)
    <3>1. \A h \in {Custom, i} : Fit([muxes[i] EXCEPT !.notFoundHandler = h], i, DOMAIN routers)
      BY <1>1, BoundsAssumption DEF Fit, MuxRecord, Custom
    <3> QED
      BY <2>6, <3>1 DEF NotFound
  <2> QED
    BY <2>1, <2>2, <2>3, <2>4, <2>5, <2>6
<1> QED
  BY SetFieldOK

\* NewMux's router is built once it has routes, or children.
RootBuilt == DOMAIN tree # {} \/ Len(routers) > 1 => routers[Original].built

LEMMA RouterFits ==
    ASSUME ConfigOK, NEW i \in DOMAIN muxes
    PROVE  /\ muxes[i].internalMux \in DOMAIN routers
           /\ \A k \in DOMAIN routers : routers[k] \in RouterRecord
           /\ Router(i).inline => Router(i).parent \in DOMAIN routers
           /\ DOMAIN routers = 1 .. Len(routers) /\ Len(routers) \in Nat /\ Original \in DOMAIN routers
<1>1. muxes[i].internalMux \in DOMAIN routers
  BY DEF ConfigOK, MuxesOK, MuxOK
<1>2. /\ DOMAIN routers = 1 .. Len(routers) /\ Len(routers) \in Nat
      /\ \A k \in DOMAIN routers : routers[k] \in RouterRecord
  <2>1. routers \in Seq(RouterRecord)
    BY DEF ConfigOK, RoutersOK
  <2> QED
    BY <2>1, LenProperties
<1>3. Original \in DOMAIN routers
  BY <1>2, BoundsAssumption DEF ConfigOK, RoutersOK, MuxesOK, Original
<1>4. Router(i).inline => Router(i).parent \in DOMAIN routers
  <2> DEFINE k == muxes[i].internalMux
  <2>1. k \in 1 .. Len(routers)
    BY <1>1, <1>2
  <2>2. routers[k].inline => routers[k].parent \in 1 .. k - 1
    BY <1>1 DEF ConfigOK, RoutersOK
  <2> HIDE DEF k
  <2>3. routers[k].inline => routers[k].parent \in 1 .. Len(routers)
    BY <1>2, <2>1, <2>2
  <2> QED
    BY <1>2, <2>3 DEF Router, k
<1> QED
  BY <1>1, <1>2, <1>3, <1>4

LEMMA UpdateRouter ==
    ASSUME ConfigOK, NEW k \in DOMAIN routers, NEW rt \in RouterRecord,
           rt.inline = routers[k].inline, rt.parent = routers[k].parent,
           routers' = [routers EXCEPT ![k] = rt], UNCHANGED muxes
    PROVE  /\ RoutersOK' /\ MuxesOK'
           /\ Len(routers') = Len(routers) /\ DOMAIN routers' = DOMAIN routers
           /\ \A j \in DOMAIN routers : routers'[j] = IF j = k THEN rt ELSE routers[j]
<1>1. /\ routers' \in Seq(RouterRecord) /\ Len(routers') = Len(routers)
      /\ DOMAIN routers' = DOMAIN routers
      /\ \A j \in DOMAIN routers : routers'[j] = IF j = k THEN rt ELSE routers[j]
  BY UpdateSeq DEF ConfigOK, RoutersOK
<1>2. RoutersOK'
  BY <1>1 DEF ConfigOK, RoutersOK
<1>3. MuxesOK'
  BY <1>1 DEF ConfigOK, MuxesOK, MuxOK
<1> QED
  BY <1>1, <1>2, <1>3

LEMMA BuiltOK ==
    ASSUME ConfigOK, NEW k \in DOMAIN routers, routers' = Built(k), UNCHANGED muxes
    PROVE  /\ RoutersOK' /\ MuxesOK' /\ DOMAIN routers' = DOMAIN routers
           /\ Len(routers') = Len(routers)
           /\ \A j \in DOMAIN routers : routers'[j].built = (j = k \/ routers[j].built)
<1> DEFINE rt == [routers[k] EXCEPT !.built = TRUE]
<1>1. routers[k] \in RouterRecord
  BY DEF ConfigOK, RoutersOK
<1>2. /\ rt \in RouterRecord /\ rt.built /\ rt.inline = routers[k].inline
      /\ rt.parent = routers[k].parent
  BY <1>1 DEF RouterRecord
<1>3. routers' = [routers EXCEPT ![k] = rt]
  BY DEF Built
<1> HIDE DEF rt
<1>4. \A j \in DOMAIN routers : routers[j].built \in BOOLEAN
  <2>1. \A j \in DOMAIN routers : routers[j] \in RouterRecord
    BY DEF ConfigOK, RoutersOK
  <2> QED
    BY <2>1 DEF RouterRecord
<1> QED
  BY <1>2, <1>3, <1>4, UpdateRouter

LEMMA UseOK ==
    ASSUME ConfigOK, RootBuilt, NEW i \in DOMAIN muxes, Use(i)
    PROVE  ConfigOK' /\ RootBuilt' /\ Grows
<1> DEFINE k == muxes[i].internalMux
           longer == Append(routers[k].middlewares, "custom")
           rt == [routers[k] EXCEPT !.middlewares = longer]
<1>1. k \in DOMAIN routers /\ routers[k] \in RouterRecord
  BY RouterFits
<1>2. /\ rt \in RouterRecord /\ rt.built = routers[k].built
      /\ rt.inline = routers[k].inline /\ rt.parent = routers[k].parent
  <2>1. longer \in Seq(Middlewares)
    BY <1>1, AppendSeq DEF RouterRecord, Middlewares
  <2> HIDE DEF longer
  <2> QED
    BY <1>1, <2>1 DEF RouterRecord
<1>3. routers' = [routers EXCEPT ![k] = rt] /\ UNCHANGED <<muxes, tree, handlers>>
  BY DEF Use
<1> HIDE DEF k, rt
<1>4. /\ RoutersOK' /\ MuxesOK' /\ Len(routers') = Len(routers)
      /\ DOMAIN routers' = DOMAIN routers
      /\ \A j \in DOMAIN routers : routers'[j].built = routers[j].built
  BY <1>1, <1>2, <1>3, UpdateRouter
<1> QED
  BY <1>3, <1>4, RouterFits DEF ConfigOK, TablesOK, RootBuilt, Grows

LEMMA MethodNotAllowedOK ==
    ASSUME ConfigOK, RootBuilt, NEW i \in DOMAIN muxes, MethodNotAllowed(i)
    PROVE  ConfigOK' /\ RootBuilt' /\ Grows
<1>1. PICK k \in DOMAIN routers, h \in {Custom, Original}, chain \in Seq(Middlewares) :
        routers' = [routers EXCEPT ![k].methodNotAllowed = [handler |-> h, chain |-> chain]]
  <2>1. Router(i).middlewares \in Seq(Middlewares) /\ <<>> \in Seq(Middlewares)
    BY RouterFits DEF RouterRecord, Router
  <2> QED
    BY <2>1, RouterFits DEF MethodNotAllowed
<1> DEFINE rt == [routers[k] EXCEPT !.methodNotAllowed = [handler |-> h, chain |-> chain]]
<1>2. routers[k] \in RouterRecord
  BY RouterFits
<1>3. /\ rt \in RouterRecord /\ rt.built = routers[k].built
      /\ rt.inline = routers[k].inline /\ rt.parent = routers[k].parent
  BY <1>2 DEF RouterRecord
<1>4. routers' = [routers EXCEPT ![k] = rt] /\ UNCHANGED <<muxes, tree, handlers>>
  BY <1>1 DEF MethodNotAllowed
<1> HIDE DEF rt
<1>5. /\ RoutersOK' /\ MuxesOK' /\ Len(routers') = Len(routers)
      /\ DOMAIN routers' = DOMAIN routers
      /\ \A j \in DOMAIN routers : routers'[j].built = routers[j].built
  BY <1>3, <1>4, UpdateRouter
<1> QED
  BY <1>4, <1>5, RouterFits DEF ConfigOK, TablesOK, RootBuilt, Grows

LEMMA UseLogOptsOK ==
    ASSUME ConfigOK, RootBuilt, NEW i \in DOMAIN muxes, UseLogOpts(i)
    PROVE  ConfigOK' /\ RootBuilt' /\ Grows
<1>1. PICK n, mx :
        /\ n = Len(muxes) + 1
        /\ mx = [muxes[i] EXCEPT !.logger = @ \cup {n}, !.lineage = @ \cup {n}]
  OBVIOUS
<1>2. /\ Fit(muxes[i], i, DOMAIN routers) /\ i \in 1 .. Len(muxes) /\ n \in 1 .. MaxMuxes
      /\ Len(muxes) \in Nat /\ Len(muxes) < MaxMuxes
  BY <1>1, MuxFits, BoundsAssumption DEF UseLogOpts, ConfigOK, MuxesOK
<1>3. muxes' = Append(muxes, mx) /\ UNCHANGED <<routers, tree, handlers>>
  BY <1>1 DEF UseLogOpts
<1>4. Fit(mx, n, DOMAIN routers')
  <2>1. i < n
    BY <1>1, <1>2
  <2>2. 0 .. i \subseteq 0 .. n /\ 1 .. i \subseteq 1 .. n /\ n \in 1 .. n
    BY <1>2, <2>1
  <2>3. mx \in MuxRecord
    BY <1>1, <1>2 DEF Fit, MuxRecord
  <2>4. /\ mx.internalMux = muxes[i].internalMux /\ mx.errorHandler = muxes[i].errorHandler
        /\ mx.validationErrorHandler = muxes[i].validationErrorHandler
        /\ mx.notFoundHandler = muxes[i].notFoundHandler
        /\ mx.logger = muxes[i].logger \cup {n} /\ mx.lineage = muxes[i].lineage \cup {n}
    BY <1>1, <1>2 DEF Fit, MuxRecord
  <2> QED
    BY <1>2, <1>3, <2>2, <2>3, <2>4 DEF Fit
<1>5. RoutersOK'
  <2>1. Len(muxes') = Len(muxes) + 1
    BY <1>3, <1>4, AppendSeq DEF Fit, ConfigOK, MuxesOK
  <2> QED
    BY <1>2, <1>3, <2>1 DEF ConfigOK, RoutersOK
<1>6. Len(routers') >= Len(routers)
  BY <1>3, RouterFits
<1>7. ConfigOK' /\ Grows
  BY <1>1, <1>2, <1>3, <1>4, <1>5, <1>6, CopyOK
<1> QED
  BY <1>3, <1>7 DEF RootBuilt

LEMMA BuiltParentOK ==
    ASSUME ConfigOK, RootBuilt, NEW i \in DOMAIN muxes
    PROVE  /\ BuiltParent(i) \in Seq(RouterRecord)
           /\ Len(BuiltParent(i)) = Len(routers) /\ DOMAIN BuiltParent(i) = DOMAIN routers
           /\ \A j \in DOMAIN routers : /\ BuiltParent(i)[j].inline = routers[j].inline
                                        /\ BuiltParent(i)[j].parent = routers[j].parent
           /\ BuiltParent(i)[Original].built
<1> DEFINE k == muxes[i].internalMux
<1>1. /\ k \in DOMAIN routers /\ DOMAIN routers = 1 .. Len(routers)
      /\ Len(routers) \in Nat /\ Original \in DOMAIN routers
      /\ \A j \in DOMAIN routers : routers[j] \in RouterRecord
  BY RouterFits
<1>2. CASE Router(i).inline
  <2>1. k # Original
    BY <1>1, <1>2 DEF Router, ConfigOK, RoutersOK
  <2>2. Len(routers) > 1
    BY <1>1, <2>1 DEF Original
  <2> QED
    BY <1>2, <2>2 DEF BuiltParent, RootBuilt, ConfigOK, RoutersOK
<1>3. CASE ~Router(i).inline
  <2> DEFINE rt == [routers[k] EXCEPT !.built = TRUE]
  <2>1. k = Original
    BY <1>1, <1>3 DEF Router, ConfigOK, RoutersOK
  <2>2. BuiltParent(i) = [routers EXCEPT ![k] = rt]
    BY <1>3 DEF BuiltParent, Built
  <2>3. /\ rt \in RouterRecord /\ rt.inline = routers[k].inline
        /\ rt.parent = routers[k].parent /\ rt.built
    BY <1>1 DEF RouterRecord
  <2> HIDE DEF k, rt
  <2> QED
    BY <1>1, <2>1, <2>2, <2>3, UpdateSeq DEF ConfigOK, RoutersOK
<1> QED
  BY <1>2, <1>3

LEMMA WithOK ==
    ASSUME ConfigOK, RootBuilt, NEW i \in DOMAIN muxes, With(i)
    PROVE  ConfigOK' /\ RootBuilt' /\ Grows
<1>0. PICK n, c, mx : /\ n = Len(muxes) + 1 /\ c = Len(routers) + 1
                      /\ mx = [muxes[i] EXCEPT !.internalMux = c, !.lineage = @ \cup {n}]
  OBVIOUS
<1>1. /\ Fit(muxes[i], i, DOMAIN routers) /\ i \in 1 .. Len(muxes) /\ n \in 1 .. MaxMuxes
      /\ muxes' = Append(muxes, mx) /\ UNCHANGED <<tree, handlers>>
      /\ Len(muxes) < MaxMuxes /\ Len(muxes) \in Nat
  BY <1>0, MuxFits, BoundsAssumption DEF With, ConfigOK, MuxesOK
<1>2. /\ muxes[i].internalMux \in DOMAIN routers /\ Router(i) \in RouterRecord
      /\ DOMAIN routers = 1 .. Len(routers) /\ Len(routers) \in Nat
      /\ Len(routers) \in 1 .. Len(muxes)
  BY RouterFits DEF Router, ConfigOK, RoutersOK
<1>3. PICK child \in RouterRecord :
        /\ child.inline /\ child.parent = muxes[i].internalMux
        /\ routers' = Append(BuiltParent(i), child)
  <2>1. <<>> \in Seq(Middlewares) /\ <<"custom">> \in Seq(Middlewares)
    BY DEF Middlewares
  <2>2. /\ Router(i).middlewares \in Seq(Middlewares)
        /\ Router(i).methodNotAllowed \in
              [handler : {Custom, Original}, chain : Seq(Middlewares)]
    BY <1>2 DEF RouterRecord
  <2>3. muxes[i].internalMux \in 0 .. MaxMuxes
    BY <1>1, <1>2, BoundsAssumption
  <2>4. PICK given \in {<<>>, <<"custom">>} :
          routers' = Append(BuiltParent(i),
             [inline |-> TRUE, parent |-> muxes[i].internalMux, built |-> FALSE,
              middlewares |-> IF Router(i).inline
                              THEN Router(i).middlewares \o given ELSE given,
              methodNotAllowed |-> Router(i).methodNotAllowed])
    BY DEF With
  <2> DEFINE ms == IF Router(i).inline THEN Router(i).middlewares \o given ELSE given
  <2>5. ms \in Seq(Middlewares)
    BY <2>1, <2>2, ConcatProperties
  <2> HIDE DEF ms
  <2>6. [inline |-> TRUE, parent |-> muxes[i].internalMux, built |-> FALSE,
         middlewares |-> ms, methodNotAllowed |-> Router(i).methodNotAllowed] \in RouterRecord
    BY <2>2, <2>3, <2>5 DEF RouterRecord
  <2> QED
    BY <2>4, <2>6 DEF ms
<1>4. /\ routers' \in Seq(RouterRecord) /\ Len(routers') = Len(routers) + 1
      /\ DOMAIN routers' = DOMAIN routers \cup {Len(routers) + 1}
      /\ \A j \in DOMAIN routers : /\ routers'[j].inline = routers[j].inline
                                   /\ routers'[j].parent = routers[j].parent
      /\ routers'[Len(routers) + 1] = child /\ routers'[Original].built
  <2> DEFINE built == BuiltParent(i)
  <2>1. Original \in DOMAIN routers
    BY RouterFits
  <2>2. /\ built \in Seq(RouterRecord) /\ Len(built) = Len(routers)
        /\ DOMAIN built = DOMAIN routers /\ built[Original].built
        /\ \A j \in DOMAIN routers : /\ built[j].inline = routers[j].inline
                                     /\ built[j].parent = routers[j].parent
    BY BuiltParentOK
  <2>3. routers' = Append(built, child)
    BY <1>3
  <2> HIDE DEF built
  <2>4. /\ Append(built, child) \in Seq(RouterRecord)
        /\ Len(Append(built, child)) = Len(built) + 1
        /\ DOMAIN Append(built, child) = DOMAIN built \cup {Len(built) + 1}
        /\ \A j \in DOMAIN built : Append(built, child)[j] = built[j]
        /\ Append(built, child)[Len(built) + 1] = child
    BY <2>2, AppendSeq
  <2> QED
    BY <2>1, <2>2, <2>3, <2>4
<1>5. Len(muxes') = Len(muxes) + 1
  BY <1>1 DEF ConfigOK, MuxesOK
<1>6. RoutersOK'
  <2>1. Len(routers') \in 1 .. Len(muxes')
    BY <1>2, <1>4, <1>5, <1>1
  <2>2. ASSUME NEW j \in DOMAIN routers'
        PROVE  IF j = Original THEN ~routers'[j].inline
               ELSE routers'[j].inline /\ routers'[j].parent \in 1 .. j - 1
    <3>1. CASE j \in DOMAIN routers
      BY <1>4, <3>1 DEF ConfigOK, RoutersOK
    <3>2. CASE j = Len(routers) + 1
      <4>1. routers'[j] = child /\ j # Original
        BY <1>2, <1>4, <3>2 DEF Original
      <4>2. child.parent \in 1 .. j - 1
        BY <1>2, <1>3, <3>2
      <4> QED
        BY <1>3, <4>1, <4>2
    <3> QED
      BY <1>4, <3>1, <3>2
  <2> QED
    BY <1>4, <2>1, <2>2 DEF RoutersOK
<1>7. Fit(mx, n, DOMAIN routers')
  <2>1. c \in DOMAIN routers' /\ c \in 1 .. MaxMuxes
    BY <1>0, <1>1, <1>2, <1>4, BoundsAssumption
  <2>2. 0 .. i \subseteq 0 .. n /\ 1 .. i \subseteq 1 .. n /\ n \in 1 .. n
    BY <1>0, <1>1
  <2>3. mx \in MuxRecord
    BY <1>0, <1>1, <2>1 DEF Fit, MuxRecord
  <2>4. /\ mx.internalMux = c /\ mx.errorHandler = muxes[i].errorHandler
        /\ mx.validationErrorHandler = muxes[i].validationErrorHandler
        /\ mx.notFoundHandler = muxes[i].notFoundHandler /\ mx.logger = muxes[i].logger
        /\ mx.lineage = muxes[i].lineage \cup {n}
    BY <1>0, <1>1 DEF Fit, MuxRecord
  <2> QED
    BY <1>1, <2>1, <2>2, <2>3, <2>4 DEF Fit
<1>8. Len(routers') >= Len(routers)
  BY <1>2, <1>4
<1>9. ConfigOK' /\ Grows
  BY <1>0, <1>1, <1>6, <1>7, <1>8, CopyOK
<1> QED
  BY <1>4, <1>9 DEF RootBuilt

LEMMA HandleOK ==
    ASSUME ConfigOK, RootBuilt, NEW i \in DOMAIN muxes, Handle(i)
    PROVE  ConfigOK' /\ RootBuilt' /\ Grows
<1>1. PICK m \in Methods, p \in Patterns \cup Malformed, f \in Handlers :
        /\ registerHandler(<<m, p>>, f)
        /\ IF p \in Malformed
           THEN UNCHANGED <<routers, tree>>
           ELSE /\ routers' = Built(muxes[i].internalMux)
                /\ tree' = Put(tree, <<m, p>>,
                               [mux |-> i, handler |-> f,
                                chain |-> IF Router(i).inline
                                          THEN Router(i).middlewares ELSE <<>>])
  BY DEF Handle
<1>2. UNCHANGED muxes
  BY DEF Handle
<1>3. DOMAIN handlers' \subseteq Methods \X (Patterns \cup Malformed)
  BY <1>1 DEF registerHandler, Put, ConfigOK, TablesOK
<1>4. CASE p \in Malformed
  BY <1>1, <1>2, <1>3, <1>4 DEF ConfigOK, MuxesOK, MuxOK, RoutersOK, TablesOK, RootBuilt, Grows
<1>5. CASE p \notin Malformed
  <2> DEFINE k == muxes[i].internalMux
  <2>1. k \in DOMAIN routers /\ routers' = Built(k)
    BY <1>1, <1>5, RouterFits
  <2>2. /\ RoutersOK' /\ MuxesOK' /\ DOMAIN routers' = DOMAIN routers
        /\ Len(routers') = Len(routers)
        /\ \A j \in DOMAIN routers : routers'[j].built = (j = k \/ routers[j].built)
    BY <1>2, <2>1, BuiltOK
  <2>3. PICK route : /\ tree' = Put(tree, <<m, p>>, route)
                     /\ route.mux = i /\ route.handler = f
    BY <1>1, <1>5
  <2>4. TablesOK'
    BY <1>2, <1>3, <1>5, <2>3 DEF Put, Endpoints, ConfigOK, TablesOK
  <2>5. routers'[Original].built
    <3>1. Original \in DOMAIN routers /\ DOMAIN routers = 1 .. Len(routers) /\ Len(routers) \in Nat
      BY RouterFits
    <3>2. k # Original => Len(routers) > 1
      BY <2>1, <3>1 DEF Original
    <3> QED
      BY <2>2, <3>1, <3>2 DEF RootBuilt
  <2> QED
    BY <1>2, <2>2, <2>4, <2>5 DEF ConfigOK, RootBuilt, Grows
<1> QED
  BY <1>4, <1>5

LEMMA ConfiguringOK ==
    ASSUME ConfigOK, RootBuilt, NEW i \in DOMAIN muxes, Configuring(i)
    PROVE  ConfigOK' /\ RootBuilt' /\ Grows
<1>1. CASE \/ LogWith(i) \/ RequestIdentifierGenerator(i) \/ SetDevelopment(i)
           \/ HandleError(i) \/ HandleValidationError(i) \/ NotFound(i)
  <2>1. UNCHANGED <<routers, tree>>
    BY <1>1 DEF LogWith, RequestIdentifierGenerator, SetDevelopment, HandleError,
         HandleValidationError, NotFound, SetField
  <2> QED
    BY <1>1, <2>1, FieldsOK DEF RootBuilt
<1> QED
  BY <1>1, UseLogOptsOK, MethodNotAllowedOK, UseOK, WithOK, HandleOK DEF Configuring

LEMMA InitOK == Init => ConfigOK /\ RootBuilt
<1> SUFFICES ASSUME Init PROVE ConfigOK /\ RootBuilt
  OBVIOUS
<1>1. MuxesOK
  BY BoundsAssumption DEF Init, NewMux, MuxesOK, MuxOK, MuxRecord, IDs, Original
<1>2. RoutersOK
  <2>1. /\ <<"muxContextInjector", "requestLogger">> \in Seq(Middlewares)
        /\ <<>> \in Seq(Middlewares)
    BY DEF Middlewares
  <2>2. [inline |-> FALSE, parent |-> 0, built |-> FALSE,
         middlewares |-> <<"muxContextInjector", "requestLogger">>,
         methodNotAllowed |-> [handler |-> Original, chain |-> <<>>]] \in RouterRecord
    BY <2>1, BoundsAssumption DEF RouterRecord
  <2> QED
    BY <2>2 DEF Init, NewMux, RoutersOK, Original
<1> QED
  BY <1>1, <1>2 DEF ConfigOK, TablesOK, RootBuilt, Init, NewMux

-----------------------------------------------------------------------------
(* What a request finds *)

Fields == {"stage", "served", "wanted", "id", "header", "log", "mux", "logger", "kind",
           "writer", "status", "page"}

Failures == {"validation", "runtime", "notfound", "noroute", "notallowed"}

\* The kinds of error a request at each stage can have.
KindFits ==
    /\ request.stage \in {"idle", "routing", "handling"} => request.kind = "none"
    /\ At("unrouted") => request.kind \in {"noroute", "notallowed"}
    /\ At("respond")  => request.kind = "ok"
    /\ At("eof")      => request.kind = "eof"
    /\ At("custom")   => request.kind = "custom"
    /\ At("page")     => request.kind \in Failures
    /\ At("panicked") => request.kind \in Failures \cup {"none", "custom"}

\* A status and a page are there once the request is answered.
AnswerFits ==
    /\ request.stage \notin {"answered", "done"} => request.status = 0 /\ request.page = {}
    /\ At("answered") => request.kind # "none" /\ (request.status = 0 => request.kind = "custom")

\* The Mux of the route is there once it is found, that of a default handler
\* once there is one.
OwnerFits ==
    /\ request.stage \in {"idle", "routing", "unrouted"} => request.mux = 0
    /\ request.stage \in {"handling", "respond", "eof"} => request.mux # 0
    /\ request.stage \in {"idle", "routing", "unrouted", "handling", "respond", "eof", "custom"} =>
            request.writer = 0
    /\ At("page") => request.writer # 0

\* The Mux of a default handler decides what its page tells.
PageFits ==
    request.writer # 0 /\ request.stage \in {"answered", "done"} =>
        (request.page \cap ExtraInformation # {} <=> muxes[request.writer].Development)

RInv ==
    /\ DOMAIN request = Fields
    /\ RequestOK /\ KindFits /\ AnswerFits /\ OwnerFits /\ PageFits

LEMMA ThroughIs ==
    ASSUME NEW r, DOMAIN r = Fields, NEW chain
    PROVE  /\ DOMAIN Through(r, chain) = Fields
           /\ \A field \in Fields \ {"id", "header", "log"} : Through(r, chain)[field] = r[field]
BY DEF Fields, Through

\* A chain leads to a request like r, or to an answer of one of the chain.
LEMMA RunIs ==
    ASSUME NEW r, DOMAIN r = Fields, NEW chain, Run(r, chain)
    PROVE  /\ DOMAIN request' = Fields /\ UNCHANGED <<config, calls>>
           /\ \A field \in {"served", "wanted", "writer", "status", "page"} :
                    request'[field] = r[field]
           /\ \/ \A field \in {"stage", "kind", "mux"} : request'[field] = r[field]
              \/ request'.stage = "custom" /\ request'.kind = "custom" /\ request'.mux = 0
<1>1. CASE Become(Through(r, chain))
  BY <1>1, ThroughIs DEF Become, Fields
<1>2. CASE Become([Through(r, chain) EXCEPT !.stage = "custom", !.kind = "custom",
                                            !.mux = 0, !.logger = {}])
  <2> DEFINE t == Through(r, chain)
  <2>1. /\ DOMAIN t = Fields
        /\ \A field \in Fields \ {"id", "header", "log"} : t[field] = r[field]
    BY ThroughIs
  <2> HIDE DEF t
  <2>2. /\ request' = [t EXCEPT !.stage = "custom", !.kind = "custom", !.mux = 0, !.logger = {}]
        /\ UNCHANGED <<config, calls>>
    BY <1>2 DEF Become, t
  <2> QED
    BY <2>1, <2>2 DEF Fields
<1> QED
  BY <1>1, <1>2 DEF Run

\* A request nobody has taken yet.
LEMMA FreshOK ==
    ASSUME ConfigOK, DOMAIN request' = Fields, UNCHANGED muxes,
           request'.served \in DOMAIN muxes, request'.mux = 0, request'.writer = 0,
           request'.status = 0, request'.page = {},
           \/ request'.stage \in {"idle", "routing"} /\ request'.kind = "none"
           \/ request'.stage = "unrouted" /\ request'.kind \in {"noroute", "notallowed"}
           \/ request'.stage = "custom" /\ request'.kind = "custom"
    PROVE  RInv'
<1>1. 0 \in 0 .. Len(muxes)
  BY DEF ConfigOK, MuxesOK
<1> QED
  BY <1>1 DEF RInv, RequestOK, KindFits, AnswerFits, OwnerFits, PageFits, At, Stages, Kinds

LEMMA ServeHTTPOK ==
    ASSUME ConfigOK, RInv, NEW i \in DOMAIN muxes, NEW endpoint \in Endpoints,
           ServeHTTP(i, endpoint)
    PROVE  RInv'
<1> DEFINE r == [NoRequest EXCEPT !.served = i, !.wanted = endpoint]
<1>1. /\ DOMAIN r = Fields /\ r.served = i /\ r.stage = "idle" /\ r.kind = "none" /\ r.mux = 0
      /\ r.writer = 0 /\ r.status = 0 /\ r.page = {}
  BY DEF NoRequest, Fields
<1> HIDE DEF r
<1>2. CASE \E chain : Run([r EXCEPT !.stage = "routing"], chain)
  <2> DEFINE q == [r EXCEPT !.stage = "routing"]
  <2>1. PICK chain : Run(q, chain)
    BY <1>2
  <2>2. /\ DOMAIN q = Fields /\ q.served = i /\ q.stage = "routing" /\ q.kind = "none"
        /\ q.mux = 0 /\ q.writer = 0 /\ q.status = 0 /\ q.page = {}
    BY <1>1 DEF Fields
  <2> HIDE DEF q
  <2>3. /\ DOMAIN request' = Fields /\ UNCHANGED config /\ request'.served = i
        /\ request'.mux = 0 /\ request'.writer = 0 /\ request'.status = 0 /\ request'.page = {}
        /\ \/ request'.stage = "routing" /\ request'.kind = "none"
           \/ request'.stage = "custom" /\ request'.kind = "custom"
    BY <2>1, <2>2, RunIs
  <2> QED
    BY <2>3, FreshOK DEF config
<1>3. CASE Become([r EXCEPT !.stage = "unrouted", !.kind = "noroute"])
  <2>1. /\ DOMAIN request' = Fields /\ request'.served = i /\ request'.stage = "unrouted"
        /\ request'.kind = "noroute" /\ request'.mux = 0 /\ request'.writer = 0
        /\ request'.status = 0 /\ request'.page = {} /\ UNCHANGED config
    BY <1>1, <1>3 DEF Become, Fields
  <2> QED
    BY <2>1, FreshOK DEF config
<1> QED
  BY <1>2, <1>3 DEF ServeHTTP, r

LEMMA RouteOK ==
    ASSUME ConfigOK, RInv, Route
    PROVE  RInv'
<1>1. /\ DOMAIN request = Fields /\ request.stage = "routing" /\ request.kind = "none"
      /\ request.served \in DOMAIN muxes /\ request.mux = 0
      /\ request.writer = 0 /\ request.status = 0 /\ request.page = {}
  BY DEF RInv, RequestOK, AnswerFits, KindFits, OwnerFits, Route, At
<1>2. CASE request.wanted \in DOMAIN tree
  <2> DEFINE i == tree[request.wanted].mux
             r == [request EXCEPT !.stage = "handling", !.mux = i, !.logger = muxes[i].logger]
  <2>1. PICK chain : Run(r, chain)
    BY <1>2 DEF Route
  <2>2. i \in 0 .. Len(muxes) /\ i # 0
    BY <1>2, MuxFits DEF ConfigOK, TablesOK, MuxesOK
  <2>3. /\ DOMAIN r = Fields /\ r.stage = "handling" /\ r.kind = "none" /\ r.mux = i
        /\ r.served = request.served /\ r.writer = 0 /\ r.status = 0 /\ r.page = {}
    BY <1>1 DEF Fields
  <2> HIDE DEF i, r
  <2>4. /\ DOMAIN request' = Fields /\ UNCHANGED config
        /\ request'.served = request.served /\ request'.writer = 0
        /\ request'.status = 0 /\ request'.page = {}
        /\ \/ request'.stage = "handling" /\ request'.kind = "none" /\ request'.mux = i
           \/ request'.stage = "custom" /\ request'.kind = "custom" /\ request'.mux = 0
    BY <2>1, <2>3, RunIs
  <2>5. CASE request'.stage = "custom"
    BY <1>1, <2>4, <2>5, FreshOK DEF config
  <2>6. CASE request'.stage = "handling"
    <3>1. 0 \in 0 .. Len(muxes)
      BY DEF ConfigOK, MuxesOK
    <3> QED
      BY <1>1, <2>2, <2>4, <2>6, <3>1
         DEF RInv, RequestOK, KindFits, AnswerFits, OwnerFits, PageFits, At, Stages, Kinds, config
  <2> QED
    BY <2>4, <2>5, <2>6
<1>3. CASE request.wanted \notin DOMAIN tree /\ Allowed # {}
  <2> DEFINE r == [request EXCEPT !.stage = "unrouted", !.kind = "notallowed"]
  <2>1. PICK chain : Run(r, chain)
    BY <1>3 DEF Route
  <2>2. /\ DOMAIN r = Fields /\ r.stage = "unrouted" /\ r.kind = "notallowed"
        /\ r.served = request.served /\ r.writer = 0 /\ r.status = 0 /\ r.page = {} /\ r.mux = 0
    BY <1>1 DEF Fields
  <2> HIDE DEF r
  <2>3. /\ DOMAIN request' = Fields /\ UNCHANGED config
        /\ request'.served = request.served /\ request'.mux = 0 /\ request'.writer = 0
        /\ request'.status = 0 /\ request'.page = {}
        /\ \/ request'.stage = "unrouted" /\ request'.kind = "notallowed"
           \/ request'.stage = "custom" /\ request'.kind = "custom"
    BY <2>1, <2>2, RunIs
  <2> QED
    BY <1>1, <2>3, FreshOK DEF config
<1>4. CASE Become([request EXCEPT !.stage = "unrouted", !.kind = "noroute"])
  <2>1. /\ DOMAIN request' = Fields /\ request'.served = request.served
        /\ request'.stage = "unrouted" /\ request'.kind = "noroute" /\ request'.mux = 0
        /\ request'.writer = 0 /\ request'.status = 0 /\ request'.page = {} /\ UNCHANGED config
    BY <1>1, <1>4 DEF Become, Fields
  <2> QED
    BY <1>1, <2>1, FreshOK DEF config
<1> QED
  BY <1>2, <1>3, <1>4 DEF Route

\* The fields no step after the routing and the dispatch changes.
Keeps ==
    /\ DOMAIN request' = Fields /\ request'.served = request.served
    /\ request'.mux = request.mux /\ request'.writer = request.writer
    /\ UNCHANGED config

LEMMA MoveOK ==
    ASSUME RInv, Keeps, KindFits', AnswerFits', PageFits',
           request'.kind \in Kinds,
           \/ request'.stage \in {"answered", "panicked", "done", "dropped"}
           \/ /\ request'.stage \in {"respond", "eof", "custom"} /\ request.writer = 0
              /\ request'.stage # "custom" => request.mux # 0
    PROVE  RInv'
<1>1. RequestOK'
  BY DEF Keeps, RInv, RequestOK, config, Stages
<1>2. OwnerFits'
  BY DEF Keeps, OwnerFits, At
<1> QED
  BY <1>1, <1>2 DEF Keeps, RInv

\* What a default handler answers with is the request, but for its log and its
\* logger.
Like(r) ==
    /\ DOMAIN r = Fields
    /\ \A field \in Fields \ {"log", "logger"} : r[field] = request[field]

LEMMA AllLike ==
    ASSUME DOMAIN request = Fields
    PROVE  Like(request) /\ Like(Logged(request)) /\ \A h : Like(newRequest(h))
BY DEF Like, Logged, newRequest, Fields

LEMMA DispatchOK ==
    ASSUME ConfigOK, RInv, NEW kind \in Failures, NEW handler \in 0 .. Len(muxes),
           NEW r, Like(r), Dispatch(kind, handler, r),
           request.stage \in {"unrouted", "handling"}
    PROVE  RInv'
<1>1. /\ DOMAIN request = Fields /\ request.status = 0 /\ request.page = {} /\ kind \in Kinds
      /\ request.writer = 0
  BY DEF RInv, AnswerFits, OwnerFits, Failures, Kinds
<1>2. CASE handler = Custom
  <2>1. request' = [request EXCEPT !.stage = "custom", !.kind = "custom"] /\ UNCHANGED config
    BY <1>2 DEF Dispatch, Become
  <2>2. /\ Keeps /\ request'.stage = "custom" /\ request'.kind = "custom"
        /\ request'.status = 0 /\ request'.page = {}
    BY <1>1, <2>1 DEF Fields, Keeps
  <2>3. KindFits' /\ AnswerFits' /\ PageFits' /\ request'.kind \in Kinds
    BY <2>2 DEF KindFits, AnswerFits, PageFits, At, Kinds
  <2> QED
    BY <1>1, <2>2, <2>3, MoveOK
<1>3. CASE handler # Custom
  <2>1. /\ request' = [r EXCEPT !.stage = "page", !.kind = kind, !.writer = handler]
        /\ UNCHANGED config
    BY <1>3 DEF Dispatch, Become
  <2>2. /\ DOMAIN request' = Fields /\ request'.served = request.served
        /\ request'.stage = "page" /\ request'.kind = kind /\ request'.mux = request.mux
        /\ request'.writer = handler /\ request'.status = 0 /\ request'.page = {}
    BY <1>1, <2>1 DEF Fields, Like
  <2>3. RequestOK'
    BY <1>1, <2>1, <2>2 DEF RInv, RequestOK, config, Stages
  <2>4. KindFits' /\ AnswerFits'
    BY <2>2 DEF KindFits, AnswerFits, At
  <2>5. OwnerFits' /\ PageFits'
    BY <1>3, <2>2 DEF OwnerFits, PageFits, At, Custom
  <2> QED
    BY <2>2, <2>3, <2>4, <2>5 DEF RInv
<1> QED
  BY <1>2, <1>3

\* A handler of errors is an existing Mux's, or the application's.
LEMMA HandlerFits ==
    ASSUME ConfigOK
    PROVE  /\ \A i \in DOMAIN muxes :
                {muxes[i].errorHandler, muxes[i].validationErrorHandler,
                 muxes[i].notFoundHandler} \subseteq 0 .. Len(muxes)
           /\ \A k \in DOMAIN routers : routers[k].methodNotAllowed.handler \in 0 .. Len(muxes)
           /\ Original \in DOMAIN muxes
<1>1. Len(muxes) \in Nat /\ Len(muxes) >= 1 /\ DOMAIN muxes = 1 .. Len(muxes)
  BY BoundsAssumption DEF ConfigOK, MuxesOK
<1>2. ASSUME NEW i \in DOMAIN muxes
      PROVE  {muxes[i].errorHandler, muxes[i].validationErrorHandler,
              muxes[i].notFoundHandler} \subseteq 0 .. Len(muxes)
  <2>1. 0 .. i \subseteq 0 .. Len(muxes)
    BY <1>1
  <2> QED
    BY <2>1, MuxFits DEF Fit
<1>3. ASSUME NEW k \in DOMAIN routers
      PROVE  routers[k].methodNotAllowed.handler \in 0 .. Len(muxes)
  <2>1. routers[k] \in RouterRecord
    BY DEF ConfigOK, RoutersOK
  <2>2. routers[k].methodNotAllowed.handler \in {Custom, Original}
    BY <2>1 DEF RouterRecord
  <2> QED
    BY <1>1, <2>2 DEF Custom, Original
<1> QED
  BY <1>1, <1>2, <1>3 DEF Original

\* The router that serves.
LEMMA ViaFits ==
    ASSUME ConfigOK, RInv
    PROVE  Via \in DOMAIN routers /\ (routers[Via].inline <=> Via # Original)
<1>1. Via \in DOMAIN routers
  BY RouterFits DEF RInv, RequestOK, Via
<1> QED
  BY <1>1 DEF ConfigOK, RoutersOK

LEMMA DispatchesOK ==
    ASSUME ConfigOK, RInv,
           \/ internalNotFoundDispatch \/ internalMethodNotAllowedDispatch
           \/ ValidationFails \/ RuntimeFails
    PROVE  RInv'
<1>0. DOMAIN request = Fields
  BY DEF RInv
<1>1. CASE internalNotFoundDispatch
  <2>1. muxes[Original].notFoundHandler \in 0 .. Len(muxes)
    BY HandlerFits
  <2> QED
    BY <1>0, <1>1, <2>1, AllLike, DispatchOK DEF internalNotFoundDispatch, At, Failures
<1>2. CASE internalMethodNotAllowedDispatch
  <2>1. routers[Via].methodNotAllowed.handler \in 0 .. Len(muxes)
    BY HandlerFits, ViaFits
  <2> QED
    BY <1>0, <1>2, <2>1, AllLike, DispatchOK DEF internalMethodNotAllowedDispatch, At, Failures
<1>3. CASE ValidationFails \/ RuntimeFails
  <2>1. request.mux \in DOMAIN muxes
    BY <1>3 DEF RInv, RequestOK, OwnerFits, ConfigOK, MuxesOK, ValidationFails, RuntimeFails, At
  <2>2. /\ muxes[request.mux].errorHandler \in 0 .. Len(muxes)
        /\ muxes[request.mux].validationErrorHandler \in 0 .. Len(muxes)
    BY <2>1, HandlerFits
  <2>3. request.stage = "handling" /\ Like(Logged(request))
    BY <1>0, <1>3, AllLike DEF ValidationFails, RuntimeFails, At
  <2>4. \E kind \in Failures, handler \in 0 .. Len(muxes) :
            Dispatch(kind, handler, Logged(request))
    BY <1>3, <2>2 DEF ValidationFails, RuntimeFails, Failures
  <2> QED
    BY <2>3, <2>4, DispatchOK
<1> QED
  BY <1>1, <1>2, <1>3

\* A page tells more exactly when it is not constrained.
LEMMA PageTells ==
    ASSUME NEW kind \in Failures, NEW constrained \in BOOLEAN
    PROVE  pageOf(kind, constrained) \cap ExtraInformation # {} <=> ~constrained
BY DEF pageOf, validationErrorToTemplate, errorToTemplate, notFoundToTemplate, Details,
       ExtraInformation, Failures

LEMMA ReplyIs ==
    ASSUME RInv, NEW r, Like(r), NEW status, NEW page, Reply(r, status, page)
    PROVE  /\ Keeps /\ request'.stage = "answered" /\ request'.kind = request.kind
           /\ request'.status = status /\ request'.page = page
BY DEF RInv, Like, Reply, Become, Fields, Keeps

LEMMA MoveIs ==
    ASSUME RInv, NEW r, Like(r), NEW stage_, Become([r EXCEPT !.stage = stage_])
    PROVE  /\ Keeps /\ request'.stage = stage_ /\ request'.kind = request.kind
           /\ request'.status = request.status /\ request'.page = request.page
BY DEF RInv, Like, Become, Fields, Keeps

LEMMA WritePageIs ==
    ASSUME RInv, WritePage
    PROVE  \E r : /\ Like(r)
                  /\ \/ Reply(r, StatusOf(request.kind), pageOf(request.kind, isConstrained))
                     \/ Become([r EXCEPT !.stage = "panicked"])
BY AllLike DEF RInv, WritePage

LEMMA WritePageOK ==
    ASSUME ConfigOK, RInv, WritePage
    PROVE  RInv'
<1>1. /\ DOMAIN request = Fields /\ request.stage = "page" /\ request.status = 0 /\ request.page = {}
      /\ request.kind \in Failures /\ request.kind \in Kinds
      /\ request.writer # 0 /\ request.writer \in DOMAIN muxes
  BY DEF RInv, RequestOK, KindFits, AnswerFits, OwnerFits, ConfigOK, MuxesOK, WritePage, At
<1>2. PICK r : /\ Like(r)
               /\ \/ Reply(r, StatusOf(request.kind), pageOf(request.kind, isConstrained))
                  \/ Become([r EXCEPT !.stage = "panicked"])
  BY WritePageIs
<1>3. CASE Reply(r, StatusOf(request.kind), pageOf(request.kind, isConstrained))
  <2> DEFINE status_ == StatusOf(request.kind)
             page_ == pageOf(request.kind, isConstrained)
  <2>1. /\ Keeps /\ request'.stage = "answered" /\ request'.kind = request.kind
        /\ request'.status = status_ /\ request'.page = page_
    BY <1>2, <1>3, ReplyIs
  <2>2. status_ # 0
    BY <1>1 DEF StatusOf, Failures
  <2>3. page_ \cap ExtraInformation # {} <=> muxes[request.writer].Development
    <3>1. muxes[request.writer].Development \in BOOLEAN
      BY <1>1, MuxFits DEF Fit, MuxRecord
    <3>2. isConstrained \in BOOLEAN /\ (isConstrained <=> ~muxes[request.writer].Development)
      BY <3>1 DEF isConstrained
    <3> QED
      BY <1>1, <3>2, PageTells
  <2> HIDE DEF status_, page_
  <2>4. KindFits' /\ AnswerFits'
    BY <1>1, <2>1, <2>2 DEF Failures, KindFits, AnswerFits, At
  <2>5. PageFits'
    BY <2>1, <2>3 DEF PageFits, Keeps, config
  <2> QED
    BY <1>1, <2>1, <2>4, <2>5, MoveOK
<1>4. CASE Become([r EXCEPT !.stage = "panicked"])
  <2>1. /\ Keeps /\ request'.stage = "panicked" /\ request'.kind = request.kind
        /\ request'.status = 0 /\ request'.page = {}
    BY <1>1, <1>2, <1>4, MoveIs
  <2>2. KindFits' /\ AnswerFits' /\ PageFits'
    BY <1>1, <2>1 DEF KindFits, AnswerFits, PageFits, At
  <2> QED
    BY <1>1, <2>1, <2>2, MoveOK
<1> QED
  BY <1>2, <1>3, <1>4

\* The answers that are no page, to the request with or without another line.
LEMMA RepliesAre ==
    ASSUME RInv, Respond \/ badRequestUnexpectedEOF \/ CustomReplies
    PROVE  \/ \E r : /\ Like(r)
                     /\ \/ Respond /\ (Reply(r, 500, {}) \/ Reply(r, 200, {}))
                        \/ badRequestUnexpectedEOF /\ Reply(r, 400, {})
                        \/ CustomReplies /\ (Reply(r, 403, {}) \/ Reply(r, 0, {}))
           \/ CustomReplies /\ Become([request EXCEPT !.stage = "panicked"])
<1>1. Like(request) /\ Like(Logged(request))
  BY AllLike DEF RInv
<1>2. CASE Respond
  BY <1>1, <1>2 DEF Respond
<1>3. CASE badRequestUnexpectedEOF
  BY <1>1, <1>3 DEF badRequestUnexpectedEOF
<1>4. CASE CustomReplies
  BY <1>1, <1>4 DEF CustomReplies, Move
<1> QED
  BY <1>2, <1>3, <1>4

\* The handler's outcomes that are no dispatch, and the answers to them.
LEMMA AnswersOK ==
    ASSUME RInv, \/ HandlerReturns \/ HandlerPanics \/ UnexpectedEOF
                 \/ Respond \/ badRequestUnexpectedEOF \/ CustomReplies
    PROVE  RInv'
<1>1. /\ DOMAIN request = Fields /\ request.kind \in Kinds /\ request.writer = 0
      /\ request.status = 0 /\ request.page = {} /\ Like(request)
  BY AllLike DEF RInv, RequestOK, AnswerFits, OwnerFits, At, HandlerReturns, HandlerPanics,
         UnexpectedEOF, Respond, badRequestUnexpectedEOF, CustomReplies
<1>2. /\ Keeps /\ request'.page = {}
      /\ \/ /\ request'.stage = "respond" /\ request'.kind = "ok" /\ request'.status = 0
            /\ request.mux # 0
         \/ /\ request'.stage = "eof" /\ request'.kind = "eof" /\ request'.status = 0
            /\ request.mux # 0
         \/ /\ request'.stage = "panicked" /\ request'.kind \in {"none", "custom"}
            /\ request'.status = 0
         \/ /\ request'.stage = "answered" /\ request'.kind \in {"ok", "eof", "custom"}
            /\ request'.status = 0 => request'.kind = "custom"
  <2>1. CASE HandlerReturns \/ HandlerPanics \/ UnexpectedEOF
    <3>1. request.mux # 0 /\ request.kind = "none"
      BY <2>1 DEF RInv, OwnerFits, KindFits, HandlerReturns, HandlerPanics, UnexpectedEOF, At
    <3> QED
      BY <1>1, <2>1, <3>1
         DEF HandlerReturns, HandlerPanics, UnexpectedEOF, At, Become, Move, Fields, Keeps
  <2>2. CASE Respond \/ badRequestUnexpectedEOF \/ CustomReplies
    <3>1. /\ Respond => request.kind = "ok"
          /\ badRequestUnexpectedEOF => request.kind = "eof"
          /\ CustomReplies => request.kind = "custom"
      BY DEF RInv, KindFits, Respond, badRequestUnexpectedEOF, CustomReplies, At
    <3>2. CASE CustomReplies /\ Become([request EXCEPT !.stage = "panicked"])
      BY <1>1, <3>1, <3>2, MoveIs
    <3>3. CASE \E r : /\ Like(r)
                      /\ \/ Respond /\ (Reply(r, 500, {}) \/ Reply(r, 200, {}))
                         \/ badRequestUnexpectedEOF /\ Reply(r, 400, {})
                         \/ CustomReplies /\ (Reply(r, 403, {}) \/ Reply(r, 0, {}))
      <4>1. PICK r : /\ Like(r)
                     /\ \/ Respond /\ (Reply(r, 500, {}) \/ Reply(r, 200, {}))
                        \/ badRequestUnexpectedEOF /\ Reply(r, 400, {})
                        \/ CustomReplies /\ (Reply(r, 403, {}) \/ Reply(r, 0, {}))
        BY <3>3
      <4>2. PICK status \in {0, 200, 400, 403, 500} :
              /\ Reply(r, status, {}) /\ request.kind \in {"ok", "eof", "custom"}
              /\ status = 0 => request.kind = "custom"
        BY <3>1, <4>1
      <4> QED
        BY <4>1, <4>2, ReplyIs
    <3> QED
      BY <2>2, <3>2, <3>3, RepliesAre
  <2> QED
    BY <2>1, <2>2
<1>3. request'.kind \in Kinds
  BY <1>2 DEF Kinds
<1>4. KindFits' /\ AnswerFits' /\ PageFits'
  BY <1>1, <1>2 DEF KindFits, AnswerFits, PageFits, At, Failures, Keeps
<1> QED
  BY <1>1, <1>2, <1>3, <1>4, MoveOK

LEMMA FinishIs ==
    ASSUME RInv, Finish
    PROVE  /\ Keeps /\ request'.page = request.page /\ request'.kind = request.kind
           /\ request'.stage = IF At("panicked") THEN "dropped" ELSE "done"
           /\ request'.status = IF request.status = 0 /\ ~At("panicked") THEN 200 ELSE request.status
           /\ request.stage \in {"answered", "panicked"}
BY DEF RInv, Finish, Become, Fields, Keeps

LEMMA FinishOK ==
    ASSUME RInv, Finish
    PROVE  RInv'
<1>1. /\ Keeps /\ request'.page = request.page /\ request'.kind = request.kind
      /\ request'.stage = IF At("panicked") THEN "dropped" ELSE "done"
      /\ request'.status = IF request.status = 0 /\ ~At("panicked") THEN 200 ELSE request.status
      /\ request.stage \in {"answered", "panicked"} /\ request.kind \in Kinds
  BY FinishIs DEF RInv, RequestOK
<1>2. KindFits' /\ AnswerFits'
  BY <1>1 DEF RInv, KindFits, AnswerFits, At
<1>3. PageFits'
  BY <1>1 DEF RInv, PageFits, At, Keeps, config
<1> QED
  BY <1>1, <1>2, <1>3, MoveOK

LEMMA ReturnOK ==
    ASSUME ConfigOK, RInv, Return
    PROVE  RInv'
<1>1. request' = NoRequest /\ UNCHANGED config
  BY DEF Return, Become
<1>2. /\ DOMAIN request' = Fields /\ request'.stage = "idle" /\ request'.kind = "none"
      /\ request'.served = Original /\ request'.mux = 0 /\ request'.writer = 0
      /\ request'.status = 0 /\ request'.page = {}
  BY <1>1 DEF NoRequest, Fields
<1> QED
  BY <1>1, <1>2, HandlerFits, FreshOK DEF config

LEMMA ServingOK ==
    ASSUME ConfigOK, RInv, Serving
    PROVE  RInv'
BY ServeHTTPOK, RouteOK, DispatchesOK, WritePageOK, AnswersOK, FinishOK DEF Serving

LEMMA ConfigureRequestOK ==
    ASSUME ConfigOK, RootBuilt, RInv, Configure, NEW i \in DOMAIN muxes, Configuring(i)
    PROVE  RInv'
<1>1. /\ UNCHANGED request /\ request.stage \in {"idle", "routing", "handling", "custom"}
  BY DEF Configure
<1>2. ConfigOK' /\ Grows
  BY ConfiguringOK
<1>3. /\ Len(muxes) \in Nat /\ Len(muxes') \in Nat
      /\ DOMAIN muxes = 1 .. Len(muxes) /\ DOMAIN muxes' = 1 .. Len(muxes')
  BY <1>2, BoundsAssumption DEF ConfigOK, MuxesOK
<1>4. 0 .. Len(muxes) \subseteq 0 .. Len(muxes')
  <2>1. Len(muxes) <= Len(muxes')
    BY <1>2, <1>3 DEF Grows
  <2> QED
    BY <1>3, <2>1
<1> QED
  BY <1>1, <1>2, <1>4
     DEF Grows, RInv, RequestOK, KindFits, AnswerFits, OwnerFits, PageFits, At

-----------------------------------------------------------------------------
(* The theorems *)

MInv == ConfigOK /\ RootBuilt /\ RInv /\ calls \in 0 .. MaxCalls

LEMMA InitMInv == Init => MInv
<1> SUFFICES ASSUME Init PROVE MInv
  OBVIOUS
<1>1. ConfigOK /\ RootBuilt
  BY InitOK
<1>2. /\ DOMAIN request = Fields /\ request.stage = "idle" /\ request.kind = "none"
      /\ request.served = Original /\ request.mux = 0 /\ request.writer = 0
      /\ request.status = 0 /\ request.page = {}
  BY DEF Init, NewMux, NoRequest, Fields
<1>3. Original \in DOMAIN muxes /\ 0 \in 0 .. Len(muxes) /\ calls \in 0 .. MaxCalls
  BY BoundsAssumption DEF Init, NewMux, Original
<1> QED
  BY <1>1, <1>2, <1>3
     DEF MInv, RInv, RequestOK, KindFits, AnswerFits, OwnerFits, PageFits, At, Stages, Kinds

LEMMA NextMInv == MInv /\ [Next]_vars => MInv'
<1> SUFFICES ASSUME MInv, [Next]_vars PROVE MInv'
  OBVIOUS
<1>1. CASE Configure /\ \E i \in DOMAIN muxes : Configuring(i)
  <2>1. PICK i \in DOMAIN muxes : Configuring(i)
    BY <1>1
  <2>2. ConfigOK' /\ RootBuilt' /\ RInv'
    BY <1>1, <2>1, ConfiguringOK, ConfigureRequestOK DEF MInv
  <2>3. calls' \in 0 .. MaxCalls
    BY <1>1, BoundsAssumption DEF Configure, MInv
  <2> QED
    BY <2>2, <2>3 DEF MInv
<1>2. CASE Serving \/ Return
  <2>1. UNCHANGED <<config, calls>>
    BY <1>2, ServingConfig DEF Return, Become
  <2>2. RInv'
    BY <1>2, ServingOK, ReturnOK DEF MInv
  <2>3. ConfigOK' /\ RootBuilt'
    BY <2>1 DEF MInv, config, ConfigOK, MuxesOK, MuxOK, RoutersOK, TablesOK, RootBuilt
  <2> QED
    BY <2>1, <2>2, <2>3 DEF MInv
<1>3. CASE UNCHANGED vars
  BY <1>3 DEF vars, config, MInv, ConfigOK, MuxesOK, MuxOK, RoutersOK, TablesOK, RootBuilt,
              RInv, RequestOK, KindFits, AnswerFits, OwnerFits, PageFits, At
<1> QED
  BY <1>1, <1>2, <1>3 DEF Next

\* What a Mux, a router, a table and a request refer to is there, and a logger
\* has the fields of no Mux but those its own was copied from.
THEOREM MuxTypeCorrect == Spec => []TypeOK
<1>1. MInv => TypeOK
  BY DEF MInv, ConfigOK, RInv, TypeOK
<1> QED
  BY <1>1, InitMInv, NextMInv, PTL DEF Spec

LEMMA DevelopmentSettles ==
    ASSUME MInv
    PROVE  DevelopmentDecides
<1> SUFFICES ASSUME request.writer # 0, request.status # 0
             PROVE  LET told == request.page \cap ExtraInformation
                    IN  /\ (\A i \in Concerned : ~muxes[i].Development) => told = {}
                        /\ (\A i \in Concerned : muxes[i].Development)  => told # {}
  BY DEF DevelopmentDecides
<1>1. request.page \cap ExtraInformation # {} <=> muxes[request.writer].Development
  BY DEF MInv, RInv, AnswerFits, PageFits
<1>2. request.writer \in Concerned
  BY DEF Concerned
<1> QED
  BY <1>1, <1>2

\* A default error page tells what Development adds when every Mux that has to
\* do with the request is in Development, and none of it when none is: the Mux
\* whose default handler writes the page settles it, in each of the cases.
THEOREM DevelopmentSettlesPages == Spec => []DevelopmentDecides
<1> QED
  BY DevelopmentSettles, InitMInv, NextMInv, PTL DEF Spec

LEMMA FoundStep ==
    ASSUME MInv, [Next]_vars, request.stage # "unrouted", request'.stage = "unrouted",
           ~routers[Via'].inline
    PROVE  request'.wanted \notin DOMAIN tree
<1>0. DOMAIN request = Fields
  BY DEF MInv, RInv
<1>1. CASE \E i \in DOMAIN muxes, endpoint \in Endpoints : ServeHTTP(i, endpoint)
  <2>1. PICK i \in DOMAIN muxes, endpoint \in Endpoints : ServeHTTP(i, endpoint)
    BY <1>1
  <2> DEFINE k == muxes[i].internalMux
             r == [NoRequest EXCEPT !.served = i, !.wanted = endpoint]
  <2>2. DOMAIN r = Fields /\ r.served = i
    BY DEF NoRequest, Fields
  <2> HIDE DEF r
  <2>3. CASE routers[k].built
    <3> DEFINE q == [r EXCEPT !.stage = "routing"]
    <3>1. DOMAIN q = Fields /\ q.stage = "routing"
      BY <2>2 DEF Fields
    <3>2. PICK chain : Run(q, chain)
      BY <2>1, <2>3 DEF ServeHTTP, r
    <3> HIDE DEF q
    <3> QED
      BY <3>1, <3>2, RunIs
  <2>4. CASE ~routers[k].built
    <3>1. /\ request' = [r EXCEPT !.stage = "unrouted", !.kind = "noroute"]
          /\ UNCHANGED muxes
      BY <2>1, <2>4 DEF ServeHTTP, Become, config, r
    <3>2. Via' = k /\ k \in DOMAIN routers
      BY <2>2, <3>1, RouterFits DEF Fields, MInv, Via
    <3>3. k = Original
      BY <3>2 DEF MInv, ConfigOK, RoutersOK
    <3> QED
      BY <2>4, <3>3 DEF MInv, RootBuilt
  <2> QED
    BY <2>3, <2>4
<1>2. CASE Route
  <2>1. CASE request.wanted \in DOMAIN tree
    <3> DEFINE i == tree[request.wanted].mux
               r == [request EXCEPT !.stage = "handling", !.mux = i, !.logger = muxes[i].logger]
    <3>1. DOMAIN r = Fields /\ r.stage = "handling"
      BY <1>0 DEF Fields
    <3>2. PICK chain : Run(r, chain)
      BY <1>2, <2>1 DEF Route
    <3> HIDE DEF r
    <3> QED
      BY <3>1, <3>2, RunIs
  <2>2. CASE request.wanted \notin DOMAIN tree
    <3> DEFINE r == [request EXCEPT !.stage = "unrouted", !.kind = "notallowed"]
    <3>1. DOMAIN r = Fields /\ r.wanted = request.wanted
      BY <1>0 DEF Fields
    <3>2. \/ \E chain : Run(r, chain)
          \/ Become([request EXCEPT !.stage = "unrouted", !.kind = "noroute"])
      BY <1>2, <2>2 DEF Route
    <3> HIDE DEF r
    <3>3. request'.wanted = request.wanted
      BY <1>0, <3>1, <3>2, RunIs DEF Become, Fields
    <3> QED
      BY <2>2, <3>3
  <2> QED
    BY <2>1, <2>2
<1>3. CASE \/ internalNotFoundDispatch \/ internalMethodNotAllowedDispatch
           \/ ValidationFails \/ RuntimeFails
  <2>1. ASSUME NEW kind, NEW handler, NEW r, Like(r), Dispatch(kind, handler, r)
        PROVE  request'.stage # "unrouted"
    BY <1>0, <2>1 DEF Dispatch, Become, Fields, Like
  <2> QED
    BY <1>0, <1>3, <2>1, AllLike
       DEF internalNotFoundDispatch, internalMethodNotAllowedDispatch, ValidationFails, RuntimeFails
<1>4. CASE HandlerReturns \/ UnexpectedEOF
  BY <1>0, <1>4 DEF HandlerReturns, UnexpectedEOF, Become, Fields
<1>5. CASE HandlerPanics
  BY <1>0, <1>5 DEF HandlerPanics, Move, Become, Fields
<1>6. CASE Respond \/ badRequestUnexpectedEOF \/ CustomReplies \/ WritePage
  <2>1. ASSUME NEW r, Like(r), \/ \E status, page : Reply(r, status, page)
                               \/ Become([r EXCEPT !.stage = "panicked"])
        PROVE  request'.stage # "unrouted"
    BY <2>1, ReplyIs, MoveIs DEF MInv
  <2> QED
    BY <1>0, <1>6, <2>1, AllLike, RepliesAre, WritePageIs DEF MInv
<1>7. CASE Finish
  BY <1>7, FinishIs DEF MInv
<1>8. CASE Return
  BY <1>8 DEF Return, NoRequest, Become
<1>9. CASE UNCHANGED request
  BY <1>9
<1> QED
  BY <1>1, <1>2, <1>3, <1>4, <1>5, <1>6, <1>7, <1>8, <1>9 DEF Next, Serving, Configure, vars

\* What any copy registers is found by every request NewMux's router serves.
THEOREM EveryRouteIsFound == Spec => RegisteredIsFound
<1>1. MInv /\ [Next]_vars =>
        [/\ request.stage # "unrouted" /\ request'.stage = "unrouted"
         /\ ~routers[Via'].inline
         => request'.wanted \notin DOMAIN tree]_vars
  BY FoundStep
<1> QED
  BY <1>1, InitMInv, NextMInv, PTL DEF Spec, RegisteredIsFound

-----------------------------------------------------------------------------
(* What the client sees *)

\* How the parts of an Exchange may move, in terms of what they stand for.
LEMMA Receiving ==
    ASSUME stage = "idle", stage' = "open", verdict' \in {"none", "unrouted", "handled"},
           request'.status = request.status
    PROVE  E!Next
<1>1. E!Receive(1, verdict')
  BY DEF E!Receive
<1>2. verdict' \in {"none"} \cup E!Verdicts
  BY DEF E!Verdicts
<1> QED
  BY <1>1, <1>2 DEF E!Next

LEMMA Judging ==
    ASSUME stage = "open", stage' = "open", verdict = "none", verdict' \in E!Verdicts,
           request'.status = request.status
    PROVE  E!Next
<1>1. E!Judge(1, verdict')
  BY DEF E!Judge, E!Open
<1> QED
  BY <1>1 DEF E!Next

LEMMA Answering ==
    ASSUME stage = "open", stage' = "open", verdict' = verdict, request.status = 0,
           request'.status \in E!Fitting(verdict)
    PROVE  E!Next
<1>1. E!Answer(1)
  <2> DEFINE v == verdict
  <2>1. v = verdict
    OBVIOUS
  <2> HIDE DEF v
  <2>2. request'.status \in E!Fitting(v)
    BY <2>1
  <2> QED
    BY <2>1, <2>2 DEF E!Answer, E!Open
<1> QED
  BY <1>1 DEF E!Next

LEMMA Closing ==
    ASSUME stage = "open", stage' = "closed", verdict' = verdict, verdict # "none",
           request.status = 0 => verdict \in {"ok", "handled"},
           request'.status = IF request.status = 0 THEN 200 ELSE request.status
    PROVE  E!Next
<1>1. E!Close(1)
  BY DEF E!Close, E!Open
<1> QED
  BY <1>1 DEF E!Next

LEMMA Dropping ==
    ASSUME stage = "open", stage' = "dropped", verdict' = verdict, verdict # "ok",
           request'.status = request.status
    PROVE  E!Next
<1>1. E!Drop(1)
  BY DEF E!Drop, E!Open
<1> QED
  BY <1>1 DEF E!Next

LEMMA Still ==
    ASSUME UNCHANGED <<stage, verdict, request.status>>
    PROVE  UNCHANGED E!vars
BY DEF E!vars

\* A request that is served, routed or given to a chain's middleware.
LEMMA ServeHTTPSeen ==
    ASSUME MInv, NEW i \in DOMAIN muxes, NEW endpoint \in Endpoints, ServeHTTP(i, endpoint)
    PROVE  E!Next
<1> DEFINE r == [NoRequest EXCEPT !.served = i, !.wanted = endpoint]
<1>1. DOMAIN r = Fields /\ r.kind = "none" /\ r.status = 0
  BY DEF NoRequest, Fields
<1>2. request.stage = "idle" /\ request.status = 0
  BY DEF ServeHTTP, At, MInv, RInv, AnswerFits
<1> HIDE DEF r
<1>3. CASE \E chain : Run([r EXCEPT !.stage = "routing"], chain)
  <2> DEFINE q == [r EXCEPT !.stage = "routing"]
  <2>1. PICK chain : Run(q, chain)
    BY <1>3
  <2>2. DOMAIN q = Fields /\ q.stage = "routing" /\ q.kind = "none" /\ q.status = 0
    BY <1>1 DEF Fields
  <2> HIDE DEF q
  <2>3. /\ request'.status = 0
        /\ \/ request'.stage = "routing" /\ request'.kind = "none"
           \/ request'.stage = "custom" /\ request'.kind = "custom"
    BY <2>1, <2>2, RunIs
  <2> QED
    BY <1>2, <2>3, Receiving DEF stage, verdict
<1>4. CASE Become([r EXCEPT !.stage = "unrouted", !.kind = "noroute"])
  <2>1. request'.stage = "unrouted" /\ request'.kind = "noroute" /\ request'.status = 0
    BY <1>1, <1>4 DEF Become, Fields
  <2> QED
    BY <1>2, <2>1, Receiving DEF stage, verdict
<1> QED
  BY <1>3, <1>4 DEF ServeHTTP, r

LEMMA RouteSeen ==
    ASSUME MInv, Route
    PROVE  [E!Next]_(E!vars)
<1>1. DOMAIN request = Fields /\ request.stage = "routing" /\ request.status = 0
  BY DEF MInv, RInv, AnswerFits, Route, At
<1>2. /\ request'.status = 0
      /\ \/ request'.stage \in {"handling", "unrouted"}
         \/ request'.stage = "custom" /\ request'.kind = "custom"
  <2>1. ASSUME NEW r, DOMAIN r = Fields, r.stage \in {"handling", "unrouted"}, r.status = 0,
               NEW chain, Run(r, chain)
        PROVE  /\ request'.status = 0
               /\ \/ request'.stage \in {"handling", "unrouted"}
                  \/ request'.stage = "custom" /\ request'.kind = "custom"
    BY <2>1, RunIs
  <2>2. CASE request.wanted \in DOMAIN tree
    <3> DEFINE i == tree[request.wanted].mux
               r == [request EXCEPT !.stage = "handling", !.mux = i, !.logger = muxes[i].logger]
    <3>1. DOMAIN r = Fields /\ r.stage = "handling" /\ r.status = 0
      BY <1>1 DEF Fields
    <3>2. PICK chain : Run(r, chain)
      BY <2>2 DEF Route
    <3> HIDE DEF r
    <3> QED
      BY <2>1, <3>1, <3>2
  <2>3. CASE request.wanted \notin DOMAIN tree /\ Allowed # {}
    <3> DEFINE r == [request EXCEPT !.stage = "unrouted", !.kind = "notallowed"]
    <3>1. DOMAIN r = Fields /\ r.stage = "unrouted" /\ r.status = 0
      BY <1>1 DEF Fields
    <3>2. PICK chain : Run(r, chain)
      BY <2>3 DEF Route
    <3> HIDE DEF r
    <3> QED
      BY <2>1, <3>1, <3>2
  <2>4. CASE Become([request EXCEPT !.stage = "unrouted", !.kind = "noroute"])
    BY <1>1, <2>4 DEF Become, Fields
  <2> QED
    BY <2>2, <2>3, <2>4 DEF Route
<1>3. CASE request'.stage \in {"handling", "unrouted"}
  <2>1. UNCHANGED <<stage, verdict>>
    BY <1>1, <1>3 DEF stage, verdict
  <2> QED
    BY <1>1, <1>2, <2>1, Still
<1>4. CASE request'.stage = "custom" /\ request'.kind = "custom"
  <2>1. stage = "open" /\ stage' = "open" /\ verdict = "none" /\ verdict' = "handled"
    BY <1>1, <1>4 DEF stage, verdict
  <2> QED
    BY <1>1, <1>2, <2>1, Judging DEF E!Verdicts
<1> QED
  BY <1>2, <1>3, <1>4

\* What becomes of a request the handler or a dispatch decides on.
LEMMA DispatchSeen ==
    ASSUME MInv, \/ internalNotFoundDispatch \/ internalMethodNotAllowedDispatch
                 \/ ValidationFails \/ RuntimeFails \/ HandlerReturns \/ UnexpectedEOF
    PROVE  E!Next
<1>1. /\ DOMAIN request = Fields /\ request.stage \in {"unrouted", "handling"}
      /\ request.status = 0
  BY DEF MInv, RInv, AnswerFits, At, internalNotFoundDispatch, internalMethodNotAllowedDispatch,
         ValidationFails, RuntimeFails, HandlerReturns, UnexpectedEOF
<1>2. /\ request'.status = 0
      /\ request'.stage \in {"custom", "page", "respond", "eof"}
      /\ request'.kind \in Failures \cup {"custom", "ok", "eof"}
  <2>1. ASSUME NEW kind \in Failures, NEW handler, NEW r, Like(r), Dispatch(kind, handler, r)
        PROVE  /\ request'.status = 0
               /\ request'.stage \in {"custom", "page", "respond", "eof"}
               /\ request'.kind \in Failures \cup {"custom", "ok", "eof"}
    BY <1>1, <2>1 DEF Dispatch, Become, Fields, Like
  <2>2. CASE HandlerReturns \/ UnexpectedEOF
    BY <1>1, <2>2 DEF HandlerReturns, UnexpectedEOF, Become, Fields
  <2>3. CASE \/ internalNotFoundDispatch \/ internalMethodNotAllowedDispatch
             \/ ValidationFails \/ RuntimeFails
    <3>1. \E kind \in Failures : \E handler, r : Like(r) /\ Dispatch(kind, handler, r)
      BY <1>1, <2>3, AllLike
         DEF internalNotFoundDispatch, internalMethodNotAllowedDispatch, ValidationFails,
             RuntimeFails, Failures
    <3> QED
      BY <2>1, <3>1
  <2> QED
    BY <2>2, <2>3
<1>3. stage = "open" /\ verdict = "none"
  BY <1>1 DEF stage, verdict
<1>4. stage' = "open"
  BY <1>2 DEF stage
<1>5. verdict' \in E!Verdicts
  BY <1>2 DEF verdict, E!Verdicts, Failures
<1> QED
  BY <1>1, <1>2, <1>3, <1>4, <1>5, Judging

\* The status fits the verdict.
LEMMA AnswerSeen ==
    ASSUME MInv, \/ HandlerPanics \/ Respond \/ badRequestUnexpectedEOF
                 \/ CustomReplies \/ WritePage
    PROVE  [E!Next]_(E!vars)
<1>1. /\ request.status = 0 /\ Like(request)
      /\ \/ request.stage = "handling" /\ HandlerPanics
         \/ request.stage = "respond" /\ request.kind = "ok" /\ Respond
         \/ request.stage = "eof" /\ request.kind = "eof" /\ badRequestUnexpectedEOF
         \/ request.stage = "custom" /\ request.kind = "custom" /\ CustomReplies
         \/ request.stage = "page" /\ request.kind \in Failures /\ WritePage
  BY AllLike DEF MInv, RInv, KindFits, AnswerFits, At, HandlerPanics, Respond,
         badRequestUnexpectedEOF, CustomReplies, WritePage
<1>2. stage = "open" /\ (request.stage # "handling" => verdict # "none")
  BY <1>1 DEF stage, verdict, Failures
<1>3. ASSUME NEW r, Like(r), Become([r EXCEPT !.stage = "panicked"])
      PROVE  [E!Next]_(E!vars)
  <2>1. request'.stage = "panicked" /\ request'.kind = request.kind /\ request'.status = 0
    BY <1>1, <1>3, MoveIs DEF MInv
  <2>2. request.stage = "handling" => request.kind = "none"
    BY DEF MInv, RInv, KindFits
  <2> QED
    BY <1>1, <2>1, <2>2, Still DEF stage, verdict, Failures
<1>4. ASSUME NEW r, Like(r), NEW status, NEW page, Reply(r, status, page),
             request.stage # "handling", status = 0 \/ status \in E!Fitting(verdict)
      PROVE  [E!Next]_(E!vars)
  <2>1. /\ request'.stage = "answered" /\ request'.kind = request.kind
        /\ request'.status = status
    BY <1>4, ReplyIs DEF MInv
  <2>2. stage' = "open" /\ verdict' = verdict
    BY <1>1, <1>4, <2>1 DEF stage, verdict, Failures
  <2>3. CASE status = 0
    BY <1>1, <1>2, <2>1, <2>2, <2>3, Still
  <2>4. CASE status \in E!Fitting(verdict)
    BY <1>1, <1>2, <2>1, <2>2, <2>4, Answering
  <2> QED
    BY <1>4, <2>3, <2>4
<1>5. CASE Respond \/ badRequestUnexpectedEOF \/ CustomReplies
  <2>1. /\ Respond => verdict = "ok"
        /\ badRequestUnexpectedEOF => verdict = "bad"
        /\ CustomReplies => verdict = "handled"
        /\ request.stage # "handling"
    BY <1>1, <1>5 DEF Respond, badRequestUnexpectedEOF, CustomReplies, At, verdict
  <2>2. /\ {200, 500} \subseteq E!Fitting("ok") /\ 400 \in E!Fitting("bad")
        /\ 403 \in E!Fitting("handled")
    BY DEF E!Fitting
  <2>3. CASE CustomReplies /\ Become([request EXCEPT !.stage = "panicked"])
    BY <1>1, <1>3, <2>3
  <2>4. CASE \E r : /\ Like(r)
                    /\ \/ Respond /\ (Reply(r, 500, {}) \/ Reply(r, 200, {}))
                       \/ badRequestUnexpectedEOF /\ Reply(r, 400, {})
                       \/ CustomReplies /\ (Reply(r, 403, {}) \/ Reply(r, 0, {}))
    <3>1. PICK r : /\ Like(r)
                   /\ \/ Respond /\ (Reply(r, 500, {}) \/ Reply(r, 200, {}))
                      \/ badRequestUnexpectedEOF /\ Reply(r, 400, {})
                      \/ CustomReplies /\ (Reply(r, 403, {}) \/ Reply(r, 0, {}))
      BY <2>4
    <3>2. \E status : Reply(r, status, {}) /\ (status = 0 \/ status \in E!Fitting(verdict))
      BY <2>1, <2>2, <3>1
    <3> QED
      BY <1>4, <2>1, <3>1, <3>2
  <2> QED
    BY <1>5, <2>3, <2>4, RepliesAre DEF MInv
<1>6. CASE WritePage
  <2>1. request.stage = "page" /\ request.kind \in Failures
    BY <1>1, <1>6 DEF WritePage, At
  <2>2. StatusOf(request.kind) \in E!Fitting(verdict)
    BY <2>1 DEF Failures, StatusOf, verdict, E!Fitting
  <2>3. PICK r : /\ Like(r)
                 /\ \/ Reply(r, StatusOf(request.kind), pageOf(request.kind, isConstrained))
                    \/ Become([r EXCEPT !.stage = "panicked"])
    BY <1>6, WritePageIs DEF MInv
  <2> QED
    BY <1>3, <1>4, <2>1, <2>2, <2>3
<1>7. CASE HandlerPanics
  BY <1>1, <1>3, <1>7 DEF HandlerPanics, Move
<1> QED
  BY <1>5, <1>6, <1>7

LEMMA FinishSeen ==
    ASSUME MInv, Finish
    PROVE  E!Next
<1>1. /\ request.stage \in {"answered", "panicked"} /\ request.kind \in Kinds
  BY FinishIs DEF MInv, RInv, RequestOK
<1>2. /\ request'.kind = request.kind
      /\ request'.stage = IF At("panicked") THEN "dropped" ELSE "done"
      /\ request'.status = IF request.status = 0 /\ ~At("panicked") THEN 200 ELSE request.status
  BY FinishIs DEF MInv
<1>3. CASE At("panicked")
  <2>1. request.kind \in Failures \cup {"none", "custom"}
    BY <1>3 DEF MInv, RInv, KindFits
  <2> QED
    BY <1>1, <1>2, <1>3, <2>1, Dropping DEF stage, verdict, At, Failures
<1>4. CASE At("answered")
  <2>1. request.kind # "none" /\ (request.status = 0 => request.kind = "custom")
    BY <1>4 DEF MInv, RInv, AnswerFits
  <2>2. verdict # "none" /\ verdict' = verdict
    BY <1>1, <1>2, <1>4, <2>1 DEF verdict, At, Kinds
  <2>3. request.status = 0 => verdict = "handled"
    BY <1>4, <2>1 DEF verdict, At
  <2>4. stage = "open" /\ stage' = "closed"
    BY <1>2, <1>4 DEF stage, At
  <2> QED
    BY <1>2, <1>4, <2>2, <2>3, <2>4, Closing DEF At
<1> QED
  BY <1>1, <1>3, <1>4 DEF At

LEMMA SeenStep ==
    ASSUME MInv, [Next]_vars, ~Return
    PROVE  [E!Next]_(E!vars)
<1>1. CASE Serving
  BY <1>1, ServeHTTPSeen, RouteSeen, DispatchSeen, AnswerSeen, FinishSeen DEF Serving
<1>2. CASE UNCHANGED request
  BY <1>2, Still DEF stage, verdict
<1> QED
  BY <1>1, <1>2 DEF Next, Configure, vars

\* Whatever was copied and configured, before or between the steps that serve
\* it, a request is an Exchange: its failures are told apart by the status,
\* unless a handler of errors the application gave takes them.
THEOREM ImplementsExchange == Spec => ServesAsInExchange
<1>1. MInv /\ [Next]_vars => [~Return => E!Next]_(E!vars)
  BY SeenStep
<1> QED
  BY <1>1, InitMInv, NextMInv, PTL DEF Spec, ServesAsInExchange

-----------------------------------------------------------------------------
(* A chain of middlewares, as a fold *)

LEMMA Least ==
    ASSUME NEW S \in SUBSET Nat, S # {}
    PROVE  \E x \in S : \A y \in S : x <= y
<1> DEFINE R == OpToRel(<, Nat)
<1>1. \E x \in S : \A y \in S : ~(<<y, x>> \in R)
  <2>1. IsWellFoundedOn(R, Nat)
    BY NatLessThanWellFounded
  <2> HIDE DEF R
  <2> QED
    BY <2>1, WFMin
<1>2. \A x, y \in Nat : x < y => <<x, y>> \in R
  BY DEF OpToRel
<1> HIDE DEF R
<1>3. PICK x \in S : \A y \in S : ~(<<y, x>> \in R)
  BY <1>1
<1>4. ASSUME NEW y \in S PROVE x <= y
  <2>1. ~(y < x)
    BY <1>2, <1>3
  <2> QED
    BY <2>1
<1> QED
  BY <1>4

\* Induction, on the set of the naturals that have a property.
LEMMA Climbs ==
    ASSUME NEW B \in SUBSET Nat, 0 \in B, \A n \in B : n + 1 \in B
    PROVE  B = Nat
<1> SUFFICES ASSUME Nat \ B # {} PROVE FALSE
  OBVIOUS
<1>1. PICK x \in Nat \ B : \A y \in Nat \ B : x <= y
  BY Least
<1>2. x # 0 /\ x - 1 \in Nat /\ ~(x <= x - 1) /\ (x - 1) + 1 = x
  OBVIOUS
<1>3. x - 1 \in B
  BY <1>1, <1>2
<1> QED
  BY <1>2, <1>3

\* The function FoldLeft(Pass, base, chain) is taken from.
IsFold(g, chain, base, n) ==
    g = [s \in SUBSET (1 .. n) |->
            IF s = {} THEN base ELSE Pass(g[s \ {Max(s)}], chain[Max(s)])]

LEMMA MaxIs ==
    ASSUME NEW S \in SUBSET Int, NEW x \in S, \A y \in S : y <= x
    PROVE  Max(S) = x
<1>1. \A y \in S : x >= y
  OBVIOUS
<1>2. ASSUME NEW z \in S, \A y \in S : z >= y PROVE z = x
  BY <1>2
<1> QED
  BY <1>1, <1>2 DEF Max

LEMMA FoldExists ==
    ASSUME NEW base, NEW chain, NEW n \in Nat
    PROVE  \E g : IsFold(g, chain, base, n)
<1> DEFINE B == {k \in Nat : \E g : IsFold(g, chain, base, k)}
<1>1. 0 \in B
  <2> DEFINE g == [s \in SUBSET (1 .. 0) |-> base]
  <2>1. \A s \in SUBSET (1 .. 0) : s = {}
    OBVIOUS
  <2>2. IsFold(g, chain, base, 0)
    BY <2>1 DEF IsFold
  <2> QED
    BY <2>2
<1>2. ASSUME NEW k \in B PROVE k + 1 \in B
  <2>1. PICK g : IsFold(g, chain, base, k)
    OBVIOUS
  <2> DEFINE next(s) == Pass(g[s \ {k + 1}], chain[k + 1])
             h == [s \in SUBSET (1 .. k + 1) |-> IF k + 1 \in s THEN next(s) ELSE g[s]]
  <2>2. ASSUME NEW s \in SUBSET (1 .. k + 1), s # {}
        PROVE  h[s] = Pass(h[s \ {Max(s)}], chain[Max(s)])
    <3>1. CASE k + 1 \in s
      <4>1. Max(s) = k + 1
        BY <3>1, MaxIs
      <4>2. h[s \ {k + 1}] = g[s \ {k + 1}]
        OBVIOUS
      <4> QED
        BY <3>1, <4>1, <4>2
    <3>2. CASE k + 1 \notin s
      <4>1. s \in SUBSET (1 .. k) /\ s \ {Max(s)} \in SUBSET (1 .. k)
        <5>1. \A x \in s : x \in 1 .. k + 1 /\ x # k + 1
          BY <3>2
        <5>2. \A x \in 1 .. k + 1 : x # k + 1 => x \in 1 .. k
          OBVIOUS
        <5> QED
          BY <5>1, <5>2
      <4>2. g[s] = Pass(g[s \ {Max(s)}], chain[Max(s)])
        BY <2>1, <2>2, <4>1 DEF IsFold
      <4>3. h[s] = g[s] /\ h[s \ {Max(s)}] = g[s \ {Max(s)}]
        BY <3>2, <4>1
      <4> QED
        BY <4>2, <4>3
    <3> QED
      BY <3>1, <3>2
  <2>3. h[{}] = base
    <3>1. {} \in SUBSET (1 .. k) /\ g[{}] = base
      BY <2>1 DEF IsFold
    <3> QED
      BY <3>1
  <2>4. IsFold(h, chain, base, k + 1)
    <3>1. \A s \in SUBSET (1 .. k + 1) :
            h[s] = IF s = {} THEN base ELSE Pass(h[s \ {Max(s)}], chain[Max(s)])
      BY <2>2, <2>3
    <3>2. DOMAIN h = SUBSET (1 .. k + 1) /\ h = [s \in SUBSET (1 .. k + 1) |-> h[s]]
      OBVIOUS
    <3> HIDE DEF h
    <3> QED
      BY <3>1, <3>2 DEF IsFold
  <2> QED
    BY <2>4
<1>3. B = Nat
  <2> HIDE DEF B
  <2>1. B \in SUBSET Nat
    BY DEF B
  <2> QED
    BY <1>1, <1>2, <2>1, Climbs
<1> QED
  BY <1>3

Seen(base, chain) == FoldLeft(Pass, base, chain)

\* What a chain makes of what a request has seen, a middleware at a time.
LEMMA FoldIs ==
    ASSUME NEW base, NEW chain \in Seq(Middlewares)
    PROVE  \E h : /\ h[0] = base /\ h[Len(chain)] = Seen(base, chain)
                  /\ \A k \in 1 .. Len(chain) : h[k] = Pass(h[k - 1], chain[k])
<1>1. Len(chain) \in Nat /\ DOMAIN chain = 1 .. Len(chain)
  OBVIOUS
<1>2. Seen(base, chain) =
        (CHOOSE g : IsFold(g, chain, base, Len(chain)))[1 .. Len(chain)]
  BY <1>1 DEF Seen, FoldLeft, MapThenFoldSet, IsFold
<1>3. PICK g : /\ IsFold(g, chain, base, Len(chain))
               /\ g[1 .. Len(chain)] = Seen(base, chain)
  BY <1>1, <1>2, FoldExists
<1> DEFINE h == [k \in 0 .. Len(chain) |-> g[1 .. k]]
<1>4. h[0] = base
  <2>1. 1 .. 0 = {}
    OBVIOUS
  <2>2. g[{}] = base
    BY <1>3 DEF IsFold
  <2> QED
    BY <1>1, <2>1, <2>2
<1>5. ASSUME NEW k \in 1 .. Len(chain) PROVE h[k] = Pass(h[k - 1], chain[k])
  <2>1. 1 .. k \in SUBSET (1 .. Len(chain)) /\ 1 .. k # {}
    BY <1>1
  <2>2. Max(1 .. k) = k
    <3>1. 1 .. k \in SUBSET Int /\ k \in 1 .. k /\ \A y \in 1 .. k : y <= k
      OBVIOUS
    <3> QED
      BY <3>1, MaxIs
  <2>3. (1 .. k) \ {k} = 1 .. k - 1
    OBVIOUS
  <2>4. g[1 .. k] = Pass(g[1 .. k - 1], chain[k])
    BY <1>3, <2>1, <2>2, <2>3 DEF IsFold
  <2>5. k \in 0 .. Len(chain) /\ k - 1 \in 0 .. Len(chain)
    BY <1>1
  <2> QED
    BY <2>4, <2>5
<1>6. h[Len(chain)] = Seen(base, chain)
  BY <1>1, <1>3
<1> HIDE DEF h
<1> QED
  BY <1>4, <1>5, <1>6

-----------------------------------------------------------------------------
(* What a request's log names *)

\* The application's own middlewares pass on what they get.
Transparent(chain) == \A k \in DOMAIN chain : chain[k] = "custom"

\* NewMux's two are the first of its router.
NamesAndLogs(chain) ==
    /\ Len(chain) >= 2 /\ chain[1] = "muxContextInjector" /\ chain[2] = "requestLogger"
    /\ \A k \in DOMAIN chain \ {1, 2} : chain[k] = "custom"

LEMMA CustomsPass ==
    ASSUME NEW chain \in Seq(Middlewares), NEW h, NEW n \in Nat, n <= Len(chain),
           \A k \in 1 .. Len(chain) : h[k] = Pass(h[k - 1], chain[k]),
           \A k \in n + 1 .. Len(chain) : chain[k] = "custom"
    PROVE  h[Len(chain)] = h[n]
<1> DEFINE B == {m \in Nat : n + m <= Len(chain) => h[n + m] = h[n]}
<1>1. 0 \in B
  BY DEF B
<1>2. ASSUME NEW m \in B PROVE m + 1 \in B
  <2> SUFFICES ASSUME n + (m + 1) <= Len(chain) PROVE h[n + (m + 1)] = h[n]
    OBVIOUS
  <2>1. n + (m + 1) \in 1 .. Len(chain) /\ n + (m + 1) \in n + 1 .. Len(chain)
        /\ (n + (m + 1)) - 1 = n + m /\ n + m <= Len(chain)
    OBVIOUS
  <2>2. h[n + (m + 1)] = Pass(h[n + m], chain[n + (m + 1)]) /\ chain[n + (m + 1)] = "custom"
    BY <2>1
  <2>3. Pass(h[n + m], "custom") = h[n + m]
    BY DEF Pass
  <2> QED
    BY <2>1, <2>2, <2>3
<1>3. B = Nat
  <2> HIDE DEF B
  <2>1. B \in SUBSET Nat
    BY DEF B
  <2> QED
    BY <1>1, <1>2, <2>1, Climbs
<1> DEFINE rest == Len(chain) - n
<1>4. rest \in Nat /\ n + rest = Len(chain) /\ n + rest <= Len(chain)
  OBVIOUS
<1> HIDE DEF rest
<1>5. rest \in B
  BY <1>3, <1>4
<1> QED
  BY <1>4, <1>5

LEMMA TransparentPasses ==
    ASSUME NEW r, DOMAIN r = Fields, NEW chain \in Seq(Middlewares), Transparent(chain)
    PROVE  \A field \in Fields : Through(r, chain)[field] = r[field]
<1> DEFINE base == [id |-> r.id, header |-> r.header, log |-> r.log]
<1> HIDE DEF base
<1>1. PICK h : /\ h[0] = base /\ h[Len(chain)] = Seen(base, chain)
               /\ \A k \in 1 .. Len(chain) : h[k] = Pass(h[k - 1], chain[k])
  BY FoldIs
<1>2. Seen(base, chain) = base
  <2>1. \A k \in 0 + 1 .. Len(chain) : chain[k] = "custom"
    BY DEF Transparent
  <2>2. 0 \in Nat /\ 0 <= Len(chain)
    OBVIOUS
  <2> QED
    BY <1>1, <2>1, <2>2, CustomsPass
<1>3. base.id = r.id /\ base.header = r.header /\ base.log = r.log
  BY DEF base
<1>4. Through(r, chain) = [r EXCEPT !.id = base.id, !.header = base.header, !.log = base.log]
  BY <1>2 DEF Through, Seen, base
<1> QED
  BY <1>3, <1>4 DEF Fields

LEMMA NamingPasses ==
    ASSUME NEW r, DOMAIN r = Fields, NEW chain \in Seq(Middlewares), NamesAndLogs(chain),
           NEW id, id = muxes[Original].identifierGenerator
    PROVE  /\ Through(r, chain).id = id /\ Through(r, chain).header = id
           /\ Through(r, chain).log = r.log \cup {AccessLine(id)}
<1> DEFINE base == [id |-> r.id, header |-> r.header, log |-> r.log]
           named == [id |-> id, header |-> r.header, log |-> r.log]
           last == [id |-> id, header |-> id, log |-> r.log \cup {AccessLine(id)}]
<1>1. PICK h : /\ h[0] = base /\ h[Len(chain)] = Seen(base, chain)
               /\ \A k \in 1 .. Len(chain) : h[k] = Pass(h[k - 1], chain[k])
  <2> HIDE DEF base
  <2> QED
    BY FoldIs
<1>2. /\ 1 \in 1 .. Len(chain) /\ 2 \in 1 .. Len(chain) /\ 1 - 1 = 0 /\ 2 - 1 = 1
      /\ 2 \in Nat /\ 2 <= Len(chain)
      /\ \A k \in 2 + 1 .. Len(chain) : k \in DOMAIN chain \ {1, 2}
  BY DEF NamesAndLogs
<1>3. h[1] = named
  <2>1. h[1] = Pass(base, "muxContextInjector")
    BY <1>1, <1>2 DEF NamesAndLogs
  <2> QED
    BY <2>1 DEF Pass
<1>4. h[2] = last
  <2>1. h[2] = Pass(h[1], "requestLogger")
    BY <1>1, <1>2 DEF NamesAndLogs
  <2> DEFINE seen == h[1]
  <2>2. seen.id = id /\ seen.log = r.log /\ seen = named
    BY <1>3
  <2> HIDE DEF seen
  <2>3. Pass(seen, "requestLogger") =
            [seen EXCEPT !.log = seen.log \cup {AccessLine(seen.id)}, !.header = seen.id]
    BY DEF Pass
  <2> QED
    BY <2>1, <2>2, <2>3 DEF seen
<1>5. h[Len(chain)] = h[2]
  <2>1. \A k \in 2 + 1 .. Len(chain) : chain[k] = "custom"
    BY <1>2 DEF NamesAndLogs
  <2> HIDE DEF base, last
  <2> QED
    BY <1>1, <1>2, <2>1, CustomsPass
<1>6. Seen(base, chain) = last
  BY <1>1, <1>4, <1>5
<1>7. last.id = id /\ last.header = id /\ last.log = r.log \cup {AccessLine(id)}
  OBVIOUS
<1> HIDE DEF last
<1>8. Through(r, chain) = [r EXCEPT !.id = last.id, !.header = last.header, !.log = last.log]
  BY <1>6 DEF Through, Seen
<1> QED
  BY <1>7, <1>8 DEF Fields

\* A router's chains: NewMux's two middlewares are in the root's own, and only
\* there.
ChainsFit(rt, k) ==
    /\ IF k = Original THEN NamesAndLogs(rt.middlewares) ELSE Transparent(rt.middlewares)
    /\ Transparent(rt.methodNotAllowed.chain)

ChainsOK ==
    /\ \A k \in DOMAIN routers : ChainsFit(routers[k], k)
    /\ \A e \in DOMAIN tree :
            tree[e].chain \in Seq(Middlewares) /\ Transparent(tree[e].chain)
    /\ muxes[Original].identifierGenerator # "undefined"

LEMMA LongerFits ==
    ASSUME NEW chain \in Seq(Middlewares)
    PROVE  /\ Transparent(chain) => Transparent(Append(chain, "custom"))
           /\ NamesAndLogs(chain) => NamesAndLogs(Append(chain, "custom"))
<1>1. /\ DOMAIN Append(chain, "custom") = DOMAIN chain \cup {Len(chain) + 1}
      /\ Len(Append(chain, "custom")) = Len(chain) + 1 /\ Len(chain) \in Nat
      /\ \A j \in DOMAIN chain : Append(chain, "custom")[j] = chain[j]
      /\ Append(chain, "custom")[Len(chain) + 1] = "custom"
      /\ DOMAIN chain = 1 .. Len(chain)
  <2>1. "custom" \in Middlewares
    BY DEF Middlewares
  <2> QED
    BY <2>1, AppendSeq
<1> DEFINE longer == Append(chain, "custom")
<1> HIDE DEF longer
<1> QED
  BY <1>1 DEF Transparent, NamesAndLogs, longer

\* A Mux's own middlewares stand behind NewMux's, or alone.
LEMMA InlineIsTransparent ==
    ASSUME ConfigOK, ChainsOK, NEW i \in DOMAIN muxes
    PROVE  /\ Router(i).middlewares \in Seq(Middlewares)
           /\ Router(i).inline => Transparent(Router(i).middlewares)
           /\ Transparent(Router(i).methodNotAllowed.chain)
           /\ Router(i).methodNotAllowed.chain \in Seq(Middlewares)
<1> DEFINE k == muxes[i].internalMux
<1>1. k \in DOMAIN routers /\ routers[k] \in RouterRecord
  BY RouterFits
<1>2. routers[k].inline => k # Original
  BY <1>1 DEF ConfigOK, RoutersOK
<1>3. ChainsFit(routers[k], k)
  BY <1>1 DEF ChainsOK
<1> QED
  BY <1>1, <1>2, <1>3 DEF Router, ChainsFit, RouterRecord

\* The identifier's generator, and the first Mux in general, stay.
LEMMA GeneratorKept ==
    ASSUME ConfigOK, NEW i \in DOMAIN muxes, Configuring(i),
           muxes[Original].identifierGenerator # "undefined"
    PROVE  muxes'[Original].identifierGenerator # "undefined"
<1>1. /\ muxes \in Seq(MuxRecord) /\ Original \in DOMAIN muxes
      /\ \A j \in DOMAIN muxes : muxes[j] \in MuxRecord
  BY DEF ConfigOK, MuxesOK, Original
<1>2. ASSUME NEW mx, mx.identifierGenerator # "undefined" \/ i # Original, SetField(i, mx)
      PROVE  muxes'[Original].identifierGenerator # "undefined"
  BY <1>1, <1>2 DEF SetField
<1>3. CASE RequestIdentifierGenerator(i)
  <2>1. [muxes[i] EXCEPT !.identifierGenerator = "custom"].identifierGenerator = "custom"
    BY <1>1 DEF MuxRecord
  <2> QED
    BY <1>2, <1>3, <2>1 DEF RequestIdentifierGenerator
<1>4. CASE \/ LogWith(i) \/ SetDevelopment(i)
           \/ HandleError(i) \/ HandleValidationError(i) \/ NotFound(i)
  <2>1. ASSUME NEW mx, SetField(i, mx),
               mx.identifierGenerator = muxes[i].identifierGenerator
        PROVE  muxes'[Original].identifierGenerator # "undefined"
    BY <1>2, <2>1
  <2>2. muxes[i] \in MuxRecord
    BY <1>1
  <2>3. CASE LogWith(i)
    BY <2>1, <2>2, <2>3 DEF LogWith, MuxRecord
  <2>4. CASE SetDevelopment(i)
    BY <2>1, <2>2, <2>4 DEF SetDevelopment, MuxRecord
  <2>5. CASE HandleError(i)
    BY <2>1, <2>2, <2>5 DEF HandleError, MuxRecord
  <2>6. CASE HandleValidationError(i) \/ NotFound(i)
    BY <2>1, <2>2, <2>6 DEF HandleValidationError, NotFound, MuxRecord
  <2> QED
    BY <1>4, <2>3, <2>4, <2>5, <2>6
<1>5. CASE UseLogOpts(i) \/ With(i)
  <2>1. PICK mx : muxes' = Append(muxes, mx)
    BY <1>5 DEF UseLogOpts, With
  <2>2. muxes'[Original] = muxes[Original]
    BY <1>1, <2>1
  <2> QED
    BY <2>2
<1>6. CASE MethodNotAllowed(i) \/ Use(i) \/ Handle(i)
  BY <1>6 DEF MethodNotAllowed, Use, Handle
<1> QED
  BY <1>3, <1>4, <1>5, <1>6 DEF Configuring

\* With one router changed the others keep their chains.
LEMMA RouterChanged ==
    ASSUME ConfigOK, ChainsOK, NEW k \in DOMAIN routers, NEW rt,
           routers' = [routers EXCEPT ![k] = rt], ChainsFit(rt, k)
    PROVE  \A j \in DOMAIN routers' : ChainsFit(routers'[j], j)
<1>1. routers \in Seq(RouterRecord)
  BY DEF ConfigOK, RoutersOK
<1>2. \A j \in DOMAIN routers' :
        j \in DOMAIN routers /\ routers'[j] = IF j = k THEN rt ELSE routers[j]
  BY <1>1
<1> QED
  BY <1>2 DEF ChainsOK

LEMMA ChainsKept ==
    ASSUME ConfigOK, ChainsOK, NEW i \in DOMAIN muxes, Configuring(i)
    PROVE  ChainsOK'
<1> DEFINE k == muxes[i].internalMux
<1>1. k \in DOMAIN routers /\ routers[k] \in RouterRecord /\ Router(i) = routers[k]
  BY RouterFits DEF Router
<1>2. /\ Router(i).middlewares \in Seq(Middlewares)
      /\ Router(i).inline => Transparent(Router(i).middlewares)
      /\ Transparent(Router(i).methodNotAllowed.chain)
      /\ Transparent(<<>>) /\ <<>> \in Seq(Middlewares)
  BY InlineIsTransparent DEF Transparent
<1> SUFFICES /\ \A j \in DOMAIN routers' : ChainsFit(routers'[j], j)
             /\ \A e \in DOMAIN tree' :
                    tree'[e].chain \in Seq(Middlewares) /\ Transparent(tree'[e].chain)
  BY GeneratorKept DEF ChainsOK
<1>3. CASE UNCHANGED <<routers, tree>>
  BY <1>3 DEF ChainsOK
<1>4. CASE MethodNotAllowed(i)
  <2>1. PICK n, h, chain :
          /\ n \in DOMAIN routers /\ Transparent(chain)
          /\ routers' = [routers EXCEPT ![n].methodNotAllowed = [handler |-> h, chain |-> chain]]
    BY <1>2, <1>4, RouterFits DEF MethodNotAllowed
  <2> DEFINE rt == [routers[n] EXCEPT !.methodNotAllowed = [handler |-> h, chain |-> chain]]
  <2>2. routers' = [routers EXCEPT ![n] = rt]
    BY <2>1
  <2>3. rt.middlewares = routers[n].middlewares /\ rt.methodNotAllowed.chain = chain
    BY RouterFits DEF RouterRecord
  <2> HIDE DEF rt
  <2>4. ChainsFit(rt, n)
    BY <2>1, <2>3 DEF ChainsOK, ChainsFit
  <2> QED
    BY <1>4, <2>2, <2>4, RouterChanged DEF MethodNotAllowed, ChainsOK
<1>5. CASE Use(i)
  <2> DEFINE longer == Append(routers[k].middlewares, "custom")
             rt == [routers[k] EXCEPT !.middlewares = longer]
  <2>1. routers' = [routers EXCEPT ![k] = rt]
    BY <1>5 DEF Use
  <2>2. rt.middlewares = longer /\ rt.methodNotAllowed = routers[k].methodNotAllowed
    BY <1>1 DEF RouterRecord
  <2>3. ChainsFit(routers[k], k) /\ routers[k].middlewares \in Seq(Middlewares)
    BY <1>1, <1>2 DEF ChainsOK
  <2> HIDE DEF rt, longer, k
  <2>4. ChainsFit(rt, k)
    BY <2>2, <2>3, LongerFits DEF ChainsFit, longer
  <2> QED
    BY <1>1, <1>5, <2>1, <2>4, RouterChanged DEF Use, ChainsOK
<1>6. CASE With(i)
  <2> DEFINE Child(given) ==
                [inline |-> TRUE,
                 parent |-> k,
                 built |-> FALSE,
                 middlewares |-> IF Router(i).inline
                                 THEN Router(i).middlewares \o given ELSE given,
                 methodNotAllowed |-> Router(i).methodNotAllowed]
  <2>0. PICK given \in {<<>>, <<"custom">>} :
          routers' = Append(BuiltParent(i), Child(given))
    BY <1>6 DEF With
  <2> DEFINE child == Child(given)
  <2>1. /\ child.middlewares = IF Router(i).inline
                                THEN Router(i).middlewares \o given ELSE given
        /\ child.methodNotAllowed = Router(i).methodNotAllowed
        /\ routers' = Append(BuiltParent(i), child)
    BY <2>0
  <2> HIDE DEF child
  <2>2. Transparent(child.middlewares)
    <3>1. Transparent(given) /\ given \in Seq(Middlewares)
      <4>1. "custom" \in Middlewares
        BY DEF Middlewares
      <4>2. given = <<>> => Transparent(given) /\ given \in Seq(Middlewares)
        BY DEF Transparent
      <4>3. given = <<"custom">> => Transparent(given) /\ given \in Seq(Middlewares)
        BY <4>1 DEF Transparent
      <4> QED
        BY <4>2, <4>3
    <3>2. CASE Router(i).inline
      <4>1. Transparent(Router(i).middlewares)
        BY <1>2, <3>2
      <4> DEFINE own == Router(i).middlewares
      <4>2. \A j \in 1 .. Len(own) + Len(given) :
              (own \o given)[j] = IF j <= Len(own) THEN own[j] ELSE given[j - Len(own)]
        BY <1>2, <3>1, ConcatProperties
      <4>3. DOMAIN (own \o given) = 1 .. Len(own) + Len(given)
            /\ Len(own) \in Nat /\ Len(given) \in Nat
        BY <1>2, <3>1, ConcatProperties
      <4>4. own \in Seq(Middlewares) /\ Transparent(own)
        BY <1>2, <4>1
      <4> HIDE DEF own
      <4>5. ASSUME NEW j \in DOMAIN (own \o given) PROVE (own \o given)[j] = "custom"
        <5>1. CASE j <= Len(own)
          BY <4>2, <4>3, <4>4, <5>1 DEF Transparent
        <5>2. CASE ~(j <= Len(own))
          <6>1. j - Len(own) \in 1 .. Len(given)
            BY <4>3, <5>2
          <6>2. DOMAIN given = 1 .. Len(given)
            BY <3>1
          <6> QED
            BY <3>1, <4>2, <4>3, <5>2, <6>1, <6>2 DEF Transparent
        <5> QED
          BY <5>1, <5>2
      <4> QED
        BY <2>1, <3>2, <4>5 DEF Transparent, own
    <3> QED
      BY <2>1, <3>1, <3>2
  <2>3. /\ BuiltParent(i) \in Seq(RouterRecord) /\ DOMAIN BuiltParent(i) = DOMAIN routers
        /\ \A j \in DOMAIN routers :
              /\ BuiltParent(i)[j].middlewares = routers[j].middlewares
              /\ BuiltParent(i)[j].methodNotAllowed = routers[j].methodNotAllowed
    <3>1. routers \in Seq(RouterRecord) /\ \A j \in DOMAIN routers : routers[j] \in RouterRecord
      BY DEF ConfigOK, RoutersOK
    <3>2. CASE Router(i).inline
      BY <3>1, <3>2 DEF BuiltParent
    <3>3. CASE ~Router(i).inline
      <4> DEFINE rt == [routers[k] EXCEPT !.built = TRUE]
      <4>1. BuiltParent(i) = [routers EXCEPT ![k] = rt]
        BY <3>3 DEF BuiltParent, Built
      <4>2. /\ rt \in RouterRecord /\ rt.middlewares = routers[k].middlewares
            /\ rt.methodNotAllowed = routers[k].methodNotAllowed
        BY <1>1 DEF RouterRecord
      <4> HIDE DEF rt, k
      <4> QED
        BY <1>1, <3>1, <4>1, <4>2, UpdateSeq
    <3> QED
      BY <3>2, <3>3
  <2> DEFINE built == BuiltParent(i)
  <2>4. Len(routers) \in Nat /\ DOMAIN routers = 1 .. Len(routers)
        /\ Original \in DOMAIN routers
    BY RouterFits
  <2>5. routers' = Append(built, child)
    BY <2>1
  <2> HIDE DEF built
  <2>6. /\ DOMAIN routers' = DOMAIN routers \cup {Len(routers) + 1}
        /\ \A j \in DOMAIN routers : routers'[j] = built[j]
        /\ routers'[Len(routers) + 1] = child
    <3>1. built \in Seq(RouterRecord) /\ Len(built) = Len(routers)
      BY <2>3, <2>4 DEF built
    <3> QED
      BY <2>3, <2>4, <2>5, <3>1 DEF built
  <2>7. \A j \in DOMAIN routers : ChainsFit(routers'[j], j)
    BY <2>3, <2>6 DEF ChainsOK, ChainsFit, built
  <2>8. Len(routers) + 1 # Original
    BY <2>4 DEF Original
  <2>9. ChainsFit(child, Len(routers) + 1)
    BY <1>2, <2>1, <2>2, <2>8 DEF ChainsFit
  <2> QED
    BY <1>6, <2>6, <2>7, <2>9 DEF With, ChainsOK
<1>7. CASE Handle(i)
  <2>1. PICK m \in Methods, p \in Patterns \cup Malformed, f \in Handlers :
          IF p \in Malformed
          THEN UNCHANGED <<routers, tree>>
          ELSE /\ routers' = Built(muxes[i].internalMux)
               /\ tree' = Put(tree, <<m, p>>,
                              [mux |-> i, handler |-> f,
                               chain |-> IF Router(i).inline
                                         THEN Router(i).middlewares ELSE <<>>])
    BY <1>7 DEF Handle
  <2>2. CASE p \in Malformed
    BY <1>3, <2>1, <2>2
  <2>3. CASE p \notin Malformed
    <3> DEFINE rt == [routers[k] EXCEPT !.built = TRUE]
    <3>1. routers' = [routers EXCEPT ![k] = rt]
      BY <2>1, <2>3 DEF Built
    <3>2. /\ rt.middlewares = routers[k].middlewares
          /\ rt.methodNotAllowed = routers[k].methodNotAllowed
      BY <1>1 DEF RouterRecord
    <3> HIDE DEF rt, k
    <3>3. ChainsFit(rt, k)
      BY <1>1, <3>2 DEF ChainsOK, ChainsFit
    <3>4. PICK route : /\ tree' = Put(tree, <<m, p>>, route)
                       /\ route.chain \in Seq(Middlewares) /\ Transparent(route.chain)
      <4> DEFINE new == [mux |-> i, handler |-> f,
                         chain |-> IF Router(i).inline
                                   THEN Router(i).middlewares ELSE <<>>]
      <4>1. new.chain \in Seq(Middlewares) /\ Transparent(new.chain)
        BY <1>2
      <4>2. tree' = Put(tree, <<m, p>>, new)
        BY <2>1, <2>3
      <4> HIDE DEF new
      <4> QED
        BY <4>1, <4>2
    <3> DEFINE e0 == <<m, p>>
    <3> HIDE DEF e0
    <3>5. /\ DOMAIN tree' = {e0} \cup DOMAIN tree /\ tree'[e0] = route
          /\ \A e \in DOMAIN tree : e # e0 => tree'[e] = tree[e]
      BY <3>4 DEF Put, e0
    <3>6. \A e \in DOMAIN tree' :
              tree'[e].chain \in Seq(Middlewares) /\ Transparent(tree'[e].chain)
      BY <3>4, <3>5 DEF ChainsOK
    <3> QED
      BY <1>1, <3>1, <3>3, <3>6, RouterChanged
  <2> QED
    BY <2>2, <2>3
<1> QED
  BY <1>3, <1>4, <1>5, <1>6, <1>7
     DEF Configuring, LogWith, RequestIdentifierGenerator, SetDevelopment, HandleError,
         HandleValidationError, NotFound, UseLogOpts, SetField

\* No call takes a Mux from the router it was made with, or changes what it
\* was copied from.
LEMMA HistoryKept ==
    ASSUME ConfigOK, NEW i \in DOMAIN muxes, Configuring(i)
    PROVE  \A j \in DOMAIN muxes : /\ muxes'[j].internalMux = muxes[j].internalMux
                                   /\ muxes'[j].lineage = muxes[j].lineage
<1>1. muxes \in Seq(MuxRecord) /\ \A j \in DOMAIN muxes : muxes[j] \in MuxRecord
  BY DEF ConfigOK, MuxesOK
<1>2. CASE \/ LogWith(i) \/ RequestIdentifierGenerator(i) \/ SetDevelopment(i)
           \/ HandleError(i) \/ HandleValidationError(i) \/ NotFound(i)
  <2> SUFFICES ASSUME NEW mx, SetField(i, mx), mx.internalMux = muxes[i].internalMux,
                      mx.lineage = muxes[i].lineage
               PROVE  \A j \in DOMAIN muxes : /\ muxes'[j].internalMux = muxes[j].internalMux
                                              /\ muxes'[j].lineage = muxes[j].lineage
    <3>1. muxes[i] \in MuxRecord
      BY <1>1
    <3>2. CASE LogWith(i)
      BY <3>1, <3>2 DEF LogWith, MuxRecord
    <3>3. CASE RequestIdentifierGenerator(i)
      BY <3>1, <3>3 DEF RequestIdentifierGenerator, MuxRecord
    <3>4. CASE SetDevelopment(i)
      BY <3>1, <3>4 DEF SetDevelopment, MuxRecord
    <3>5. CASE HandleError(i)
      BY <3>1, <3>5 DEF HandleError, MuxRecord
    <3>6. CASE HandleValidationError(i)
      BY <3>1, <3>6 DEF HandleValidationError, MuxRecord
    <3>7. CASE NotFound(i)
      BY <3>1, <3>7 DEF NotFound, MuxRecord
    <3> QED
      BY <1>2, <3>2, <3>3, <3>4, <3>5, <3>6, <3>7
  <2> QED
    BY <1>1 DEF SetField
<1>3. CASE UseLogOpts(i) \/ With(i)
  <2>1. PICK mx : muxes' = Append(muxes, mx)
    BY <1>3 DEF UseLogOpts, With
  <2> QED
    BY <1>1, <2>1
<1>4. CASE MethodNotAllowed(i) \/ Use(i) \/ Handle(i)
  BY <1>4 DEF MethodNotAllowed, Use, Handle
<1> QED
  BY <1>2, <1>3, <1>4 DEF Configuring

\* The Mux of the Request: that of its route, or of the default handler that
\* made one.
Own == IF request.mux # 0 THEN request.mux ELSE request.writer

LineOK(line) ==
    /\ line.id = request.id
    /\ line.by = "requestLogger" =>
            request.header = request.id /\ line.fields \subseteq {Original}
    /\ line.by = "Request" => Own # 0 /\ line.fields \subseteq muxes[Own].lineage

\* Behind NewMux's router a request is named before it is routed; what it is
\* logged under does not change from then on.
LogOK ==
    /\ request.id \in IDs
    /\ request.header # "none" => request.header = request.id /\ request.id # "undefined"
    /\ (At("routing") \/ request.mux # 0) /\ Via = Original => request.header # "none"
    /\ Own # 0 => request.logger \subseteq muxes[Own].lineage
    /\ \A line \in request.log : LineOK(line)

LEMMA LineageFits ==
    ASSUME ConfigOK, NEW i \in DOMAIN muxes
    PROVE  /\ muxes[i].logger \subseteq muxes[i].lineage /\ Original \in muxes[i].lineage
           /\ muxes[Original].logger \subseteq {Original}
<1>1. Original \in DOMAIN muxes
  BY HandlerFits
<1>2. MuxOK(i) /\ MuxOK(Original)
  BY <1>1 DEF ConfigOK, MuxesOK
<1>3. muxes[Original].logger \subseteq 1 .. 1
  BY <1>2 DEF MuxOK, Original
<1>4. 1 .. 1 = {Original}
  BY DEF Original
<1> QED
  BY <1>2, <1>3, <1>4 DEF MuxOK

LEMMA LogSettles ==
    ASSUME ConfigOK, RInv, LogOK
    PROVE  LoggedUnderItsID
<1>1. request.served \in DOMAIN muxes /\ request.served \in Concerned
  BY DEF RInv, RequestOK, ConfigOK, MuxesOK, Concerned
<1>2. Original \in UNION {muxes[i].lineage : i \in Concerned}
  BY <1>1, LineageFits
<1>3. request.mux # 0 /\ ~routers[Via].inline =>
        request.id # "undefined" /\ request.header = request.id
  BY ViaFits DEF LogOK
<1>4. ASSUME NEW line \in request.log
      PROVE  /\ line.id = request.id
             /\ line.by = "requestLogger" =>
                    /\ line.id # "undefined" /\ line.id = request.header
                    /\ line.fields \subseteq UNION {muxes[i].lineage : i \in Concerned}
             /\ line.by = "Request" =>
                    line.fields \subseteq
                        muxes[IF request.mux # 0 THEN request.mux ELSE request.writer].lineage
  <2>1. LineOK(line)
    BY DEF LogOK
  <2>2. line.by = "requestLogger" => request.header # "none"
    BY <2>1 DEF LineOK, LogOK, IDs
  <2> QED
    BY <1>2, <2>1, <2>2 DEF LineOK, LogOK, Own
<1> QED
  BY <1>3, <1>4 DEF LoggedUnderItsID

\* A step that serves a request and leaves what names it: the lines it has stay
\* as they should be, and so do those that are added.
LEMMA LogStep ==
    ASSUME LogOK, UNCHANGED muxes, request'.served = request.served,
           request'.id = request.id, request'.header = request.header,
           request'.stage # "routing",
           request'.mux # 0 => At("routing") \/ request.mux # 0,
           Own = 0 \/ Own' = Own,
           Own' # 0 => request'.logger \subseteq muxes[Own'].lineage,
           \A line \in request'.log : line \in request.log \/ LineOK(line)'
    PROVE  LogOK'
<1>1. \A line \in request'.log : LineOK(line)'
  BY DEF LogOK, LineOK
<1>2. Via' = Via
  BY DEF Via
<1> QED
  BY <1>1, <1>2 DEF LogOK, At

\* The lines a request gets.
LEMMA AccessLineOK ==
    ASSUME ConfigOK, NEW id, id = request.id, request.header = id
    PROVE  LineOK(AccessLine(id))
<1>1. muxes[Original].logger \subseteq {Original}
  BY HandlerFits, LineageFits
<1> QED
  BY <1>1 DEF LineOK, AccessLine

LEMMA RequestLineOK ==
    ASSUME LogOK, Own # 0, UNCHANGED muxes, Own' = Own, request'.id = request.id,
           NEW line, line = RequestLine(request)
    PROVE  LineOK(line)'
<1>1. /\ line.id = request.id /\ line.fields = request.logger /\ line.by = "Request"
  BY DEF RequestLine
<1>2. line.fields \subseteq muxes[Own].lineage
  BY <1>1 DEF LogOK
<1> QED
  BY <1>1, <1>2 DEF LineOK

\* A chain without NewMux's middlewares names and logs nothing.
LEMMA RunQuietly ==
    ASSUME NEW r, DOMAIN r = Fields, NEW chain \in Seq(Middlewares), Transparent(chain),
           Run(r, chain)
    PROVE  /\ \A field \in {"served", "id", "header", "log", "writer"} : request'[field] = r[field]
           /\ \/ \A field \in {"stage", "mux", "logger"} : request'[field] = r[field]
              \/ request'.stage = "custom" /\ request'.mux = 0 /\ request'.logger = {}
<1> DEFINE t == Through(r, chain)
<1>1. DOMAIN t = Fields /\ \A field \in Fields : t[field] = r[field]
  BY ThroughIs, TransparentPasses
<1>2. \/ request' = t
      \/ request' = [t EXCEPT !.stage = "custom", !.kind = "custom", !.mux = 0, !.logger = {}]
  BY DEF Run, Become
<1> HIDE DEF t
<1>3. CASE request' = t
  <2>1. \A field \in Fields : request'[field] = r[field]
    BY <1>1, <1>3
  <2> QED
    BY <2>1 DEF Fields
<1>4. CASE request' = [t EXCEPT !.stage = "custom", !.kind = "custom", !.mux = 0, !.logger = {}]
  <2>1. /\ \A field \in {"served", "id", "header", "log", "writer"} : request'[field] = t[field]
        /\ request'.stage = "custom" /\ request'.mux = 0 /\ request'.logger = {}
    BY <1>1, <1>4 DEF Fields
  <2>2. \A field \in {"served", "id", "header", "log", "writer"} : t[field] = r[field]
    BY <1>1 DEF Fields
  <2> QED
    BY <2>1, <2>2
<1> QED
  BY <1>2, <1>3, <1>4

\* NewMux's router names the request, and starts its entry.
LEMMA RunNames ==
    ASSUME NEW r, DOMAIN r = Fields, NEW chain \in Seq(Middlewares), NamesAndLogs(chain),
           NEW id, id = muxes[Original].identifierGenerator, Run(r, chain), r.mux = 0
    PROVE  /\ request'.id = id /\ request'.header = id
           /\ request'.log = r.log \cup {AccessLine(id)}
           /\ request'.served = r.served /\ request'.mux = 0 /\ request'.writer = r.writer
<1> DEFINE t == Through(r, chain)
<1>1. /\ DOMAIN t = Fields /\ t.id = id /\ t.header = id
      /\ t.log = r.log \cup {AccessLine(id)}
      /\ t.mux = 0 /\ t.served = r.served /\ t.writer = r.writer
  <2>1. DOMAIN t = Fields /\ \A field \in Fields \ {"id", "header", "log"} : t[field] = r[field]
    BY ThroughIs
  <2>2. t.id = id /\ t.header = id /\ t.log = r.log \cup {AccessLine(id)}
    BY NamingPasses
  <2> HIDE DEF t
  <2> QED
    BY <2>1, <2>2 DEF Fields
<1>2. \/ request' = t
      \/ request' = [t EXCEPT !.stage = "custom", !.kind = "custom", !.mux = 0, !.logger = {}]
  BY DEF Run, Become
<1> HIDE DEF t
<1> QED
  BY <1>1, <1>2 DEF Fields

\* A request nobody has named.
LEMMA UnnamedOK ==
    ASSUME request'.id = "undefined", request'.header = "none", request'.log = {},
           request'.mux = 0, request'.writer = 0, UNCHANGED muxes,
           request'.stage = "routing" => muxes[request'.served].internalMux # Original
    PROVE  LogOK'
BY DEF LogOK, Own, Via, At, IDs

LEMMA ServeHTTPLogged ==
    ASSUME ConfigOK, ChainsOK, NEW i \in DOMAIN muxes, NEW endpoint \in Endpoints,
           ServeHTTP(i, endpoint)
    PROVE  LogOK'
<1> DEFINE k == muxes[i].internalMux
           r == [NoRequest EXCEPT !.served = i, !.wanted = endpoint]
           q == [r EXCEPT !.stage = "routing"]
           id == muxes[Original].identifierGenerator
<1>1. /\ DOMAIN q = Fields /\ q.id = "undefined" /\ q.header = "none" /\ q.log = {}
      /\ q.mux = 0 /\ q.logger = {} /\ q.writer = 0 /\ q.served = i
  BY DEF NoRequest, Fields
<1>2. /\ k \in DOMAIN routers /\ routers[k] \in RouterRecord /\ ChainsFit(routers[k], k)
      /\ (routers[k].inline <=> k # Original)
  BY RouterFits DEF ChainsOK, ConfigOK, RoutersOK
<1>3. id \in IDs /\ id # "undefined"
  <2>1. muxes[Original] \in MuxRecord
    BY DEF ConfigOK, MuxesOK, Original
  <2> QED
    BY <2>1 DEF MuxRecord, ChainsOK
<1>4. UNCHANGED config
  BY ServingConfig DEF Serving
<1>5. CASE ~routers[k].built
  <2>1. request' = [r EXCEPT !.stage = "unrouted", !.kind = "noroute"]
    BY <1>5 DEF ServeHTTP, Become
  <2>2. /\ request'.id = "undefined" /\ request'.header = "none" /\ request'.log = {}
        /\ request'.mux = 0 /\ request'.writer = 0 /\ request'.stage = "unrouted"
    BY <2>1 DEF NoRequest
  <2> QED
    BY <1>4, <2>2, UnnamedOK DEF config
<1>6. CASE routers[k].built /\ routers[k].inline
  <2>1. Run(q, <<>>) /\ <<>> \in Seq(Middlewares) /\ Transparent(<<>>)
    BY <1>6 DEF ServeHTTP, Transparent
  <2> HIDE DEF q
  <2>2. /\ request'.id = "undefined" /\ request'.header = "none" /\ request'.log = {}
        /\ request'.mux = 0 /\ request'.writer = 0 /\ request'.served = i
    BY <1>1, <2>1, RunQuietly
  <2>3. muxes[i].internalMux # Original
    BY <1>2, <1>6
  <2> QED
    BY <1>4, <2>2, <2>3, UnnamedOK DEF config
<1>7. CASE routers[k].built /\ ~routers[k].inline
  <2>1. k = Original
    BY <1>2, <1>7
  <2>2. /\ Run(q, routers[k].middlewares)
        /\ routers[k].middlewares \in Seq(Middlewares) /\ NamesAndLogs(routers[k].middlewares)
    BY <1>2, <1>7, <2>1 DEF ServeHTTP, ChainsFit, RouterRecord
  <2> HIDE DEF q, k
  <2>3. /\ request'.id = id /\ request'.header = id /\ request'.log = {AccessLine(id)}
        /\ request'.mux = 0 /\ request'.writer = 0
    BY <1>1, <2>2, RunNames
  <2> HIDE DEF id
  <2>4. \A line \in request'.log : LineOK(line)'
    <3>1. muxes[Original].logger \subseteq {Original}
      BY LineageFits
    <3>2. /\ AccessLine(id).id = id /\ AccessLine(id).by = "requestLogger"
          /\ AccessLine(id).fields \subseteq {Original}
      BY <3>1 DEF AccessLine
    <3> SUFFICES ASSUME NEW line, line.id = id, line.by = "requestLogger",
                        line.fields \subseteq {Original}
                 PROVE  LineOK(line)'
      BY <2>3, <3>2
    <3> QED
      BY <2>3 DEF LineOK
  <2>5. id # "none"
    BY <1>3 DEF IDs
  <2> QED
    BY <1>3, <2>3, <2>4, <2>5 DEF LogOK, Own
<1> QED
  BY <1>5, <1>6, <1>7

LEMMA RouteLogged ==
    ASSUME ConfigOK, ChainsOK, RInv, LogOK, Route
    PROVE  LogOK'
<1>1. DOMAIN request = Fields /\ request.mux = 0 /\ request.writer = 0 /\ At("routing")
  BY DEF RInv, OwnerFits, Route, At
<1>2. UNCHANGED config
  BY ServingConfig DEF Serving
<1>3. ASSUME NEW r, DOMAIN r = Fields, NEW chain \in Seq(Middlewares), Transparent(chain),
             Run(r, chain), r.stage # "routing",
             \A field \in {"served", "id", "header", "log", "writer"} : r[field] = request[field],
             r.mux # 0 => r.logger \subseteq muxes[r.mux].lineage
      PROVE  LogOK'
  <2>1. /\ \A field \in {"served", "id", "header", "log", "writer"} : request'[field] = r[field]
        /\ \/ \A field \in {"stage", "mux", "logger"} : request'[field] = r[field]
           \/ request'.stage = "custom" /\ request'.mux = 0 /\ request'.logger = {}
    BY <1>3, RunQuietly
  <2>2. /\ request'.served = request.served /\ request'.id = request.id
        /\ request'.header = request.header /\ request'.log = request.log
        /\ request'.writer = 0 /\ request'.stage # "routing"
        /\ request'.mux # 0 => request'.logger \subseteq muxes[request'.mux].lineage
    BY <1>1, <1>3, <2>1
  <2>3. Own = 0 /\ (Own' # 0 => request'.logger \subseteq muxes[Own'].lineage)
    BY <1>1, <2>2 DEF Own
  <2> QED
    BY <1>1, <1>2, <2>2, <2>3, LogStep DEF config
<1>4. CASE request.wanted \in DOMAIN tree
  <2> DEFINE i == tree[request.wanted].mux
             chain == tree[request.wanted].chain
             r == [request EXCEPT !.stage = "handling", !.mux = i, !.logger = muxes[i].logger]
  <2>1. Run(r, chain)
    BY <1>4 DEF Route
  <2>2. chain \in Seq(Middlewares) /\ Transparent(chain)
    BY <1>4 DEF ChainsOK
  <2>3. muxes[i].logger \subseteq muxes[i].lineage
    <3>1. i \in DOMAIN muxes
      BY <1>4 DEF ConfigOK, TablesOK
    <3> QED
      BY <3>1, LineageFits
  <2>4. /\ DOMAIN r = Fields /\ r.stage = "handling"
        /\ \A field \in {"served", "id", "header", "log", "writer"} : r[field] = request[field]
        /\ r.mux = i /\ r.logger = muxes[i].logger
    BY <1>1 DEF Fields
  <2> HIDE DEF i, r, chain
  <2> QED
    BY <1>3, <2>1, <2>2, <2>3, <2>4
<1>5. CASE request.wanted \notin DOMAIN tree /\ Allowed # {}
  <2> DEFINE chain == routers[Via].methodNotAllowed.chain
             r == [request EXCEPT !.stage = "unrouted", !.kind = "notallowed"]
  <2>1. Run(r, chain)
    BY <1>5 DEF Route
  <2>2. chain \in Seq(Middlewares) /\ Transparent(chain)
    <3>1. Via \in DOMAIN routers /\ routers[Via] \in RouterRecord
      BY ViaFits DEF ConfigOK, RoutersOK
    <3> QED
      BY <3>1 DEF ChainsOK, ChainsFit, RouterRecord
  <2>3. /\ DOMAIN r = Fields /\ r.stage = "unrouted" /\ r.mux = 0
        /\ \A field \in {"served", "id", "header", "log", "writer"} : r[field] = request[field]
    BY <1>1 DEF Fields
  <2> HIDE DEF r, chain
  <2> QED
    BY <1>3, <2>1, <2>2, <2>3
<1>6. CASE Become([request EXCEPT !.stage = "unrouted", !.kind = "noroute"])
  <2>1. /\ request'.served = request.served /\ request'.id = request.id
        /\ request'.header = request.header /\ request'.log = request.log
        /\ request'.mux = 0 /\ request'.writer = 0 /\ request'.stage # "routing"
    BY <1>1, <1>6 DEF Become, Fields
  <2> QED
    BY <1>1, <1>2, <2>1, LogStep DEF Own, config
<1> QED
  BY <1>4, <1>5, <1>6 DEF Route

\* A step that leaves whose the request is, and perhaps adds a line of its own.
LEMMA OwnStep ==
    ASSUME LogOK, UNCHANGED muxes, NEW r \in {request, Logged(request)},
           r = request \/ Own # 0, DOMAIN request = Fields,
           \A field \in {"served", "id", "header", "mux", "logger", "log"} :
                request'[field] = r[field],
           request'.stage # "routing", request.mux # 0 \/ request'.writer = request.writer
    PROVE  LogOK'
<1>1. /\ \A field \in Fields \ {"log"} : r[field] = request[field]
      /\ \/ r.log = request.log
         \/ Own # 0 /\ r.log = request.log \cup {RequestLine(request)}
  BY DEF Logged, Fields
<1>2. /\ request'.served = request.served /\ request'.id = request.id
      /\ request'.header = request.header /\ request'.mux = request.mux
      /\ request'.logger = request.logger
  BY <1>1 DEF Fields
<1>3. Own' = Own /\ (Own' # 0 => request'.logger \subseteq muxes[Own'].lineage)
  BY <1>2 DEF Own, LogOK
<1>4. ASSUME NEW line \in request'.log PROVE line \in request.log \/ LineOK(line)'
  <2>1. CASE line = RequestLine(request) /\ Own # 0
    BY <1>2, <1>3, <2>1, RequestLineOK
  <2> QED
    BY <1>1, <1>4, <2>1
<1> QED
  BY <1>2, <1>3, <1>4, LogStep

LEMMA DispatchesLogged ==
    ASSUME ConfigOK, RInv, LogOK,
           \/ internalNotFoundDispatch \/ internalMethodNotAllowedDispatch
           \/ ValidationFails \/ RuntimeFails
    PROVE  LogOK'
<1>1. DOMAIN request = Fields
  BY DEF RInv
<1>2. UNCHANGED muxes
  BY ServingConfig DEF Serving, config
<1>3. ASSUME NEW kind, NEW handler \in 0 .. Len(muxes), Dispatch(kind, handler, newRequest(handler)),
             At("unrouted")
      PROVE  LogOK'
  <2>1. request.mux = 0 /\ request.writer = 0
    BY <1>3 DEF RInv, OwnerFits, At
  <2>2. CASE handler = Custom
    <3>1. request' = [request EXCEPT !.stage = "custom", !.kind = "custom"]
      BY <1>3, <2>2 DEF Dispatch, Become
    <3> QED
      BY <1>1, <1>2, <3>1, OwnStep DEF Fields
  <2>3. CASE handler # Custom
    <3>1. handler \in DOMAIN muxes
      BY <2>3 DEF ConfigOK, MuxesOK, Custom
    <3>2. /\ request'.served = request.served /\ request'.id = request.id
          /\ request'.header = request.header /\ request'.log = request.log
          /\ request'.logger = muxes[handler].logger /\ request'.mux = 0
          /\ request'.writer = handler /\ request'.stage = "page"
      BY <1>1, <1>3, <2>1, <2>3 DEF Dispatch, Become, newRequest, Fields
    <3>3. Own = 0 /\ Own' = handler
      BY <2>1, <3>2 DEF Own
    <3>4. muxes[handler].logger \subseteq muxes[handler].lineage
      BY <3>1, LineageFits
    <3> QED
      BY <1>2, <3>2, <3>3, <3>4, LogStep
  <2> QED
    BY <2>2, <2>3
<1>4. CASE internalNotFoundDispatch \/ internalMethodNotAllowedDispatch
  <2>1. /\ muxes[Original].notFoundHandler \in 0 .. Len(muxes)
        /\ routers[Via].methodNotAllowed.handler \in 0 .. Len(muxes)
    BY HandlerFits, ViaFits
  <2> QED
    BY <1>3, <1>4, <2>1 DEF internalNotFoundDispatch, internalMethodNotAllowedDispatch
<1>5. CASE ValidationFails \/ RuntimeFails
  <2>1. request.mux # 0
    BY <1>5 DEF RInv, OwnerFits, ValidationFails, RuntimeFails, At
  <2>2. PICK kind, handler : Dispatch(kind, handler, Logged(request))
    BY <1>5 DEF ValidationFails, RuntimeFails
  <2>3. \/ request' = [request EXCEPT !.stage = "custom", !.kind = "custom"]
        \/ request' = [Logged(request) EXCEPT !.stage = "page", !.kind = kind, !.writer = handler]
    BY <2>2 DEF Dispatch, Become
  <2>4. DOMAIN Logged(request) = Fields
    BY <1>1, AllLike DEF Like
  <2>5. Own # 0
    BY <2>1 DEF Own
  <2>6. CASE request' = [request EXCEPT !.stage = "custom", !.kind = "custom"]
    BY <1>1, <1>2, <2>1, <2>6, OwnStep DEF Fields
  <2>7. CASE request' = [Logged(request) EXCEPT !.stage = "page", !.kind = kind, !.writer = handler]
    <3> DEFINE r == Logged(request)
    <3>1. DOMAIN r = Fields /\ request' = [r EXCEPT !.stage = "page", !.kind = kind, !.writer = handler]
      BY <2>4, <2>7
    <3> HIDE DEF r
    <3>2. /\ \A field \in {"served", "id", "header", "mux", "logger", "log"} :
                request'[field] = r[field]
          /\ request'.stage = "page"
      BY <3>1 DEF Fields
    <3> QED
      BY <1>1, <1>2, <2>1, <2>5, <3>2, OwnStep DEF r
  <2> QED
    BY <2>3, <2>6, <2>7
<1> QED
  BY <1>4, <1>5

LEMMA AnswersLogged ==
    ASSUME ConfigOK, RInv, LogOK,
           \/ HandlerReturns \/ HandlerPanics \/ UnexpectedEOF
           \/ Respond \/ badRequestUnexpectedEOF \/ CustomReplies \/ WritePage
    PROVE  LogOK'
<1>1. DOMAIN request = Fields /\ DOMAIN Logged(request) = Fields
  BY AllLike DEF RInv, Like
<1>2. UNCHANGED muxes
  BY ServingConfig DEF Serving, config
<1>3. ASSUME NEW r \in {request, Logged(request)}, r = request \/ Own # 0, NEW next,
             UNCHANGED muxes, request' = next, next.stage # "routing",
             \A field \in Fields \ {"stage", "kind", "status", "page"} : next[field] = r[field]
      PROVE  LogOK'
  <2>1. \A field \in {"served", "id", "header", "mux", "logger", "log"} : request'[field] = r[field]
    BY <1>3 DEF Fields
  <2>2. request'.writer = r.writer
    BY <1>3 DEF Fields
  <2>3. r.writer = request.writer
    BY <1>1, <1>3 DEF Logged, Fields
  <2> QED
    BY <1>1, <1>3, <2>1, <2>2, <2>3, OwnStep
<1>4. ASSUME NEW r \in {request, Logged(request)}, r = request \/ Own # 0,
             Become([r EXCEPT !.stage = "panicked"])
      PROVE  LogOK'
  <2> DEFINE after == [r EXCEPT !.stage = "panicked"]
  <2>1. request' = after
    BY <1>4 DEF Become
  <2>2. DOMAIN r = Fields
    BY <1>1, <1>4
  <2>3. /\ after.stage = "panicked"
        /\ \A field \in Fields \ {"stage", "kind", "status", "page"} : after[field] = r[field]
    BY <2>2 DEF Fields
  <2> HIDE DEF after
  <2> QED
    BY <1>2, <1>3, <1>4, <2>1, <2>3
<1>5. ASSUME NEW r \in {request, Logged(request)}, r = request \/ Own # 0, NEW status, NEW page,
             Reply(r, status, page)
      PROVE  LogOK'
  <2> DEFINE after == [r EXCEPT !.stage = "answered", !.status = status, !.page = page]
  <2>1. request' = after
    BY <1>5 DEF Reply, Become
  <2>2. DOMAIN r = Fields
    BY <1>1, <1>5
  <2>3. /\ after.stage = "answered"
        /\ \A field \in Fields \ {"stage", "kind", "status", "page"} : after[field] = r[field]
    BY <2>2 DEF Fields
  <2> HIDE DEF after
  <2> QED
    BY <1>2, <1>3, <1>5, <2>1, <2>3
<1>6. CASE HandlerReturns \/ UnexpectedEOF
  <2>1. PICK after \in {[request EXCEPT !.stage = "respond", !.kind = "ok"],
                       [request EXCEPT !.stage = "eof", !.kind = "eof"]} : request' = after
    BY <1>6 DEF HandlerReturns, UnexpectedEOF, Become
  <2>2. /\ after.stage # "routing"
        /\ \A field \in Fields \ {"stage", "kind", "status", "page"} : after[field] = request[field]
    BY <1>1 DEF Fields
  <2> QED
    BY <1>2, <1>3, <2>1, <2>2
<1>7. CASE HandlerPanics
  BY <1>4, <1>7 DEF HandlerPanics, Move
<1>8. CASE Respond \/ badRequestUnexpectedEOF
  <2>1. Own # 0
    BY <1>8 DEF RInv, OwnerFits, Own, Respond, badRequestUnexpectedEOF, At
  <2>2. \E r \in {request, Logged(request)} : \E status, page : Reply(r, status, page)
    BY <1>8 DEF Respond, badRequestUnexpectedEOF
  <2> QED
    BY <1>5, <2>1, <2>2
<1>9. CASE CustomReplies
  <2>1. CASE \E status, page : Reply(request, status, page)
    BY <1>5, <2>1
  <2>2. CASE Become([request EXCEPT !.stage = "panicked"])
    BY <1>4, <2>2
  <2> QED
    BY <1>9, <2>1, <2>2 DEF CustomReplies, Move
<1>10. CASE WritePage
  <2>1. Own # 0
    BY <1>10 DEF RInv, OwnerFits, Own, WritePage, At
  <2>2. CASE \E status, page : Reply(request, status, page)
    BY <1>5, <2>2
  <2>3. CASE \E r \in {request, Logged(request)} : Become([r EXCEPT !.stage = "panicked"])
    BY <1>4, <2>1, <2>3
  <2> QED
    BY <1>10, <2>2, <2>3 DEF WritePage
<1> QED
  BY <1>6, <1>7, <1>8, <1>9, <1>10

LEMMA FinishLogged ==
    ASSUME ConfigOK, RInv, LogOK, Finish
    PROVE  LogOK'
<1>1. UNCHANGED muxes
  BY ServingConfig DEF Serving, config
<1>2. /\ request'.served = request.served /\ request'.id = request.id
      /\ request'.header = request.header /\ request'.mux = request.mux
      /\ request'.logger = request.logger /\ request'.writer = request.writer
      /\ request'.stage # "routing"
      /\ request'.log = IF request.header # "none"
                        THEN request.log \cup {AccessLine(request.header)} ELSE request.log
  <2>1. DOMAIN request = Fields
    BY DEF RInv
  <2> QED
    BY <2>1 DEF Finish, Become, Fields
<1>3. Own' = Own /\ (Own' # 0 => request'.logger \subseteq muxes[Own'].lineage)
  BY <1>2 DEF Own, LogOK
<1>4. ASSUME NEW line \in request'.log PROVE line \in request.log \/ LineOK(line)'
  <2>1. CASE line = AccessLine(request.header) /\ request.header # "none"
    <3>1. LineOK(AccessLine(request.header)) /\ request.header = request.id
      BY <2>1, AccessLineOK DEF LogOK
    <3>2. LineOK(line)
      BY <2>1, <3>1
    <3> QED
      BY <1>1, <1>2, <1>3, <3>2 DEF LineOK
  <2> QED
    BY <1>2, <1>4, <2>1
<1> QED
  BY <1>1, <1>2, <1>3, <1>4, LogStep

LEMMA ServingLogged ==
    ASSUME ConfigOK, ChainsOK, RInv, LogOK, Serving \/ Return
    PROVE  LogOK'
<1>1. CASE Return
  <2>1. request' = NoRequest /\ UNCHANGED muxes
    BY <1>1 DEF Return, Become, config
  <2>2. /\ request'.id = "undefined" /\ request'.header = "none" /\ request'.log = {}
        /\ request'.mux = 0 /\ request'.writer = 0 /\ request'.stage = "idle"
    BY <2>1 DEF NoRequest
  <2> QED
    BY <2>1, <2>2, UnnamedOK
<1> QED
  BY <1>1, ServeHTTPLogged, RouteLogged, DispatchesLogged, AnswersLogged, FinishLogged
     DEF Serving

LEMMA ConfigureLogged ==
    ASSUME ConfigOK, RInv, LogOK, Configure, NEW i \in DOMAIN muxes, Configuring(i)
    PROVE  LogOK'
<1>1. UNCHANGED request
  BY DEF Configure
<1>2. \A j \in DOMAIN muxes : /\ muxes'[j].internalMux = muxes[j].internalMux
                              /\ muxes'[j].lineage = muxes[j].lineage
  BY HistoryKept
<1>3. /\ request.served \in DOMAIN muxes
      /\ Own # 0 => Own \in DOMAIN muxes
  BY DEF RInv, RequestOK, Own, ConfigOK, MuxesOK
<1>4. Via' = Via /\ Own' = Own
  BY <1>1, <1>2, <1>3 DEF Via, Own
<1>5. Own # 0 => muxes'[Own].lineage = muxes[Own].lineage
  BY <1>2, <1>3
<1>6. ASSUME NEW line \in request.log PROVE LineOK(line)'
  <2>1. LineOK(line)
    BY DEF LogOK
  <2> QED
    BY <1>1, <1>4, <1>5, <2>1 DEF LineOK
<1> QED
  BY <1>1, <1>4, <1>5, <1>6 DEF LogOK, At

\* Whichever copy serves a request, and whatever calls configured it before or
\* meanwhile: its response and every line about it name one identifier, and no
\* line has another Mux's fields.  The chains tell why of the first: NewMux's
\* two middlewares are first in its own router, in that order, and no other
\* chain has one of them; the histories of the copies, of the second.
THEOREM LoggedUnderOneID == Spec => []LoggedUnderItsID
<1>1. Init => ChainsOK /\ LogOK
  <2> SUFFICES ASSUME Init PROVE ChainsOK /\ LogOK
    OBVIOUS
  <2>1. /\ DOMAIN routers = {Original} /\ tree = <<>>
        /\ routers[Original].middlewares = <<"muxContextInjector", "requestLogger">>
        /\ routers[Original].methodNotAllowed.chain = <<>>
        /\ muxes[Original].identifierGenerator = "default" /\ request = NoRequest
    BY DEF Init, NewMux, Original
  <2>2. NamesAndLogs(routers[Original].middlewares) /\ Transparent(<<>>)
    BY <2>1 DEF NamesAndLogs, Transparent
  <2>3. ChainsOK
    BY <2>1, <2>2 DEF ChainsOK, ChainsFit
  <2>4. /\ request.id = "undefined" /\ request.header = "none" /\ request.log = {}
        /\ request.mux = 0 /\ request.writer = 0 /\ request.stage = "idle"
    BY <2>1 DEF NoRequest
  <2> QED
    BY <2>3, <2>4 DEF LogOK, Own, At, IDs
<1>2. MInv /\ ChainsOK /\ LogOK /\ [Next]_vars => ChainsOK' /\ LogOK'
  <2> SUFFICES ASSUME MInv, ChainsOK, LogOK, [Next]_vars PROVE ChainsOK' /\ LogOK'
    OBVIOUS
  <2>1. CASE Configure /\ \E i \in DOMAIN muxes : Configuring(i)
    BY <2>1, ChainsKept, ConfigureLogged DEF MInv
  <2>2. CASE Serving \/ Return
    <3>1. UNCHANGED config
      BY <2>2, ServingConfig DEF Return, Become
    <3>2. ChainsOK'
      BY <3>1 DEF config, ChainsOK, ChainsFit
    <3> QED
      BY <2>2, <3>2, ServingLogged DEF MInv
  <2>3. CASE UNCHANGED vars
    BY <2>3 DEF vars, config, ChainsOK, ChainsFit, LogOK, LineOK, Own, Via, At
  <2> QED
    BY <2>1, <2>2, <2>3 DEF Next
<1>3. MInv /\ LogOK => LoggedUnderItsID
  BY LogSettles DEF MInv
<1> QED
  BY <1>1, <1>2, <1>3, InitMInv, NextMInv, PTL DEF Spec
=============================================================================
