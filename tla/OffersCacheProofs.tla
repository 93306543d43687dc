------------------------- MODULE OffersCacheProofs -------------------------
(***************************************************************************)
(* Proofs about OffersCache, for any goroutines, Accept headers and offers:*)
(* the cache holds what its keys parse to, and what an answer owes to the  *)
(* offers as read from the cache.  That an answer names one of the offers  *)
(* as given needs callers that do not run at once.                         *)
(***************************************************************************)
EXTENDS OffersCache, NegotiationProofs

Storing(p) == pc[p] \in {"assign", "inserting", "copying"}

\* Where each caller is in its list of offers.
Positions ==
    \A p \in Callers :
        /\ Len(mediaOffers[p]) <= Len(args[p].offers)
        /\ Storing(p) => Len(mediaOffers[p]) < Len(args[p].offers)

\* What the calls read from the cache tells vendored types apart, blank or not.
VendorKnown(media) == media.vendor <=> media.sub \in Vendored
VendorsKnown ==
    \A p \in Callers : \A i \in DOMAIN mediaOffers[p] : VendorKnown(mediaOffers[p][i])

\* A result is that of the offers as read.
Answered ==
    \A p \in Callers : pc[p] = "done" =>
        /\ mediaOffers[p] # <<>>
        /\ Filled(p)
        /\ outcome[p] =
              NegotiateContentTypeWithMediaTypes(args[p].accept, mediaOffers[p])

IInv == TypeOK /\ Positions /\ VendorsKnown /\ Answered /\ CacheSound

-----------------------------------------------------------------------------
(* Keys and what they parse to *)

LEMMA BlankIsMediaType == Blank \in MediaType /\ VendorKnown(Blank)
<1>1. NoName \in Names /\ NoName \notin Vendored
  BY NamesAssumption, VendoredAssumption
<1>2. "full" \in Specificities /\ 0 \in Nat /\ 0 \in Int /\ FALSE \in BOOLEAN
  BY DEF Specificities
<1>3. Blank \in MediaType
  BY <1>1, <1>2, Zenon DEF Blank, MediaType
<1>4. Blank.vendor = FALSE /\ Blank.sub = NoName
  BY Zenon DEF Blank
<1> QED
  BY <1>1, <1>3, <1>4 DEF VendorKnown

\* MediaTypeFromString of an offer is a media type, in whatever case it is.
LEMMA MediaOfIsMediaType ==
    ASSUME NEW o \in Offers
    PROVE  /\ MediaOf(o) \in MediaType
           /\ VendorKnown(MediaOf(o))
           /\ ToLower(o) \in Keys
           /\ MediaOf(ToLower(o)) = MediaOf(o)
<1>1. o \in [type : Names, sub : Names, form : Forms, upper : BOOLEAN]
  BY OffersAssumption
<1>2. ToLower(o).type = o.type /\ ToLower(o).sub = o.sub
  BY <1>1 DEF ToLower
<1>3. ToLower(o) \in Keys
  BY DEF Keys
<1>4. MediaOf(o) \in MediaType
  BY <1>1 DEF MediaOf, MediaTypeFromString, MediaType, Specificities, FullWeight
<1>5. /\ MediaOf(o).sub = o.sub
      /\ MediaOf(o).vendor <=> o.sub \in Vendored
  BY Zenon DEF MediaOf, MediaTypeFromString
<1>6. VendorKnown(MediaOf(o))
  BY <1>5, Zenon DEF VendorKnown
<1> QED
  BY <1>2, <1>3, <1>4, <1>6 DEF MediaOf

LEMMA KeyIsMediaType ==
    ASSUME NEW k \in Keys
    PROVE  MediaOf(k) \in MediaType /\ VendorKnown(MediaOf(k))
<1>1. PICK o \in Offers : k = ToLower(o)
  BY DEF Keys
<1> QED
  BY <1>1, MediaOfIsMediaType

\* The offer a caller is at has a key.
LEMMA CurrentIsKey ==
    ASSUME TypeOK, NEW p \in Callers,
           Len(mediaOffers[p]) < Len(args[p].offers)
    PROVE  /\ Current(p) \in Keys
           /\ args[p].offers[Len(mediaOffers[p]) + 1] \in Offers
           /\ MediaOf(Current(p)) = MediaOf(args[p].offers[Len(mediaOffers[p]) + 1])
<1>1. args[p].offers \in Seq(Offers) /\ mediaOffers[p] \in Seq(MediaType)
  BY DEF TypeOK
<1>2. args[p].offers[Len(mediaOffers[p]) + 1] \in Offers
  BY <1>1
<1> QED
  BY <1>2, MediaOfIsMediaType DEF Current

-----------------------------------------------------------------------------
(* Init and the calls *)

LEMMA InitHolds == Init => IInv
<1> SUFFICES ASSUME Init PROVE IInv
  OBVIOUS
<1>1. TypeOK
  <2>1. NoArgs \in [accept : AcceptHeader, offers : Seq(Offers)]
    BY DEF NoArgs, AcceptHeader
  <2>2. NoOutcome \in Outcome
    BY BlankIsMediaType DEF NoOutcome, Outcome
  <2>3. DOMAIN offersCache = {} /\ offersCache \in [DOMAIN offersCache -> MediaType]
    BY DEF Init
  <2>4. pc \in [Callers -> Labels] /\ crashed \in BOOLEAN
    BY DEF Init, Labels
  <2>5. mediaOffers \in [Callers -> Seq(MediaType)]
    <3>1. <<>> \in Seq(MediaType)
      OBVIOUS
    <3> QED
      BY <3>1, Zenon DEF Init
  <2>6. /\ args \in [Callers -> [accept : AcceptHeader, offers : Seq(Offers)]]
        /\ outcome \in [Callers -> Outcome]
    BY <2>1, <2>2, Zenon DEF Init
  <2> QED
    BY <2>3, <2>4, <2>5, <2>6 DEF TypeOK
<1>2. Positions /\ VendorsKnown /\ Answered
  BY DEF Init, Positions, Storing, VendorsKnown, Answered, NoArgs
<1>3. CacheSound
  BY DEF Init, CacheSound
<1> QED
  BY <1>1, <1>2, <1>3 DEF IInv

\* A call or a return sets p's own variables only.
LEMMA OwnStepKeeps ==
    ASSUME IInv, NEW p \in Callers, NEW label \in {"idle", "offers", "panicked"},
           pc[p] # "copying",
           NEW arguments \in [accept : AcceptHeader, offers : Seq(Offers)],
           NEW medias \in Seq(MediaType),
           Len(medias) <= Len(arguments.offers),
           \A i \in DOMAIN medias : VendorKnown(medias[i]),
           NEW result \in Outcome,
           Goto(p, label),
           args' = [args EXCEPT ![p] = arguments],
           mediaOffers' = [mediaOffers EXCEPT ![p] = medias],
           outcome' = [outcome EXCEPT ![p] = result],
           UNCHANGED <<offersCache, crashed>>
    PROVE  IInv'
<1>1. TypeOK'
  BY DEF IInv, TypeOK, Goto, Labels
<1> USE DEF IInv, TypeOK, Goto
<1>2. /\ pc'[p] = label /\ args'[p] = arguments
      /\ mediaOffers'[p] = medias /\ outcome'[p] = result
  OBVIOUS
<1>3. \A q \in Callers \ {p} : /\ pc'[q] = pc[q] /\ args'[q] = args[q]
                               /\ mediaOffers'[q] = mediaOffers[q]
                               /\ outcome'[q] = outcome[q]
  OBVIOUS
<1>4. Positions'
  BY <1>2, <1>3 DEF Positions, Storing
<1>5. VendorsKnown'
  BY <1>2, <1>3 DEF VendorsKnown, VendorKnown
<1>6. Answered'
  BY <1>2, <1>3 DEF Answered, Filled
<1>7. CacheSound'
  BY <1>2, <1>3 DEF CacheSound, Current
<1> QED
  BY <1>1, <1>4, <1>5, <1>6, <1>7

LEMMA OfferListsAreSequences == OfferLists \subseteq Seq(Offers)
BY MaxOffersAssumption DEF OfferLists

LEMMA CallsKeep ==
    ASSUME IInv, NEW p \in Callers, NEW accept \in Accepts, NEW offers \in OfferLists,
           NegotiateContentType(p, accept, offers)
               \/ CallWithMediaTypes(p, accept, offers)
    PROVE  IInv'
<1> DEFINE arguments == [accept |-> accept, offers |-> offers]
<1>1. offers \in Seq(Offers)
  BY OfferListsAreSequences
<1>2. arguments \in [accept : AcceptHeader, offers : Seq(Offers)]
  BY <1>1, AcceptsAssumption
<1>3. outcome[p] \in Outcome /\ outcome = [outcome EXCEPT ![p] = outcome[p]]
  BY DEF IInv, TypeOK
<1>4. CASE NegotiateContentType(p, accept, offers)
  <2> DEFINE label == IF Refused(offers) THEN "panicked" ELSE "offers"
  <2>1. /\ label \in {"idle", "offers", "panicked"} /\ Goto(p, label)
        /\ pc[p] = "idle"
        /\ args' = [args EXCEPT ![p] = arguments]
        /\ mediaOffers' = [mediaOffers EXCEPT ![p] = <<>>]
        /\ UNCHANGED <<outcome, offersCache, crashed>>
    BY <1>4 DEF NegotiateContentType, At
  <2>2. /\ <<>> \in Seq(MediaType) /\ Len(<<>>) <= Len(arguments.offers)
        /\ \A i \in DOMAIN <<>> : VendorKnown(<<>>[i])
    BY <1>1
  <2> HIDE DEF label, arguments
  <2> QED
    BY <1>2, <1>3, <2>1, <2>2, OwnStepKeeps
<1>5. CASE CallWithMediaTypes(p, accept, offers)
  <2> DEFINE medias == [i \in DOMAIN offers |-> MediaOf(offers[i])]
  <2>1. \A i \in DOMAIN offers : /\ MediaOf(offers[i]) \in MediaType
                                 /\ VendorKnown(MediaOf(offers[i]))
    BY <1>1, MediaOfIsMediaType
  <2>2. /\ medias \in Seq(MediaType) /\ Len(medias) <= Len(arguments.offers)
        /\ \A i \in DOMAIN medias : VendorKnown(medias[i])
    <3>1. DOMAIN offers = 1 .. Len(offers) /\ Len(offers) \in Nat
      BY <1>1
    <3>2. medias \in [1 .. Len(offers) -> MediaType]
      BY <2>1, <3>1
    <3>3. medias \in Seq(MediaType) /\ Len(medias) = Len(offers)
      BY <3>1, <3>2
    <3>4. \A i \in DOMAIN medias : VendorKnown(medias[i])
      BY <2>1
    <3> QED
      BY <3>1, <3>3, <3>4
  <2>3. /\ Goto(p, "offers") /\ pc[p] = "idle"
        /\ args' = [args EXCEPT ![p] = arguments]
        /\ mediaOffers' = [mediaOffers EXCEPT ![p] = medias]
        /\ UNCHANGED <<outcome, offersCache, crashed>>
    BY <1>5 DEF CallWithMediaTypes, At
  <2> HIDE DEF medias, arguments
  <2> QED
    BY <1>2, <1>3, <2>2, <2>3, OwnStepKeeps
<1> QED
  BY <1>4, <1>5

LEMMA ReturnKeeps ==
    ASSUME IInv, NEW p \in Callers, Return(p)
    PROVE  IInv'
<1>1. /\ NoArgs \in [accept : AcceptHeader, offers : Seq(Offers)]
      /\ NoArgs.offers = <<>>
  BY DEF NoArgs, AcceptHeader
<1>2. NoOutcome \in Outcome
  BY BlankIsMediaType DEF NoOutcome, Outcome
<1>3. /\ <<>> \in Seq(MediaType) /\ Len(<<>>) <= Len(NoArgs.offers)
      /\ \A i \in DOMAIN <<>> : VendorKnown(<<>>[i])
  BY <1>1
<1>4. /\ pc[p] # "copying" /\ Goto(p, "idle")
      /\ args' = [args EXCEPT ![p] = NoArgs]
      /\ mediaOffers' = [mediaOffers EXCEPT ![p] = <<>>]
      /\ outcome' = [outcome EXCEPT ![p] = NoOutcome]
      /\ UNCHANGED <<offersCache, crashed>>
  BY DEF Return, At
<1> QED
  BY <1>1, <1>2, <1>3, <1>4, OwnStepKeeps

-----------------------------------------------------------------------------
(* Looking an offer up, and storing it *)

\* A step that only moves p, to a label where what is known still holds.
LEMMA MoveKeeps ==
    ASSUME IInv, NEW p \in Callers, NEW label \in Labels \ {"done"},
           pc[p] # "copying",
           label \in {"assign", "inserting", "copying"} =>
               Len(mediaOffers[p]) < Len(args[p].offers),
           Goto(p, label),
           UNCHANGED <<args, mediaOffers, outcome, offersCache, crashed>>
    PROVE  IInv'
<1> USE DEF IInv, TypeOK, Goto
<1>1. TypeOK'
  OBVIOUS
<1>2. pc'[p] = label /\ \A q \in Callers \ {p} : pc'[q] = pc[q]
  OBVIOUS
<1>3. Positions'
  BY <1>2 DEF Positions, Storing
<1>4. VendorsKnown'
  BY DEF VendorsKnown
<1>5. Answered'
  BY <1>2 DEF Answered, Filled
<1>6. CacheSound'
  BY <1>2 DEF CacheSound, Current
<1> QED
  BY <1>1, <1>3, <1>4, <1>5, <1>6

\* p fills mediaOffers[i] and goes on to the next offer, the cache keeping
\* its other entries.
LEMMA FillKeeps ==
    ASSUME IInv, NEW p \in Callers,
           Len(mediaOffers[p]) < Len(args[p].offers),
           NEW media \in MediaType, VendorKnown(media),
           mediaOffers' = [mediaOffers EXCEPT ![p] = Append(@, media)],
           Goto(p, "offers"),
           UNCHANGED <<args, outcome, crashed>>,
           DOMAIN offersCache' \subseteq Keys,
           offersCache' \in [DOMAIN offersCache' -> MediaType],
           CacheSound'
    PROVE  IInv'
<1> USE DEF IInv, TypeOK, Goto
<1>1. mediaOffers[p] \in Seq(MediaType)
  OBVIOUS
<1>2. /\ Append(mediaOffers[p], media) \in Seq(MediaType)
      /\ Len(Append(mediaOffers[p], media)) = Len(mediaOffers[p]) + 1
      /\ \A i \in DOMAIN Append(mediaOffers[p], media) :
            \/ i \in DOMAIN mediaOffers[p]
               /\ Append(mediaOffers[p], media)[i] = mediaOffers[p][i]
            \/ Append(mediaOffers[p], media)[i] = media
  BY <1>1
<1>3. TypeOK'
  BY <1>2 DEF Labels
<1>4. /\ pc'[p] = "offers" /\ args'[p] = args[p]
      /\ mediaOffers'[p] = Append(mediaOffers[p], media)
  OBVIOUS
<1>5. \A q \in Callers \ {p} : /\ pc'[q] = pc[q] /\ args'[q] = args[q]
                               /\ mediaOffers'[q] = mediaOffers[q]
                               /\ outcome'[q] = outcome[q]
  OBVIOUS
<1>6. Positions'
  <2>1. Len(args[p].offers) \in Nat /\ Len(mediaOffers[p]) \in Nat
    OBVIOUS
  <2>2. Len(mediaOffers'[p]) <= Len(args'[p].offers)
    BY <1>2, <1>4, <2>1
  <2> QED
    BY <1>4, <1>5, <2>2 DEF Positions, Storing
<1>7. VendorsKnown'
  <2>1. ASSUME NEW i \in DOMAIN mediaOffers'[p]
        PROVE  VendorKnown(mediaOffers'[p][i])
    BY <1>2, <1>4, <2>1 DEF VendorsKnown
  <2> QED
    BY <1>5, <2>1 DEF VendorsKnown, VendorKnown
<1>8. Answered'
  BY <1>4, <1>5 DEF Answered, Filled
<1> QED
  BY <1>3, <1>6, <1>7, <1>8

\* While a caller has offers left, it is at one.
LEMMA NotFilled ==
    ASSUME IInv, NEW p \in Callers, ~Filled(p) \/ Storing(p)
    PROVE  Len(mediaOffers[p]) < Len(args[p].offers)
<1>1. Len(mediaOffers[p]) \in Nat /\ Len(args[p].offers) \in Nat
  BY DEF IInv, TypeOK
<1>2. /\ Len(mediaOffers[p]) <= Len(args[p].offers)
      /\ Storing(p) => Len(mediaOffers[p]) < Len(args[p].offers)
  BY DEF IInv, Positions
<1> QED
  BY <1>1, <1>2 DEF Filled

\* Entries of the cache are media types whose vendor is known.
LEMMA EntryKnown ==
    ASSUME IInv, NEW k \in DOMAIN offersCache
    PROVE  offersCache[k] \in MediaType /\ VendorKnown(offersCache[k])
<1>1. offersCache[k] = MediaOf(k) \/ offersCache[k] = Blank
  BY DEF IInv, CacheSound
<1>2. k \in Keys
  BY DEF IInv, TypeOK
<1> QED
  BY <1>1, <1>2, KeyIsMediaType, BlankIsMediaType

LEMMA FindOfferKeeps ==
    ASSUME IInv, NEW p \in Callers, FindOffer(p)
    PROVE  IInv'
<1>1. pc[p] = "offers" /\ ~Filled(p)
  BY DEF FindOffer, Hit, InvalidOffer, Miss, At
<1>2. Len(mediaOffers[p]) < Len(args[p].offers)
  BY <1>1, NotFilled
<1>3. CASE Hit(p)
  <2>1. /\ Current(p) \in DOMAIN offersCache
        /\ mediaOffers' = [mediaOffers EXCEPT ![p] = Append(@, offersCache[Current(p)])]
        /\ UNCHANGED <<pc, args, outcome, offersCache, crashed>>
    BY <1>3 DEF Hit
  <2>2. offersCache[Current(p)] \in MediaType /\ VendorKnown(offersCache[Current(p)])
    BY <2>1, EntryKnown
  <2>3. Goto(p, "offers")
    BY <1>1, <2>1 DEF Goto, IInv, TypeOK
  <2>4. CacheSound'
    <3>1. \A q \in Callers : pc[q] = "copying" => q # p
      BY <1>1
    <3>2. \A q \in Callers \ {p} : mediaOffers'[q] = mediaOffers[q]
      BY <2>1 DEF IInv, TypeOK
    <3> QED
      BY <2>1, <3>1, <3>2 DEF IInv, CacheSound, Current
  <2>5. /\ DOMAIN offersCache' \subseteq Keys
        /\ offersCache' \in [DOMAIN offersCache' -> MediaType]
    BY <2>1 DEF IInv, TypeOK
  <2> QED
    BY <1>2, <2>1, <2>2, <2>3, <2>4, <2>5, FillKeeps
<1>4. CASE InvalidOffer(p)
  <2>1. /\ Goto(p, "panicked")
        /\ UNCHANGED <<args, mediaOffers, outcome, offersCache, crashed>>
    BY <1>4 DEF InvalidOffer
  <2> QED
    BY <1>1, <2>1, MoveKeeps DEF Labels
<1>5. CASE Miss(p)
  <2>1. /\ Goto(p, "assign")
        /\ UNCHANGED <<args, mediaOffers, outcome, offersCache, crashed>>
    BY <1>5 DEF Miss
  <2> QED
    BY <1>1, <1>2, <2>1, MoveKeeps DEF Labels
<1> QED
  BY <1>3, <1>4, <1>5 DEF FindOffer

LEMMA InsertKeeps ==
    ASSUME IInv, NEW p \in Callers, Insert(p)
    PROVE  IInv'
<1>1. /\ pc[p] = "inserting" /\ Goto(p, "copying")
      /\ UNCHANGED <<args, mediaOffers, outcome, crashed>>
  BY DEF Insert, At
<1>2. Len(mediaOffers[p]) < Len(args[p].offers)
  BY <1>1, NotFilled DEF Storing
<1>3. CASE UNCHANGED offersCache
  BY <1>1, <1>2, <1>3, MoveKeeps DEF Labels
<1>4. CASE Put(Current(p), Blank) /\ Current(p) \notin DOMAIN offersCache
  <2>1. Current(p) \in Keys
    BY <1>2, CurrentIsKey DEF IInv
  <2>2. /\ DOMAIN offersCache' = DOMAIN offersCache \cup {Current(p)}
        /\ offersCache'[Current(p)] = Blank
        /\ \A k \in DOMAIN offersCache : offersCache'[k] = offersCache[k]
    BY <1>4 DEF Put
  <2>3. TypeOK'
    <3>1. \A k \in DOMAIN offersCache' : offersCache'[k] \in MediaType
      BY <2>2, BlankIsMediaType DEF IInv, TypeOK
    <3>2. offersCache' \in [DOMAIN offersCache' -> MediaType]
      BY <1>4, <3>1 DEF Put
    <3>3. DOMAIN offersCache' \subseteq Keys
      BY <2>1, <2>2 DEF IInv, TypeOK
    <3> QED
      BY <1>1, <3>2, <3>3 DEF IInv, TypeOK, Goto, Labels
  <2>4. pc'[p] = "copying" /\ \A q \in Callers \ {p} : pc'[q] = pc[q]
    BY <1>1 DEF Goto, IInv, TypeOK
  <2>5. Positions'
    BY <1>1, <1>2, <2>4 DEF IInv, Positions, Storing
  <2>6. VendorsKnown'
    BY <1>1 DEF IInv, VendorsKnown
  <2>7. Answered'
    BY <1>1, <2>4 DEF IInv, Answered, Filled
  <2>8. CacheSound'
    <3>1. \A q \in Callers : Current(q)' = Current(q)
      BY <1>1 DEF Current
    <3> HIDE DEF IInv
    <3>2. ASSUME NEW k \in DOMAIN offersCache
          PROVE  \/ offersCache'[k] = MediaOf(k)
                 \/ /\ offersCache'[k] = Blank
                    /\ \E q \in Callers : pc'[q] = "copying" /\ Current(q)' = k
      BY <1>1, <2>2, <2>4, <3>1 DEF IInv, CacheSound
    <3> QED
      BY <2>2, <2>4, <3>1, <3>2 DEF CacheSound
  <2> QED
    BY <2>3, <2>5, <2>6, <2>7, <2>8 DEF IInv
<1> QED
  BY <1>3, <1>4 DEF Insert

LEMMA StoreOfferKeeps ==
    ASSUME IInv, NEW p \in Callers, StoreOffer(p)
    PROVE  IInv'
<1>1. Storing(p)
  BY DEF StoreOffer, AssignBegins, Insert, InsertLost, CopyValue, At, Storing
<1>2. Len(mediaOffers[p]) < Len(args[p].offers)
  BY <1>1, NotFilled
<1>3. Current(p) \in Keys
  BY <1>2, CurrentIsKey DEF IInv
<1>4. MediaOf(Current(p)) \in MediaType /\ VendorKnown(MediaOf(Current(p)))
  BY <1>3, KeyIsMediaType
<1>5. CASE AssignBegins(p)
  <2>1. /\ pc[p] = "assign" /\ Goto(p, "inserting")
        /\ UNCHANGED <<args, mediaOffers, outcome, offersCache, crashed>>
    BY <1>5 DEF AssignBegins, At
  <2> QED
    BY <1>2, <2>1, MoveKeeps DEF Labels
<1>6. CASE Insert(p)
  BY <1>6, InsertKeeps
<1>7. CASE InsertLost(p) \/ CopyValue(p)
  <2>1. /\ mediaOffers' = [mediaOffers EXCEPT ![p] = Append(@, MediaOf(Current(p)))]
        /\ Goto(p, "offers")
        /\ UNCHANGED <<args, outcome, crashed>>
    BY <1>7 DEF InsertLost, CopyValue, Fill
  <2>2. \A q \in Callers \ {p} : pc'[q] = pc[q] /\ Current(q)' = Current(q)
    BY <2>1 DEF IInv, TypeOK, Goto, Current
  <2>3. CASE InsertLost(p)
    <3>1. UNCHANGED offersCache /\ pc[p] = "inserting"
      BY <2>3 DEF InsertLost, At
    <3>2. CacheSound'
      BY <2>2, <3>1 DEF IInv, CacheSound
    <3>3. /\ DOMAIN offersCache' \subseteq Keys
          /\ offersCache' \in [DOMAIN offersCache' -> MediaType]
      BY <3>1 DEF IInv, TypeOK
    <3> QED
      BY <1>2, <1>4, <2>1, <3>2, <3>3, FillKeeps
  <2>4. CASE CopyValue(p)
    <3>1. Put(Current(p), MediaOf(Current(p)))
      BY <2>4 DEF CopyValue
    <3>2. /\ DOMAIN offersCache' = DOMAIN offersCache \cup {Current(p)}
          /\ offersCache'[Current(p)] = MediaOf(Current(p))
          /\ \A k \in DOMAIN offersCache \ {Current(p)} :
                offersCache'[k] = offersCache[k]
      BY <3>1 DEF Put
    <3>3. /\ DOMAIN offersCache' \subseteq Keys
          /\ offersCache' \in [DOMAIN offersCache' -> MediaType]
      <4>1. \A k \in DOMAIN offersCache' : offersCache'[k] \in MediaType
        BY <1>4, <3>2 DEF IInv, TypeOK
      <4> QED
        BY <1>3, <3>1, <3>2, <4>1 DEF IInv, TypeOK, Put
    <3>4. CacheSound'
      <4>1. ASSUME NEW k \in DOMAIN offersCache \ {Current(p)}
            PROVE  \/ offersCache'[k] = MediaOf(k)
                   \/ /\ offersCache'[k] = Blank
                      /\ \E q \in Callers : pc'[q] = "copying" /\ Current(q)' = k
        BY <2>2, <3>2 DEF IInv, CacheSound
      <4> QED
        BY <3>2, <4>1 DEF CacheSound
    <3> QED
      BY <1>2, <1>4, <2>1, <3>3, <3>4, FillKeeps
  <2> QED
    BY <1>7, <2>3, <2>4
<1> QED
  BY <1>5, <1>6, <1>7 DEF StoreOffer

-----------------------------------------------------------------------------
(* The answer, and the theorems *)

LEMMA NegotiateKeeps ==
    ASSUME IInv, NEW p \in Callers, Negotiate(p)
    PROVE  IInv'
<1> DEFINE result ==
        NegotiateContentTypeWithMediaTypes(args[p].accept, mediaOffers[p])
<1>1. /\ pc[p] = "offers" /\ Filled(p) /\ mediaOffers[p] # <<>>
      /\ outcome' = [outcome EXCEPT ![p] = result]
      /\ Goto(p, "done")
      /\ UNCHANGED <<args, mediaOffers, offersCache, crashed>>
  BY DEF Negotiate, At
<1>2. result \in Outcome
  <2>1. args[p].accept \in AcceptHeader /\ mediaOffers[p] \in Seq(MediaType)
    BY DEF IInv, TypeOK
  <2> QED
    BY <1>1, <2>1, OutcomeIsOffered
<1>3. outcome'[p] = result
  BY <1>1 DEF IInv, TypeOK
<1> HIDE DEF result
<1>4. TypeOK'
  BY <1>1, <1>2 DEF IInv, TypeOK, Goto, Labels
<1>5. /\ pc'[p] = "done"
      /\ \A q \in Callers \ {p} : pc'[q] = pc[q] /\ outcome'[q] = outcome[q]
  BY <1>1 DEF IInv, TypeOK, Goto
<1>6. Positions'
  BY <1>1, <1>5 DEF IInv, Positions, Storing
<1>7. VendorsKnown'
  BY <1>1 DEF IInv, VendorsKnown
<1>8. Answered'
  BY <1>1, <1>3, <1>5 DEF IInv, Answered, Filled, result
<1>9. CacheSound'
  BY <1>1, <1>5 DEF IInv, CacheSound, Current
<1> QED
  BY <1>4, <1>6, <1>7, <1>8, <1>9 DEF IInv

LEMMA ThrowKeeps ==
    ASSUME IInv, NEW p \in Callers, Throw(p)
    PROVE  IInv'
<1>1. crashed' = TRUE /\ UNCHANGED <<pc, args, mediaOffers, outcome, offersCache>>
  BY DEF Throw
<1>2. TypeOK'
  BY <1>1 DEF IInv, TypeOK
<1>3. Positions' /\ VendorsKnown'
  BY <1>1 DEF IInv, Positions, Storing, VendorsKnown
<1>4. Answered'
  BY <1>1 DEF IInv, Answered, Filled
<1>5. CacheSound'
  BY <1>1 DEF IInv, CacheSound, Current
<1> QED
  BY <1>2, <1>3, <1>4, <1>5 DEF IInv

LEMMA RefuseEmptyKeeps ==
    ASSUME IInv, NEW p \in Callers, RefuseEmpty(p)
    PROVE  IInv'
<1>1. /\ pc[p] = "offers" /\ Goto(p, "panicked")
      /\ UNCHANGED <<args, mediaOffers, outcome, offersCache, crashed>>
  BY DEF RefuseEmpty, At
<1> QED
  BY <1>1, MoveKeeps DEF Labels

LEMMA NextKeeps == IInv /\ [Next]_vars => IInv'
<1> SUFFICES ASSUME IInv, [Next]_vars PROVE IInv'
  OBVIOUS
<1>1. CASE Next
  <2>1. PICK p \in Callers :
          \/ \E accept \in Accepts, offers \in OfferLists :
                \/ NegotiateContentType(p, accept, offers)
                \/ CallWithMediaTypes(p, accept, offers)
          \/ FindOffer(p) \/ StoreOffer(p) \/ Throw(p)
          \/ Negotiate(p) \/ RefuseEmpty(p) \/ Return(p)
    BY <1>1, Zenon DEF Next
  <2> QED
    BY <2>1, CallsKeep, FindOfferKeeps, StoreOfferKeeps, ThrowKeeps,
       NegotiateKeeps, RefuseEmptyKeeps, ReturnKeeps
<1>2. CASE UNCHANGED vars
  <2>1. TypeOK'
    BY <1>2 DEF IInv, TypeOK, vars
  <2>2. Positions' /\ VendorsKnown'
    BY <1>2 DEF IInv, Positions, Storing, VendorsKnown, vars
  <2>3. Answered'
    BY <1>2 DEF IInv, Answered, Filled, vars
  <2>4. CacheSound'
    BY <1>2 DEF IInv, CacheSound, Current, vars
  <2> QED
    BY <2>1, <2>2, <2>3, <2>4 DEF IInv
<1> QED
  BY <1>1, <1>2

\* The inductive invariant of the calls and the cache they share.
THEOREM CallsInvariant == Spec => []IInv
<1>1. Init => IInv
  BY InitHolds
<1>2. IInv /\ [Next]_vars => IInv'
  BY NextKeeps
<1> QED
  BY <1>1, <1>2, PTL DEF Spec

\* Every variable keeps its type; keys of the cache are offers in lower case.
THEOREM CallsTypeCorrect == Spec => []TypeOK
<1>1. IInv => TypeOK
  BY DEF IInv
<1> QED
  BY <1>1, CallsInvariant, PTL

\* An entry of the cache is what its key parses to, or is being copied.
THEOREM EntriesAreSound == Spec => []CacheSound
<1>1. IInv => CacheSound
  BY DEF IInv
<1> QED
  BY <1>1, CallsInvariant, PTL

\* A fallback is only vendored where every offer is: the second loop of
\* preferablyNonVendorOffer, behind the cache.
THEOREM FallbacksAvoidVendors == Spec => []FallbackAvoidsVendors
<1>1. ASSUME IInv, NEW p \in Callers, Returned(p),
             ~outcome[p].valid \/ args[p].accept.kind = "blank",
             outcome[p].selected.vendor
      PROVE  \A i \in DOMAIN mediaOffers[p] : mediaOffers[p][i].vendor
  <2> DEFINE accept == args[p].accept
             offers == mediaOffers[p]
  <2>1. accept \in AcceptHeader /\ offers \in Seq(MediaType)
    BY <1>1 DEF IInv, TypeOK
  <2>2. /\ offers # <<>>
        /\ outcome[p] = NegotiateContentTypeWithMediaTypes(accept, offers)
    BY <1>1 DEF IInv, Answered, Returned
  <2>3. outcome[p].selected = preferablyNonVendorOffer(offers)
    <3>1. CASE accept.kind \in {"blank", "malformed"}
      BY <2>2, <3>1 DEF NegotiateContentTypeWithMediaTypes
    <3>2. CASE accept.kind = "ranges"
      <4>1. accept.medias \in Seq(MediaType)
        BY <2>1, <3>2 DEF AcceptHeader, Ranges
      <4>2. outcome[p] = doNegotiation(sortByRank(accept.medias), offers)
        BY <2>2, <3>2 DEF NegotiateContentTypeWithMediaTypes
      <4> HIDE DEF accept, offers
      <4> QED
        BY <1>1, <2>1, <2>2, <3>2, <4>1, <4>2, RangesNegotiated DEF accept
    <3> QED
      BY <2>1, <3>1, <3>2 DEF AcceptHeader
  <2> QED
    BY <1>1, <2>1, <2>2, <2>3, FallbackIsOffered
<1>2. IInv => FallbackAvoidsVendors
  BY <1>1 DEF FallbackAvoidsVendors
<1> QED
  BY <1>2, CallsInvariant, PTL

\* A match that names a vendored subtype has a range that names it.
LEMMA VendorMatchedByName ==
    ASSUME NEW m \in Ranges, NEW o \in MediaType, VendorKnown(o),
           matches(m, o), o.sub \in Vendored
    PROVE  m.sub = o.sub
<1>1. /\ m \in MediaType
      /\ m.specificity = specificityOf(m.type, m.sub)
      /\ m.vendor = (m.sub \in Vendored)
  BY DEF Ranges, IsRange
<1>2. o.vendor
  BY DEF VendorKnown
<1>3. m.specificity \in {"undefined", "partial", "full"}
  BY <1>1 DEF MediaType, Specificities
<1>4. CASE m.specificity = "undefined"
  BY <1>2, <1>4 DEF matches
<1>5. CASE m.specificity = "full"
  BY <1>5 DEF matches
<1>6. CASE m.specificity = "partial"
  <2>1. /\ o.vendor = m.vendor
        /\ m.type = Wildcard => o.sub = m.sub
    BY <1>6 DEF matches
  <2>2. m.vendor
    BY <1>2, <2>1
  <2>3. m.sub \in Vendored
    BY <1>1, <2>2
  <2>4. m.sub # Wildcard
    BY <2>3, VendoredAssumption
  <2>5. m.type = Wildcard
    BY <1>1, <1>6, <2>4 DEF specificityOf
  <2> QED
    BY <2>1, <2>5
<1> QED
  BY <1>3, <1>4, <1>5, <1>6

\* No wildcard negotiates a vendored offer: MediaType.matches, behind the sort,
\* the tie and the cache.
THEOREM VendorsByName == Spec => []VendorOnlyByName
<1>1. ASSUME IInv, NEW p \in Callers, Negotiated(p), outcome[p].valid,
             outcome[p].selected.sub \in Vendored
      PROVE  \E i \in DOMAIN Medias(p) : Medias(p)[i].sub = outcome[p].selected.sub
  <2> DEFINE accept == args[p].accept
             offers == mediaOffers[p]
  <2>1. accept \in AcceptHeader /\ offers \in Seq(MediaType)
    BY <1>1 DEF IInv, TypeOK
  <2>2. accept.kind = "ranges" /\ accept.medias \in Seq(Ranges)
    BY <1>1, <2>1 DEF Negotiated, AcceptHeader
  <2>3. accept.medias \in Seq(MediaType)
    BY <2>2 DEF Ranges
  <2>4. /\ offers # <<>>
        /\ outcome[p] = doNegotiation(sortByRank(accept.medias), offers)
    BY <1>1, <2>2
       DEF IInv, Answered, Negotiated, Returned, NegotiateContentTypeWithMediaTypes
  <2> HIDE DEF accept, offers
  <2>5. PICK i \in DOMAIN accept.medias, j \in DOMAIN offers :
            /\ matches(accept.medias[i], offers[j])
            /\ outcome[p].selected = Selection(accept.medias[i], offers[j])
    BY <1>1, <2>1, <2>3, <2>4, RangesNegotiated
  <2>6. /\ accept.medias[i] \in Ranges /\ accept.medias[i] \in MediaType
        /\ offers[j] \in MediaType
    BY <2>1, <2>2, <2>3
  <2>7. VendorKnown(offers[j])
    BY <1>1 DEF IInv, VendorsKnown, offers
  <2>8. outcome[p].selected.sub = offers[j].sub
    BY <2>5, <2>6, SelectionIsMediaType
  <2>9. accept.medias[i].sub = offers[j].sub
    BY <1>1, <2>5, <2>6, <2>7, <2>8, VendorMatchedByName
  <2> QED
    BY <2>8, <2>9 DEF Medias, accept
<1>2. IInv => VendorOnlyByName
  BY <1>1 DEF VendorOnlyByName
<1> QED
  BY <1>2, CallsInvariant, PTL

-----------------------------------------------------------------------------
(* Ranks *)

\* What a caller that sent ranges was answered.
LEMMA AnswerIsNegotiated ==
    ASSUME IInv, NEW p \in Callers, Negotiated(p)
    PROVE  /\ Medias(p) \in Seq(MediaType)
           /\ mediaOffers[p] \in Seq(MediaType) /\ mediaOffers[p] # <<>>
           /\ outcome[p] = doNegotiation(sortByRank(Medias(p)), mediaOffers[p])
<1>1. args[p].accept \in AcceptHeader /\ mediaOffers[p] \in Seq(MediaType)
  BY DEF IInv, TypeOK
<1>2. args[p].accept.kind = "ranges" /\ Medias(p) \in Seq(Ranges)
  BY <1>1 DEF Negotiated, AcceptHeader, Medias
<1>3. /\ mediaOffers[p] # <<>>
      /\ outcome[p] = NegotiateContentTypeWithMediaTypes(args[p].accept, mediaOffers[p])
  BY DEF IInv, Answered, Negotiated, Returned
<1> QED
  BY <1>1, <1>2, <1>3 DEF NegotiateContentTypeWithMediaTypes, Medias, Ranges

\* The range that wins has the least rank of those that match an offer, but
\* for one that shares its rank: sort.SliceStable, breakTie and the nested loops
\* of doNegotiation together.
THEOREM LeastRankIsSelected == Spec => []LeastRankSelected
<1>1. ASSUME IInv, NEW p \in Callers, Negotiated(p), outcome[p].valid,
             NEW i \in DOMAIN Medias(p),
             MatchesOneOf(Medias(p)[i], mediaOffers[p])
      PROVE  \/ rank(outcome[p].selected) <= rank(Medias(p)[i])
             \/ \E j \in DOMAIN Medias(p) \ {i} :
                    rank(Medias(p)[j]) = rank(Medias(p)[i])
  <2>1. PICK j \in DOMAIN mediaOffers[p] : matches(Medias(p)[i], mediaOffers[p][j])
    BY <1>1 DEF MatchesOneOf
  <2>2. /\ Medias(p) \in Seq(MediaType)
        /\ mediaOffers[p] \in Seq(MediaType) /\ mediaOffers[p] # <<>>
        /\ outcome[p] = doNegotiation(sortByRank(Medias(p)), mediaOffers[p])
    BY <1>1, AnswerIsNegotiated
  <2> QED
    BY <1>1, <2>1, <2>2, LeastRankWins
<1>2. IInv => LeastRankSelected
  BY <1>1 DEF LeastRankSelected
<1> QED
  BY <1>2, CallsInvariant, PTL

\* Ranges of different ranks may come in any order: sortByRank undoes it.
THEOREM OrderDoesNotMatter == Spec => []OrderIrrelevant
<1>1. ASSUME IInv, NEW p \in Callers, Negotiated(p),
             \A i, j \in DOMAIN Medias(p) :
                rank(Medias(p)[i]) = rank(Medias(p)[j]) => i = j,
             NEW f \in [DOMAIN Medias(p) -> DOMAIN Medias(p)],
             \A i, j \in DOMAIN Medias(p) : f[i] = f[j] => i = j
      PROVE  outcome[p] = NegotiateContentTypeWithMediaTypes(
                [kind |-> "ranges",
                 medias |-> [i \in DOMAIN Medias(p) |-> Medias(p)[f[i]]]],
                mediaOffers[p])
  <2> DEFINE shuffled == [i \in DOMAIN Medias(p) |-> Medias(p)[f[i]]]
  <2>1. /\ Medias(p) \in Seq(MediaType)
        /\ outcome[p] = doNegotiation(sortByRank(Medias(p)), mediaOffers[p])
    BY <1>1, AnswerIsNegotiated
  <2>2. sortByRank(shuffled) = sortByRank(Medias(p))
    BY <1>1, <2>1, SortIgnoresOrder
  <2> HIDE DEF shuffled
  <2>3. NegotiateContentTypeWithMediaTypes(
            [kind |-> "ranges", medias |-> shuffled], mediaOffers[p])
          = doNegotiation(sortByRank(shuffled), mediaOffers[p])
    BY DEF NegotiateContentTypeWithMediaTypes
  <2> QED
    BY <2>1, <2>2, <2>3 DEF shuffled
<1>2. IInv => OrderIrrelevant
  BY <1>1 DEF OrderIrrelevant
<1> QED
  BY <1>2, CallsInvariant, PTL

-----------------------------------------------------------------------------
(* Calls that do not overlap *)

\* What has been read from the cache is what the offers parse to.
AsOffered ==
    \A p \in Callers : \A i \in DOMAIN mediaOffers[p] :
        mediaOffers[p][i] = MediaOf(args[p].offers[i])

OneCaller == \A p, q \in Callers : p = q

LEMMA AsOfferedKept ==
    ASSUME OneCaller, IInv, AsOffered, [Next]_vars
    PROVE  AsOffered'
<1>1. CASE UNCHANGED <<args, mediaOffers>>
  BY <1>1 DEF AsOffered
<1>2. ASSUME NEW p \in Callers, NEW media,
             mediaOffers' = [mediaOffers EXCEPT ![p] = Append(@, media)],
             UNCHANGED args,
             Len(mediaOffers[p]) < Len(args[p].offers),
             media = MediaOf(Current(p))
      PROVE  AsOffered'
  <2>1. /\ mediaOffers[p] \in Seq(MediaType)
        /\ mediaOffers'[p] = Append(mediaOffers[p], media)
        /\ \A q \in Callers \ {p} : mediaOffers'[q] = mediaOffers[q]
    BY <1>2 DEF IInv, TypeOK
  <2>2. media = MediaOf(args[p].offers[Len(mediaOffers[p]) + 1])
    BY <1>2, CurrentIsKey DEF IInv
  <2>3. ASSUME NEW i \in DOMAIN mediaOffers'[p]
        PROVE  mediaOffers'[p][i] = MediaOf(args[p].offers[i])
    <3>1. CASE i \in DOMAIN mediaOffers[p]
      <4>1. mediaOffers'[p][i] = mediaOffers[p][i]
        BY <2>1, <3>1
      <4> QED
        BY <3>1, <4>1 DEF AsOffered
    <3>2. CASE i \notin DOMAIN mediaOffers[p]
      <4>1. i = Len(mediaOffers[p]) + 1 /\ mediaOffers'[p][i] = media
        BY <2>1, <3>2
      <4> QED
        BY <2>2, <4>1
    <3> QED
      BY <3>1, <3>2
  <2> QED
    BY <1>2, <2>1, <2>3 DEF AsOffered
<1>3. ASSUME NEW p \in Callers,
             mediaOffers'[p] = <<>>
                \/ mediaOffers'[p] = [i \in DOMAIN args'[p].offers |->
                                          MediaOf(args'[p].offers[i])]
      PROVE  AsOffered'
  <2>1. \A q \in Callers : q = p
    BY DEF OneCaller
  <2> QED
    BY <1>3, <2>1 DEF AsOffered
<1>4. ASSUME NEW p \in Callers, NEW accept \in Accepts, NEW offers \in OfferLists,
             NegotiateContentType(p, accept, offers)
                 \/ CallWithMediaTypes(p, accept, offers)
      PROVE  AsOffered'
  <2>1. args \in [Callers -> [accept : AcceptHeader, offers : Seq(Offers)]]
        /\ mediaOffers \in [Callers -> Seq(MediaType)]
    BY DEF IInv, TypeOK
  <2>2. CASE NegotiateContentType(p, accept, offers)
    <3>1. mediaOffers'[p] = <<>>
      BY <2>1, <2>2 DEF NegotiateContentType
    <3> QED
      BY <1>3, <3>1
  <2>3. CASE CallWithMediaTypes(p, accept, offers)
    <3>1. /\ args'[p].offers = offers
          /\ mediaOffers'[p] = [i \in DOMAIN offers |-> MediaOf(offers[i])]
      BY <2>1, <2>3 DEF CallWithMediaTypes
    <3> QED
      BY <1>3, <3>1
  <2> QED
    BY <1>4, <2>2, <2>3
<1>5. ASSUME NEW p \in Callers, FindOffer(p) PROVE AsOffered'
  <2>1. CASE Hit(p)
    <3>1. /\ pc[p] = "offers" /\ ~Filled(p) /\ Current(p) \in DOMAIN offersCache
          /\ mediaOffers' = [mediaOffers EXCEPT ![p] = Append(@, offersCache[Current(p)])]
          /\ UNCHANGED args
      BY <2>1 DEF Hit, At
    <3>2. \A q \in Callers : pc[q] # "copying"
      BY <3>1 DEF OneCaller
    <3>3. offersCache[Current(p)] = MediaOf(Current(p))
      BY <3>1, <3>2 DEF IInv, CacheSound
    <3>4. Len(mediaOffers[p]) < Len(args[p].offers)
      BY <3>1, NotFilled
    <3> QED
      BY <1>2, <3>1, <3>3, <3>4
  <2>2. CASE InvalidOffer(p) \/ Miss(p)
    BY <1>1, <2>2 DEF InvalidOffer, Miss
  <2> QED
    BY <1>5, <2>1, <2>2 DEF FindOffer
<1>6. ASSUME NEW p \in Callers, StoreOffer(p) PROVE AsOffered'
  <2>1. CASE AssignBegins(p) \/ Insert(p)
    BY <1>1, <2>1 DEF AssignBegins, Insert
  <2>2. CASE InsertLost(p) \/ CopyValue(p)
    <3>1. /\ mediaOffers' = [mediaOffers EXCEPT ![p] = Append(@, MediaOf(Current(p)))]
          /\ UNCHANGED args /\ Storing(p)
      BY <2>2 DEF InsertLost, CopyValue, Fill, At, Storing
    <3>2. Len(mediaOffers[p]) < Len(args[p].offers)
      BY <3>1, NotFilled
    <3> QED
      BY <1>2, <3>1, <3>2
  <2> QED
    BY <1>6, <2>1, <2>2 DEF StoreOffer
<1>7. ASSUME NEW p \in Callers, Throw(p) \/ Negotiate(p) \/ RefuseEmpty(p)
      PROVE  AsOffered'
  BY <1>1, <1>7 DEF Throw, Negotiate, RefuseEmpty
<1>8. ASSUME NEW p \in Callers, Return(p) PROVE AsOffered'
  <2>1. mediaOffers'[p] = <<>>
    BY <1>8 DEF Return, IInv, TypeOK
  <2> QED
    BY <1>3, <2>1
<1>9. CASE UNCHANGED vars
  BY <1>1, <1>9 DEF vars
<1> QED
  BY <1>4, <1>5, <1>6, <1>7, <1>8, <1>9, Zenon DEF Next

\* With calls that do not overlap, the type negotiated is that of an offer.
THEOREM SelectedIsAnOffer ==
    ASSUME OneCaller
    PROVE  Spec => []SelectedIsOffered
<1>1. Init => AsOffered
  BY DEF Init, AsOffered
<1>2. IInv /\ AsOffered /\ [Next]_vars => AsOffered'
  BY AsOfferedKept
<1>3. IInv /\ AsOffered => SelectedIsOffered
  <2> SUFFICES ASSUME IInv, AsOffered, NEW p \in Callers, Returned(p)
               PROVE  \E i \in DOMAIN args[p].offers :
                          TypeName(outcome[p].selected) =
                              TypeName(MediaOf(args[p].offers[i]))
    BY DEF SelectedIsOffered
  <2>1. /\ args[p].accept \in AcceptHeader /\ args[p].offers \in Seq(Offers)
        /\ mediaOffers[p] \in Seq(MediaType)
    BY DEF IInv, TypeOK
  <2>2. /\ mediaOffers[p] # <<>> /\ Len(mediaOffers[p]) = Len(args[p].offers)
        /\ outcome[p] =
              NegotiateContentTypeWithMediaTypes(args[p].accept, mediaOffers[p])
    BY DEF IInv, Answered, Returned, Filled
  <2>3. PICK j \in DOMAIN mediaOffers[p] :
            TypeName(outcome[p].selected) = TypeName(mediaOffers[p][j])
    BY <2>1, <2>2, OutcomeIsOffered
  <2>4. j \in DOMAIN args[p].offers
    BY <2>1, <2>2
  <2> QED
    BY <2>3, <2>4 DEF AsOffered
<1> QED
  BY <1>1, <1>2, <1>3, CallsInvariant, PTL DEF Spec
=============================================================================
