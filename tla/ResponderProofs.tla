-------------------------- MODULE ResponderProofs --------------------------
(***************************************************************************)
(* Proofs about Responder, for any media types, Accept headers and lists of*)
(* custom media types: a renderer exists for whatever is negotiated, and   *)
(* the type announced is the type rendered.                                *)
(***************************************************************************)
EXTENDS Responder, NegotiationProofs

\* The value being written, and what has been derived from it.
Responding ==
    /\ accept \in AcceptHeader
    /\ response.custom \in Seq(MediaType)
    /\ step \in {"negotiate", "render"} =>
          /\ offers = offersOf(response)
          /\ offers # <<>>
          /\ DOMAIN types = {TypeName(offers[i]) : i \in DOMAIN offers}

\* Nothing is rendered before its turn.
NotYetRendered == step \notin {"done", "failed"} => body = {}

RInv == Responding /\ NotYetRendered /\ RendererExists /\ AnnouncedAsRendered

\* Offers are media types, of formats and of the CustomResponder.
LEMMA OffersAreMediaTypes ==
    ASSUME NEW r, r.custom \in Seq(MediaType)
    PROVE  offersOf(r) \in Seq(MediaType)
<1>1. ASSUME NEW f \in Formats PROVE formatOffer(r, f) \in Seq(MediaType)
  <2>1. FormatMedia[f] \in MediaType
    BY FormatMediaAssumption
  <2> QED
    BY <2>1 DEF formatOffer
<1>2. /\ formatOffer(r, "html") \in Seq(MediaType)
      /\ formatOffer(r, "json") \in Seq(MediaType)
      /\ formatOffer(r, "xml") \in Seq(MediaType)
      /\ formatOffer(r, "bytes") \in Seq(MediaType)
      /\ formatOffer(r, "text") \in Seq(MediaType)
  BY <1>1 DEF Formats
<1>3. \A s, t \in Seq(MediaType) : s \o t \in Seq(MediaType)
  OBVIOUS
<1> QED
  BY <1>2, <1>3, Zenon DEF offersOf

LEMMA InitHolds == Init => RInv
<1>1. Init => Responding
  BY DEF Init, Responding, NoAccept, NoResponse, AcceptHeader
<1>2. Init => NotYetRendered /\ RendererExists /\ AnnouncedAsRendered
  BY DEF Init, NotYetRendered, RendererExists, AnnouncedAsRendered
<1> QED
  BY <1>1, <1>2 DEF RInv

\* What a value offers does not change while it is written.
LEMMA ResponseUnchanged ==
    ASSUME UNCHANGED response
    PROVE  offersOf(response)' = offersOf(response)
BY Zenon DEF offersOf, formatOffer

LEMMA RespondKeeps ==
    ASSUME RInv, NEW formats \in SUBSET Formats, NEW custom \in Customs,
           NEW header \in Accepts, NEW set \in BOOLEAN,
           Respond(formats, custom, header, set)
    PROVE  RInv'
<1>1. /\ step = "idle" /\ step' = "offer" /\ accept' = header
      /\ response' = [formats |-> formats, custom |-> custom]
      /\ UNCHANGED body
  BY DEF Respond
<1>2. Responding'
  BY <1>1, CustomsAssumption, RespondedAcceptsAssumption DEF Responding
<1>3. body' = {}
  BY <1>1 DEF RInv, NotYetRendered
<1> QED
  BY <1>1, <1>2, <1>3
     DEF RInv, NotYetRendered, RendererExists, AnnouncedAsRendered

LEMMA OfferKeeps ==
    ASSUME RInv, Offer
    PROVE  RInv'
<1>1. /\ step = "offer"
      /\ types' = typesOf(response) /\ offers' = offersOf(response)
      /\ step' = IF offersOf(response) = <<>> THEN "failed" ELSE "negotiate"
      /\ UNCHANGED <<response, accept, chosen, media, contentType, body>>
  BY DEF Offer
<1>2. Responding'
  <2>1. DOMAIN types' = {TypeName(offers'[i]) : i \in DOMAIN offers'}
    BY <1>1 DEF typesOf
  <2> QED
    BY <1>1, <2>1, ResponseUnchanged DEF RInv, Responding
<1>3. body' = {} /\ step' # "render"
  BY <1>1 DEF RInv, NotYetRendered
<1> QED
  BY <1>2, <1>3 DEF RInv, NotYetRendered, RendererExists, AnnouncedAsRendered

\* The name negotiated is an offer's, and those are the keys of the table.
LEMMA NegotiateKeeps ==
    ASSUME RInv, Negotiate
    PROVE  RInv'
<1> DEFINE result == NegotiateContentTypeWithMediaTypes(accept, offers)
<1>1. /\ step = "negotiate" /\ step' = "render"
      /\ media' = result.selected
      /\ UNCHANGED <<response, accept, chosen, types, offers, body>>
  BY DEF Negotiate
<1>2. /\ accept \in AcceptHeader
      /\ offers = offersOf(response) /\ offers # <<>>
      /\ offers \in Seq(MediaType)
      /\ DOMAIN types = {TypeName(offers[i]) : i \in DOMAIN offers}
  BY <1>1, OffersAreMediaTypes DEF RInv, Responding
<1>3. PICK j \in DOMAIN offers : TypeName(result.selected) = TypeName(offers[j])
  BY <1>2, OutcomeIsOffered
<1>4. TypeName(media') \in DOMAIN types'
  BY <1>1, <1>2, <1>3
<1>5. HasRenderer'
  BY <1>4 DEF HasRenderer
<1>6. Responding'
  BY <1>1, <1>2, ResponseUnchanged DEF RInv, Responding
<1>7. body' = {}
  BY <1>1 DEF RInv, NotYetRendered
<1> QED
  BY <1>5, <1>6, <1>7 DEF RInv, NotYetRendered, RendererExists, AnnouncedAsRendered

LEMMA RenderKeeps ==
    ASSUME RInv, RenderFormat \/ RenderCustom
    PROVE  RInv'
<1>1. /\ step' \in {"done", "failed"}
      /\ UNCHANGED <<response, accept, chosen, types, offers, media>>
  BY DEF RenderFormat, RenderCustom
<1>2. Responding'
  BY <1>1 DEF RInv, Responding
<1>3. AnnouncedAsRendered'
  <2>1. CASE RenderFormat
    BY <1>1, <2>1 DEF RenderFormat, Announce, AnnouncedAsRendered
  <2>2. CASE RenderCustom
    <3>1. CASE UNCHANGED <<contentType, body>>
      BY <1>1, <3>1 DEF RInv, AnnouncedAsRendered
    <3>2. CASE Announce(TypeName(Captured)) /\ body' = {TypeName(Captured)}
      BY <1>1, <3>2 DEF Announce, AnnouncedAsRendered
    <3> QED
      BY <2>2, <3>1, <3>2 DEF RenderCustom
  <2> QED
    BY <2>1, <2>2
<1> QED
  BY <1>1, <1>2, <1>3 DEF RInv, NotYetRendered, RendererExists

LEMMA ReturnKeeps ==
    ASSUME RInv, Return
    PROVE  RInv'
<1>1. /\ step' = "idle" /\ accept' = NoAccept /\ response' = NoResponse
      /\ body' = {}
  BY DEF Return
<1>2. Responding'
  BY <1>1 DEF Responding, NoAccept, NoResponse, AcceptHeader
<1> QED
  BY <1>1, <1>2 DEF RInv, NotYetRendered, RendererExists, AnnouncedAsRendered

\* The inductive invariant of writeResponder.
THEOREM ResponderInvariant == Spec => []RInv
<1>1. Init => RInv
  BY InitHolds
<1>2. RInv /\ [Next]_vars => RInv'
  <2> SUFFICES ASSUME RInv, [Next]_vars PROVE RInv'
    OBVIOUS
  <2>1. CASE Next
    BY <2>1, RespondKeeps, OfferKeeps, NegotiateKeeps, RenderKeeps, ReturnKeeps
       DEF Next
  <2>2. CASE UNCHANGED vars
    BY <2>2 DEF vars, RInv, Responding, NotYetRendered, RendererExists,
                HasRenderer, AnnouncedAsRendered
  <2> QED
    BY <2>1, <2>2
<1> QED
  BY <1>1, <1>2, PTL DEF Spec

\* types[media.Type()] is a renderer: the name negotiated is always one offered.
THEOREM AlwaysARenderer == Spec => []RendererExists
<1>1. RInv => RendererExists
  BY DEF RInv
<1> QED
  BY <1>1, ResponderInvariant, PTL

\* The Content-Type sent is that of the body, unless the application chose it.
THEOREM AnnouncesWhatIsRendered == Spec => []AnnouncedAsRendered
<1>1. RInv => AnnouncedAsRendered
  BY DEF RInv
<1> QED
  BY <1>1, ResponderInvariant, PTL
=============================================================================
