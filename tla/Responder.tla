----------------------------- MODULE Responder -----------------------------
(***************************************************************************)
(* writeResponder (src/responder.go): a response value offers one media    *)
(* type per responder interface it implements and those its CustomResponder*)
(* lists; the one negotiated picks the renderer.  Lifecycle models what a  *)
(* renderer does to the headers and how it fails, this module which        *)
(* renderer runs and which type is announced.                              *)
(***************************************************************************)
EXTENDS Negotiation

CONSTANTS
    Accepts,      \* Accept headers
    Customs,      \* lists RespondsToMediaTypes may return, <<>> for none
    FormatMedia   \* the media type of each format, as at the top of the file

Formats == {"html", "json", "xml", "bytes", "text"}

ASSUME RespondedAcceptsAssumption == Accepts \subseteq AcceptHeader
ASSUME CustomsAssumption          == Customs \subseteq Seq(MediaType)
ASSUME FormatMediaAssumption      ==
    /\ FormatMedia \in [Formats -> MediaType]
    /\ \A f, g \in Formats :
          TypeName(FormatMedia[f]) = TypeName(FormatMedia[g]) => f = g

VARIABLES
    step,         \* where writeResponder is
    response,     \* the formats and the custom media types of the value
    accept,       \* the request's Accept header
    chosen,       \* setContentType: the application chose the Content-Type
    types,        \* the renderer of each type name
    offers,       \* what is offered, in order
    media,        \* the negotiated media type
    contentType,  \* the name in the Content-Type header, "app" if chosen
    body          \* names of the types the body was rendered as

vars == <<step, response, accept, chosen, types, offers, media, contentType, body>>

NoAccept   == [kind |-> "blank", medias |-> <<>>]
NoResponse == [formats |-> {}, custom |-> <<>>]

Init ==
    /\ step = "idle"
    /\ response = NoResponse
    /\ accept = NoAccept
    /\ chosen = FALSE
    /\ types = [name \in {} |-> "custom"]
    /\ offers = <<>>
    /\ media = Blank
    /\ contentType = <<>>
    /\ body = {}

Respond(formats, custom, header, set) ==
    /\ step = "idle"
    /\ step' = "offer"
    /\ response' = [formats |-> formats, custom |-> custom]
    /\ accept' = header
    /\ chosen' = set
    /\ contentType' = IF set THEN <<"app">> ELSE <<>>
    /\ UNCHANGED <<types, offers, media, body>>

formatOffer(r, f) == IF f \in r.formats THEN <<FormatMedia[f]>> ELSE <<>>

\* The order in which the interfaces are looked for.
offersOf(r) ==
    formatOffer(r, "html") \o formatOffer(r, "json") \o formatOffer(r, "xml")
        \o formatOffer(r, "bytes") \o formatOffer(r, "text") \o r.custom

CustomNames(r) == {TypeName(r.custom[i]) : i \in DOMAIN r.custom}

\* Faulty variant: keyed by String(), parameters included.
typesOf_ByString(r) ==
    [name \in {<<o.type, o.sub, o.params>> :
                 o \in {offersOf(r)[i] : i \in DOMAIN offersOf(r)}} |-> "custom"]

\* Keyed by Type().  A custom renderer replaces that of a format.
typesOf(r) ==
    [name \in {TypeName(offersOf(r)[i]) : i \in DOMAIN offersOf(r)} |->
        IF name \in CustomNames(r) THEN "custom"
        ELSE CHOOSE f \in r.formats : TypeName(FormatMedia[f]) = name]

Offer ==
    /\ step = "offer"
    /\ types' = typesOf(response)
    /\ offers' = offersOf(response)
    /\ step' = IF offersOf(response) = <<>> THEN "failed" ELSE "negotiate"
    /\ UNCHANGED <<response, accept, chosen, media, contentType, body>>

Announce(name) == contentType' = IF chosen THEN contentType ELSE name

Negotiate ==
    /\ step = "negotiate"
    /\ media' = NegotiateContentTypeWithMediaTypes(accept, offers).selected
    /\ Announce(TypeName(media'))
    /\ step' = "render"
    /\ UNCHANGED <<response, accept, chosen, types, offers, body>>

Renderer == types[TypeName(media)]
HasRenderer == TypeName(media) \in DOMAIN types

\* A format's own type is announced, and its renderer writes straight to the
\* client.
RenderFormat ==
    /\ step = "render"
    /\ HasRenderer
    /\ Renderer # "custom"
    /\ Announce(TypeName(FormatMedia[Renderer]))
    /\ body' = {TypeName(FormatMedia[Renderer])}
    /\ step' \in {"done", "failed"}
    /\ UNCHANGED <<response, accept, chosen, types, offers, media>>

\* The loop variable all custom renderers close over: by the time one runs,
\* the last of the list (the loop semantics of go.mod's Go 1.17).
Captured == response.custom[Len(response.custom)]

\* Faulty variant: the negotiated type is announced.
RenderCustom_AnnouncesNegotiated ==
    /\ step = "render"
    /\ HasRenderer
    /\ Renderer = "custom"
    /\ Announce(TypeName(media))
    /\ body' = {TypeName(Captured)}
    /\ step' = "done"
    /\ UNCHANGED <<response, accept, chosen, types, offers, media>>

\* HandleMediaTypeResponse renders into a buffer; only then is its type
\* announced.
RenderCustom ==
    /\ step = "render"
    /\ HasRenderer
    /\ Renderer = "custom"
    /\ \/ /\ Announce(TypeName(Captured))
          /\ body' = {TypeName(Captured)}
          /\ step' \in {"done", "failed"}
       \/ /\ UNCHANGED <<contentType, body>>
          /\ step' = "failed"
    /\ UNCHANGED <<response, accept, chosen, types, offers, media>>

\* The request is over; the next one starts afresh.
Return ==
    /\ step \in {"done", "failed"}
    /\ step' = "idle"
    /\ response' = NoResponse
    /\ accept' = NoAccept
    /\ chosen' = FALSE
    /\ types' = [name \in {} |-> "custom"]
    /\ offers' = <<>>
    /\ media' = Blank
    /\ contentType' = <<>>
    /\ body' = {}

Next ==
    \/ /\ step = "idle"
       /\ \E formats \in SUBSET Formats, custom \in Customs,
             header \in Accepts, set \in BOOLEAN :
             Respond(formats, custom, header, set)
    \/ Offer \/ Negotiate \/ RenderFormat \/ RenderCustom \/ Return

Spec == Init /\ [][Next]_vars

-----------------------------------------------------------------------------
(* What makes it correct *)

\* Whatever the client accepts and the value offers, the type negotiated is a
\* key of the table: types[media.Type()]() never calls a nil function.
RendererExists == step = "render" => HasRenderer

\* The Content-Type is that of the bytes that follow, although it is set once
\* by the negotiation and again by the renderer.
AnnouncedAsRendered ==
    \A name \in body : chosen \/ contentType = name

\* Request.Respond, src/request.go:299: a value with responders "allows Ragget
\* to automatically negotiate which representation will be returned to the
\* client": the body is the representation negotiated.
RenderedAsNegotiated ==
    \A name \in body : name = TypeName(media)
=============================================================================
