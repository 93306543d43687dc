---------------------------- MODULE OffersCache ----------------------------
(***************************************************************************)
(* NegotiateContentType (src/content_type.go) as concurrent goroutines run *)
(* it: offers given as strings, parsed once and kept in offersCache, a     *)
(* global map nothing synchronises.                                        *)
(*                                                                         *)
(* A Go map (Go 1.17) is external.  What is modelled of it: an assignment  *)
(* inserts a zero value and copies the element in afterwards; an access    *)
(* during an insertion may kill the program, or an entry may get lost.     *)
(* Torn copies and a map broken in other ways are left out.                *)
(***************************************************************************)
EXTENDS Negotiation

CONSTANTS
    Callers,    \* goroutines
    Accepts,    \* Accept headers they negotiate with
    Offers,     \* strings offered
    MaxOffers   \* bound on how many at once

Forms == {"plain", "wildcard", "semicolon", "slashless"}

ASSUME AcceptsAssumption == Accepts \subseteq AcceptHeader
ASSUME OffersAssumption  ==
    Offers \subseteq [type : Names, sub : Names, form : Forms, upper : BOOLEAN]
ASSUME MaxOffersAssumption == MaxOffers \in Nat

VARIABLES
    pc,           \* where each caller is
    args,         \* the arguments of its call
    mediaOffers,  \* mediaOffers, as far as filled
    outcome,      \* the results of its last call
    offersCache,  \* offersCache, a partial function of the keys
    crashed       \* the runtime killed the program

vars == <<pc, args, mediaOffers, outcome, offersCache, crashed>>

\* strings.ToLower
ToLower(o) == [o EXCEPT !.upper = FALSE]
Keys == {ToLower(o) : o \in Offers}

\* What the cache holds for a key: MediaTypeFromString of its two halves.
MediaOf(o) == MediaTypeFromString(o.type, o.sub)

OfferLists == UNION {[1 .. n -> Offers] : n \in 0 .. MaxOffers}

Labels == {"idle", "offers", "assign", "inserting", "copying", "done", "panicked"}

\* Between calls.
NoArgs    == [accept |-> [kind |-> "blank", medias |-> <<>>], offers |-> <<>>]
NoOutcome == [parsed |-> FALSE, valid |-> FALSE, selected |-> Blank]

TypeOK ==
    /\ pc \in [Callers -> Labels]
    /\ args \in [Callers -> [accept : AcceptHeader, offers : Seq(Offers)]]
    /\ mediaOffers \in [Callers -> Seq(MediaType)]
    /\ outcome \in [Callers -> Outcome]
    /\ DOMAIN offersCache \subseteq Keys
    /\ offersCache \in [DOMAIN offersCache -> MediaType]
    /\ crashed \in BOOLEAN

Init ==
    /\ pc = [p \in Callers |-> "idle"]
    /\ args = [p \in Callers |-> NoArgs]
    /\ mediaOffers = [p \in Callers |-> <<>>]
    /\ outcome = [p \in Callers |-> NoOutcome]
    /\ offersCache = [k \in {} |-> Blank]
    /\ crashed = FALSE

At(p, label) == ~crashed /\ pc[p] = label
Goto(p, label) == pc' = [pc EXCEPT ![p] = label]

-----------------------------------------------------------------------------
(* The call, and its checks *)

Refused(offers) ==
    \E i \in DOMAIN offers : offers[i].form \in {"wildcard", "semicolon"}

NegotiateContentType(p, accept, offers) ==
    /\ At(p, "idle")
    /\ args' = [args EXCEPT ![p] = [accept |-> accept, offers |-> offers]]
    /\ mediaOffers' = [mediaOffers EXCEPT ![p] = <<>>]
    /\ Goto(p, IF Refused(offers) THEN "panicked" ELSE "offers")
    /\ UNCHANGED <<outcome, offersCache, crashed>>

\* The offer p is at, in lower case.
Filled(p) == Len(mediaOffers[p]) = Len(args[p].offers)
Current(p) == ToLower(args[p].offers[Len(mediaOffers[p]) + 1])

Inserting(p) == \E q \in Callers \ {p} : pc[q] = "inserting"

\* The runtime notices an access during an insertion, and throws.
Throw(p) ==
    /\ \/ At(p, "offers") /\ ~Filled(p)
       \/ At(p, "assign")
    /\ Inserting(p)
    /\ crashed' = TRUE
    /\ UNCHANGED <<pc, args, mediaOffers, outcome, offersCache>>

Hit(p) ==
    /\ At(p, "offers")
    /\ ~Filled(p)
    /\ Current(p) \in DOMAIN offersCache
    /\ mediaOffers' = [mediaOffers EXCEPT ![p] = Append(@, offersCache[Current(p)])]
    /\ UNCHANGED <<pc, args, outcome, offersCache, crashed>>

\* strings.SplitN: only an offer without a "/" has less than two parts.
InvalidOffer(p) ==
    /\ At(p, "offers")
    /\ ~Filled(p)
    /\ Current(p) \notin DOMAIN offersCache
    /\ Current(p).form = "slashless"
    /\ Goto(p, "panicked")
    /\ UNCHANGED <<args, mediaOffers, outcome, offersCache, crashed>>

\* p is still at the missing offer until it has stored it.
Miss(p) ==
    /\ At(p, "offers")
    /\ ~Filled(p)
    /\ Current(p) \notin DOMAIN offersCache
    /\ Current(p).form # "slashless"
    /\ Goto(p, "assign")
    /\ UNCHANGED <<args, mediaOffers, outcome, offersCache, crashed>>

-----------------------------------------------------------------------------
(* offersCache[o] = mediaOffers[i] *)

AssignBegins(p) ==
    /\ At(p, "assign")
    /\ Goto(p, "inserting")
    /\ UNCHANGED <<args, mediaOffers, outcome, offersCache, crashed>>

Put(key, media) ==
    offersCache' = [k \in DOMAIN offersCache \cup {key} |->
                        IF k = key THEN media ELSE offersCache[k]]

Insert(p) ==
    /\ At(p, "inserting")
    /\ IF Current(p) \in DOMAIN offersCache
       THEN UNCHANGED offersCache
       ELSE Put(Current(p), Blank)
    /\ Goto(p, "copying")
    /\ UNCHANGED <<args, mediaOffers, outcome, crashed>>

\* mediaOffers[i], which the entry gets, is filled together with it.
Fill(p, media) ==
    /\ mediaOffers' = [mediaOffers EXCEPT ![p] = Append(@, media)]
    /\ Goto(p, "offers")
    /\ UNCHANGED <<args, outcome, crashed>>

\* Two insertions at once: the slot p writes to is not the map's.
InsertLost(p) ==
    /\ At(p, "inserting")
    /\ Inserting(p)
    /\ Fill(p, MediaOf(Current(p)))
    /\ UNCHANGED offersCache

\* Faulty variant: the entry is assigned before mediaOffers[i] is.
CopyValue_TooEarly(p) ==
    /\ At(p, "copying")
    /\ Put(Current(p), Blank)
    /\ Fill(p, MediaOf(Current(p)))

\* Faulty variant: the entry goes under the offer as it was spelled.
CopyValue_KeepsCase(p) ==
    /\ At(p, "copying")
    /\ Put(args[p].offers[Len(mediaOffers[p]) + 1], MediaOf(Current(p)))
    /\ Fill(p, MediaOf(Current(p)))

CopyValue(p) ==
    /\ At(p, "copying")
    /\ Put(Current(p), MediaOf(Current(p)))
    /\ Fill(p, MediaOf(Current(p)))

-----------------------------------------------------------------------------
(* NegotiateContentTypeWithMediaTypes *)

\* It is called with offers that are media types, as writeResponder does.
CallWithMediaTypes(p, accept, offers) ==
    /\ At(p, "idle")
    /\ \A i \in DOMAIN offers : offers[i].form = "plain" /\ ~offers[i].upper
    /\ args' = [args EXCEPT ![p] = [accept |-> accept, offers |-> offers]]
    /\ mediaOffers' = [mediaOffers EXCEPT ![p] =
                          [i \in DOMAIN offers |-> MediaOf(offers[i])]]
    /\ Goto(p, "offers")
    /\ UNCHANGED <<outcome, offersCache, crashed>>

Negotiate(p) ==
    /\ At(p, "offers")
    /\ Filled(p)
    /\ mediaOffers[p] # <<>>
    /\ outcome' = [outcome EXCEPT ![p] =
           NegotiateContentTypeWithMediaTypes(args[p].accept, mediaOffers[p])]
    /\ Goto(p, "done")
    /\ UNCHANGED <<args, mediaOffers, offersCache, crashed>>

RefuseEmpty(p) ==
    /\ At(p, "offers")
    /\ args[p].offers = <<>>
    /\ Goto(p, "panicked")
    /\ UNCHANGED <<args, mediaOffers, outcome, offersCache, crashed>>

\* The caller goes on, its panic recovered by net/http or by makeResponder.
Return(p) ==
    /\ At(p, "done") \/ At(p, "panicked")
    /\ Goto(p, "idle")
    /\ args' = [args EXCEPT ![p] = NoArgs]
    /\ mediaOffers' = [mediaOffers EXCEPT ![p] = <<>>]
    /\ outcome' = [outcome EXCEPT ![p] = NoOutcome]
    /\ UNCHANGED <<offersCache, crashed>>

FindOffer(p) == Hit(p) \/ InvalidOffer(p) \/ Miss(p)
StoreOffer(p) == AssignBegins(p) \/ Insert(p) \/ InsertLost(p) \/ CopyValue(p)

Next ==
    \E p \in Callers :
        \/ /\ At(p, "idle")
           /\ \E accept \in Accepts, offers \in OfferLists :
                \/ NegotiateContentType(p, accept, offers)
                \/ CallWithMediaTypes(p, accept, offers)
        \/ FindOffer(p) \/ StoreOffer(p) \/ Throw(p)
        \/ Negotiate(p) \/ RefuseEmpty(p) \/ Return(p)

Spec == Init /\ [][Next]_vars

-----------------------------------------------------------------------------
(* What makes it correct *)

Returned(p) == pc[p] = "done"
Negotiated(p) == Returned(p) /\ args[p].accept.kind = "ranges"
Medias(p) == args[p].accept.medias
MatchesOneOf(m, offers) == \E i \in DOMAIN offers : matches(m, offers[i])

\* An entry is what its key parses to, or still blank because the caller that
\* inserted it has not copied the element yet.
CacheSound ==
    \A k \in DOMAIN offersCache :
        \/ offersCache[k] = MediaOf(k)
        \/ /\ offersCache[k] = Blank
           /\ \E p \in Callers : pc[p] = "copying" /\ Current(p) = k

\* The media type a call returns is one of those it was given, through the
\* cache, the sort, the tie and the fallback.
SelectedIsOffered ==
    \A p \in Callers : Returned(p) =>
        \E i \in DOMAIN args[p].offers :
            TypeName(outcome[p].selected) = TypeName(MediaOf(args[p].offers[i]))

\* A range that matches an offer only loses to one of a lower or the same
\* rank, or when it shares its rank with another (breakTie).
LeastRankSelected ==
    \A p \in Callers : Negotiated(p) /\ outcome[p].valid =>
        \A i \in DOMAIN Medias(p) :
            MatchesOneOf(Medias(p)[i], mediaOffers[p]) =>
                \/ rank(outcome[p].selected) <= rank(Medias(p)[i])
                \/ \E j \in DOMAIN Medias(p) \ {i} :
                        rank(Medias(p)[j]) = rank(Medias(p)[i])

\* In which order a client lists ranges of different ranks does not matter.
OrderIrrelevant ==
    \A p \in Callers : Negotiated(p) =>
        LET medias   == Medias(p)
            indices  == DOMAIN medias
            orders   == {f \in [indices -> indices] :
                            \A i, j \in indices : f[i] = f[j] => i = j}
        IN  (\A i, j \in indices : rank(medias[i]) = rank(medias[j]) => i = j) =>
                \A f \in orders :
                    outcome[p] = NegotiateContentTypeWithMediaTypes(
                        [kind |-> "ranges", medias |-> [i \in indices |-> medias[f[i]]]],
                        mediaOffers[p])

\* A vendored offer is only negotiated for a client that names its subtype.
VendorOnlyByName ==
    \A p \in Callers :
        Negotiated(p) /\ outcome[p].valid /\ outcome[p].selected.sub \in Vendored =>
            \E i \in DOMAIN Medias(p) : Medias(p)[i].sub = outcome[p].selected.sub

\* What a client gets that accepts none of the offers, or says nothing, is
\* vendored only if every offer is.
FallbackAvoidsVendors ==
    \A p \in Callers :
        /\ Returned(p)
        /\ ~outcome[p].valid \/ args[p].accept.kind = "blank"
        /\ outcome[p].selected.vendor
        => \A i \in DOMAIN mediaOffers[p] : mediaOffers[p][i].vendor
=============================================================================
