----------------------- MODULE DocumentedNegotiation -----------------------
(***************************************************************************)
(* What a test of src/content_type.go says of negotiation, as a property of*)
(* properties of OffersCache the code does not satisfy.                    *)
(***************************************************************************)
EXTENDS OffersCache

\* The ranges the client sent that match one of offers.
RangesFor(p, offers) ==
    {m \in {Medias(p)[i] : i \in DOMAIN Medias(p)} : MatchesOneOf(m, offers)}

\* The test case of src/content_type_test.go:214: "media type with highest
\* associated quality factor should win, not necessarily most specific".
HighestQualityWins ==
    \A p \in Callers : Negotiated(p) /\ outcome[p].valid =>
        \A m \in RangesFor(p, mediaOffers[p]) :
            \E n \in RangesFor(p, SelectSeq(mediaOffers[p], LAMBDA o :
                                    TypeName(o) = TypeName(outcome[p].selected))) :
                m.weight <= n.weight
=============================================================================
