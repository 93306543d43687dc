---------------------------- MODULE Negotiation ----------------------------
(***************************************************************************)
(* NegotiateContentTypeWithMediaTypes (src/content_type.go): the ranges of *)
(* the Accept header in ascending rank, a tie at the front broken by       *)
(* dropping one of the two, the first range that matches an offer.         *)
(***************************************************************************)
EXTENDS MediaTypes, FiniteSets

\* An Accept header: absent, not parsed, or the ranges it lists.
AcceptHeader == [kind : {"blank", "malformed"}, medias : {<<>>}]
                \cup [kind : {"ranges"}, medias : Seq(Ranges) \ {<<>>}]

Outcome == [parsed : BOOLEAN, valid : BOOLEAN, selected : MediaType]

First(S) == CHOOSE i \in S : \A j \in S : i <= j

\* Faulty variant: a vendored type is as good as another.
preferablyNonVendorOffer_First(offers) == offers[1]

preferablyNonVendorOffer(offers) ==
    LET plain == {i \in DOMAIN offers : ~offers[i].vendor}
    IN  IF plain = {} THEN offers[1] ELSE offers[First(plain)]

Precedes(medias, i, j) ==
    \/ rank(medias[i]) < rank(medias[j])
    \/ rank(medias[i]) = rank(medias[j]) /\ i < j

\* Faulty variant: no sort.
sortByRank_Unsorted(medias) == medias

\* sort.SliceStable: each range goes behind all that precede it.
Ahead(medias, i) == {j \in DOMAIN medias : Precedes(medias, j, i)}

Place(medias, k) ==
    CHOOSE i \in DOMAIN medias : Cardinality(Ahead(medias, i)) = k - 1

sortByRank(medias) == [k \in DOMAIN medias |-> medias[Place(medias, k)]]

\* Of two ranges that share the lowest rank one goes, before any offer was
\* looked at.
breakTie(medias) ==
    IF Len(medias) < 2 \/ rank(medias[1]) # rank(medias[2])
    THEN medias
    ELSE IF medias[1].vendor /\ ~medias[2].vendor
    THEN <<medias[1]>> \o SubSeq(medias, 3, Len(medias))
    ELSE Tail(medias)

\* Faulty variant: offers in the outer loop.
FirstMatch_OffersFirst(medias, offers) ==
    LET fits == {p \in (DOMAIN medias) \X (DOMAIN offers) :
                    matches(medias[p[1]], offers[p[2]])}
    IN  CHOOSE p \in fits : \A s \in fits :
            p[2] < s[2] \/ (p[2] = s[2] /\ p[1] <= s[1])

\* The pair the two nested loops find.
FirstMatch(medias, offers) ==
    LET fits == {p \in (DOMAIN medias) \X (DOMAIN offers) :
                    matches(medias[p[1]], offers[p[2]])}
    IN  CHOOSE p \in fits : \A s \in fits :
            p[1] < s[1] \/ (p[1] = s[1] /\ p[2] <= s[2])

Matching(medias, offers) ==
    \E i \in DOMAIN medias, j \in DOMAIN offers : matches(medias[i], offers[j])

\* Faulty variant: the range's own names, wildcards and all.
Selection_OfRange(m, o) == [m EXCEPT !.vendor = FALSE]

\* The type of the offer with the rest of the range; IsVendor is not filled.
Selection(m, o) == [m EXCEPT !.type = o.type, !.sub = o.sub, !.vendor = FALSE]

doNegotiation(medias, offers) ==
    LET kept == breakTie(medias)
        pair == FirstMatch(kept, offers)
    IN  IF Matching(kept, offers)
        THEN [parsed |-> TRUE, valid |-> TRUE,
              selected |-> Selection(kept[pair[1]], offers[pair[2]])]
        ELSE [parsed |-> TRUE, valid |-> FALSE,
              selected |-> preferablyNonVendorOffer(offers)]

NegotiateContentTypeWithMediaTypes(accept, offers) ==
    CASE accept.kind = "blank" ->
            [parsed |-> TRUE, valid |-> TRUE,
             selected |-> preferablyNonVendorOffer(offers)]
      [] accept.kind = "malformed" ->
            [parsed |-> FALSE, valid |-> FALSE,
             selected |-> preferablyNonVendorOffer(offers)]
      [] accept.kind = "ranges" ->
            doNegotiation(sortByRank(accept.medias), offers)
=============================================================================
