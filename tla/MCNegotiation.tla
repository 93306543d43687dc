--------------------------- MODULE MCNegotiation ---------------------------
(* Instances of OffersCache for TLC. *)
EXTENDS DocumentedNegotiation

MCNames    == {"", "*", "app", "text", "json", "html", "x+json"}
MCVendored == {"x+json"}

MCOneCaller  == {"c1"}
MCTwoCallers == {"c1", "c2"}

\* One range of each specificity and more, with and without q.
MCRanges ==
    {ParsedRange("text", "html", <<>>, 0),
     ParsedRange("text", "html", <<1>>, 0),
     ParsedRange("app", "json", <<>>, 0),
     ParsedRange("app", "json", <<0>>, 0),
     ParsedRange("app", "json", <<2>>, 1),
     ParsedRange("app", "x+json", <<>>, 0),
     ParsedRange("*", "json", <<4>>, 0),
     ParsedRange("*", "x+json", <<2, 4>>, 0),
     ParsedRange("text", "*", <<>>, 0),
     ParsedRange("app", "*", <<1>>, 0),
     ParsedRange("*", "*", <<>>, 0),
     ParsedRange("*", "*", <<3>>, 1)}

MCAcceptsUpTo(n) ==
    [kind : {"blank", "malformed"}, medias : {<<>>}]
    \cup [kind : {"ranges"}, medias : UNION {[1 .. k -> MCRanges] : k \in 1 .. n}]

MCAccepts == MCAcceptsUpTo(3)
MCTwoRanges == MCAcceptsUpTo(2)

\* For the concurrent instances, an Accept that matches and one that is absent.
MCFewAccepts ==
    {[kind |-> "blank", medias |-> <<>>],
     [kind |-> "ranges", medias |-> <<ParsedRange("app", "json", <<>>, 0)>>]}

Offer(type, sub, form, upper) ==
    [type |-> type, sub |-> sub, form |-> form, upper |-> upper]

MCPlainOffers ==
    {Offer("text", "html", "plain", FALSE), Offer("app", "json", "plain", FALSE),
     Offer("app", "x+json", "plain", FALSE)}

\* Two spellings of one key, one that is refused, one that is invalid, one
\* that should be.
MCOddOffers ==
    {Offer("app", "json", "plain", FALSE), Offer("app", "json", "plain", TRUE),
     Offer("app", "*", "wildcard", FALSE), Offer("app", "", "slashless", FALSE),
     Offer("text", "", "plain", FALSE)}
=============================================================================
