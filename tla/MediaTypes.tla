---------------------------- MODULE MediaTypes ----------------------------
(***************************************************************************)
(* MediaType of src/content_type.go: an offer of the application or a range*)
(* of an Accept header, its rank, and which offers a range matches.        *)
(*                                                                         *)
(* Of Parameters only their number is kept.  Weights count quarters, which *)
(* float32 represents exactly: a rank is never rounded.                    *)
(***************************************************************************)
EXTENDS Integers, Sequences

CONSTANTS
    Names,      \* names of types and subtypes in lower case
    Vendored,   \* the subtypes with a "+"
    Wildcard,   \* the name "*"
    NoName      \* the empty name

ASSUME NamesAssumption    == {NoName, Wildcard} \subseteq Names
ASSUME VendoredAssumption == Vendored \subseteq Names \ {NoName, Wildcard}

Specificities == {"full", "partial", "undefined"}

MediaType == [type        : Names,
              sub         : Names,
              params      : Nat,
              weight      : Int,
              specificity : Specificities,
              vendor      : BOOLEAN]

\* q=1.
FullWeight == 4

\* Go's zero value.
Blank == [type |-> NoName, sub |-> NoName, params |-> 0, weight |-> 0,
          specificity |-> "full", vendor |-> FALSE]

\* Names with wildcards get no special treatment here.
MediaTypeFromString(type, sub) ==
    [type |-> type, sub |-> sub, params |-> 0, weight |-> FullWeight,
     specificity |-> "full", vendor |-> sub \in Vendored]

specificityOf(type, sub) ==
    CASE type = Wildcard /\ sub = Wildcard -> "undefined"
      [] type # Wildcard /\ sub # Wildcard -> "full"
      [] OTHER                                 -> "partial"

\* A range of an Accept header, unlike any other MediaType.
IsRange(m) ==
    /\ m.specificity = specificityOf(m.type, m.sub)
    /\ m.vendor = (m.sub \in Vendored)

Ranges == {m \in MediaType : IsRange(m)}

\* What parseAcceptHeader makes of a range: q holds the values of its "q"
\* parameter, of which the first counts, others the number of the rest.
ParsedRange(type, sub, q, others) ==
    [type        |-> type,
     sub         |-> sub,
     params      |-> others + (IF q = <<>> THEN 0 ELSE 1),
     weight      |-> IF q = <<>> THEN FullWeight ELSE Head(q),
     specificity |-> specificityOf(type, sub),
     vendor      |-> sub \in Vendored]

rank(m) ==
    (CASE m.specificity = "undefined" -> m.params
       [] m.specificity = "partial"   -> m.params + 1
       [] m.specificity = "full"      -> m.params + 2) * m.weight

\* Faulty variant: a wildcard matches vendored offers too.
matches_Vendored(m, o) ==
    CASE m.specificity = "full"      -> o.type = m.type /\ o.sub = m.sub
      [] m.specificity = "partial"   -> \/ m.type = Wildcard /\ o.sub = m.sub
                                        \/ m.type # Wildcard /\ o.type = m.type
      [] m.specificity = "undefined" -> TRUE

\* Only */* looks at the offer alone; a wildcard subtype has no "+", so it
\* never matches a vendored offer.
matches(m, o) ==
    CASE m.specificity = "undefined" -> ~o.vendor
      [] m.specificity = "partial"   ->
            /\ o.vendor = m.vendor
            /\ IF m.type = Wildcard THEN o.sub = m.sub ELSE o.type = m.type
      [] m.specificity = "full"      ->
            o.vendor = m.vendor /\ o.type = m.type /\ o.sub = m.sub

\* MediaType.Type: the key of writeResponder's table.
TypeName(m) == <<m.type, m.sub>>
=============================================================================
