--------------------------- MODULE MCAcceptParser ---------------------------
(* Instances of AcceptParser for TLC. *)
EXTENDS DocumentedAcceptParser, SequencesExt

CONSTANTS MaxLength

MCQuality == [text \in {<<"1">>, <<"1", "1">>} |-> Len(text)]

-----------------------------------------------------------------------------
(* Any text *)

MCSomeChars == {"a", "/", ",", ";", "=", "quote", "backslash", "blank"}

MCTexts ==
    {[text |-> text, written |-> <<>>] :
        text \in UNION {[1 .. n -> MCSomeChars] : n \in 0 .. MaxLength}}
    \cup {[text |-> text, written |-> <<>>] :
             text \in {<<"*">>, <<"other">>, <<"a", "/", "other">>}}

-----------------------------------------------------------------------------
(* Texts written from the ranges they list *)

Param(key, value, quoted) == [key |-> key, value |-> value, quoted |-> quoted]

MCParams ==
    {Param(<<"q">>, <<"1">>, FALSE), Param(<<"q">>, <<"a">>, TRUE),
     Param(<<"a">>, <<"a", "quote">>, FALSE),
     Param(<<"a">>, <<"blank", ",", "quote", "backslash", ";">>, TRUE)}

MCListings ==
    LET params == UNION {[1 .. n -> MCParams] : n \in 0 .. 2}
        ranges == [type : {<<"a">>, <<"*">>}, sub : {<<"A", "+", "q">>}, params : params]
    IN  UNION {[1 .. n -> ranges] : n \in 1 .. 2}

Escaped(value) ==
    FlattenSeq([i \in DOMAIN value |->
        IF value[i] = "quote" THEN <<"backslash", "quote">> ELSE <<value[i]>>])

\* sep stands on both sides of "," and ";".
ParamText(p, sep) ==
    sep \o <<";">> \o sep \o p.key \o <<"=">> \o
        (IF p.quoted THEN <<"quote">> \o Escaped(p.value) \o <<"quote">> ELSE p.value)

ParamsText(params, sep) == FlattenSeq([j \in DOMAIN params |-> ParamText(params[j], sep)])

RangeText(r, sep) == r.type \o <<"/">> \o r.sub \o ParamsText(r.params, sep)

ListText(listing, sep) ==
    FlattenSeq([i \in DOMAIN listing |->
        (IF i = 1 THEN <<>> ELSE sep \o <<",">> \o sep) \o RangeText(listing[i], sep)])

\* The places of what is written behind before.
ParamAt(p, sep, before) ==
    LET semi == before + Len(sep) + 1
        eq   == semi + Len(sep) + Len(p.key) + 1
    IN  [key |-> p.key, value |-> p.value, semi |-> semi, eq |-> eq,
         open  |-> IF p.quoted THEN eq + 1 ELSE 0,
         close |-> IF p.quoted THEN eq + 2 + Len(Escaped(p.value)) ELSE 0]

RangeAt(r, sep, before, first) ==
    LET slash == before + Len(r.type) + 1
        ahead(j) == slash + Len(r.sub) + Len(ParamsText(SubSeq(r.params, 1, j - 1), sep))
    IN  [type |-> r.type, sub |-> r.sub, first |-> first, slash |-> slash,
         params |-> [j \in DOMAIN r.params |-> ParamAt(r.params[j], sep, ahead(j))]]

Places(listing, sep) ==
    LET behind(i) == Len(ListText(SubSeq(listing, 1, i - 1), sep))
    IN  [i \in DOMAIN listing |->
            IF i = 1 THEN RangeAt(listing[1], sep, 0, 1)
            ELSE RangeAt(listing[i], sep, behind(i) + 2 * Len(sep) + 1, behind(i) + Len(sep) + 2)]

MCWritten ==
    {[text |-> ListText(listing, sep), written |-> Places(listing, sep)] :
        listing \in MCListings, sep \in {<<>>, <<"blank">>}}

MCHeaders == MCTexts \cup MCWritten
=============================================================================
