---------------------------- MODULE AcceptParser ----------------------------
(***************************************************************************)
(* parseAcceptHeader (src/content_type.go), a character at a time, with the*)
(* special cases NegotiateContentTypeWithMediaTypes makes before it: from  *)
(* the text of an Accept header to the AcceptHeader Negotiation ranks.     *)
(***************************************************************************)
EXTENDS WrittenRanges

CONSTANTS
    Headers,   \* headers a client may send: a text, the ranges written in it
    Quality    \* the texts strconv.ParseFloat accepts, to quarters

\* A range as the first loop of parseAcceptHeader leaves it: Parameters is a
\* partial function from a key to its values.
IsRaw(m) ==
    /\ DOMAIN m = {"type", "sub", "params"}
    /\ m.type \in Text /\ m.sub \in Text
    /\ DOMAIN m.params \subseteq Text
    /\ IsFiniteSet(DOMAIN m.params)
    /\ \A key \in DOMAIN m.params : m.params[key] \in Seq(Text) \ {<<>>}

\* A client may send any text; of those without ranges nothing more is said.
ASSUME HeadersAssumption ==
    \A h \in Headers :
        /\ h.text \in Text
        /\ h.written # <<>> => WrittenIn(h.text, h.written)
ASSUME QualityAssumption == \A text \in DOMAIN Quality : Quality[text] \in Int

Ranked == INSTANCE Negotiation
            WITH Names    <- Text,
                 Vendored <- {name \in Text : \E i \in DOMAIN name : name[i] = "+"},
                 Wildcard <- <<"*">>,
                 NoName   <- <<>>

VARIABLES
    header,    \* the header being parsed
    s,         \* its text, as handed to parseAcceptHeader
    cur,       \* the character at which the loop is, from 1
    st,        \* the state of the parser, "idle" and "done" outside of it
    tmpStr, tmpKey, tmpMedia,
    result,    \* the ranges found
    outcome    \* what is handed to the ranking

tmps == <<tmpStr, tmpKey, tmpMedia>>
vars == <<header, s, cur, st, tmps, result, outcome>>

States == {"type", "subtype", "separator", "key", "value", "quoted"}

NoHeader == [text |-> <<>>, written |-> <<>>]
NoMedia  == [type |-> <<>>, sub |-> <<>>, params |-> [key \in {} |-> <<>>]]

Blank     == [kind |-> "blank", medias |-> <<>>]
Malformed == [kind |-> "malformed", medias |-> <<>>]

TypeOK ==
    /\ s \in Text
    /\ cur \in Nat \ {0}
    /\ st \in States \cup {"idle", "done"}
    /\ tmpStr \in Text /\ tmpKey \in Text /\ IsRaw(tmpMedia)
    /\ \A i \in DOMAIN result : IsRaw(result[i])
    /\ outcome \in Ranked!AcceptHeader

Init ==
    /\ header = NoHeader
    /\ s = <<>> /\ cur = 1 /\ st = "idle"
    /\ tmpStr = <<>> /\ tmpKey = <<>> /\ tmpMedia = NoMedia
    /\ result = <<>>
    /\ outcome = Blank

-----------------------------------------------------------------------------
(* Before the parser *)

Receive(h) ==
    /\ st = "idle"
    /\ header' = h
    /\ s' = IF h.text = <<"*">> THEN <<"*", "/", "*">> ELSE h.text
    /\ st' = IF AllBlank(h.text, 1, Len(h.text) + 1) THEN "done" ELSE "type"
    /\ UNCHANGED <<cur, tmps, result, outcome>>

Return ==
    /\ st = "done"
    /\ header' = NoHeader
    /\ s' = <<>> /\ cur' = 1 /\ st' = "idle"
    /\ tmpStr' = <<>> /\ tmpKey' = <<>> /\ tmpMedia' = NoMedia
    /\ result' = <<>>
    /\ outcome' = Blank

-----------------------------------------------------------------------------
(* The loop over the characters *)

Here == s[cur]

\* Blanks are only seen between quotes.
Reading(state) ==
    /\ st = state
    /\ cur <= Len(s)
    /\ state = "quoted" \/ Here # "blank"

Advance(state) == st' = state /\ cur' = cur + 1 /\ UNCHANGED <<header, s, outcome>>

Keep(char) == tmpStr' = Append(tmpStr, char) /\ UNCHANGED <<tmpKey, tmpMedia, result>>

Refuse ==
    /\ st' = "done"
    /\ outcome' = Malformed
    /\ UNCHANGED <<header, s, cur, tmps, result>>

\* Faulty variant: a range of which half is missing is a range.
Complete_Half(m) == m.type # <<>> \/ m.sub # <<>>

\* appendResult does nothing for a range without a name, and leaves it there.
Complete(m) == m.type # <<>> /\ m.sub # <<>>

appendResult(m) ==
    IF Complete(m)
    THEN tmpMedia' = NoMedia /\ result' = Append(result, m)
    ELSE tmpMedia' = m /\ UNCHANGED result

\* appendParam
WithParam(m) ==
    LET values == IF tmpKey \in DOMAIN m.params THEN m.params[tmpKey] ELSE <<>>
    IN  [m EXCEPT !.params = [key \in DOMAIN m.params \cup {tmpKey} |->
             IF key = tmpKey THEN Append(values, tmpStr) ELSE m.params[key]]]

WithSubType(m) == [m EXCEPT !.sub = tmpStr]

\* Faulty variant: continue without cur++.
Skip_Stays ==
    /\ st \in States \ {"quoted"}
    /\ cur <= Len(s)
    /\ Here = "blank"
    /\ UNCHANGED vars

Skip ==
    /\ st \in States \ {"quoted"}
    /\ cur <= Len(s)
    /\ Here = "blank"
    /\ Advance(st)
    /\ UNCHANGED <<tmps, result>>

ReadType ==
    /\ Reading("type")
    /\ \/ /\ Here = "/"
          /\ Advance("subtype")
          /\ tmpMedia' = [tmpMedia EXCEPT !.type = tmpStr]
          /\ tmpStr' = <<>>
          /\ UNCHANGED <<tmpKey, result>>
       \/ Here \in NameChars /\ Keep(Here) /\ Advance("type")
       \/ Here \notin NameChars \cup {"/"} /\ Refuse

ReadSubType ==
    /\ Reading("subtype")
    /\ \/ Here \in {",", ";"} /\ tmpStr = <<>> /\ Refuse
       \/ /\ Here \in {",", ";"} /\ tmpStr # <<>>
          /\ tmpStr' = <<>>
          /\ IF Here = ","
             THEN appendResult(WithSubType(tmpMedia)) /\ Advance("type")
             ELSE /\ tmpMedia' = WithSubType(tmpMedia) /\ Advance("key")
                  /\ UNCHANGED result
          /\ UNCHANGED tmpKey
       \/ Here \in NameChars /\ Keep(Here) /\ Advance("subtype")
       \/ Here \notin NameChars \cup {",", ";"} /\ Refuse

\* Anything but "=" belongs to the key, "," and ";" too.
ReadKey ==
    /\ Reading("key")
    /\ \/ /\ Here = "="
          /\ Advance("value")
          /\ tmpKey' = tmpStr
          /\ tmpStr' = <<>>
          /\ UNCHANGED <<tmpMedia, result>>
       \/ Here # "=" /\ Keep(Here) /\ Advance("key")

\* Faulty variant: the parameter ends, the range does not.
ReadValue_Merges ==
    /\ Reading("value")
    /\ \/ /\ Here = "quote" /\ tmpStr = <<>>
          /\ Advance("quoted")
          /\ UNCHANGED <<tmps, result>>
       \/ /\ Here \in {",", ";"}
          /\ tmpStr' = <<>> /\ tmpKey' = <<>>
          /\ tmpMedia' = WithParam(tmpMedia)
          /\ Advance(IF Here = "," THEN "type" ELSE "key")
          /\ UNCHANGED result
       \/ /\ Here \notin {",", ";"}
          /\ Here = "quote" => tmpStr # <<>>
          /\ Keep(Here) /\ Advance("value")

ReadValue ==
    /\ Reading("value")
    /\ \/ /\ Here = "quote" /\ tmpStr = <<>>
          /\ Advance("quoted")
          /\ UNCHANGED <<tmps, result>>
       \/ /\ Here \in {",", ";"}
          /\ tmpStr' = <<>> /\ tmpKey' = <<>>
          /\ IF Here = ","
             THEN appendResult(WithParam(tmpMedia)) /\ Advance("type")
             ELSE /\ tmpMedia' = WithParam(tmpMedia) /\ Advance("key")
                  /\ UNCHANGED result
       \/ /\ Here \notin {",", ";"}
          /\ Here = "quote" => tmpStr # <<>>
          /\ Keep(Here) /\ Advance("value")

\* A backslash only escapes a quote.
ReadQuoted ==
    /\ Reading("quoted")
    /\ \/ Here = "backslash" /\ cur = Len(s) /\ Refuse
       \/ /\ Here = "backslash" /\ cur < Len(s) /\ s[cur + 1] = "quote"
          /\ Keep("quote")
          /\ cur' = cur + 2
          /\ UNCHANGED <<header, s, st, outcome>>
       \/ /\ Here = "quote"
          /\ Advance("separator")
          /\ tmpStr' = <<>> /\ tmpKey' = <<>>
          /\ tmpMedia' = WithParam(tmpMedia)
          /\ UNCHANGED result
       \/ /\ Here # "quote"
          /\ Here = "backslash" => cur < Len(s) /\ s[cur + 1] # "quote"
          /\ Keep(Here) /\ Advance("quoted")

\* The range is not appended at a "," here.
ReadSeparator ==
    /\ Reading("separator")
    /\ \/ Here = ";" /\ Advance("key") /\ UNCHANGED <<tmps, result>>
       \/ Here = "," /\ Advance("type") /\ UNCHANGED <<tmps, result>>
       \/ Here \notin {",", ";"} /\ Refuse

-----------------------------------------------------------------------------
(* The end of the header *)

\* A text that ends in the middle of a key or a quote, or in an empty value or
\* subtype; one that ends in a type is accepted without it.
EndsEarly == st \in {"key", "quoted"} \/ (st \in {"value", "subtype"} /\ tmpStr = <<>>)

LastRange ==
    CASE st = "value"   -> WithParam(tmpMedia)
      [] st = "subtype" -> WithSubType(tmpMedia)
      [] OTHER          -> tmpMedia

lower(name) == [i \in DOMAIN name |-> IF name[i] = "A" THEN "a" ELSE name[i]]

QKey == <<"q">>

\* The second loop: weight, specificity, lower case.
Weighed(m) ==
    Ranked!ParsedRange(
        lower(m.type), lower(m.sub),
        IF QKey \in DOMAIN m.params THEN <<Quality[m.params[QKey][1]]>> ELSE <<>>,
        Cardinality(DOMAIN m.params \ {QKey}))

IsWeighed(m) == QKey \in DOMAIN m.params => m.params[QKey][1] \in DOMAIN Quality

\* Faulty variant: no ranges are ranges.
Weigh_Nothing(ranges) ==
    IF \E i \in DOMAIN ranges : ~IsWeighed(ranges[i])
    THEN Malformed
    ELSE [kind |-> "ranges", medias |-> [i \in DOMAIN ranges |-> Weighed(ranges[i])]]

Weigh(ranges) ==
    IF ranges = <<>> \/ \E i \in DOMAIN ranges : ~IsWeighed(ranges[i])
    THEN Malformed
    ELSE [kind |-> "ranges", medias |-> [i \in DOMAIN ranges |-> Weighed(ranges[i])]]

EndOfHeader ==
    /\ st \in States
    /\ cur > Len(s)
    /\ \/ EndsEarly /\ Refuse
       \/ /\ ~EndsEarly
          /\ appendResult(LastRange)
          /\ outcome' = Weigh(result')
          /\ st' = "done"
          /\ UNCHANGED <<header, s, cur, tmpStr, tmpKey>>

parseAcceptHeader ==
    \/ Skip \/ ReadType \/ ReadSubType \/ ReadKey \/ ReadValue
    \/ ReadQuoted \/ ReadSeparator \/ EndOfHeader

Next ==
    \/ st = "idle" /\ \E h \in Headers : Receive(h)
    \/ parseAcceptHeader
    \/ Return

Spec == Init /\ [][Next]_vars /\ WF_vars(parseAcceptHeader)

-----------------------------------------------------------------------------
(* What makes it correct *)

Parsed == st = "done" /\ outcome.kind = "ranges"

\* A range is never made of two: its type and subtype stand on either side of
\* one "/", whatever was read before them, and neither is empty.
RangesStandInText ==
    Parsed => \A k \in DOMAIN result :
        /\ result[k].type # <<>> /\ result[k].sub # <<>>
        /\ \E i, j \in 1 .. Len(s) + 1, slash \in DOMAIN s :
            /\ i <= slash /\ slash < j /\ s[slash] = "/"
            /\ Spells(s, i, slash, result[k].type)
            /\ Spells(s, slash + 1, j, result[k].sub)

\* A range that ends in a quoted value, followed by another.
QuoteBeforeComma ==
    \E i \in 1 .. Len(header.written) - 1 :
        LET params == header.written[i].params
        IN  params # <<>> /\ IsQuoted(params[Len(params)])

\* A header that ranges are written in is parsed into those ranges, each with
\* its own parameters in their order, with quoted values taken out of their
\* quotes; it is refused only for a weight that is no number.
ListedIsParsed ==
    st = "done" /\ header.written # <<>> /\ ~QuoteBeforeComma =>
        /\ Len(result) = Len(header.written)
        /\ \A i \in DOMAIN result : IsAsWritten(result[i], header.written[i])
        /\ outcome.kind = "malformed" <=> \E i \in DOMAIN result : ~IsWeighed(result[i])

\* The loop ends for every text: each branch moves on, also those that
\* continue early.
ParserEnds == st = "type" ~> st = "done"
=============================================================================
