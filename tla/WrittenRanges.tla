--------------------------- MODULE WrittenRanges ---------------------------
(***************************************************************************)
(* What it means that ranges are written in the text of an Accept header,  *)
(* by the places of their parts, whatever reads the text.                  *)
(*                                                                         *)
(* A text is a sequence of characters, of which as many are told apart as  *)
(* src/content_type.go does.                                               *)
(***************************************************************************)
EXTENDS Integers, Sequences, FiniteSets

\* Letters in both cases, "q" and digits; "other" is in no name.
NameChars == {"a", "A", "q", "1", "+", "*"}
Chars == NameChars \cup
         {"/", ",", ";", "=", "quote", "backslash", "blank", "other"}
Text == Seq(Chars)

-----------------------------------------------------------------------------
(* Names in a text *)

\* The characters at these places, in their order, are name.
Spell(text, places, name) ==
    /\ Len(name) = Cardinality(places)
    /\ \A k \in places : name[Cardinality({l \in places : l <= k})] = text[k]

\* Blanks stand in names.
Told(text, i, j) == {k \in i .. j - 1 : text[k] # "blank"}

\* Position i of the text starts name, which ends before j.
Spells(text, i, j, name) == Spell(text, Told(text, i, j), name)

\* In quotes a blank counts, and a backslash does unless a quote follows.
ToldInQuotes(text, i, j) ==
    {k \in i .. j - 1 : ~(text[k] = "backslash" /\ text[k + 1] = "quote")}

AllBlank(text, i, j) == \A k \in i .. j - 1 : text[k] = "blank"

-----------------------------------------------------------------------------
(* Ranges in a text *)

\* semi, eq: where ";" and "=" are.  open, close: where the quotes are, or 0.
Params == [key : Text, value : Text, semi : Nat, eq : Nat, open : Nat, close : Nat]

\* first: where the range starts, behind the last one's ",".  slash: where "/" is.
WrittenRange == [type : Text, sub : Text, params : Seq(Params), first : Nat, slash : Nat]

IsQuoted(p) == p.open # 0

\* Where the range ends, and where its j-th parameter does: at the "," or ";"
\* behind it, or behind the text.  Its subtype is part 0.
EndOfRange(text, ranges, i) ==
    IF i = Len(ranges) THEN Len(text) + 1 ELSE ranges[i + 1].first - 1

EndOfPart(text, ranges, i, j) ==
    IF j = Len(ranges[i].params) THEN EndOfRange(text, ranges, i)
                                 ELSE ranges[i].params[j + 1].semi

PlainValueIn(text, p, end) ==
    /\ p.value # <<>> /\ p.value[1] # "quote"
    /\ \A k \in p.eq + 1 .. end - 1 : text[k] \notin {",", ";"}
    /\ Spells(text, p.eq + 1, end, p.value)

QuotedValueIn(text, p, end) ==
    /\ p.eq < p.open /\ p.open < p.close /\ p.close < end
    /\ text[p.open] = "quote" /\ text[p.close] = "quote"
    /\ AllBlank(text, p.eq + 1, p.open) /\ AllBlank(text, p.close + 1, end)
    /\ \A k \in p.open + 1 .. p.close - 1 :
            text[k] = "quote" => p.open < k - 1 /\ text[k - 1] = "backslash"
    /\ p.open < p.close - 1 => text[p.close - 1] # "backslash"
    /\ Spell(text, ToldInQuotes(text, p.open + 1, p.close), p.value)

ParamIn(text, p, end) ==
    /\ p.semi < p.eq /\ p.eq < end
    /\ text[p.semi] = ";" /\ text[p.eq] = "="
    /\ \A k \in p.semi + 1 .. p.eq - 1 : text[k] # "="
    /\ Spells(text, p.semi + 1, p.eq, p.key)
    /\ IF IsQuoted(p) THEN QuotedValueIn(text, p, end) ELSE PlainValueIn(text, p, end)

NamesIn(text, r, end) ==
    /\ r.first <= r.slash /\ r.slash < end
    /\ text[r.slash] = "/"
    /\ \A k \in (r.first .. end - 1) \ {r.slash} : text[k] \in NameChars \cup {"blank"}
    /\ r.type # <<>> /\ Spells(text, r.first, r.slash, r.type)
    /\ r.sub # <<>> /\ Spells(text, r.slash + 1, end, r.sub)

\* The i-th range, behind which another one starts.
RangeIn(text, ranges, i) ==
    /\ i < Len(ranges) =>
        /\ EndOfRange(text, ranges, i) \in DOMAIN text
        /\ text[EndOfRange(text, ranges, i)] = ","
    /\ NamesIn(text, ranges[i], EndOfPart(text, ranges, i, 0))
    /\ \A j \in DOMAIN ranges[i].params :
        /\ ranges[i].params[j].semi \in DOMAIN text
        /\ ParamIn(text, ranges[i].params[j], EndOfPart(text, ranges, i, j))

\* The ranges fill the text, one behind the other.
WrittenIn(text, ranges) ==
    /\ ranges \in Seq(WrittenRange)
    /\ ranges[1].first = 1
    /\ \A i \in DOMAIN ranges : RangeIn(text, ranges, i)

\* params has the values of the first n that are written, those of one key in
\* their order.
HasParams(params, written, n) ==
    /\ DOMAIN params = {written[j].key : j \in 1 .. n}
    /\ \A j \in 1 .. n :
        LET own == {k \in 1 .. n : written[k].key = written[j].key}
        IN  /\ Len(params[written[j].key]) = Cardinality(own)
            /\ params[written[j].key][Cardinality({k \in own : k <= j})] = written[j].value

IsAsWritten(m, r) ==
    /\ m.type = r.type /\ m.sub = r.sub
    /\ HasParams(m.params, r.params, Len(r.params))
=============================================================================
