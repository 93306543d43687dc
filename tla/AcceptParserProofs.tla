------------------------- MODULE AcceptParserProofs -------------------------
(***************************************************************************)
(* Theorems about AcceptParser: whatever text a client sends, what the     *)
(* parser hands on is an Accept header as Negotiation assumes it, and each *)
(* range it found stands in that text; and each range written in it is     *)
(* found.                                                                  *)
(***************************************************************************)
EXTENDS AcceptParser, FiniteSetTheorems, SequenceTheorems, TLAPS

\* IsRaw as a set, with maps of any number of parameters.
ParamMaps == UNION {[keys -> Seq(Text) \ {<<>>}] : keys \in FiniteSubsetsOf(Text)}

RawMedia == [type : Text, sub : Text, params : ParamMaps]

\* The ranges found have both halves.
CompleteMedia == {m \in RawMedia : Complete(m)}

\* TypeOK with the ranges as a sequence of complete ones.
PInv ==
    /\ s \in Text
    /\ cur \in Nat \ {0}
    /\ st \in States \cup {"idle", "done"}
    /\ tmpStr \in Text /\ tmpKey \in Text /\ tmpMedia \in RawMedia
    /\ result \in Seq(CompleteMedia)
    /\ outcome \in Ranked!AcceptHeader

-----------------------------------------------------------------------------
(* Ranges *)

LEMMA ParamMapsIntro ==
    ASSUME NEW keys, keys \subseteq Text, IsFiniteSet(keys),
           NEW f \in [keys -> Seq(Text) \ {<<>>}]
    PROVE  f \in ParamMaps
BY DEF ParamMaps, FiniteSubsetsOf

LEMMA ParamMapsElim ==
    ASSUME NEW f \in ParamMaps
    PROVE  /\ DOMAIN f \subseteq Text
           /\ IsFiniteSet(DOMAIN f)
           /\ f \in [DOMAIN f -> Seq(Text) \ {<<>>}]
BY DEF ParamMaps, FiniteSubsetsOf

LEMMA RawIsRaw ==
    ASSUME NEW m \in RawMedia
    PROVE  IsRaw(m)
<1>1. m.params \in ParamMaps
  BY DEF RawMedia
<1>2. /\ DOMAIN m.params \subseteq Text
      /\ IsFiniteSet(DOMAIN m.params)
      /\ m.params \in [DOMAIN m.params -> Seq(Text) \ {<<>>}]
  BY <1>1, ParamMapsElim
<1>3. DOMAIN m = {"type", "sub", "params"} /\ m.type \in Text /\ m.sub \in Text
  BY DEF RawMedia
<1> QED
  BY <1>2, <1>3 DEF IsRaw

LEMMA NoMediaIsRaw == NoMedia \in RawMedia
<1>1. IsFiniteSet({})
  BY FS_EmptySet
<1> DEFINE none == [key \in {} |-> <<>>]
<1>2. none \in ParamMaps
  <2>1. none \in [{} -> Seq(Text) \ {<<>>}]
    OBVIOUS
  <2> HIDE DEF none
  <2> QED
    BY <1>1, <2>1, ParamMapsIntro
<1>3. <<>> \in Text
  BY DEF Text
<1> QED
  BY <1>2, <1>3 DEF NoMedia, RawMedia

\* appendParam adds a value to one key, the others keep theirs.
LEMMA WithParamIsRaw ==
    ASSUME NEW m \in RawMedia, tmpKey \in Text, tmpStr \in Text
    PROVE  WithParam(m) \in RawMedia
<1> DEFINE keys == DOMAIN m.params \cup {tmpKey}
           values == IF tmpKey \in DOMAIN m.params THEN m.params[tmpKey] ELSE <<>>
           params == [key \in keys |->
                        IF key = tmpKey THEN Append(values, tmpStr) ELSE m.params[key]]
<1>1. m.params \in ParamMaps
  BY DEF RawMedia
<1>2. /\ DOMAIN m.params \subseteq Text
      /\ IsFiniteSet(DOMAIN m.params)
      /\ m.params \in [DOMAIN m.params -> Seq(Text) \ {<<>>}]
  BY <1>1, ParamMapsElim
<1>3. keys \subseteq Text /\ IsFiniteSet(keys)
  BY <1>2, FS_AddElement
<1>4. values \in Seq(Text)
  BY <1>2
<1>5. Append(values, tmpStr) \in Seq(Text) \ {<<>>}
  BY <1>4
<1>6. params \in [keys -> Seq(Text) \ {<<>>}]
  BY <1>2, <1>5
<1>7. params \in ParamMaps
  BY <1>3, <1>6, ParamMapsIntro
<1>8. WithParam(m) = [m EXCEPT !.params = params]
  BY DEF WithParam
<1> HIDE DEF params
<1> QED
  BY <1>7, <1>8 DEF RawMedia

LEMMA WithSubTypeIsRaw ==
    ASSUME NEW m \in RawMedia, tmpStr \in Text
    PROVE  WithSubType(m) \in RawMedia
BY DEF WithSubType, RawMedia

LEMMA LastRangeIsRaw ==
    ASSUME PInv
    PROVE  LastRange \in RawMedia
BY WithParamIsRaw, WithSubTypeIsRaw DEF LastRange, PInv

\* appendResult takes complete ranges only.
LEMMA AppendResultTypes ==
    ASSUME NEW m \in RawMedia, result \in Seq(CompleteMedia), appendResult(m)
    PROVE  tmpMedia' \in RawMedia /\ result' \in Seq(CompleteMedia)
<1>1. CASE Complete(m)
  <2>1. m \in CompleteMedia
    BY <1>1 DEF CompleteMedia
  <2> QED
    BY <1>1, <2>1, NoMediaIsRaw DEF appendResult
<1>2. CASE ~Complete(m)
  BY <1>2 DEF appendResult
<1> QED
  BY <1>1, <1>2

-----------------------------------------------------------------------------
(* What is handed on *)

LEMMA LowerIsText ==
    ASSUME NEW name \in Text
    PROVE  lower(name) \in Text
<1>1. \A i \in DOMAIN name : name[i] \in Chars
  BY DEF Text
<1>2. "a" \in Chars
  BY DEF Chars, NameChars
<1>3. lower(name) \in [1 .. Len(name) -> Chars]
  BY <1>1, <1>2 DEF lower, Text
<1> QED
  BY <1>3 DEF Text

LEMMA WeighedIsRange ==
    ASSUME NEW m \in RawMedia, IsWeighed(m)
    PROVE  Weighed(m) \in Ranked!Ranges
<1> DEFINE q == IF QKey \in DOMAIN m.params THEN <<Quality[m.params[QKey][1]]>> ELSE <<>>
           others == Cardinality(DOMAIN m.params \ {QKey})
<1>1. lower(m.type) \in Text /\ lower(m.sub) \in Text
  BY LowerIsText DEF RawMedia
<1>2. others \in Nat
  <2>1. m.params \in ParamMaps
    BY DEF RawMedia
  <2>2. IsFiniteSet(DOMAIN m.params)
    BY <2>1, ParamMapsElim
  <2>3. IsFiniteSet(DOMAIN m.params \ {QKey})
    BY <2>2, FS_RemoveElement
  <2> QED
    BY <2>3, FS_CardinalityType
<1>3. q # <<>> => Head(q) \in Int
  BY QualityAssumption DEF IsWeighed
<1>4. Weighed(m) = Ranked!ParsedRange(lower(m.type), lower(m.sub), q, others)
  BY DEF Weighed
<1> HIDE DEF q, others
<1>5. \A type, sub \in Text : Ranked!specificityOf(type, sub) \in Ranked!Specificities
  BY DEF Ranked!specificityOf, Ranked!Specificities
<1> DEFINE w == Ranked!ParsedRange(lower(m.type), lower(m.sub), q, others)
<1>6. w \in Ranked!MediaType
  BY <1>1, <1>2, <1>3, <1>5 DEF Ranked!ParsedRange, Ranked!MediaType, Ranked!FullWeight
<1>7. Ranked!IsRange(w)
  BY DEF Ranked!ParsedRange, Ranked!IsRange
<1> QED
  BY <1>4, <1>6, <1>7 DEF Ranked!Ranges

LEMMA WeighIsHeader ==
    ASSUME NEW ranges \in Seq(CompleteMedia)
    PROVE  Weigh(ranges) \in Ranked!AcceptHeader
<1>1. CASE ranges = <<>> \/ \E i \in DOMAIN ranges : ~IsWeighed(ranges[i])
  BY <1>1 DEF Weigh, Malformed, Ranked!AcceptHeader
<1>2. CASE ~(ranges = <<>> \/ \E i \in DOMAIN ranges : ~IsWeighed(ranges[i]))
  <2> DEFINE medias == [i \in DOMAIN ranges |-> Weighed(ranges[i])]
  <2>1. \A i \in DOMAIN ranges : ranges[i] \in RawMedia /\ IsWeighed(ranges[i])
    BY <1>2 DEF CompleteMedia
  <2>2. \A i \in DOMAIN ranges : Weighed(ranges[i]) \in Ranked!Ranges
    BY <2>1, WeighedIsRange
  <2>3. medias \in [1 .. Len(ranges) -> Ranked!Ranges] /\ Len(ranges) \in Nat
    BY <2>2
  <2>4. medias \in Seq(Ranked!Ranges) /\ medias # <<>>
    BY <1>2, <2>3
  <2>5. Weigh(ranges) = [kind |-> "ranges", medias |-> medias]
    BY <1>2 DEF Weigh
  <2> HIDE DEF medias
  <2> QED
    BY <2>4, <2>5 DEF Ranked!AcceptHeader
<1> QED
  BY <1>1, <1>2

LEMMA ConstantHeaders ==
    Blank \in Ranked!AcceptHeader /\ Malformed \in Ranked!AcceptHeader
BY DEF Blank, Malformed, Ranked!AcceptHeader

-----------------------------------------------------------------------------
(* The steps *)

LEMMA InitPInv == Init => PInv
<1> SUFFICES ASSUME Init PROVE PInv
  OBVIOUS
<1>1. <<>> \in Text /\ <<>> \in Seq(CompleteMedia)
  BY DEF Text
<1> QED
  BY <1>1, NoMediaIsRaw, ConstantHeaders DEF Init, PInv

LEMMA ReceivePInv ==
    ASSUME PInv, NEW h \in Headers, Receive(h)
    PROVE  PInv'
<1>1. <<"*", "/", "*">> \in Text
  <2>1. "*" \in Chars /\ "/" \in Chars
    BY DEF Chars, NameChars
  <2> QED
    BY <2>1 DEF Text
<1>2. h.text \in Text
  BY HeadersAssumption
<1>3. s' \in Text
  BY <1>1, <1>2 DEF Receive
<1> QED
  BY <1>3 DEF PInv, Receive, tmps, States

LEMMA ReturnPInv ==
    ASSUME PInv, Return
    PROVE  PInv'
<1>1. <<>> \in Text /\ <<>> \in Seq(CompleteMedia)
  BY DEF Text
<1> QED
  BY <1>1, NoMediaIsRaw, ConstantHeaders DEF Return, PInv

LEMMA RefusePInv ==
    ASSUME PInv, Refuse
    PROVE  PInv'
BY ConstantHeaders DEF Refuse, PInv, tmps

LEMMA HereIsChar ==
    ASSUME PInv, cur <= Len(s)
    PROVE  Here \in Chars
BY DEF PInv, Here, Text

\* Moving on within the loop leaves the types of what was read to the rest.
LEMMA AdvancePInv ==
    ASSUME PInv, NEW state \in States, Advance(state),
           tmpStr' \in Text, tmpKey' \in Text, tmpMedia' \in RawMedia,
           result' \in Seq(CompleteMedia)
    PROVE  PInv'
BY DEF Advance, PInv

LEMMA KeepTypes ==
    ASSUME PInv, NEW char \in Chars, Keep(char)
    PROVE  /\ tmpStr' \in Text /\ tmpKey' \in Text /\ tmpMedia' \in RawMedia
           /\ result' \in Seq(CompleteMedia)
BY DEF Keep, PInv, Text

LEMMA SkipPInv ==
    ASSUME PInv, Skip
    PROVE  PInv'
BY AdvancePInv DEF Skip, PInv, tmps

LEMMA ReadTypePInv ==
    ASSUME PInv, ReadType
    PROVE  PInv'
<1>1. Here \in Chars
  BY HereIsChar DEF ReadType, Reading
<1>2. CASE Refuse
  BY <1>2, RefusePInv
<1>3. CASE Keep(Here) /\ Advance("type")
  BY <1>1, <1>3, KeepTypes, AdvancePInv DEF States
<1>4. CASE /\ Advance("subtype")
           /\ tmpMedia' = [tmpMedia EXCEPT !.type = tmpStr]
           /\ tmpStr' = <<>>
           /\ UNCHANGED <<tmpKey, result>>
  <2>1. tmpMedia' \in RawMedia
    <3>1. tmpMedia \in RawMedia /\ tmpStr \in Text
      BY DEF PInv
    <3>2. tmpMedia' = [tmpMedia EXCEPT !.type = tmpStr]
      BY <1>4
    <3> QED
      BY <3>1, <3>2 DEF RawMedia
  <2>2. tmpStr' \in Text
    BY <1>4 DEF Text
  <2> QED
    BY <1>4, <2>1, <2>2, AdvancePInv DEF States, PInv
<1> QED
  BY <1>2, <1>3, <1>4 DEF ReadType

LEMMA ReadSubTypePInv ==
    ASSUME PInv, ReadSubType
    PROVE  PInv'
<1>1. Here \in Chars
  BY HereIsChar DEF ReadSubType, Reading
<1>2. CASE Refuse
  BY <1>2, RefusePInv
<1>3. CASE Keep(Here) /\ Advance("subtype")
  BY <1>1, <1>3, KeepTypes, AdvancePInv DEF States
<1>4. WithSubType(tmpMedia) \in RawMedia /\ <<>> \in Text
  BY WithSubTypeIsRaw DEF PInv, Text
<1>5. CASE /\ tmpStr' = <<>>
           /\ IF Here = ","
              THEN appendResult(WithSubType(tmpMedia)) /\ Advance("type")
              ELSE /\ tmpMedia' = WithSubType(tmpMedia) /\ Advance("key")
                   /\ UNCHANGED result
           /\ UNCHANGED tmpKey
  <2>1. tmpMedia' \in RawMedia /\ result' \in Seq(CompleteMedia)
    BY <1>4, <1>5, AppendResultTypes DEF PInv
  <2> QED
    BY <1>4, <1>5, <2>1, AdvancePInv DEF States, PInv
<1> QED
  BY <1>2, <1>3, <1>5 DEF ReadSubType

LEMMA ReadKeyPInv ==
    ASSUME PInv, ReadKey
    PROVE  PInv'
<1>1. Here \in Chars
  BY HereIsChar DEF ReadKey, Reading
<1>2. CASE Keep(Here) /\ Advance("key")
  BY <1>1, <1>2, KeepTypes, AdvancePInv DEF States
<1>3. CASE /\ Advance("value")
           /\ tmpKey' = tmpStr
           /\ tmpStr' = <<>>
           /\ UNCHANGED <<tmpMedia, result>>
  <2>1. <<>> \in Text
    BY DEF Text
  <2> QED
    BY <1>3, <2>1, AdvancePInv DEF States, PInv
<1> QED
  BY <1>2, <1>3 DEF ReadKey

LEMMA ReadValuePInv ==
    ASSUME PInv, ReadValue
    PROVE  PInv'
<1>1. Here \in Chars
  BY HereIsChar DEF ReadValue, Reading
<1>2. CASE Keep(Here) /\ Advance("value")
  BY <1>1, <1>2, KeepTypes, AdvancePInv DEF States
<1>3. CASE Advance("quoted") /\ UNCHANGED <<tmps, result>>
  BY <1>3, AdvancePInv DEF States, PInv, tmps
<1>4. WithParam(tmpMedia) \in RawMedia /\ <<>> \in Text
  BY WithParamIsRaw DEF PInv, Text
<1>5. CASE /\ tmpStr' = <<>> /\ tmpKey' = <<>>
           /\ IF Here = ","
              THEN appendResult(WithParam(tmpMedia)) /\ Advance("type")
              ELSE /\ tmpMedia' = WithParam(tmpMedia) /\ Advance("key")
                   /\ UNCHANGED result
  <2>1. tmpMedia' \in RawMedia /\ result' \in Seq(CompleteMedia)
    BY <1>4, <1>5, AppendResultTypes DEF PInv
  <2> QED
    BY <1>4, <1>5, <2>1, AdvancePInv DEF States
<1> QED
  BY <1>2, <1>3, <1>5 DEF ReadValue

LEMMA ReadQuotedPInv ==
    ASSUME PInv, ReadQuoted
    PROVE  PInv'
<1>1. Here \in Chars
  BY HereIsChar DEF ReadQuoted, Reading
<1>2. CASE Refuse
  BY <1>2, RefusePInv
<1>3. CASE Keep(Here) /\ Advance("quoted")
  BY <1>1, <1>3, KeepTypes, AdvancePInv DEF States
<1>4. CASE /\ Keep("quote")
           /\ cur' = cur + 2
           /\ UNCHANGED <<header, s, st, outcome>>
  <2>1. "quote" \in Chars
    BY DEF Chars
  <2>2. /\ tmpStr' \in Text /\ tmpKey' \in Text /\ tmpMedia' \in RawMedia
        /\ result' \in Seq(CompleteMedia)
    BY <1>4, <2>1, KeepTypes
  <2> QED
    BY <1>4, <2>2 DEF PInv
<1>5. CASE /\ Advance("separator")
           /\ tmpStr' = <<>> /\ tmpKey' = <<>>
           /\ tmpMedia' = WithParam(tmpMedia)
           /\ UNCHANGED result
  <2>1. WithParam(tmpMedia) \in RawMedia /\ <<>> \in Text
    BY WithParamIsRaw DEF PInv, Text
  <2> QED
    BY <1>5, <2>1, AdvancePInv DEF States, PInv
<1> QED
  BY <1>2, <1>3, <1>4, <1>5 DEF ReadQuoted

LEMMA ReadSeparatorPInv ==
    ASSUME PInv, ReadSeparator
    PROVE  PInv'
<1>1. CASE Refuse
  BY <1>1, RefusePInv
<1>2. ASSUME NEW state \in {"key", "type"}, Advance(state), UNCHANGED <<tmps, result>>
      PROVE  PInv'
  BY <1>2, AdvancePInv DEF States, PInv, tmps
<1> QED
  BY <1>1, <1>2 DEF ReadSeparator

LEMMA EndOfHeaderPInv ==
    ASSUME PInv, EndOfHeader
    PROVE  PInv'
<1>1. CASE Refuse
  BY <1>1, RefusePInv
<1>2. CASE /\ appendResult(LastRange)
           /\ outcome' = Weigh(result')
           /\ st' = "done"
           /\ UNCHANGED <<header, s, cur, tmpStr, tmpKey>>
  <2>1. tmpMedia' \in RawMedia /\ result' \in Seq(CompleteMedia)
    BY <1>2, LastRangeIsRaw, AppendResultTypes DEF PInv
  <2>2. outcome' \in Ranked!AcceptHeader
    BY <1>2, <2>1, WeighIsHeader
  <2> QED
    BY <1>2, <2>1, <2>2 DEF PInv
<1> QED
  BY <1>1, <1>2 DEF EndOfHeader

LEMMA NextPInv ==
    ASSUME PInv, [Next]_vars
    PROVE  PInv'
<1>1. ASSUME NEW h \in Headers, Receive(h) PROVE PInv'
  BY <1>1, ReceivePInv
<1>2. CASE Return
  BY <1>2, ReturnPInv
<1>3. CASE parseAcceptHeader
  BY <1>3, SkipPInv, ReadTypePInv, ReadSubTypePInv, ReadKeyPInv, ReadValuePInv,
     ReadQuotedPInv, ReadSeparatorPInv, EndOfHeaderPInv DEF parseAcceptHeader
<1>4. CASE UNCHANGED vars
  BY <1>4 DEF vars, tmps, PInv
<1> QED
  BY <1>1, <1>2, <1>3, <1>4 DEF Next

-----------------------------------------------------------------------------
(* The theorems *)

\* The parser's invariant: every variable keeps its type, and only ranges with
\* a type and a subtype are in its result.
THEOREM ParserInvariant == Spec => []PInv
<1>1. Init => PInv
  BY InitPInv
<1>2. PInv /\ [Next]_vars => PInv'
  BY NextPInv
<1> QED
  BY <1>1, <1>2, PTL DEF Spec

\* TypeOK, for any headers: what parseAcceptHeader makes of a text is an Accept
\* header as the ranking assumes it.
THEOREM ParserTypeCorrect == Spec => []TypeOK
<1>1. PInv => TypeOK
  <2> SUFFICES ASSUME PInv PROVE TypeOK
    OBVIOUS
  <2>1. \A i \in DOMAIN result : result[i] \in RawMedia
    BY DEF PInv, CompleteMedia
  <2> QED
    BY <2>1, RawIsRaw DEF PInv, TypeOK
<1> QED
  BY <1>1, ParserInvariant, PTL

-----------------------------------------------------------------------------
(* Where the ranges stand *)

\* What RangesStandInText says of a range, of any text.
StandsIn(text, m) ==
    \E i, j \in 1 .. Len(text) + 1, slash \in DOMAIN text :
        /\ i <= slash /\ slash < j /\ text[slash] = "/"
        /\ Spells(text, i, slash, m.type)
        /\ Spells(text, slash + 1, j, m.sub)

\* What is read of a range at each state.  A range left over, in "type", stands
\* in the text like a finished one, or has no type and is never appended.
SInv ==
    /\ \A k \in DOMAIN result : StandsIn(s, result[k])
    /\ st = "idle" => result = <<>> /\ cur = 1 /\ tmpStr = <<>> /\ tmpMedia = NoMedia
    /\ st \in States => cur <= Len(s) + 1
    /\ st = "type" =>
        /\ \E i \in 1 .. cur : Spells(s, i, cur, tmpStr)
        /\ tmpMedia.type = <<>> \/ StandsIn(s, tmpMedia)
    /\ st = "subtype" =>
        \E i, slash \in 1 .. cur - 1 :
            /\ i <= slash /\ s[slash] = "/"
            /\ Spells(s, i, slash, tmpMedia.type)
            /\ Spells(s, slash + 1, cur, tmpStr)
    /\ st \in {"key", "value", "quoted", "separator"} => StandsIn(s, tmpMedia)
    /\ st = "separator" => tmpStr = <<>>

LEMMA SpellsNothing ==
    ASSUME NEW text, NEW i \in Nat
    PROVE  Spells(text, i, i, <<>>)
<1>1. {k \in i .. i - 1 : text[k] # "blank"} = {}
  OBVIOUS
<1>2. Cardinality({}) = 0
  BY FS_EmptySet
<1> QED
  BY <1>1, <1>2 DEF Spells, Spell, Told

LEMMA SpellsOverBlank ==
    ASSUME NEW text, NEW name, NEW i \in Nat, NEW j \in Nat, i <= j,
           Spells(text, i, j, name), text[j] = "blank"
    PROVE  Spells(text, i, j + 1, name)
<1>1. i .. (j + 1) - 1 = (i .. j - 1) \cup {j}
  OBVIOUS
<1>2. {k \in i .. (j + 1) - 1 : text[k] # "blank"} = {k \in i .. j - 1 : text[k] # "blank"}
  BY <1>1
<1> QED
  BY <1>2 DEF Spells, Spell, Told

LEMMA SpellsOneMore ==
    ASSUME NEW text, NEW name \in Text, NEW i \in Nat, NEW j \in Nat, i <= j,
           Spells(text, i, j, name), text[j] # "blank", text[j] \in Chars
    PROVE  Spells(text, i, j + 1, Append(name, text[j]))
<1> DEFINE told == {k \in i .. j - 1 : text[k] # "blank"}
           more == {k \in i .. (j + 1) - 1 : text[k] # "blank"}
           upto(k) == {l \in told : l <= k}
           longer == Append(name, text[j])
<1>1. more = told \cup {j} /\ j \notin told /\ \A k \in told : k \in Int /\ k < j
  OBVIOUS
<1>2. IsFiniteSet(told)
  <2>1. IsFiniteSet(i .. j - 1) /\ told \in SUBSET (i .. j - 1)
    BY FS_Interval
  <2> QED
    BY <2>1, FS_Subset
<1>3. /\ Len(name) = Cardinality(told)
      /\ \A k \in told : name[Cardinality(upto(k))] = text[k]
  BY DEF Spells, Spell, Told
<1> HIDE DEF told, more
<1>4. Cardinality(more) = Cardinality(told) + 1
  BY <1>1, <1>2, FS_AddElement
<1>5. /\ Len(longer) = Len(name) + 1 /\ Len(name) \in Nat
      /\ longer[Len(name) + 1] = text[j]
      /\ \A n \in 1 .. Len(name) : longer[n] = name[n]
  BY DEF Text
<1>6. ASSUME NEW k \in told
      PROVE  longer[Cardinality({l \in more : l <= k})] = text[k]
  <2>1. {l \in more : l <= k} = upto(k)
    BY <1>1
  <2>2. upto(k) \in SUBSET told /\ {k} \in SUBSET upto(k)
    BY <1>1
  <2> HIDE DEF upto
  <2>3. IsFiniteSet(upto(k)) /\ Cardinality(upto(k)) <= Cardinality(told)
    BY <1>2, <2>2, FS_Subset
  <2>4. Cardinality({k}) <= Cardinality(upto(k)) /\ Cardinality({k}) = 1
    BY <2>2, <2>3, FS_Subset, FS_Singleton
  <2>5. Cardinality(upto(k)) \in Nat
    BY <2>3, FS_CardinalityType
  <2>6. Cardinality(upto(k)) \in 1 .. Len(name)
    BY <1>3, <1>5, <2>3, <2>4, <2>5
  <2>7. name[Cardinality(upto(k))] = text[k]
    BY <1>3 DEF upto
  <2> QED
    BY <1>5, <2>1, <2>6, <2>7
<1>7. longer[Cardinality({l \in more : l <= j})] = text[j]
  <2>1. {l \in more : l <= j} = more
    BY <1>1
  <2> QED
    BY <1>3, <1>4, <1>5, <2>1
<1>8. /\ Len(longer) = Cardinality(more)
      /\ \A k \in more : longer[Cardinality({l \in more : l <= k})] = text[k]
  BY <1>1, <1>3, <1>4, <1>5, <1>6, <1>7
<1> QED
  BY <1>8 DEF Spells, Spell, Told, more

\* Parameters do not tell where a range stands.
LEMMA StandsByNames ==
    ASSUME NEW text, NEW m, NEW n, n.type = m.type, n.sub = m.sub, StandsIn(text, m)
    PROVE  StandsIn(text, n)
BY DEF StandsIn

LEMMA WithParamStands ==
    ASSUME NEW m \in RawMedia, NEW text, StandsIn(text, m)
    PROVE  StandsIn(text, WithParam(m))
<1> DEFINE params == [key \in DOMAIN m.params \cup {tmpKey} |->
                IF key = tmpKey
                THEN Append(IF tmpKey \in DOMAIN m.params THEN m.params[tmpKey] ELSE <<>>,
                            tmpStr)
                ELSE m.params[key]]
<1>1. WithParam(m) = [m EXCEPT !.params = params]
  BY DEF WithParam
<1> HIDE DEF params
<1>2. WithParam(m).type = m.type /\ WithParam(m).sub = m.sub
  BY <1>1 DEF RawMedia
<1> QED
  BY <1>2, StandsByNames

LEMMA SubTypeStands ==
    ASSUME PInv, cur \in 1 .. Len(s) + 1, NEW i \in 1 .. cur - 1, NEW slash \in 1 .. cur - 1,
           i <= slash, s[slash] = "/", Spells(s, i, slash, tmpMedia.type),
           Spells(s, slash + 1, cur, tmpStr)
    PROVE  StandsIn(s, WithSubType(tmpMedia))
<1> DEFINE m == WithSubType(tmpMedia)
<1>1. m.type = tmpMedia.type /\ m.sub = tmpStr
  BY DEF WithSubType, PInv, RawMedia
<1> HIDE DEF m
<1>2. /\ i \in 1 .. Len(s) + 1 /\ slash \in DOMAIN s /\ slash < cur
  BY DEF PInv, Text
<1>3. StandsIn(s, m)
  BY <1>1, <1>2 DEF StandsIn
<1> QED
  BY <1>3 DEF m

\* appendResult: what is appended stands in the text, and what is left over too.
LEMMA AppendResultStands ==
    ASSUME NEW m \in RawMedia, result \in Seq(CompleteMedia),
           \A k \in DOMAIN result : StandsIn(s, result[k]),
           m.type = <<>> \/ StandsIn(s, m), appendResult(m), UNCHANGED s
    PROVE  /\ \A k \in DOMAIN result' : StandsIn(s', result'[k])
           /\ tmpMedia'.type = <<>> \/ StandsIn(s', tmpMedia')
<1>1. CASE Complete(m)
  <2>1. tmpMedia' = NoMedia /\ result' = Append(result, m) /\ StandsIn(s, m)
    BY <1>1 DEF appendResult, Complete
  <2>2. /\ DOMAIN result' = DOMAIN result \cup {Len(result) + 1}
        /\ \A k \in DOMAIN result : result'[k] = result[k]
        /\ result'[Len(result) + 1] = m
    BY <2>1
  <2> QED
    BY <2>1, <2>2 DEF NoMedia
<1>2. CASE ~Complete(m)
  BY <1>2 DEF appendResult
<1> QED
  BY <1>1, <1>2

LEMMA InitSInv == Init => SInv
BY DEF Init, SInv, States

LEMMA ReceiveSInv ==
    ASSUME PInv, SInv, NEW h \in Headers, Receive(h)
    PROVE  SInv'
<1>1. /\ result' = <<>> /\ cur' = 1 /\ tmpStr' = <<>> /\ tmpMedia' = NoMedia
      /\ st' \in {"done", "type"} /\ s' \in Text
  <2>1. s' \in Text
    BY ReceivePInv DEF PInv
  <2> QED
    BY <2>1 DEF Receive, SInv, tmps
<1>2. Spells(s', 1, 1, <<>>)
  BY SpellsNothing
<1>3. Len(s') \in Nat
  BY <1>1 DEF Text
<1> QED
  BY <1>1, <1>2, <1>3 DEF SInv, NoMedia, States

LEMMA ReturnSInv ==
    ASSUME Return
    PROVE  SInv'
BY DEF Return, SInv, States

LEMMA RefuseSInv ==
    ASSUME SInv, Refuse
    PROVE  SInv'
BY DEF Refuse, SInv, tmps, States

\* What a step of the loop leaves as it is.
LEMMA Loop ==
    ASSUME PInv, cur <= Len(s)
    PROVE  /\ cur \in Nat /\ cur + 1 \in Nat /\ Len(s) \in Nat /\ cur \in 1 .. cur
           /\ cur + 1 <= Len(s) + 1 /\ DOMAIN s = 1 .. Len(s) /\ Here \in Chars
           /\ Here = s[cur] /\ cur \in DOMAIN s
BY HereIsChar DEF PInv, Text, Here

\* Blanks stand in names.
LEMMA SkipSInv ==
    ASSUME PInv, SInv, Skip
    PROVE  SInv'
<1>1. /\ st' = st /\ cur' = cur + 1 /\ UNCHANGED <<s, tmps, result>>
      /\ st \in States \ {"quoted"} /\ cur <= Len(s) /\ s[cur] = "blank"
  BY DEF Skip, Advance, Here
<1>2. /\ cur \in Nat /\ Len(s) \in Nat /\ cur + 1 <= Len(s) + 1
  BY <1>1, Loop
<1>3. CASE st = "type"
  <2>1. PICK i \in 1 .. cur : Spells(s, i, cur, tmpStr)
    BY <1>3 DEF SInv
  <2>2. Spells(s, i, cur + 1, tmpStr) /\ i \in 1 .. cur + 1
    BY <1>1, <1>2, <2>1, SpellsOverBlank
  <2> QED
    BY <1>1, <1>2, <1>3, <2>2 DEF SInv, tmps
<1>4. CASE st = "subtype"
  <2>1. PICK i, slash \in 1 .. cur - 1 :
            /\ i <= slash /\ s[slash] = "/"
            /\ Spells(s, i, slash, tmpMedia.type)
            /\ Spells(s, slash + 1, cur, tmpStr)
    BY <1>4 DEF SInv
  <2>2. /\ Spells(s, slash + 1, cur + 1, tmpStr)
        /\ i \in 1 .. (cur + 1) - 1 /\ slash \in 1 .. (cur + 1) - 1
    BY <1>1, <1>2, <2>1, SpellsOverBlank
  <2> QED
    BY <1>1, <1>2, <1>4, <2>1, <2>2 DEF SInv, tmps
<1>5. CASE st \in {"key", "value", "separator"}
  BY <1>1, <1>2, <1>5 DEF SInv, tmps
<1> QED
  BY <1>1, <1>3, <1>4, <1>5 DEF States

LEMMA ReadTypeSInv ==
    ASSUME PInv, SInv, ReadType
    PROVE  SInv'
<1>1. st = "type" /\ cur <= Len(s) /\ Here # "blank"
  BY DEF ReadType, Reading
<1>2. /\ cur \in Nat /\ cur + 1 \in Nat /\ Len(s) \in Nat /\ cur + 1 <= Len(s) + 1
      /\ Here \in Chars /\ Here = s[cur] /\ DOMAIN s = 1 .. Len(s)
  BY <1>1, Loop
<1>3. PICK i \in 1 .. cur : Spells(s, i, cur, tmpStr)
  BY <1>1 DEF SInv
<1>4. CASE Refuse
  BY <1>4, RefuseSInv
<1>5. CASE Keep(Here) /\ Advance("type")
  <2>1. tmpStr \in Text /\ i \in Nat /\ i <= cur
    BY <1>3 DEF PInv
  <2>2. Spells(s, i, cur + 1, Append(tmpStr, s[cur])) /\ i \in 1 .. cur + 1
    BY <1>1, <1>2, <1>3, <2>1, SpellsOneMore
  <2>3. /\ tmpStr' = Append(tmpStr, s[cur]) /\ UNCHANGED <<s, tmpMedia, result>>
        /\ cur' = cur + 1 /\ st' = "type"
    BY <1>2, <1>5 DEF Keep, Advance
  <2> QED
    BY <1>1, <1>2, <2>2, <2>3 DEF SInv
<1>6. CASE /\ Here = "/"
           /\ Advance("subtype")
           /\ tmpMedia' = [tmpMedia EXCEPT !.type = tmpStr]
           /\ tmpStr' = <<>>
           /\ UNCHANGED <<tmpKey, result>>
  <2>1. tmpMedia'.type = tmpStr
    BY <1>6 DEF PInv, RawMedia
  <2>2. Spells(s, cur + 1, cur + 1, <<>>)
    BY <1>2, SpellsNothing
  <2>3. /\ i \in 1 .. (cur + 1) - 1 /\ cur \in 1 .. (cur + 1) - 1 /\ i <= cur
        /\ s[cur] = "/" /\ Spells(s, i, cur, tmpMedia'.type)
    BY <1>2, <1>3, <1>6, <2>1
  <2>4. st' = "subtype" /\ cur' = cur + 1 /\ tmpStr' = <<>> /\ UNCHANGED <<s, result>>
    BY <1>6 DEF Advance
  <2> QED
    BY <1>2, <2>2, <2>3, <2>4 DEF SInv
<1> QED
  BY <1>4, <1>5, <1>6 DEF ReadType

LEMMA ReadSubTypeSInv ==
    ASSUME PInv, SInv, ReadSubType
    PROVE  SInv'
<1>1. st = "subtype" /\ cur <= Len(s) /\ Here # "blank"
  BY DEF ReadSubType, Reading
<1>2. /\ cur \in Nat /\ cur + 1 \in Nat /\ Len(s) \in Nat /\ cur + 1 <= Len(s) + 1
      /\ Here \in Chars /\ Here = s[cur] /\ DOMAIN s = 1 .. Len(s)
  BY <1>1, Loop
<1>3. PICK i, slash \in 1 .. cur - 1 :
          /\ i <= slash /\ s[slash] = "/"
          /\ Spells(s, i, slash, tmpMedia.type)
          /\ Spells(s, slash + 1, cur, tmpStr)
  BY <1>1 DEF SInv
<1>4. CASE Refuse
  BY <1>4, RefuseSInv
<1>5. CASE Keep(Here) /\ Advance("subtype")
  <2>1. tmpStr \in Text /\ slash + 1 \in Nat /\ slash + 1 <= cur
    BY <1>2, <1>3 DEF PInv
  <2>2. /\ Spells(s, slash + 1, cur + 1, Append(tmpStr, s[cur]))
        /\ i \in 1 .. (cur + 1) - 1 /\ slash \in 1 .. (cur + 1) - 1
    BY <1>1, <1>2, <1>3, <2>1, SpellsOneMore
  <2>3. /\ tmpStr' = Append(tmpStr, s[cur]) /\ UNCHANGED <<s, tmpMedia, result>>
        /\ cur' = cur + 1 /\ st' = "subtype"
    BY <1>2, <1>5 DEF Keep, Advance
  <2> QED
    BY <1>2, <1>3, <2>2, <2>3 DEF SInv
<1>6. WithSubType(tmpMedia) \in RawMedia /\ StandsIn(s, WithSubType(tmpMedia))
  <2>1. slash \in DOMAIN s /\ cur \in 1 .. Len(s) + 1 /\ i \in 1 .. Len(s) + 1 /\ slash < cur
    BY <1>1, <1>2, <1>3
  <2> QED
    BY <1>3, <2>1, SubTypeStands, WithSubTypeIsRaw DEF PInv
<1>7. CASE /\ tmpStr' = <<>>
           /\ appendResult(WithSubType(tmpMedia)) /\ Advance("type")
  <2>1. UNCHANGED s /\ cur' = cur + 1 /\ st' = "type"
    BY <1>7 DEF Advance
  <2>2. /\ \A k \in DOMAIN result' : StandsIn(s', result'[k])
        /\ tmpMedia'.type = <<>> \/ StandsIn(s', tmpMedia')
    BY <1>6, <1>7, <2>1, AppendResultStands DEF PInv, SInv
  <2>3. Spells(s', cur + 1, cur + 1, <<>>) /\ cur + 1 \in 1 .. cur + 1
    BY <1>2, SpellsNothing
  <2> QED
    BY <1>2, <1>7, <2>1, <2>2, <2>3 DEF SInv
<1>8. CASE /\ tmpMedia' = WithSubType(tmpMedia) /\ Advance("key")
           /\ UNCHANGED result
  BY <1>2, <1>6, <1>8 DEF SInv, Advance
<1> QED
  BY <1>4, <1>5, <1>7, <1>8 DEF ReadSubType

\* Parameters: the range that has them stands in the text already.
LEMMA ParamSInv ==
    ASSUME PInv, SInv, StandsIn(s, tmpMedia), cur <= Len(s),
           NEW state \in {"key", "value", "quoted", "separator"}, Advance(state),
           UNCHANGED result,
           state = "separator" => tmpStr' = <<>>,
           tmpMedia' \in {tmpMedia, WithParam(tmpMedia)}
    PROVE  SInv'
<1>1. StandsIn(s, tmpMedia')
  BY WithParamStands DEF PInv
<1>2. cur + 1 <= Len(s) + 1
  BY Loop
<1> QED
  BY <1>1, <1>2 DEF SInv, Advance

\* The next range starts behind a comma, with the last one appended or left.
LEMMA CommaSInv ==
    ASSUME PInv, SInv, cur <= Len(s), Advance("type"), tmpStr' = <<>>,
           \A k \in DOMAIN result' : StandsIn(s', result'[k]),
           tmpMedia'.type = <<>> \/ StandsIn(s', tmpMedia')
    PROVE  SInv'
<1>1. UNCHANGED s /\ cur' = cur + 1 /\ st' = "type"
  BY DEF Advance
<1>2. cur + 1 \in Nat /\ cur + 1 <= Len(s) + 1 /\ cur + 1 \in 1 .. cur + 1
  BY Loop
<1>3. Spells(s', cur + 1, cur + 1, <<>>)
  BY <1>2, SpellsNothing
<1> QED
  BY <1>1, <1>2, <1>3 DEF SInv

LEMMA ReadKeySInv ==
    ASSUME PInv, SInv, ReadKey
    PROVE  SInv'
<1>1. st = "key" /\ cur <= Len(s) /\ StandsIn(s, tmpMedia)
  BY DEF ReadKey, Reading, SInv
<1>2. PICK state \in {"key", "value"} : Advance(state) /\ UNCHANGED <<tmpMedia, result>>
  BY DEF ReadKey, Keep
<1> QED
  BY <1>1, <1>2, ParamSInv

LEMMA ReadValueSInv ==
    ASSUME PInv, SInv, ReadValue
    PROVE  SInv'
<1>1. st = "value" /\ cur <= Len(s) /\ StandsIn(s, tmpMedia)
  BY DEF ReadValue, Reading, SInv
<1>2. CASE \/ Advance("quoted") /\ UNCHANGED <<tmps, result>>
           \/ Keep(Here) /\ Advance("value")
  <2>1. PICK state \in {"quoted", "value"} : Advance(state) /\ UNCHANGED <<tmpMedia, result>>
    BY <1>2 DEF Keep, tmps
  <2> QED
    BY <1>1, <2>1, ParamSInv
<1>3. CASE /\ tmpMedia' = WithParam(tmpMedia) /\ Advance("key")
           /\ UNCHANGED result
  BY <1>1, <1>3, ParamSInv
<1>4. CASE /\ tmpStr' = <<>>
           /\ appendResult(WithParam(tmpMedia)) /\ Advance("type")
  <2>1. WithParam(tmpMedia) \in RawMedia /\ StandsIn(s, WithParam(tmpMedia))
    BY <1>1, WithParamIsRaw, WithParamStands DEF PInv
  <2>2. UNCHANGED s
    BY <1>4 DEF Advance
  <2>3. /\ \A k \in DOMAIN result' : StandsIn(s', result'[k])
        /\ tmpMedia'.type = <<>> \/ StandsIn(s', tmpMedia')
    BY <1>4, <2>1, <2>2, AppendResultStands DEF PInv, SInv
  <2> QED
    BY <1>1, <1>4, <2>3, CommaSInv
<1> QED
  BY <1>2, <1>3, <1>4 DEF ReadValue

LEMMA ReadQuotedSInv ==
    ASSUME PInv, SInv, ReadQuoted
    PROVE  SInv'
<1>1. st = "quoted" /\ cur <= Len(s) /\ StandsIn(s, tmpMedia)
  BY DEF ReadQuoted, Reading, SInv
<1>2. CASE Refuse
  BY <1>2, RefuseSInv
<1>3. CASE Keep(Here) /\ Advance("quoted")
  BY <1>1, <1>3, ParamSInv DEF Keep
<1>4. CASE /\ cur < Len(s)
           /\ Keep("quote")
           /\ cur' = cur + 2
           /\ UNCHANGED <<header, s, st, outcome>>
  <2>1. cur + 2 <= Len(s) + 1
    BY <1>1, <1>4, Loop
  <2> QED
    BY <1>1, <1>4, <2>1 DEF SInv, Keep
<1>5. CASE /\ Advance("separator") /\ tmpMedia' = WithParam(tmpMedia)
           /\ tmpStr' = <<>> /\ UNCHANGED result
  BY <1>1, <1>5, ParamSInv
<1> QED
  BY <1>2, <1>3, <1>4, <1>5 DEF ReadQuoted

LEMMA ReadSeparatorSInv ==
    ASSUME PInv, SInv, ReadSeparator
    PROVE  SInv'
<1>1. st = "separator" /\ cur <= Len(s) /\ StandsIn(s, tmpMedia) /\ tmpStr = <<>>
  BY DEF ReadSeparator, Reading, SInv
<1>2. CASE Refuse
  BY <1>2, RefuseSInv
<1>3. CASE Advance("key") /\ UNCHANGED <<tmps, result>>
  BY <1>1, <1>3, ParamSInv DEF tmps
<1>4. CASE Advance("type") /\ UNCHANGED <<tmps, result>>
  <2>1. tmpStr' = <<>> /\ tmpMedia' = tmpMedia /\ result' = result /\ s' = s
    BY <1>1, <1>4 DEF tmps, Advance
  <2> QED
    BY <1>1, <1>4, <2>1, CommaSInv DEF SInv
<1> QED
  BY <1>2, <1>3, <1>4 DEF ReadSeparator

\* At the end the range being read is complete, or has no subtype.
LEMMA EndOfHeaderSInv ==
    ASSUME PInv, SInv, EndOfHeader
    PROVE  SInv'
<1>1. CASE Refuse
  BY <1>1, RefuseSInv
<1>2. CASE /\ ~EndsEarly
           /\ appendResult(LastRange)
           /\ st' = "done"
           /\ UNCHANGED <<s, cur>>
  <2>1. st \in States /\ cur = Len(s) + 1 /\ Len(s) \in Nat /\ cur \in Nat
    BY DEF EndOfHeader, SInv, PInv, Text
  <2>2. LastRange \in RawMedia
    BY LastRangeIsRaw
  <2>3. LastRange.type = <<>> \/ StandsIn(s, LastRange)
    <3>1. CASE st = "value"
      <4>1. StandsIn(s, WithParam(tmpMedia))
        BY <3>1, WithParamStands DEF SInv, PInv
      <4> QED
        BY <3>1, <4>1 DEF LastRange
    <3>2. CASE st = "subtype"
      <4>1. PICK i, slash \in 1 .. cur - 1 :
                /\ i <= slash /\ s[slash] = "/"
                /\ Spells(s, i, slash, tmpMedia.type)
                /\ Spells(s, slash + 1, cur, tmpStr)
        BY <3>2 DEF SInv
      <4>2. StandsIn(s, WithSubType(tmpMedia))
        BY <2>1, <4>1, SubTypeStands
      <4> QED
        BY <3>2, <4>2 DEF LastRange
    <3>3. CASE st \in {"type", "separator"}
      BY <3>3 DEF SInv, LastRange
    <3> QED
      BY <1>2, <2>1, <3>1, <3>2, <3>3 DEF States, EndsEarly
  <2>4. \A k \in DOMAIN result' : StandsIn(s', result'[k])
    BY <1>2, <2>2, <2>3, AppendResultStands DEF PInv, SInv
  <2> QED
    BY <1>2, <2>4 DEF SInv, States
<1> QED
  BY <1>1, <1>2 DEF EndOfHeader

LEMMA NextSInv ==
    ASSUME PInv, SInv, [Next]_vars
    PROVE  SInv'
<1>1. ASSUME NEW h \in Headers, Receive(h) PROVE SInv'
  BY <1>1, ReceiveSInv
<1>2. CASE Return
  BY <1>2, ReturnSInv
<1>3. CASE parseAcceptHeader
  BY <1>3, SkipSInv, ReadTypeSInv, ReadSubTypeSInv, ReadKeySInv, ReadValueSInv,
     ReadQuotedSInv, ReadSeparatorSInv, EndOfHeaderSInv DEF parseAcceptHeader
<1>4. CASE UNCHANGED vars
  BY <1>4 DEF vars, tmps, SInv
<1> QED
  BY <1>1, <1>2, <1>3, <1>4 DEF Next

LEMMA ParserStands == Spec => []SInv
<1>1. Init => SInv
  BY InitSInv
<1>2. PInv /\ SInv /\ [Next]_vars => SInv'
  BY NextSInv
<1> QED
  BY <1>1, <1>2, ParserInvariant, PTL DEF Spec

\* RangesStandInText, for any headers: the parser never glues two ranges
\* together, though it resumes with a range left over behind a quoted value.
THEOREM NoRangeIsMadeOfTwo == Spec => []RangesStandInText
<1>1. PInv /\ SInv => RangesStandInText
  <2> SUFFICES ASSUME PInv, SInv, NEW k \in DOMAIN result
               PROVE  /\ result[k].type # <<>> /\ result[k].sub # <<>>
                      /\ \E i, j \in 1 .. Len(s) + 1, slash \in DOMAIN s :
                            /\ i <= slash /\ slash < j /\ s[slash] = "/"
                            /\ Spells(s, i, slash, result[k].type)
                            /\ Spells(s, slash + 1, j, result[k].sub)
    BY DEF RangesStandInText
  <2>1. result[k].type # <<>> /\ result[k].sub # <<>>
    <3>1. result[k] \in CompleteMedia
      BY DEF PInv
    <3> QED
      BY <3>1 DEF CompleteMedia, Complete
  <2>2. StandsIn(s, result[k])
    BY DEF SInv
  <2> QED
    BY <2>1, <2>2 DEF StandsIn
<1> QED
  BY <1>1, ParserInvariant, ParserStands, PTL

-----------------------------------------------------------------------------
(* What was written is found *)

W == header.written

Tracked == W # <<>> /\ ~QuoteBeforeComma

\* The first n ranges written are those found.
Found(n) == Len(result) = n /\ \A k \in 1 .. n : IsAsWritten(result[k], W[k])

\* As much of name as was told before position c.
Prefix(places, name, c) == SubSeq(name, 1, Cardinality({l \in places : l < c}))

Reads(places, name) == tmpStr = Prefix(places, name, cur)

\* The i-th range, with the first n of its parameters.
Partial(i, n) ==
    /\ tmpMedia.type = W[i].type /\ tmpMedia.sub = W[i].sub
    /\ HasParams(tmpMedia.params, W[i].params, n)

PartEnd(i, j) == EndOfPart(s, W, i, j)

AtType(i) ==
    /\ W[i].first <= cur /\ cur <= W[i].slash
    /\ tmpMedia = NoMedia
    /\ Reads(Told(s, W[i].first, W[i].slash), W[i].type)

AtSubType(i) ==
    /\ W[i].slash < cur /\ cur <= PartEnd(i, 0)
    /\ tmpMedia = [NoMedia EXCEPT !.type = W[i].type]
    /\ Reads(Told(s, W[i].slash + 1, PartEnd(i, 0)), W[i].sub)

AtKey(i, j) ==
    LET p == W[i].params[j]
    IN  /\ p.semi < cur /\ cur <= p.eq
        /\ Partial(i, j - 1)
        /\ Reads(Told(s, p.semi + 1, p.eq), p.key)

AtValue(i, j) ==
    LET p == W[i].params[j]
    IN  /\ p.eq < cur
        /\ tmpKey = p.key /\ Partial(i, j - 1)
        /\ IF IsQuoted(p)
           THEN cur <= p.open /\ tmpStr = <<>>
           ELSE cur <= PartEnd(i, j) /\ Reads(Told(s, p.eq + 1, PartEnd(i, j)), p.value)

\* The quote at which the parser is, if any, is the closing one.
AtQuoted(i, j) ==
    LET p == W[i].params[j]
    IN  /\ IsQuoted(p)
        /\ p.open < cur /\ cur <= p.close
        /\ s[cur] = "quote" => cur = p.close
        /\ tmpKey = p.key /\ Partial(i, j - 1)
        /\ Reads(ToldInQuotes(s, p.open + 1, p.close), p.value)

AtSeparator(i, j) ==
    LET p == W[i].params[j]
    IN  /\ IsQuoted(p)
        /\ p.close < cur /\ cur <= PartEnd(i, j)
        /\ Partial(i, j)

\* The place of the parser in a parameter, or before the parameters.
AtParam(i) ==
    \E j \in DOMAIN W[i].params :
        \/ st = "key" /\ AtKey(i, j)
        \/ st = "value" /\ AtValue(i, j)
        \/ st = "quoted" /\ AtQuoted(i, j)
        \/ st = "separator" /\ AtSeparator(i, j)

At(i) ==
    \/ st = "type" /\ AtType(i)
    \/ st = "subtype" /\ AtSubType(i)
    \/ AtParam(i)

\* What of the ranges written was found, in the loop and behind it.
Progress == \E i \in DOMAIN W : Found(i - 1) /\ At(i)

GInv ==
    /\ st # "idle" => header \in Headers
    /\ st # "idle" /\ Tracked => s = header.text
    /\ st \in States /\ Tracked => Progress
    /\ st = "done" /\ Tracked => Found(Len(W)) /\ outcome = Weigh(result)

\* Names that stand in a text are read place by place.
LEMMA ToldPlaces ==
    ASSUME NEW text, NEW i \in Nat, NEW j \in Nat
    PROVE  /\ IsFiniteSet(Told(text, i, j)) /\ Told(text, i, j) \in SUBSET Int
           /\ IsFiniteSet(ToldInQuotes(text, i, j))
           /\ ToldInQuotes(text, i, j) \in SUBSET Int
<1>1. IsFiniteSet(i .. j - 1) /\ (i .. j - 1) \in SUBSET Int
  BY FS_Interval
<1>2. /\ Told(text, i, j) \in SUBSET (i .. j - 1)
      /\ ToldInQuotes(text, i, j) \in SUBSET (i .. j - 1)
  BY DEF Told, ToldInQuotes
<1> QED
  BY <1>1, <1>2, FS_Subset

LEMMA PrefixOfNone ==
    ASSUME NEW places, NEW name \in Text, NEW c, \A l \in places : ~(l < c)
    PROVE  Prefix(places, name, c) = <<>>
<1>1. {l \in places : l < c} = {} /\ Cardinality({}) = 0
  BY FS_EmptySet
<1>2. SubSeq(name, 1, 0) = <<>>
  BY DEF Text
<1> QED
  BY <1>1, <1>2 DEF Prefix

LEMMA PrefixOfAll ==
    ASSUME NEW text, NEW places, NEW name \in Text, NEW c, Spell(text, places, name),
           \A l \in places : l < c
    PROVE  Prefix(places, name, c) = name
<1>1. {l \in places : l < c} = places
  OBVIOUS
<1>2. SubSeq(name, 1, Len(name)) = name
  BY DEF Text
<1> QED
  BY <1>1, <1>2 DEF Prefix, Spell

LEMMA PrefixSkips ==
    ASSUME NEW places \in SUBSET Int, NEW name, NEW c \in Int, NEW d \in Int, c <= d,
           \A l \in places : ~(c <= l /\ l < d)
    PROVE  Prefix(places, name, d) = Prefix(places, name, c)
<1>1. {l \in places : l < d} = {l \in places : l < c}
  <2>1. \A l \in places : l \in Int /\ (l < d <=> l < c)
    OBVIOUS
  <2> QED
    BY <2>1
<1> QED
  BY <1>1 DEF Prefix

LEMMA PrefixGrows ==
    ASSUME NEW text, NEW places \in SUBSET Int, IsFiniteSet(places), NEW name \in Text,
           Spell(text, places, name), NEW c \in places, c \in DOMAIN text
    PROVE  /\ Prefix(places, name, c + 1) = Append(Prefix(places, name, c), text[c])
           /\ Prefix(places, name, c) = <<>> => text[c] = Head(name)
<1> DEFINE before == {l \in places : l < c}
           upto == {l \in places : l <= c}
<1>1. /\ {l \in places : l < c + 1} = upto /\ upto = before \cup {c} /\ c \notin before
      /\ before \in SUBSET places /\ upto \in SUBSET places
  <2>1. \A l \in places : (l < c + 1 <=> l <= c) /\ (l <= c <=> l < c \/ l = c)
    <3>1. c \in Int /\ \A l \in places : l \in Int
      OBVIOUS
    <3>2. \A l \in Int : (l < c + 1 <=> l <= c) /\ (l <= c <=> l < c \/ l = c)
      BY <3>1
    <3> QED
      BY <3>1, <3>2
  <2>2. ~(c < c) /\ c <= c
    <3>1. c \in Int
      OBVIOUS
    <3>2. \A l \in Int : ~(l < l) /\ l <= l
      OBVIOUS
    <3> QED
      BY <3>1, <3>2
  <2>3. upto = before \cup {c}
    BY <2>1, <2>2
  <2> QED
    BY <2>1, <2>2, <2>3
<1> HIDE DEF before, upto
<1>2. /\ IsFiniteSet(before) /\ Cardinality(before) \in Nat
      /\ Cardinality(upto) = Cardinality(before) + 1
      /\ Cardinality(upto) <= Cardinality(places)
  BY <1>1, FS_Subset, FS_AddElement, FS_CardinalityType
<1> DEFINE n == Cardinality(before)
<1>3. n \in Nat /\ n + 1 <= Len(name) /\ name[n + 1] = text[c] /\ Cardinality(upto) = n + 1
  BY <1>2 DEF Spell, upto
<1>4. Prefix(places, name, c) = SubSeq(name, 1, n)
  BY DEF Prefix, before
<1>5. Prefix(places, name, c + 1) = SubSeq(name, 1, n + 1)
  BY <1>1, <1>3 DEF Prefix
<1> HIDE DEF n
<1>6. SubSeq(name, 1, n + 1) = Append(SubSeq(name, 1, n), name[n + 1])
  <2>1. /\ name \in Seq(Chars) /\ Len(name) \in Nat
        /\ \A i \in 1 .. n + 1 : name[i] \in Chars
    BY <1>3 DEF Text
  <2>2. SubSeq(name, 1, n + 1) = SubSeq(name, 1, n) \o <<name[n + 1]>>
    BY <1>3, <2>1, SubSeqRecursiveSecond
  <2>3. SubSeq(name, 1, n) \in Seq(Chars) /\ name[n + 1] \in Chars
    BY <1>3, <2>1
  <2> QED
    BY <2>2, <2>3
<1>7. SubSeq(name, 1, n) = <<>> => n = 0
  BY <1>3 DEF Text
<1>8. n = 0 => name[n + 1] = Head(name)
  BY <1>3 DEF Text
<1> QED
  BY <1>3, <1>4, <1>5, <1>6, <1>7, <1>8

-----------------------------------------------------------------------------
(* Parameters *)

LEMMA NoParams ==
    ASSUME NEW written
    PROVE  HasParams(NoMedia.params, written, 0)
BY DEF HasParams, NoMedia

\* The parameters with key among the first n.
Own(written, n, key) == {l \in 1 .. n : written[l].key = key}

LEMMA OwnIsFinite ==
    ASSUME NEW written, NEW n \in Int, NEW key
    PROVE  /\ IsFiniteSet(Own(written, n, key))
           /\ Cardinality(Own(written, n, key)) \in Nat
<1>1. IsFiniteSet(1 .. n)
  BY FS_Interval
<1>2. Own(written, n, key) \in SUBSET (1 .. n)
  BY DEF Own
<1> QED
  BY <1>1, <1>2, FS_Subset, FS_CardinalityType

\* appendParam adds the next parameter written.
LEMMA OneMoreParam ==
    ASSUME NEW m \in RawMedia, NEW written \in Seq(Params), NEW j \in DOMAIN written,
           tmpKey = written[j].key, tmpStr = written[j].value,
           HasParams(m.params, written, j - 1)
    PROVE  HasParams(WithParam(m).params, written, j)
<1> DEFINE key == written[j].key
           values == IF key \in DOMAIN m.params THEN m.params[key] ELSE <<>>
           params == [k \in DOMAIN m.params \cup {key} |->
                        IF k = key THEN Append(values, tmpStr) ELSE m.params[k]]
<1>1. WithParam(m) = [m EXCEPT !.params = params] /\ m.params \in ParamMaps
  BY DEF WithParam, RawMedia
<1>2. m.params \in [DOMAIN m.params -> Seq(Text) \ {<<>>}]
  BY <1>1, ParamMapsElim
<1>3. /\ DOMAIN m.params = {written[l].key : l \in 1 .. j - 1}
      /\ \A l \in 1 .. j - 1 :
            /\ Len(m.params[written[l].key]) = Cardinality(Own(written, j - 1, written[l].key))
            /\ m.params[written[l].key][
                    Cardinality({k \in Own(written, j - 1, written[l].key) : k <= l})]
                 = written[l].value
  BY DEF HasParams, Own
<1>4. j \in Nat /\ j >= 1 /\ 1 .. j = (1 .. j - 1) \cup {j} /\ j \notin 1 .. j - 1
  OBVIOUS
<1>5. /\ IsFiniteSet(Own(written, j - 1, key))
      /\ Cardinality(Own(written, j - 1, key)) \in Nat
  <2>1. j - 1 \in Int
    BY <1>4
  <2> QED
    BY <2>1, OwnIsFinite
<1>6. \A k : k # key => Own(written, j, k) = Own(written, j - 1, k)
  BY <1>4 DEF Own
<1>7. Own(written, j, key) = Own(written, j - 1, key) \cup {j} /\ j \notin Own(written, j - 1, key)
  BY <1>4 DEF Own
<1>8. Cardinality(Own(written, j, key)) = Cardinality(Own(written, j - 1, key)) + 1
  BY <1>5, <1>7, FS_AddElement
<1>9. values \in Seq(Text) /\ Len(values) = Cardinality(Own(written, j - 1, key))
  <2>1. CASE key \in DOMAIN m.params
    <3>1. PICK l \in 1 .. j - 1 : key = written[l].key
      BY <1>3, <2>1
    <3> QED
      BY <1>2, <1>3, <2>1, <3>1
  <2>2. CASE key \notin DOMAIN m.params
    <3>1. Own(written, j - 1, key) = {} /\ Cardinality({}) = 0
      BY <1>3, <2>2, FS_EmptySet DEF Own
    <3>2. values = <<>> /\ <<>> \in Seq(Text) /\ Len(<<>>) = 0
      BY <2>2
    <3> QED
      BY <3>1, <3>2
  <2> QED
    BY <2>1, <2>2
<1>10. /\ Len(Append(values, tmpStr)) = Cardinality(Own(written, j, key))
       /\ Append(values, tmpStr)[Cardinality(Own(written, j, key))] = tmpStr
       /\ \A n \in 1 .. Len(values) : Append(values, tmpStr)[n] = values[n]
  BY <1>8, <1>9
<1>11. DOMAIN params = {written[l].key : l \in 1 .. j}
  BY <1>3, <1>4
<1>12. /\ params[key] = Append(values, tmpStr)
       /\ \A k \in DOMAIN m.params \ {key} : params[k] = m.params[k]
  OBVIOUS
<1> HIDE DEF params, values
<1>13. ASSUME NEW l \in 1 .. j
       PROVE  /\ Len(params[written[l].key]) = Cardinality(Own(written, j, written[l].key))
              /\ params[written[l].key][Cardinality({k \in Own(written, j, written[l].key) : k <= l})]
                   = written[l].value
  <2>1. CASE written[l].key # key
    <3>1. l \in 1 .. j - 1 /\ written[l].key \in DOMAIN m.params \ {key}
      BY <1>3, <1>4, <2>1
    <3>2. Own(written, j, written[l].key) = Own(written, j - 1, written[l].key)
      BY <1>6, <2>1
    <3> QED
      BY <1>3, <1>12, <3>1, <3>2
  <2>2. CASE l = j
    <3>1. {k \in Own(written, j, key) : k <= j} = Own(written, j, key)
      BY <1>4 DEF Own
    <3> QED
      BY <1>10, <1>12, <2>2, <3>1
  <2>3. CASE l \in 1 .. j - 1 /\ written[l].key = key
    <3> DEFINE upto == {k \in Own(written, j - 1, key) : k <= l}
    <3>1. {k \in Own(written, j, key) : k <= l} = upto
      BY <1>4, <1>7, <2>3 DEF Own
    <3>2. upto \in SUBSET Own(written, j - 1, key) /\ l \in upto /\ {l} \in SUBSET upto
      BY <2>3 DEF Own
    <3> HIDE DEF upto
    <3>3. IsFiniteSet(upto) /\ Cardinality(upto) <= Cardinality(Own(written, j - 1, key))
      BY <1>5, <3>2, FS_Subset
    <3>4. Cardinality({l}) <= Cardinality(upto) /\ Cardinality({l}) = 1
      BY <3>2, <3>3, FS_Subset, FS_Singleton
    <3>5. Cardinality(upto) \in 1 .. Len(values)
      BY <1>5, <1>9, <3>3, <3>4, FS_CardinalityType
    <3>6. values[Cardinality(upto)] = written[l].value
      <4>1. key \in DOMAIN m.params
        BY <1>3, <2>3
      <4> QED
        BY <1>3, <2>3, <4>1 DEF values, upto
    <3> QED
      BY <1>10, <1>12, <2>3, <3>1, <3>5, <3>6
  <2> QED
    BY <1>4, <2>1, <2>2, <2>3
<1>14. HasParams(params, written, j)
  BY <1>11, <1>13 DEF HasParams, Own
<1> QED
  BY <1>1, <1>14 DEF RawMedia

-----------------------------------------------------------------------------
(* The parts of a text *)

LEMMA RangeIs ==
    ASSUME NEW text \in Text, NEW ranges, WrittenIn(text, ranges), NEW i \in DOMAIN ranges
    PROVE  /\ ranges[i] \in WrittenRange
           /\ i \in Nat /\ 1 <= i /\ i <= Len(ranges) /\ Len(ranges) \in Nat
           /\ DOMAIN ranges = 1 .. Len(ranges)
           /\ ranges[i].type \in Text /\ ranges[i].sub \in Text
           /\ ranges[i].first \in Nat /\ ranges[i].slash \in Nat
           /\ ranges[i].params \in Seq(Params) /\ Len(ranges[i].params) \in Nat
           /\ DOMAIN ranges[i].params = 1 .. Len(ranges[i].params)
           /\ RangeIn(text, ranges, i)
           /\ NamesIn(text, ranges[i], EndOfPart(text, ranges, i, 0))
<1>1. ranges \in Seq(WrittenRange) /\ RangeIn(text, ranges, i)
  BY DEF WrittenIn
<1>2. /\ ranges[i] \in WrittenRange
      /\ i \in Nat /\ 1 <= i /\ i <= Len(ranges) /\ Len(ranges) \in Nat
      /\ DOMAIN ranges = 1 .. Len(ranges)
  BY <1>1
<1>3. NamesIn(text, ranges[i], EndOfPart(text, ranges, i, 0))
  BY <1>1 DEF RangeIn
<1>4. /\ ranges[i].type \in Text /\ ranges[i].sub \in Text
      /\ ranges[i].first \in Nat /\ ranges[i].slash \in Nat
      /\ ranges[i].params \in Seq(Params)
  BY <1>2 DEF WrittenRange
<1>5. Len(ranges[i].params) \in Nat /\ DOMAIN ranges[i].params = 1 .. Len(ranges[i].params)
  BY <1>4
<1> QED
  BY <1>1, <1>2, <1>3, <1>4, <1>5

LEMMA ParamIs ==
    ASSUME NEW text \in Text, NEW ranges, WrittenIn(text, ranges), NEW i \in DOMAIN ranges,
           NEW j \in DOMAIN ranges[i].params
    PROVE  /\ ranges[i].params[j].key \in Text /\ ranges[i].params[j].value \in Text
           /\ ranges[i].params[j].semi \in Nat /\ ranges[i].params[j].eq \in Nat
           /\ ranges[i].params[j].open \in Nat /\ ranges[i].params[j].close \in Nat
           /\ ranges[i].params[j].semi \in DOMAIN text
           /\ ParamIn(text, ranges[i].params[j], EndOfPart(text, ranges, i, j))
           /\ j \in Nat /\ 1 <= j /\ j <= Len(ranges[i].params)
<1>1. /\ ranges[i].params \in Seq(Params) /\ RangeIn(text, ranges, i)
      /\ Len(ranges[i].params) \in Nat /\ DOMAIN ranges[i].params = 1 .. Len(ranges[i].params)
  BY RangeIs
<1>2. ranges[i].params[j] \in Params
  BY <1>1
<1>3. /\ ranges[i].params[j].semi \in DOMAIN text
      /\ ParamIn(text, ranges[i].params[j], EndOfPart(text, ranges, i, j))
  BY <1>1 DEF RangeIn
<1>4. /\ ranges[i].params[j].key \in Text /\ ranges[i].params[j].value \in Text
      /\ ranges[i].params[j].semi \in Nat /\ ranges[i].params[j].eq \in Nat
      /\ ranges[i].params[j].open \in Nat /\ ranges[i].params[j].close \in Nat
  BY <1>2 DEF Params
<1>5. j \in Nat /\ 1 <= j /\ j <= Len(ranges[i].params)
  BY <1>1
<1> QED
  BY <1>3, <1>4, <1>5

\* A part ends where the next parameter starts,
LEMMA EndInRange ==
    ASSUME NEW text \in Text, NEW ranges, WrittenIn(text, ranges), NEW i \in DOMAIN ranges,
           NEW j \in DOMAIN ranges[i].params
    PROVE  /\ EndOfPart(text, ranges, i, j - 1) = ranges[i].params[j].semi
           /\ ranges[i].params[j].semi \in DOMAIN text
<1>1. /\ Len(ranges[i].params) \in Nat
      /\ DOMAIN ranges[i].params = 1 .. Len(ranges[i].params)
  BY RangeIs
<1>2. j - 1 # Len(ranges[i].params) /\ (j - 1) + 1 = j
  BY <1>1
<1>3. EndOfPart(text, ranges, i, j - 1) = ranges[i].params[j].semi
  BY <1>2 DEF EndOfPart
<1> QED
  BY <1>3, ParamIs

\* or where the next range does,
LEMMA EndOfAll ==
    ASSUME NEW text \in Text, NEW ranges, WrittenIn(text, ranges), NEW i \in DOMAIN ranges,
           i < Len(ranges)
    PROVE  /\ EndOfPart(text, ranges, i, Len(ranges[i].params)) \in DOMAIN text
           /\ i + 1 \in DOMAIN ranges
           /\ ranges[i + 1].first = EndOfPart(text, ranges, i, Len(ranges[i].params)) + 1
<1>1. EndOfPart(text, ranges, i, Len(ranges[i].params)) = EndOfRange(text, ranges, i)
  BY DEF EndOfPart
<1>2. /\ i \in Nat /\ 1 <= i /\ Len(ranges) \in Nat /\ DOMAIN ranges = 1 .. Len(ranges)
      /\ RangeIn(text, ranges, i)
  BY RangeIs
<1>3. EndOfRange(text, ranges, i) \in DOMAIN text
  BY <1>2 DEF RangeIn
<1>4. i + 1 \in DOMAIN ranges /\ i # Len(ranges)
  BY <1>2
<1>5. EndOfRange(text, ranges, i) = ranges[i + 1].first - 1
  BY <1>4 DEF EndOfRange
<1>6. ranges[i + 1].first \in Nat
  BY <1>4, RangeIs
<1>7. ranges[i + 1].first = EndOfRange(text, ranges, i) + 1
  BY <1>5, <1>6
<1> QED
  BY <1>1, <1>3, <1>4, <1>7

\* or behind the text.
LEMMA EndOfLast ==
    ASSUME NEW text \in Text, NEW ranges, WrittenIn(text, ranges), NEW i \in DOMAIN ranges,
           ~(i < Len(ranges))
    PROVE  /\ EndOfPart(text, ranges, i, Len(ranges[i].params)) = Len(text) + 1
           /\ i = Len(ranges)
<1>1. i = Len(ranges)
  BY RangeIs
<1> QED
  BY <1>1 DEF EndOfPart, EndOfRange

LEMMA EndIs ==
    ASSUME NEW text \in Text, NEW ranges, WrittenIn(text, ranges), NEW i \in DOMAIN ranges,
           NEW j \in 0 .. Len(ranges[i].params)
    PROVE  /\ EndOfPart(text, ranges, i, j) \in Nat
           /\ EndOfPart(text, ranges, i, j) <= Len(text) + 1
<1>1. Len(text) \in Nat /\ DOMAIN text = 1 .. Len(text)
  BY DEF Text
<1>2. Len(ranges[i].params) \in Nat /\ j \in Nat /\ j <= Len(ranges[i].params)
  BY RangeIs
<1>3. CASE j < Len(ranges[i].params)
  <2>1. j + 1 \in DOMAIN ranges[i].params /\ (j + 1) - 1 = j
    BY <1>2, <1>3, RangeIs
  <2>2. EndOfPart(text, ranges, i, (j + 1) - 1) \in DOMAIN text
    BY <2>1, EndInRange
  <2>3. EndOfPart(text, ranges, i, j) \in DOMAIN text
    BY <2>1, <2>2
  <2> QED
    BY <1>1, <2>3
<1>4. CASE j = Len(ranges[i].params) /\ i < Len(ranges)
  <2>1. EndOfPart(text, ranges, i, j) \in DOMAIN text
    BY <1>4, EndOfAll
  <2> QED
    BY <1>1, <2>1
<1>5. CASE j = Len(ranges[i].params) /\ ~(i < Len(ranges))
  BY <1>1, <1>5, EndOfLast
<1> QED
  BY <1>2, <1>3, <1>4, <1>5

-----------------------------------------------------------------------------
(* The steps, on a text that ranges are written in *)

LEMMA TextIsWritten ==
    ASSUME PInv, GInv, Tracked, st # "idle"
    PROVE  /\ s \in Text /\ WrittenIn(s, W) /\ W # <<>> /\ DOMAIN s = 1 .. Len(s)
           /\ Len(s) \in Nat /\ cur \in Nat /\ cur >= 1
           /\ W \in Seq(WrittenRange)
<1>1. header \in Headers /\ s = header.text /\ W # <<>>
  BY DEF GInv, Tracked
<1>2. s \in Text /\ WrittenIn(s, W)
  BY <1>1, HeadersAssumption DEF W
<1>3. Len(s) \in Nat /\ DOMAIN s = 1 .. Len(s)
  BY <1>2 DEF Text
<1>4. W \in Seq(WrittenRange)
  BY <1>2 DEF WrittenIn
<1>5. cur \in Nat /\ cur >= 1
  BY DEF PInv
<1> QED
  BY <1>1, <1>2, <1>3, <1>4, <1>5

\* What a step in the loop has to show.
LEMMA LoopGInv ==
    ASSUME GInv, st \in States, UNCHANGED <<header, s>>, st' \in States,
           Tracked => Progress'
    PROVE  GInv'
<1>1. Tracked' => Tracked
  BY DEF Tracked, W, QuoteBeforeComma
<1> QED
  BY <1>1 DEF GInv, States

\* A range as it was written is appended, and the loop is ready for the next.
LEMMA AppendsRange ==
    ASSUME PInv, NEW m \in RawMedia, NEW i \in DOMAIN W, W \in Seq(WrittenRange), Found(i - 1),
           IsAsWritten(m, W[i]), W[i].type # <<>>, W[i].sub # <<>>,
           appendResult(m), UNCHANGED header
    PROVE  Found(i)' /\ tmpMedia' = NoMedia
<1>1. Complete(m)
  BY DEF Complete, IsAsWritten
<1>2. tmpMedia' = NoMedia /\ result' = Append(result, m)
  BY <1>1 DEF appendResult
<1>3. /\ i \in Nat /\ 1 <= i /\ Len(result) = i - 1
      /\ \A k \in 1 .. i - 1 : IsAsWritten(result[k], W[k])
  BY DEF Found
<1>4. /\ Len(result') = i
      /\ \A k \in 1 .. i - 1 : result'[k] = result[k]
      /\ result'[i] = m
  BY <1>2, <1>3 DEF PInv
<1>5. \A k \in 1 .. i : IsAsWritten(result'[k], W[k])
  BY <1>3, <1>4
<1> QED
  BY <1>2, <1>4, <1>5 DEF Found, W

\* Behind the "," the next range starts, with nothing left of the last.
LEMMA NextRange ==
    ASSUME PInv, GInv, Tracked, st \in States, NEW i \in DOMAIN W,
           cur = PartEnd(i, Len(W[i].params)), cur <= Len(s), Found(i)',
           Advance("type"), tmpMedia' = NoMedia, tmpStr' = <<>>
    PROVE  GInv'
<1>1. /\ s \in Text /\ WrittenIn(s, W) /\ Len(s) \in Nat /\ cur \in Nat
      /\ W \in Seq(WrittenRange)
  BY TextIsWritten DEF States
<1>2. /\ i + 1 \in DOMAIN W /\ W[i + 1].first = cur + 1 /\ i \in Nat
  <2>1. i \in Nat /\ i < Len(W)
    BY <1>1, EndOfLast, RangeIs DEF PartEnd
  <2> QED
    BY <1>1, <2>1, EndOfAll DEF PartEnd
<1> DEFINE r == W[i + 1]
<1>3. /\ NamesIn(s, r, EndOfPart(s, W, i + 1, 0))
      /\ r.first \in Nat /\ r.slash \in Nat /\ r.type \in Text
  BY <1>1, <1>2, RangeIs
<1>4. r.first <= r.slash
  BY <1>3 DEF NamesIn
<1>5. Prefix(Told(s, r.first, r.slash), r.type, cur + 1) = <<>>
  <2>1. \A l \in Told(s, r.first, r.slash) : ~(l < cur + 1)
    BY <1>1, <1>2, <1>3 DEF Told
  <2> HIDE DEF r
  <2> QED
    BY <1>3, <2>1, PrefixOfNone
<1>6. AtType(i + 1)'
  BY <1>1, <1>2, <1>4, <1>5 DEF AtType, Reads, Advance, W
<1>7. Found((i + 1) - 1)'
  BY <1>2
<1>8. Progress'
  BY <1>2, <1>6, <1>7 DEF Progress, At, Advance, W
<1> QED
  BY <1>8, LoopGInv DEF Advance, States

\* Behind the ";" the next parameter starts.
LEMMA NextParam ==
    ASSUME PInv, GInv, Tracked, st \in States, NEW i \in DOMAIN W,
           NEW j \in DOMAIN W[i].params,
           cur = W[i].params[j].semi, Found(i - 1), UNCHANGED result,
           Advance("key"), Partial(i, j - 1)', tmpStr' = <<>>
    PROVE  GInv'
<1>1. /\ s \in Text /\ WrittenIn(s, W) /\ Len(s) \in Nat /\ cur \in Nat
  BY TextIsWritten DEF States
<1> DEFINE p == W[i].params[j]
<1>3. /\ ParamIn(s, p, EndOfPart(s, W, i, j)) /\ p.key \in Text /\ p.eq \in Nat
  BY <1>1, ParamIs
<1>4. p.semi < p.eq
  BY <1>3 DEF ParamIn
<1>5. Prefix(Told(s, p.semi + 1, p.eq), p.key, cur + 1) = <<>>
  <2>1. \A l \in Told(s, p.semi + 1, p.eq) : ~(l < cur + 1)
    BY <1>1, <1>3 DEF Told
  <2> HIDE DEF p
  <2> QED
    BY <1>3, <2>1, PrefixOfNone
<1>6. p.semi < cur + 1 /\ cur + 1 <= p.eq
  BY <1>1, <1>3, <1>4
<1>7. AtKey(i, j)'
  BY <1>5, <1>6 DEF AtKey, Reads, Advance, W
<1>8. Found(i - 1)'
  BY DEF Found, Advance, W
<1>9. Progress'
  BY <1>7, <1>8 DEF Progress, At, AtParam, Advance, W
<1> QED
  BY <1>9, LoopGInv DEF Advance, States

\* Of a text in which no ranges are written nothing is said.
LEMMA UntrackedGInv ==
    ASSUME GInv, st # "idle", UNCHANGED header, ~Tracked
    PROVE  GInv'
BY DEF GInv, Tracked, W, QuoteBeforeComma

\* The loop stays in its range.
LEMMA StaysGInv ==
    ASSUME GInv, st \in States, UNCHANGED <<header, s, result>>, st' \in States,
           NEW i \in DOMAIN W, Found(i - 1), At(i)'
    PROVE  GInv'
<1>1. Found(i - 1)' /\ (DOMAIN W)' = DOMAIN W
  BY DEF Found, W
<1>2. Progress'
  BY <1>1 DEF Progress
<1> QED
  BY <1>2, LoopGInv

LEMMA NamesAre ==
    ASSUME PInv, GInv, Tracked, st # "idle", NEW i \in DOMAIN W
    PROVE  /\ W[i].first \in Nat /\ W[i].slash \in Nat /\ PartEnd(i, 0) \in Nat
           /\ W[i].first <= W[i].slash /\ W[i].slash < PartEnd(i, 0)
           /\ PartEnd(i, 0) <= Len(s) + 1
           /\ W[i].type \in Text /\ W[i].type # <<>> /\ W[i].sub \in Text /\ W[i].sub # <<>>
           /\ Spell(s, Told(s, W[i].first, W[i].slash), W[i].type)
           /\ Spell(s, Told(s, W[i].slash + 1, PartEnd(i, 0)), W[i].sub)
           /\ NamesIn(s, W[i], PartEnd(i, 0))
<1>1. s \in Text /\ WrittenIn(s, W)
  BY TextIsWritten
<1>2. /\ NamesIn(s, W[i], EndOfPart(s, W, i, 0))
      /\ W[i].first \in Nat /\ W[i].slash \in Nat
      /\ W[i].type \in Text /\ W[i].sub \in Text /\ Len(W[i].params) \in Nat
  BY <1>1, RangeIs
<1>3. 0 \in 0 .. Len(W[i].params)
  BY <1>2
<1>4. EndOfPart(s, W, i, 0) \in Nat /\ EndOfPart(s, W, i, 0) <= Len(s) + 1
  BY <1>1, <1>3, EndIs
<1>5. /\ W[i].first <= W[i].slash /\ W[i].slash < EndOfPart(s, W, i, 0)
      /\ W[i].type # <<>> /\ W[i].sub # <<>>
      /\ Spell(s, Told(s, W[i].first, W[i].slash), W[i].type)
      /\ Spell(s, Told(s, W[i].slash + 1, EndOfPart(s, W, i, 0)), W[i].sub)
  BY <1>2 DEF NamesIn, Spells
<1> QED
  BY <1>2, <1>4, <1>5 DEF PartEnd

LEMMA ReadTypeGInv ==
    ASSUME PInv, GInv, ReadType
    PROVE  GInv'
<1> SUFFICES ASSUME Tracked PROVE GInv'
  BY UntrackedGInv DEF ReadType, Reading, Advance, Refuse
<1>1. st = "type" /\ st \in States /\ st # "idle" /\ cur <= Len(s) /\ s[cur] # "blank"
  BY DEF ReadType, Reading, Here, States
<1>2. PICK i \in DOMAIN W : Found(i - 1) /\ AtType(i)
  BY <1>1 DEF GInv, Progress, At, AtParam
<1>3. /\ s \in Text /\ DOMAIN s = 1 .. Len(s) /\ Len(s) \in Nat /\ cur \in Nat /\ cur >= 1
  BY <1>1, TextIsWritten
<1> DEFINE places == Told(s, W[i].first, W[i].slash)
<1>4. /\ W[i].first \in Nat /\ W[i].slash \in Nat /\ PartEnd(i, 0) \in Nat
      /\ W[i].slash < PartEnd(i, 0)
      /\ W[i].type \in Text /\ Spell(s, places, W[i].type)
      /\ NamesIn(s, W[i], PartEnd(i, 0))
  BY <1>1, NamesAre
<1>5. /\ W[i].first <= cur /\ cur <= W[i].slash /\ tmpMedia = NoMedia
      /\ tmpStr = Prefix(places, W[i].type, cur)
  BY <1>2 DEF AtType, Reads
<1>6. CASE cur < W[i].slash
  <2>1. cur \in W[i].first .. PartEnd(i, 0) - 1 /\ cur # W[i].slash
    BY <1>3, <1>4, <1>5, <1>6
  <2>2. s[cur] \in NameChars
    BY <1>1, <1>4, <2>1 DEF NamesIn
  <2>3. s[cur] # "/"
    BY <2>2 DEF NameChars
  <2>4. Keep(s[cur]) /\ Advance("type")
    BY <2>2, <2>3 DEF ReadType, Here
  <2>5. cur \in places /\ cur \in DOMAIN s
    BY <1>1, <1>3, <1>4, <1>5, <1>6 DEF Told
  <2>6. Prefix(places, W[i].type, cur + 1) = Append(tmpStr, s[cur])
    <3>1. IsFiniteSet(places) /\ places \in SUBSET Int
      BY <1>4, ToldPlaces
    <3> HIDE DEF places
    <3> QED
      BY <1>4, <1>5, <2>5, <3>1, PrefixGrows
  <2>7. AtType(i)'
    <3>1. /\ W' = W /\ s' = s /\ cur' = cur + 1 /\ tmpMedia' = NoMedia
          /\ tmpStr' = Prefix(places, W[i].type, cur + 1)
      BY <1>5, <2>4, <2>6 DEF Keep, Advance, W
    <3>2. W[i].first <= cur + 1 /\ cur + 1 <= W[i].slash
      BY <1>3, <1>4, <1>5, <1>6
    <3> QED
      BY <3>1, <3>2 DEF AtType, Reads
  <2> QED
    BY <1>1, <1>2, <2>4, <2>7, StaysGInv DEF At, Keep, Advance
<1>7. CASE cur = W[i].slash
  <2>1. s[cur] = "/"
    BY <1>4, <1>7 DEF NamesIn
  <2>2. /\ Advance("subtype")
        /\ tmpMedia' = [tmpMedia EXCEPT !.type = tmpStr]
        /\ tmpStr' = <<>> /\ UNCHANGED result
    BY <2>1 DEF ReadType, Here, NameChars
  <2>3. tmpStr = W[i].type
    <3>1. \A l \in places : l < cur
      BY <1>4, <1>7 DEF Told
    <3> HIDE DEF places
    <3> QED
      BY <1>4, <1>5, <3>1, PrefixOfAll
  <2>4. Prefix(Told(s, W[i].slash + 1, PartEnd(i, 0)), W[i].sub, cur + 1) = <<>>
    <3>1. \A l \in Told(s, W[i].slash + 1, PartEnd(i, 0)) : ~(l < cur + 1)
      BY <1>4, <1>7 DEF Told
    <3>2. W[i].sub \in Text
      BY <1>1, NamesAre
    <3> QED
      BY <3>1, <3>2, PrefixOfNone
  <2>5. PartEnd(i, 0)' = PartEnd(i, 0)
    BY <2>2 DEF PartEnd, Advance, W
  <2>6. AtSubType(i)'
    BY <1>4, <1>5, <1>7, <2>2, <2>3, <2>4, <2>5 DEF AtSubType, Reads, Advance, W
  <2> QED
    BY <1>1, <1>2, <2>2, <2>6, StaysGInv DEF At, Advance, States
<1> QED
  BY <1>3, <1>4, <1>5, <1>6, <1>7

\* What follows a part: another parameter, or another range.
LEMMA EndHere ==
    ASSUME PInv, GInv, Tracked, st # "idle", NEW i \in DOMAIN W,
           NEW j \in 0 .. Len(W[i].params), cur = PartEnd(i, j), cur <= Len(s)
    PROVE  \/ /\ s[cur] = ";"
              /\ j + 1 \in DOMAIN W[i].params /\ cur = W[i].params[j + 1].semi
           \/ /\ s[cur] = ","
              /\ j = Len(W[i].params) /\ i < Len(W)
<1>1. /\ s \in Text /\ WrittenIn(s, W) /\ Len(s) \in Nat /\ cur \in Nat
  BY TextIsWritten
<1>2. Len(W[i].params) \in Nat /\ DOMAIN W[i].params = 1 .. Len(W[i].params)
  BY <1>1, RangeIs
<1>3. CASE j < Len(W[i].params)
  <2>1. j + 1 \in DOMAIN W[i].params /\ (j + 1) - 1 = j
    BY <1>2, <1>3
  <2>2. EndOfPart(s, W, i, (j + 1) - 1) = W[i].params[j + 1].semi
    BY <1>1, <2>1, EndInRange
  <2>3. cur = W[i].params[j + 1].semi
    BY <2>1, <2>2 DEF PartEnd
  <2>4. ParamIn(s, W[i].params[j + 1], EndOfPart(s, W, i, j + 1))
    BY <1>1, <2>1, ParamIs
  <2>5. s[cur] = ";"
    BY <2>3, <2>4 DEF ParamIn
  <2> QED
    BY <2>1, <2>3, <2>5
<1>4. CASE j = Len(W[i].params) /\ i < Len(W)
  <2>1. cur = EndOfRange(s, W, i)
    BY <1>4 DEF PartEnd, EndOfPart
  <2>2. RangeIn(s, W, i)
    BY <1>1, RangeIs
  <2>3. s[cur] = ","
    BY <1>4, <2>1, <2>2 DEF RangeIn
  <2> QED
    BY <1>4, <2>3
<1>5. CASE j = Len(W[i].params) /\ ~(i < Len(W))
  <2>1. cur = Len(s) + 1
    BY <1>1, <1>5, EndOfLast DEF PartEnd
  <2>2. ~(cur <= Len(s))
    BY <1>1, <2>1
  <2> QED
    BY <2>2
<1>6. j < Len(W[i].params) \/ j = Len(W[i].params)
  BY <1>2
<1> QED
  BY <1>3, <1>4, <1>5, <1>6

LEMMA OneBack ==
    ASSUME NEW n \in Nat
    PROVE  (n + 1) - 1 = n
OBVIOUS

\* The range read so far is taken on to its next parameter, or appended.
LEMMA BehindPart ==
    ASSUME PInv, GInv, Tracked, st \in States, NEW i \in DOMAIN W,
           NEW j \in Nat, j \in 0 .. Len(W[i].params), cur = PartEnd(i, j), cur <= Len(s),
           Found(i - 1), NEW m \in RawMedia, m.type = W[i].type, m.sub = W[i].sub,
           HasParams(m.params, W[i].params, j), tmpStr' = <<>>,
           s[cur] = "," => appendResult(m) /\ Advance("type"),
           s[cur] = ";" => tmpMedia' = m /\ Advance("key") /\ UNCHANGED result
    PROVE  GInv'
<1>1. st # "idle"
  BY DEF States
<1>2. \/ /\ s[cur] = ";"
         /\ j + 1 \in DOMAIN W[i].params /\ cur = W[i].params[j + 1].semi
      \/ /\ s[cur] = ","
         /\ j = Len(W[i].params) /\ i < Len(W)
  BY <1>1, EndHere
<1>3. CASE /\ s[cur] = ";"
           /\ j + 1 \in DOMAIN W[i].params /\ cur = W[i].params[j + 1].semi
  <2>1. /\ tmpMedia' = m /\ Advance("key") /\ UNCHANGED result
    BY <1>3
  <2>2. W' = W
    BY <2>1 DEF Advance, W
  <2>3. (j + 1) - 1 = j
    BY OneBack
  <2>4. Partial(i, (j + 1) - 1)'
    BY <2>1, <2>2, <2>3 DEF Partial
  <2>5. j + 1 \in DOMAIN W[i].params /\ cur = W[i].params[j + 1].semi
    BY <1>3
  <2> QED
    BY <2>1, <2>4, <2>5, NextParam
<1>4. CASE s[cur] = "," /\ j = Len(W[i].params) /\ i < Len(W)
  <2>1. appendResult(m) /\ Advance("type") /\ cur = PartEnd(i, Len(W[i].params))
    BY <1>4
  <2>2. IsAsWritten(m, W[i])
    BY <1>4 DEF IsAsWritten
  <2>3. W \in Seq(WrittenRange) /\ W[i].type # <<>> /\ W[i].sub # <<>>
    BY <1>1, TextIsWritten, NamesAre
  <2>4. Found(i)' /\ tmpMedia' = NoMedia
    BY <2>1, <2>2, <2>3, AppendsRange DEF Advance
  <2> QED
    BY <2>1, <2>4, NextRange
<1> QED
  BY <1>2, <1>3, <1>4

LEMMA ReadSubTypeGInv ==
    ASSUME PInv, GInv, ReadSubType
    PROVE  GInv'
<1> SUFFICES ASSUME Tracked PROVE GInv'
  <2>1. UNCHANGED header /\ st # "idle"
    BY DEF ReadSubType, Reading, Advance, Refuse
  <2> QED
    BY <2>1, UntrackedGInv
<1>1. st = "subtype" /\ st \in States /\ st # "idle" /\ cur <= Len(s) /\ s[cur] # "blank"
  BY DEF ReadSubType, Reading, Here, States
<1>2. PICK i \in DOMAIN W : Found(i - 1) /\ AtSubType(i)
  BY <1>1 DEF GInv, Progress, At, AtParam
<1>3. /\ s \in Text /\ DOMAIN s = 1 .. Len(s) /\ Len(s) \in Nat /\ cur \in Nat /\ cur >= 1
      /\ WrittenIn(s, W)
  BY <1>1, TextIsWritten
<1> DEFINE end == PartEnd(i, 0)
           places == Told(s, W[i].slash + 1, end)
<1>4. /\ W[i].first \in Nat /\ W[i].slash \in Nat /\ end \in Nat
      /\ W[i].first <= W[i].slash /\ W[i].slash < end
      /\ W[i].sub \in Text /\ W[i].sub # <<>> /\ Spell(s, places, W[i].sub)
      /\ NamesIn(s, W[i], end)
  BY <1>1, NamesAre
<1>5. /\ W[i].slash < cur /\ cur <= end
      /\ tmpMedia = [NoMedia EXCEPT !.type = W[i].type]
      /\ tmpStr = Prefix(places, W[i].sub, cur)
  BY <1>2 DEF AtSubType, Reads
<1>6. CASE cur < end
  <2>1. cur \in W[i].first .. end - 1 /\ cur # W[i].slash
    BY <1>3, <1>4, <1>5, <1>6
  <2>2. s[cur] \in NameChars
    BY <1>1, <1>4, <2>1 DEF NamesIn
  <2>3. s[cur] # "," /\ s[cur] # ";"
    BY <2>2 DEF NameChars
  <2>4. Keep(s[cur]) /\ Advance("subtype")
    BY <2>2, <2>3 DEF ReadSubType, Here
  <2>5. cur \in places /\ cur \in DOMAIN s
    BY <1>1, <1>3, <1>4, <1>5, <1>6 DEF Told
  <2>6. Prefix(places, W[i].sub, cur + 1) = Append(tmpStr, s[cur])
    <3>1. W[i].slash + 1 \in Nat
      BY <1>4
    <3>2. IsFiniteSet(places) /\ places \in SUBSET Int
      BY <1>4, <3>1, ToldPlaces
    <3> HIDE DEF places
    <3> QED
      BY <1>4, <1>5, <2>5, <3>2, PrefixGrows
  <2>7. AtSubType(i)'
    <3>1. /\ W' = W /\ s' = s /\ cur' = cur + 1 /\ tmpMedia' = tmpMedia
          /\ tmpStr' = Prefix(places, W[i].sub, cur + 1)
      BY <1>5, <2>4, <2>6 DEF Keep, Advance, W
    <3>2. end' = end
      BY <3>1 DEF PartEnd
    <3>3. W[i].slash < cur + 1 /\ cur + 1 <= end
      BY <1>3, <1>4, <1>5, <1>6
    <3> QED
      BY <1>5, <3>1, <3>2, <3>3 DEF AtSubType, Reads
  <2> QED
    BY <1>1, <1>2, <2>4, <2>7, StaysGInv DEF At, Keep, Advance
<1>7. CASE cur = end
  <2>1. tmpStr = W[i].sub
    <3>1. \A l \in places : l < cur
      BY <1>4, <1>7 DEF Told
    <3> HIDE DEF places
    <3> QED
      BY <1>4, <1>5, <3>1, PrefixOfAll
  <2> DEFINE m == WithSubType(tmpMedia)
  <2>2. m \in RawMedia
    BY WithSubTypeIsRaw DEF PInv
  <2>3. m.type = W[i].type /\ m.sub = W[i].sub /\ m.params = NoMedia.params
    BY <1>5, <2>1 DEF WithSubType, NoMedia
  <2>4. 0 \in Nat /\ 0 \in 0 .. Len(W[i].params)
    BY <1>3, RangeIs
  <2>5. s[cur] \in {",", ";"}
    BY <1>1, <1>7, <2>4, EndHere
  <2>6. s[cur] \notin NameChars
    BY <2>5 DEF NameChars
  <2>7. /\ tmpStr' = <<>>
        /\ s[cur] = "," => appendResult(m) /\ Advance("type")
        /\ s[cur] = ";" => tmpMedia' = m /\ Advance("key") /\ UNCHANGED result
    BY <1>4, <2>1, <2>5, <2>6 DEF ReadSubType, Here
  <2>8. HasParams(m.params, W[i].params, 0)
    BY <2>3, NoParams
  <2> HIDE DEF m
  <2> QED
    BY <1>1, <1>2, <1>7, <2>2, <2>3, <2>4, <2>7, <2>8, BehindPart
<1> QED
  BY <1>3, <1>4, <1>5, <1>6, <1>7

\* The loop stays in its range, in one of the parameters.
LEMMA StaysInParam ==
    ASSUME GInv, st \in States, UNCHANGED <<header, s, result>>, st' \in States,
           NEW i \in DOMAIN W, Found(i - 1), NEW j \in DOMAIN W[i].params,
           \/ st' = "key" /\ AtKey(i, j)'
           \/ st' = "value" /\ AtValue(i, j)'
           \/ st' = "quoted" /\ AtQuoted(i, j)'
           \/ st' = "separator" /\ AtSeparator(i, j)'
    PROVE  GInv'
<1>1. (DOMAIN W[i].params)' = DOMAIN W[i].params
  BY DEF W
<1>2. AtParam(i)'
  BY <1>1 DEF AtParam
<1> QED
  BY <1>2, StaysGInv DEF At

LEMMA SamePartial ==
    ASSUME UNCHANGED <<header, tmpMedia>>, NEW i, NEW n, Partial(i, n)
    PROVE  Partial(i, n)'
BY DEF Partial, W

LEMMA SameEnd ==
    ASSUME UNCHANGED <<header, s>>, NEW i, NEW n
    PROVE  PartEnd(i, n)' = PartEnd(i, n)
BY DEF PartEnd, W

LEMMA ParamsAre ==
    ASSUME PInv, GInv, Tracked, st # "idle", NEW i \in DOMAIN W,
           NEW j \in DOMAIN W[i].params
    PROVE  /\ W[i].params[j].key \in Text /\ W[i].params[j].value \in Text
           /\ W[i].params[j].semi \in Nat /\ W[i].params[j].eq \in Nat
           /\ W[i].params[j].open \in Nat /\ W[i].params[j].close \in Nat
           /\ PartEnd(i, j) \in Nat /\ PartEnd(i, j) <= Len(s) + 1
           /\ ParamIn(s, W[i].params[j], PartEnd(i, j))
           /\ j \in Nat /\ 1 <= j /\ j \in 0 .. Len(W[i].params)
           /\ W[i].params \in Seq(Params)
<1>1. s \in Text /\ WrittenIn(s, W)
  BY TextIsWritten
<1>2. /\ W[i].params[j].key \in Text /\ W[i].params[j].value \in Text
      /\ W[i].params[j].semi \in Nat /\ W[i].params[j].eq \in Nat
      /\ W[i].params[j].open \in Nat /\ W[i].params[j].close \in Nat
      /\ ParamIn(s, W[i].params[j], EndOfPart(s, W, i, j))
      /\ j \in Nat /\ 1 <= j /\ j <= Len(W[i].params)
  BY <1>1, ParamIs
<1>3. Len(W[i].params) \in Nat /\ W[i].params \in Seq(Params)
  BY <1>1, RangeIs
<1>4. j \in 0 .. Len(W[i].params)
  BY <1>2, <1>3
<1>5. EndOfPart(s, W, i, j) \in Nat /\ EndOfPart(s, W, i, j) <= Len(s) + 1
  BY <1>1, <1>4, EndIs
<1> QED
  BY <1>2, <1>3, <1>4, <1>5 DEF PartEnd

LEMMA ReadKeyGInv ==
    ASSUME PInv, GInv, ReadKey
    PROVE  GInv'
<1> SUFFICES ASSUME Tracked PROVE GInv'
  <2>1. UNCHANGED header /\ st # "idle"
    BY DEF ReadKey, Reading, Advance
  <2> QED
    BY <2>1, UntrackedGInv
<1>1. st = "key" /\ st \in States /\ st # "idle" /\ cur <= Len(s) /\ s[cur] # "blank"
  BY DEF ReadKey, Reading, Here, States
<1>2. PICK i \in DOMAIN W : Found(i - 1) /\ AtParam(i)
  BY <1>1 DEF GInv, Progress, At
<1>3. PICK j \in DOMAIN W[i].params : AtKey(i, j)
  BY <1>1, <1>2 DEF AtParam
<1>4. /\ s \in Text /\ DOMAIN s = 1 .. Len(s) /\ Len(s) \in Nat /\ cur \in Nat /\ cur >= 1
  BY <1>1, TextIsWritten
<1> DEFINE p == W[i].params[j]
           places == Told(s, p.semi + 1, p.eq)
<1>5. /\ p.key \in Text /\ p.semi \in Nat /\ p.eq \in Nat /\ p.value \in Text
      /\ PartEnd(i, j) \in Nat /\ ParamIn(s, p, PartEnd(i, j)) /\ p.open \in Nat
  BY <1>1, ParamsAre
<1>6. /\ p.semi < cur /\ cur <= p.eq /\ Partial(i, j - 1)
      /\ tmpStr = Prefix(places, p.key, cur)
  BY <1>3 DEF AtKey, Reads
<1>7. Spell(s, places, p.key) /\ p.eq < PartEnd(i, j)
  BY <1>5 DEF ParamIn, Spells
<1>8. CASE cur < p.eq
  <2>1. cur \in p.semi + 1 .. p.eq - 1 /\ cur \in DOMAIN s
    BY <1>1, <1>4, <1>5, <1>6, <1>8
  <2>2. s[cur] # "="
    BY <1>5, <2>1 DEF ParamIn
  <2>3. Keep(s[cur]) /\ Advance("key")
    BY <2>2 DEF ReadKey, Here
  <2>4. cur \in places
    BY <1>1, <2>1 DEF Told
  <2>5. Prefix(places, p.key, cur + 1) = Append(tmpStr, s[cur])
    <3>1. p.semi + 1 \in Nat
      BY <1>5
    <3>2. IsFiniteSet(places) /\ places \in SUBSET Int
      BY <1>5, <3>1, ToldPlaces
    <3> HIDE DEF places
    <3> QED
      BY <1>5, <1>6, <1>7, <2>1, <2>4, <3>2, PrefixGrows
  <2>6. AtKey(i, j)'
    <3>1. /\ W' = W /\ s' = s /\ cur' = cur + 1
          /\ tmpStr' = Prefix(places, p.key, cur + 1)
      BY <1>6, <2>3, <2>5 DEF Keep, Advance, W
    <3>2. p.semi < cur + 1 /\ cur + 1 <= p.eq
      BY <1>4, <1>5, <1>6, <1>8
    <3>3. Partial(i, j - 1)'
      BY <1>6, <2>3, SamePartial DEF Keep, Advance
    <3> QED
      BY <3>1, <3>2, <3>3 DEF AtKey, Reads
  <2> QED
    BY <1>1, <1>2, <2>3, <2>6, StaysInParam DEF Keep, Advance
<1>9. CASE cur = p.eq
  <2>1. s[cur] = "="
    BY <1>5, <1>9 DEF ParamIn
  <2>2. /\ Advance("value") /\ tmpKey' = tmpStr /\ tmpStr' = <<>>
        /\ UNCHANGED <<tmpMedia, result>>
    BY <2>1 DEF ReadKey, Here
  <2>3. tmpStr = p.key
    <3>1. \A l \in places : l < cur
      BY <1>5, <1>9 DEF Told
    <3> HIDE DEF places
    <3> QED
      BY <1>5, <1>6, <1>7, <3>1, PrefixOfAll
  <2>4. Prefix(Told(s, p.eq + 1, PartEnd(i, j)), p.value, cur + 1) = <<>>
    <3>1. \A l \in Told(s, p.eq + 1, PartEnd(i, j)) : ~(l < cur + 1)
      BY <1>5, <1>9 DEF Told
    <3> HIDE DEF p
    <3> QED
      BY <1>5, <3>1, PrefixOfNone
  <2>5. AtValue(i, j)'
    <3>1. /\ W' = W /\ s' = s /\ cur' = cur + 1 /\ tmpStr' = <<>> /\ tmpKey' = p.key
      BY <2>2, <2>3 DEF Advance, W
    <3>2. PartEnd(i, j)' = PartEnd(i, j) /\ Partial(i, j - 1)'
      BY <1>6, <2>2, SamePartial, SameEnd DEF Advance
    <3>3. p.eq < cur + 1 /\ cur + 1 <= PartEnd(i, j)
      BY <1>5, <1>7, <1>9
    <3>4. IsQuoted(p) => cur + 1 <= p.open
      <4>1. IsQuoted(p) => p.eq < p.open
        BY <1>5 DEF ParamIn, QuotedValueIn
      <4> QED
        BY <1>5, <1>9, <4>1
    <3> QED
      BY <2>4, <3>1, <3>2, <3>3, <3>4 DEF AtValue, Reads
  <2> QED
    BY <1>1, <1>2, <2>2, <2>5, StaysInParam DEF Advance, States
<1> QED
  BY <1>4, <1>5, <1>6, <1>8, <1>9

\* The parameter read is the next of its range.
LEMMA ParamIsRead ==
    ASSUME PInv, GInv, Tracked, st # "idle", NEW i \in DOMAIN W,
           NEW j \in DOMAIN W[i].params, Partial(i, j - 1),
           tmpKey = W[i].params[j].key, tmpStr = W[i].params[j].value
    PROVE  /\ WithParam(tmpMedia) \in RawMedia
           /\ WithParam(tmpMedia).type = W[i].type /\ WithParam(tmpMedia).sub = W[i].sub
           /\ HasParams(WithParam(tmpMedia).params, W[i].params, j)
<1>1. tmpMedia \in RawMedia /\ tmpKey \in Text /\ tmpStr \in Text
  BY DEF PInv
<1>2. WithParam(tmpMedia) \in RawMedia
  BY <1>1, WithParamIsRaw
<1>3. /\ WithParam(tmpMedia).type = tmpMedia.type
      /\ WithParam(tmpMedia).sub = tmpMedia.sub
  BY <1>1 DEF WithParam, RawMedia
<1>4. W[i].params \in Seq(Params) /\ HasParams(tmpMedia.params, W[i].params, j - 1)
  BY ParamsAre DEF Partial
<1>5. HasParams(WithParam(tmpMedia).params, W[i].params, j)
  BY <1>1, <1>4, OneMoreParam
<1> QED
  BY <1>2, <1>3, <1>5 DEF Partial

LEMMA ReadValueGInv ==
    ASSUME PInv, GInv, ReadValue
    PROVE  GInv'
<1> SUFFICES ASSUME Tracked PROVE GInv'
  <2>1. UNCHANGED header /\ st # "idle"
    BY DEF ReadValue, Reading, Advance
  <2> QED
    BY <2>1, UntrackedGInv
<1>1. st = "value" /\ st \in States /\ st # "idle" /\ cur <= Len(s) /\ s[cur] # "blank"
  BY DEF ReadValue, Reading, Here, States
<1>2. PICK i \in DOMAIN W : Found(i - 1) /\ AtParam(i)
  BY <1>1 DEF GInv, Progress, At
<1>3. PICK j \in DOMAIN W[i].params : AtValue(i, j)
  BY <1>1, <1>2 DEF AtParam
<1>4. /\ s \in Text /\ DOMAIN s = 1 .. Len(s) /\ Len(s) \in Nat /\ cur \in Nat /\ cur >= 1
  BY <1>1, TextIsWritten
<1> DEFINE p == W[i].params[j]
           end == PartEnd(i, j)
<1>5. /\ p.eq \in Nat /\ p.open \in Nat /\ p.close \in Nat /\ p.value \in Text
      /\ end \in Nat /\ ParamIn(s, p, end)
      /\ j \in Nat /\ j \in 0 .. Len(W[i].params)
  BY <1>1, ParamsAre
<1>6. p.eq < cur /\ tmpKey = p.key /\ Partial(i, j - 1)
  BY <1>3 DEF AtValue
<1>7. CASE IsQuoted(p)
  <2>1. cur <= p.open /\ tmpStr = <<>>
    BY <1>3, <1>7 DEF AtValue
  <2>2. /\ p.open < p.close /\ s[p.open] = "quote"
        /\ \A k \in p.eq + 1 .. p.open - 1 : s[k] = "blank"
        /\ \A k \in p.open + 1 .. p.close - 1 : s[k] = "quote" => p.open < k - 1
    BY <1>5, <1>7 DEF ParamIn, QuotedValueIn, AllBlank
  <2>3. cur = p.open
    <3>1. ~(cur \in p.eq + 1 .. p.open - 1)
      BY <1>1, <2>2
    <3> QED
      BY <1>4, <1>5, <1>6, <2>1, <3>1
  <2>4. s[cur] = "quote"
    BY <2>2, <2>3
  <2>5. Advance("quoted") /\ UNCHANGED <<tmps, result>>
    BY <2>1, <2>4 DEF ReadValue, Here
  <2>6. s[cur + 1] = "quote" => cur + 1 = p.close
    <3>1. ASSUME s[cur + 1] = "quote", cur + 1 \in p.open + 1 .. p.close - 1
          PROVE  FALSE
      <4>1. p.open < (cur + 1) - 1
        BY <2>2, <3>1
      <4> QED
        BY <1>4, <1>5, <2>3, <4>1
    <3>2. cur + 1 \in p.open + 1 .. p.close - 1 \/ cur + 1 = p.close
      BY <1>4, <1>5, <2>2, <2>3
    <3> QED
      BY <3>1, <3>2
  <2>7. Prefix(ToldInQuotes(s, p.open + 1, p.close), p.value, cur + 1) = <<>>
    <3>1. \A l \in ToldInQuotes(s, p.open + 1, p.close) : ~(l < cur + 1)
      BY <1>5, <2>3 DEF ToldInQuotes
    <3> HIDE DEF p
    <3> QED
      BY <1>5, <3>1, PrefixOfNone
  <2>8. AtQuoted(i, j)'
    <3>1. /\ W' = W /\ s' = s /\ cur' = cur + 1 /\ tmpStr' = <<>> /\ tmpKey' = p.key
      BY <1>6, <2>1, <2>5 DEF Advance, W, tmps
    <3>2. Partial(i, j - 1)'
      BY <1>6, <2>5, SamePartial DEF Advance, tmps
    <3>3. p.open < cur + 1 /\ cur + 1 <= p.close
      BY <1>4, <1>5, <2>2, <2>3
    <3> QED
      BY <1>7, <2>6, <2>7, <3>1, <3>2, <3>3 DEF AtQuoted, Reads
  <2> QED
    BY <1>1, <1>2, <2>5, <2>8, StaysInParam DEF Advance, States
<1>8. CASE ~IsQuoted(p)
  <2> DEFINE places == Told(s, p.eq + 1, end)
  <2>1. cur <= end /\ tmpStr = Prefix(places, p.value, cur)
    BY <1>3, <1>8 DEF AtValue, Reads
  <2>2. /\ p.value # <<>> /\ p.value[1] # "quote"
        /\ \A k \in p.eq + 1 .. end - 1 : s[k] \notin {",", ";"}
        /\ Spell(s, places, p.value)
    BY <1>5, <1>8 DEF ParamIn, PlainValueIn, Spells
  <2>3. CASE cur < end
    <3>1. cur \in p.eq + 1 .. end - 1 /\ cur \in DOMAIN s
      BY <1>1, <1>4, <1>5, <1>6, <2>3
    <3>2. cur \in places
      BY <1>1, <3>1 DEF Told
    <3>3. /\ Prefix(places, p.value, cur + 1) = Append(tmpStr, s[cur])
          /\ tmpStr = <<>> => s[cur] = Head(p.value)
      <4>1. p.eq + 1 \in Nat
        BY <1>5
      <4>2. IsFiniteSet(places) /\ places \in SUBSET Int
        BY <1>5, <4>1, ToldPlaces
      <4> HIDE DEF places
      <4> QED
        BY <1>5, <2>1, <2>2, <3>1, <3>2, <4>2, PrefixGrows
    <3>4. s[cur] = "quote" => tmpStr # <<>>
      <4>1. Head(p.value) # "quote"
        <5>1. p.value \in Seq(Chars) /\ p.value # <<>>
          BY <1>5, <2>2 DEF Text
        <5>2. \A v \in Seq(Chars) : v # <<>> => Head(v) = v[1]
          OBVIOUS
        <5> QED
          BY <2>2, <5>1, <5>2
      <4> QED
        BY <3>3, <4>1
    <3>5. s[cur] \notin {",", ";"}
      BY <2>2, <3>1
    <3>6. Keep(s[cur]) /\ Advance("value")
      BY <3>4, <3>5 DEF ReadValue, Here
    <3>7. AtValue(i, j)'
      <4>1. /\ W' = W /\ s' = s /\ cur' = cur + 1 /\ tmpKey' = p.key
            /\ tmpStr' = Prefix(places, p.value, cur + 1)
        BY <1>6, <3>3, <3>6 DEF Keep, Advance, W
      <4>2. PartEnd(i, j)' = PartEnd(i, j) /\ Partial(i, j - 1)'
        BY <1>6, <3>6, SamePartial, SameEnd DEF Keep, Advance
      <4>3. p.eq < cur + 1 /\ cur + 1 <= end
        BY <1>4, <1>5, <1>6, <2>3
      <4> QED
        BY <1>8, <4>1, <4>2, <4>3 DEF AtValue, Reads
    <3> QED
      BY <1>1, <1>2, <3>6, <3>7, StaysInParam DEF Keep, Advance
  <2>4. CASE cur = end
    <3>1. tmpStr = p.value
      <4>1. \A l \in places : l < cur
        BY <1>5, <2>4 DEF Told
      <4> HIDE DEF places
      <4> QED
        BY <1>5, <2>1, <2>2, <4>1, PrefixOfAll
    <3>2. s[cur] \in {",", ";"}
      BY <1>1, <1>5, <2>4, EndHere
    <3> DEFINE m == WithParam(tmpMedia)
    <3>3. /\ m \in RawMedia /\ m.type = W[i].type /\ m.sub = W[i].sub
          /\ HasParams(m.params, W[i].params, j)
      BY <1>1, <1>6, <3>1, ParamIsRead
    <3>4. /\ tmpStr' = <<>>
          /\ s[cur] = "," => appendResult(m) /\ Advance("type")
          /\ s[cur] = ";" => tmpMedia' = m /\ Advance("key") /\ UNCHANGED result
      BY <3>2 DEF ReadValue, Here
    <3> HIDE DEF m
    <3> QED
      BY <1>1, <1>2, <1>5, <2>4, <3>3, <3>4, BehindPart
  <2> QED
    BY <1>4, <1>5, <2>1, <2>3, <2>4
<1> QED
  BY <1>7, <1>8

\* Behind an escaped quote, and behind what is no backslash, a quote closes.
LEMMA ReadQuotedGInv ==
    ASSUME PInv, GInv, ReadQuoted
    PROVE  GInv'
<1> SUFFICES ASSUME Tracked PROVE GInv'
  <2>1. UNCHANGED header /\ st # "idle"
    BY DEF ReadQuoted, Reading, Advance, Refuse
  <2> QED
    BY <2>1, UntrackedGInv
<1>1. st = "quoted" /\ st \in States /\ st # "idle" /\ cur <= Len(s)
  BY DEF ReadQuoted, Reading, States
<1>2. PICK i \in DOMAIN W : Found(i - 1) /\ AtParam(i)
  BY <1>1 DEF GInv, Progress, At
<1>3. PICK j \in DOMAIN W[i].params : AtQuoted(i, j)
  BY <1>1, <1>2 DEF AtParam
<1>4. /\ s \in Text /\ DOMAIN s = 1 .. Len(s) /\ Len(s) \in Nat /\ cur \in Nat /\ cur >= 1
  BY <1>1, TextIsWritten
<1> DEFINE p == W[i].params[j]
           places == ToldInQuotes(s, p.open + 1, p.close)
<1>5. /\ p.open \in Nat /\ p.close \in Nat /\ p.value \in Text
      /\ PartEnd(i, j) \in Nat /\ PartEnd(i, j) <= Len(s) + 1
      /\ ParamIn(s, p, PartEnd(i, j))
  BY <1>1, ParamsAre
<1>6. /\ IsQuoted(p) /\ p.open < cur /\ cur <= p.close
      /\ s[cur] = "quote" => cur = p.close
      /\ tmpKey = p.key /\ Partial(i, j - 1)
      /\ tmpStr = Prefix(places, p.value, cur)
  BY <1>3 DEF AtQuoted, Reads
<1>7. /\ p.close < PartEnd(i, j) /\ s[p.close] = "quote"
      /\ \A k \in p.open + 1 .. p.close - 1 : s[k] = "quote" => s[k - 1] = "backslash"
      /\ p.open < p.close - 1 => s[p.close - 1] # "backslash"
      /\ Spell(s, places, p.value)
  BY <1>5, <1>6 DEF ParamIn, QuotedValueIn
<1>8. IsFiniteSet(places) /\ places \in SUBSET Int
  <2>1. p.open + 1 \in Nat
    BY <1>5
  <2> QED
    BY <1>5, <2>1, ToldPlaces
<1>9. CASE cur = p.close
  <2>1. s[cur] = "quote"
    BY <1>7, <1>9
  <2>2. /\ Advance("separator") /\ tmpMedia' = WithParam(tmpMedia) /\ UNCHANGED result
    BY <2>1 DEF ReadQuoted, Here
  <2>3. tmpStr = p.value
    <3>1. \A l \in places : l < cur
      BY <1>5, <1>9 DEF ToldInQuotes
    <3> HIDE DEF places
    <3> QED
      BY <1>5, <1>6, <1>7, <3>1, PrefixOfAll
  <2>4. AtSeparator(i, j)'
    <3>1. /\ WithParam(tmpMedia).type = W[i].type /\ WithParam(tmpMedia).sub = W[i].sub
          /\ HasParams(WithParam(tmpMedia).params, W[i].params, j)
      BY <1>1, <1>6, <2>3, ParamIsRead
    <3>2. W' = W /\ s' = s /\ cur' = cur + 1
      BY <2>2 DEF Advance, W
    <3>3. PartEnd(i, j)' = PartEnd(i, j)
      BY <2>2, SameEnd DEF Advance
    <3>4. Partial(i, j)'
      BY <2>2, <3>1, <3>2 DEF Partial
    <3>5. p.close < cur + 1 /\ cur + 1 <= PartEnd(i, j)
      BY <1>5, <1>7, <1>9
    <3> QED
      BY <1>6, <3>2, <3>3, <3>4, <3>5 DEF AtSeparator
  <2> QED
    BY <1>1, <1>2, <2>2, <2>4, StaysInParam DEF Advance, States
<1>10. CASE cur < p.close
  <2>1. /\ s[cur] # "quote" /\ cur \in p.open + 1 .. p.close - 1 /\ cur \in DOMAIN s
    BY <1>1, <1>4, <1>5, <1>6, <1>10
  <2>2. ASSUME ~(s[cur] = "backslash" /\ s[cur + 1] = "quote")
        PROVE  GInv'
    <3>1. s[cur] = "backslash" => cur < Len(s)
      <4>1. cur = p.close - 1 => s[cur] # "backslash"
        BY <1>5, <1>6, <1>7
      <4> QED
        BY <1>4, <1>5, <1>7, <2>1, <4>1
    <3>2. Keep(s[cur]) /\ Advance("quoted")
      BY <2>1, <2>2, <3>1 DEF ReadQuoted, Here
    <3>3. cur \in places
      BY <2>1, <2>2 DEF ToldInQuotes
    <3>4. Prefix(places, p.value, cur + 1) = Append(tmpStr, s[cur])
      <4> HIDE DEF places
      <4> QED
        BY <1>5, <1>6, <1>7, <1>8, <2>1, <3>3, PrefixGrows
    <3>5. s[cur + 1] = "quote" => cur + 1 = p.close
      <4>1. ASSUME s[cur + 1] = "quote", cur + 1 \in p.open + 1 .. p.close - 1
            PROVE  FALSE
        <5>1. s[(cur + 1) - 1] = "backslash" /\ (cur + 1) - 1 = cur
          BY <1>4, <1>7, <4>1
        <5> QED
          BY <2>2, <4>1, <5>1
      <4>2. cur + 1 \in p.open + 1 .. p.close - 1 \/ cur + 1 = p.close
        BY <1>4, <1>5, <2>1
      <4> QED
        BY <4>1, <4>2
    <3>6. AtQuoted(i, j)'
      <4>1. /\ W' = W /\ s' = s /\ cur' = cur + 1 /\ tmpKey' = p.key
            /\ tmpStr' = Prefix(places, p.value, cur + 1)
        BY <1>6, <3>2, <3>4 DEF Keep, Advance, W
      <4>2. Partial(i, j - 1)'
        BY <1>6, <3>2, SamePartial DEF Keep, Advance
      <4>3. p.open < cur + 1 /\ cur + 1 <= p.close
        BY <1>4, <1>5, <2>1
      <4> QED
        BY <1>6, <3>5, <4>1, <4>2, <4>3 DEF AtQuoted, Reads
    <3> QED
      BY <1>1, <1>2, <3>2, <3>6, StaysInParam DEF Keep, Advance
  <2>3. ASSUME s[cur] = "backslash", s[cur + 1] = "quote"
        PROVE  GInv'
    <3>1. cur + 1 < p.close
      <4>1. cur = p.close - 1 => s[cur] # "backslash"
        BY <1>5, <1>6, <1>7
      <4> QED
        BY <1>4, <1>5, <2>1, <2>3, <4>1
    <3>2. cur + 1 \in p.open + 1 .. p.close - 1 /\ cur + 1 \in DOMAIN s /\ cur < Len(s)
      BY <1>4, <1>5, <1>7, <2>1, <3>1
    <3>3. /\ Keep("quote") /\ cur' = cur + 2 /\ UNCHANGED <<header, s, st, outcome>>
      BY <2>1, <2>3, <3>2 DEF ReadQuoted, Here
    <3>4. cur \notin places /\ cur + 1 \in places
      BY <2>3, <3>2 DEF ToldInQuotes
    <3>5. Prefix(places, p.value, cur + 2) = Append(tmpStr, "quote")
      <4> HIDE DEF places
      <4>1. Prefix(places, p.value, cur + 1) = Prefix(places, p.value, cur)
        <5>1. \A l \in places : ~(cur <= l /\ l < cur + 1)
          BY <1>4, <1>8, <3>4
        <5> QED
          BY <1>4, <1>8, <5>1, PrefixSkips
      <4>2. Prefix(places, p.value, (cur + 1) + 1)
              = Append(Prefix(places, p.value, cur + 1), s[cur + 1])
        BY <1>5, <1>7, <1>8, <3>2, <3>4, PrefixGrows
      <4>3. (cur + 1) + 1 = cur + 2
        BY <1>4
      <4> QED
        BY <1>6, <2>3, <4>1, <4>2, <4>3
    <3>6. s[cur + 2] = "quote" => cur + 2 = p.close
      <4>1. ASSUME s[cur + 2] = "quote", cur + 2 \in p.open + 1 .. p.close - 1
            PROVE  FALSE
        <5>1. s[(cur + 2) - 1] = "backslash" /\ (cur + 2) - 1 = cur + 1
          BY <1>4, <1>7, <4>1
        <5> QED
          BY <2>3, <5>1
      <4>2. cur + 2 \in p.open + 1 .. p.close - 1 \/ cur + 2 = p.close
        BY <1>4, <1>5, <3>1, <3>2
      <4> QED
        BY <4>1, <4>2
    <3>7. AtQuoted(i, j)'
      <4>1. /\ W' = W /\ s' = s /\ cur' = cur + 2 /\ tmpKey' = p.key
            /\ tmpStr' = Prefix(places, p.value, cur + 2)
        BY <1>6, <3>3, <3>5 DEF Keep, W
      <4>2. Partial(i, j - 1)'
        BY <1>6, <3>3, SamePartial DEF Keep
      <4>3. p.open < cur + 2 /\ cur + 2 <= p.close
        BY <1>4, <1>5, <3>1, <3>2
      <4> QED
        BY <1>6, <3>6, <4>1, <4>2, <4>3 DEF AtQuoted, Reads
    <3> QED
      BY <1>1, <1>2, <3>3, <3>7, StaysInParam DEF Keep
  <2> QED
    BY <2>2, <2>3
<1> QED
  BY <1>4, <1>5, <1>6, <1>9, <1>10

LEMMA ReadSeparatorGInv ==
    ASSUME PInv, SInv, GInv, ReadSeparator
    PROVE  GInv'
<1> SUFFICES ASSUME Tracked PROVE GInv'
  <2>1. UNCHANGED header /\ st # "idle"
    BY DEF ReadSeparator, Reading, Advance, Refuse
  <2> QED
    BY <2>1, UntrackedGInv
<1>1. st = "separator" /\ st \in States /\ st # "idle" /\ cur <= Len(s) /\ s[cur] # "blank"
  BY DEF ReadSeparator, Reading, Here, States
<1>2. PICK i \in DOMAIN W : Found(i - 1) /\ AtParam(i)
  BY <1>1 DEF GInv, Progress, At
<1>3. PICK j \in DOMAIN W[i].params : AtSeparator(i, j)
  BY <1>1, <1>2 DEF AtParam
<1>4. /\ s \in Text /\ Len(s) \in Nat /\ cur \in Nat /\ cur >= 1 /\ WrittenIn(s, W)
  BY <1>1, TextIsWritten
<1> DEFINE p == W[i].params[j]
           end == PartEnd(i, j)
<1>5. /\ p.close \in Nat /\ end \in Nat /\ ParamIn(s, p, end)
      /\ j \in Nat /\ 1 <= j /\ j \in 0 .. Len(W[i].params)
  BY <1>1, ParamsAre
<1>6. IsQuoted(p) /\ p.close < cur /\ cur <= end /\ Partial(i, j)
  BY <1>3 DEF AtSeparator
<1>7. cur = end
  <2>1. \A k \in p.close + 1 .. end - 1 : s[k] = "blank"
    BY <1>5, <1>6 DEF ParamIn, QuotedValueIn, AllBlank
  <2>2. ~(cur \in p.close + 1 .. end - 1)
    BY <1>1, <2>1
  <2> QED
    BY <1>4, <1>5, <1>6, <2>2
<1>8. s[cur] = ";"
  <2>1. CASE s[cur] = "," /\ j = Len(W[i].params) /\ i < Len(W)
    <3>1. Len(W[i].params) \in Nat /\ i \in Nat /\ 1 <= i /\ Len(W) \in Nat
      BY <1>4, RangeIs
    <3>2. i \in 1 .. Len(W) - 1
      <4>1. \A k, n \in Nat : 1 <= k /\ k < n => k \in 1 .. n - 1
        OBVIOUS
      <4> QED
        BY <2>1, <3>1, <4>1
    <3>3. W[i].params # <<>>
      <4>1. DOMAIN <<>> = {} /\ j \in DOMAIN W[i].params
        OBVIOUS
      <4> QED
        BY <4>1
    <3>4. IsQuoted(W[i].params[Len(W[i].params)])
      BY <1>6, <2>1
    <3>5. QuoteBeforeComma
      BY <3>2, <3>3, <3>4 DEF QuoteBeforeComma, W
    <3> QED
      BY <3>5 DEF Tracked
  <2> QED
    BY <1>1, <1>5, <1>7, <2>1, EndHere
<1>9. /\ tmpStr' = <<>> /\ tmpMedia' = tmpMedia /\ UNCHANGED result /\ Advance("key")
  BY <1>1, <1>8 DEF ReadSeparator, Here, SInv, tmps
<1>10. /\ tmpMedia \in RawMedia /\ tmpMedia.type = W[i].type /\ tmpMedia.sub = W[i].sub
       /\ HasParams(tmpMedia.params, W[i].params, j)
  BY <1>6 DEF PInv, Partial
<1>11. s[cur] # ","
  BY <1>8
<1> QED
  BY <1>1, <1>2, <1>5, <1>7, <1>9, <1>10, <1>11, BehindPart

\* A blank is in no name.
LEMMA BlankIsNotRead ==
    ASSUME NEW i \in Nat, NEW j \in Nat, NEW name, cur \in Nat, s[cur] = "blank"
    PROVE  Prefix(Told(s, i, j), name, cur + 1) = Prefix(Told(s, i, j), name, cur)
<1>1. cur \notin Told(s, i, j)
  BY DEF Told
<1>2. Told(s, i, j) \in SUBSET Int
  BY ToldPlaces
<1>3. \A l \in Told(s, i, j) : ~(cur <= l /\ l < cur + 1)
  BY <1>1, <1>2
<1> QED
  BY <1>2, <1>3, PrefixSkips

\* Nor is it where a part ends.
LEMMA BlankIsNoEnd ==
    ASSUME PInv, GInv, Tracked, st # "idle", NEW i \in DOMAIN W,
           NEW j \in 0 .. Len(W[i].params), cur <= Len(s), s[cur] = "blank"
    PROVE  cur # PartEnd(i, j)
BY EndHere

LEMMA SkipGInv ==
    ASSUME PInv, GInv, Skip
    PROVE  GInv'
<1> SUFFICES ASSUME Tracked PROVE GInv'
  <2>1. UNCHANGED header /\ st # "idle"
    BY DEF Skip, Advance, States
  <2> QED
    BY <2>1, UntrackedGInv
<1>1. /\ st \in States \ {"quoted"} /\ st # "idle" /\ cur <= Len(s) /\ s[cur] = "blank"
      /\ st' = st /\ cur' = cur + 1 /\ UNCHANGED <<header, s, tmpStr, tmpKey, tmpMedia, result>>
  BY DEF Skip, Here, States, Advance, tmps
<1>2. PICK i \in DOMAIN W : Found(i - 1) /\ At(i)
  BY <1>1 DEF GInv, Progress
<1>3. /\ s \in Text /\ Len(s) \in Nat /\ cur \in Nat /\ cur >= 1 /\ WrittenIn(s, W)
      /\ W' = W
  BY <1>1, TextIsWritten DEF W
<1>4. /\ W[i].first \in Nat /\ W[i].slash \in Nat /\ PartEnd(i, 0) \in Nat
      /\ NamesIn(s, W[i], PartEnd(i, 0)) /\ 0 \in 0 .. Len(W[i].params)
  BY <1>1, <1>3, NamesAre, RangeIs
<1>5. CASE st = "type"
  <2>1. AtType(i)
    BY <1>2, <1>5 DEF At, AtParam
  <2>2. cur # W[i].slash
    BY <1>1, <1>4 DEF NamesIn
  <2>3. AtType(i)'
    <3>1. tmpStr = Prefix(Told(s, W[i].first, W[i].slash), W[i].type, cur + 1)
      BY <1>1, <1>3, <1>4, <2>1, BlankIsNotRead DEF AtType, Reads
    <3>2. /\ W[i].first <= cur + 1 /\ cur + 1 <= W[i].slash /\ tmpMedia = NoMedia
      BY <1>3, <1>4, <2>1, <2>2 DEF AtType
    <3> QED
      BY <1>1, <1>3, <3>1, <3>2 DEF AtType, Reads
  <2> QED
    BY <1>1, <1>2, <1>5, <2>3, StaysGInv DEF At
<1>6. CASE st = "subtype"
  <2>1. AtSubType(i)
    BY <1>2, <1>6 DEF At, AtParam
  <2>2. cur # PartEnd(i, 0)
    BY <1>1, <1>4, BlankIsNoEnd
  <2>3. AtSubType(i)'
    <3>1. tmpStr = Prefix(Told(s, W[i].slash + 1, PartEnd(i, 0)), W[i].sub, cur + 1)
      <4>1. W[i].slash + 1 \in Nat
        BY <1>4
      <4> QED
        BY <1>1, <1>3, <1>4, <2>1, <4>1, BlankIsNotRead DEF AtSubType, Reads
    <3>2. /\ W[i].slash < cur + 1 /\ cur + 1 <= PartEnd(i, 0)
          /\ tmpMedia = [NoMedia EXCEPT !.type = W[i].type]
      BY <1>3, <1>4, <2>1, <2>2 DEF AtSubType
    <3>3. PartEnd(i, 0)' = PartEnd(i, 0)
      BY <1>1, SameEnd
    <3> QED
      BY <1>1, <1>3, <3>1, <3>2, <3>3 DEF AtSubType, Reads
  <2> QED
    BY <1>1, <1>2, <1>6, <2>3, StaysGInv DEF At
<1>7. CASE st \in {"key", "value", "separator"}
  <2>1. PICK j \in DOMAIN W[i].params :
            \/ st = "key" /\ AtKey(i, j)
            \/ st = "value" /\ AtValue(i, j)
            \/ st = "separator" /\ AtSeparator(i, j)
    BY <1>2, <1>7 DEF At, AtParam
  <2> DEFINE p == W[i].params[j]
             end == PartEnd(i, j)
  <2>2. /\ p.semi \in Nat /\ p.eq \in Nat /\ p.open \in Nat /\ p.close \in Nat
        /\ end \in Nat /\ ParamIn(s, p, end) /\ j \in 0 .. Len(W[i].params)
    BY <1>1, ParamsAre
  <2>3. cur # end /\ end' = end
    BY <1>1, <2>2, BlankIsNoEnd, SameEnd
  <2>4. s[p.eq] = "=" /\ p.semi + 1 \in Nat /\ p.eq + 1 \in Nat
    <3>1. s[p.eq] = "="
      BY <2>2 DEF ParamIn
    <3>2. p.semi + 1 \in Nat /\ p.eq + 1 \in Nat
      BY <2>2
    <3> QED
      BY <3>1, <3>2
  <2>5. CASE st = "key"
    <3>1. /\ p.semi < cur /\ cur <= p.eq /\ Partial(i, j - 1)
          /\ tmpStr = Prefix(Told(s, p.semi + 1, p.eq), p.key, cur)
      BY <2>1, <2>5 DEF AtKey, Reads
    <3>2. tmpStr = Prefix(Told(s, p.semi + 1, p.eq), p.key, cur + 1)
      BY <1>1, <1>3, <2>2, <2>4, <3>1, BlankIsNotRead
    <3>3. p.semi < cur + 1 /\ cur + 1 <= p.eq
      <4>1. cur # p.eq
        BY <1>1, <2>4
      <4> QED
        BY <1>3, <2>2, <3>1, <4>1
    <3>4. Partial(i, j - 1)'
      BY <1>1, <3>1, SamePartial
    <3>5. AtKey(i, j)'
      BY <1>1, <1>3, <3>2, <3>3, <3>4 DEF AtKey, Reads
    <3> QED
      BY <1>1, <1>2, <2>5, <3>5, StaysInParam
  <2>6. CASE st = "value"
    <3>1. p.eq < cur /\ tmpKey = p.key /\ Partial(i, j - 1)
      BY <2>1, <2>6 DEF AtValue
    <3>2. Partial(i, j - 1)' /\ p.eq < cur + 1
      BY <1>1, <1>3, <2>2, <3>1, SamePartial
    <3>3. CASE IsQuoted(p)
      <4>1. cur <= p.open /\ tmpStr = <<>>
        BY <2>1, <2>6, <3>3 DEF AtValue
      <4>2. s[p.open] = "quote"
        BY <2>2, <3>3 DEF ParamIn, QuotedValueIn
      <4>3. cur # p.open
        BY <1>1, <4>2
      <4>4. cur + 1 <= p.open
        BY <1>3, <2>2, <4>1, <4>3
      <4>5. AtValue(i, j)'
        BY <1>1, <1>3, <3>1, <3>2, <3>3, <4>1, <4>4 DEF AtValue
      <4> QED
        BY <1>1, <1>2, <2>6, <4>5, StaysInParam
    <3>4. CASE ~IsQuoted(p)
      <4>1. cur <= end /\ tmpStr = Prefix(Told(s, p.eq + 1, end), p.value, cur)
        BY <2>1, <2>6, <3>4 DEF AtValue, Reads
      <4>2. tmpStr = Prefix(Told(s, p.eq + 1, end), p.value, cur + 1)
        BY <1>1, <1>3, <2>2, <2>4, <4>1, BlankIsNotRead
      <4>3. cur + 1 <= end
        BY <1>3, <2>2, <2>3, <4>1
      <4>4. AtValue(i, j)'
        BY <1>1, <1>3, <2>3, <3>1, <3>2, <3>4, <4>2, <4>3 DEF AtValue, Reads
      <4> QED
        BY <1>1, <1>2, <2>6, <4>4, StaysInParam
    <3> QED
      BY <3>3, <3>4
  <2>7. CASE st = "separator"
    <3>1. IsQuoted(p) /\ p.close < cur /\ cur <= end /\ Partial(i, j)
      BY <2>1, <2>7 DEF AtSeparator
    <3>2. p.close < cur + 1 /\ cur + 1 <= end
      BY <1>3, <2>2, <2>3, <3>1
    <3>3. Partial(i, j)'
      BY <1>1, <3>1, SamePartial
    <3>4. AtSeparator(i, j)'
      BY <1>1, <1>3, <2>3, <3>1, <3>2, <3>3 DEF AtSeparator
    <3> QED
      BY <1>1, <1>2, <2>7, <3>4, StaysInParam
  <2> QED
    BY <1>7, <2>5, <2>6, <2>7
<1> QED
  BY <1>1, <1>5, <1>6, <1>7 DEF States

-----------------------------------------------------------------------------
(* Both ends of the loop *)

LEMMA StartsWithName ==
    ASSUME NEW text \in Text, NEW ranges, WrittenIn(text, ranges), ranges # <<>>
    PROVE  /\ 1 \in DOMAIN ranges /\ ranges[1].first = 1
           /\ ranges[1].slash \in Nat /\ 1 <= ranges[1].slash /\ ranges[1].type \in Text
           /\ \E k \in DOMAIN text : text[k] = "/"
<1>1. ranges \in Seq(WrittenRange) /\ ranges[1].first = 1
  BY DEF WrittenIn
<1>2. 1 \in DOMAIN ranges
  BY <1>1
<1>3. /\ NamesIn(text, ranges[1], EndOfPart(text, ranges, 1, 0))
      /\ ranges[1].slash \in Nat /\ ranges[1].type \in Text /\ Len(ranges[1].params) \in Nat
  BY <1>2, RangeIs
<1>4. 1 <= ranges[1].slash /\ ranges[1].slash < EndOfPart(text, ranges, 1, 0)
  BY <1>1, <1>3 DEF NamesIn
<1>5. 0 \in 0 .. Len(ranges[1].params)
  BY <1>3
<1>6. EndOfPart(text, ranges, 1, 0) \in Nat /\ EndOfPart(text, ranges, 1, 0) <= Len(text) + 1
  BY <1>2, <1>5, EndIs
<1>7. Len(text) \in Nat /\ DOMAIN text = 1 .. Len(text)
  BY DEF Text
<1>8. ranges[1].slash \in DOMAIN text /\ text[ranges[1].slash] = "/"
  BY <1>3, <1>4, <1>6, <1>7 DEF NamesIn
<1> QED
  BY <1>1, <1>2, <1>3, <1>4, <1>8

LEMMA ReceiveGInv ==
    ASSUME PInv, SInv, st = "idle", NEW h \in Headers, Receive(h)
    PROVE  GInv'
<1>1. /\ header' = h /\ header' \in Headers /\ st' \in {"done", "type"}
      /\ result' = <<>> /\ cur' = 1 /\ tmpStr' = <<>> /\ tmpMedia' = NoMedia
  BY DEF Receive, SInv, tmps
<1>2. SUFFICES ASSUME Tracked'
               PROVE  s' = header'.text /\ st' = "type" /\ Progress'
  BY <1>1 DEF GInv
<1>3. W' = h.written /\ h.written # <<>>
  BY <1>1, <1>2 DEF Tracked, W
<1>4. h.text \in Text /\ WrittenIn(h.text, h.written)
  BY <1>3, HeadersAssumption
<1>5. /\ 1 \in DOMAIN h.written /\ h.written[1].first = 1
      /\ h.written[1].slash \in Nat /\ 1 <= h.written[1].slash /\ h.written[1].type \in Text
      /\ \E k \in DOMAIN h.text : h.text[k] = "/"
  BY <1>3, <1>4, StartsWithName
<1>6. PICK k \in DOMAIN h.text : h.text[k] = "/"
  BY <1>5
<1>7. s' = h.text
  <2>1. h.text # <<"*">>
    BY <1>6
  <2> QED
    BY <2>1 DEF Receive
<1>8. st' = "type"
  <2>1. k \in 1 .. (Len(h.text) + 1) - 1
    BY <1>4, <1>6 DEF Text
  <2>2. ~AllBlank(h.text, 1, Len(h.text) + 1)
    BY <1>6, <2>1 DEF AllBlank
  <2> QED
    BY <2>2 DEF Receive
<1>9. AtType(1)'
  <2>1. \A l \in Told(h.text, 1, h.written[1].slash) : ~(l < 1)
    BY <1>5 DEF Told
  <2>2. Prefix(Told(h.text, 1, h.written[1].slash), h.written[1].type, 1) = <<>>
    BY <1>5, <2>1, PrefixOfNone
  <2> QED
    BY <1>1, <1>3, <1>5, <1>7, <2>2 DEF AtType, Reads
<1>10. Found(1 - 1)'
  BY <1>1 DEF Found
<1>11. Progress'
  BY <1>3, <1>5, <1>8, <1>9, <1>10 DEF Progress, At
<1> QED
  BY <1>1, <1>7, <1>8, <1>11

\* A part that ends with the text is the last one of the last range.
LEMMA LastPart ==
    ASSUME PInv, GInv, Tracked, st # "idle", NEW i \in DOMAIN W,
           NEW j \in 0 .. Len(W[i].params), PartEnd(i, j) = Len(s) + 1
    PROVE  j = Len(W[i].params) /\ i = Len(W)
<1>1. /\ s \in Text /\ WrittenIn(s, W) /\ Len(s) \in Nat /\ DOMAIN s = 1 .. Len(s)
  BY TextIsWritten
<1>2. Len(W[i].params) \in Nat /\ DOMAIN W[i].params = 1 .. Len(W[i].params)
  BY <1>1, RangeIs
<1>3. EndOfPart(s, W, i, j) = Len(s) + 1 /\ Len(s) + 1 \notin DOMAIN s
  BY <1>1 DEF PartEnd
<1>4. ~(j < Len(W[i].params))
  <2>1. ASSUME j < Len(W[i].params) PROVE FALSE
    <3>1. j + 1 \in DOMAIN W[i].params /\ (j + 1) - 1 = j
      BY <1>2, <2>1
    <3>2. /\ EndOfPart(s, W, i, (j + 1) - 1) = W[i].params[j + 1].semi
          /\ W[i].params[j + 1].semi \in DOMAIN s
      BY <1>1, <3>1, EndInRange
    <3> QED
      BY <1>3, <3>1, <3>2
  <2> QED
    BY <2>1
<1>5. j = Len(W[i].params)
  BY <1>2, <1>4
<1>6. ~(i < Len(W))
  <2>1. ASSUME i < Len(W) PROVE FALSE
    <3>1. EndOfPart(s, W, i, Len(W[i].params)) \in DOMAIN s
      BY <1>1, <2>1, EndOfAll
    <3> QED
      BY <1>3, <1>5, <3>1
  <2> QED
    BY <2>1
<1> QED
  BY <1>1, <1>5, <1>6, EndOfLast

\* With the last range appended, all are found and weighed.
LEMMA EndsWithAll ==
    ASSUME PInv, GInv, Tracked, EndOfHeader, ~EndsEarly, NEW i \in DOMAIN W,
           NEW j \in 0 .. Len(W[i].params), PartEnd(i, j) = Len(s) + 1, Found(i - 1),
           NEW m \in RawMedia, LastRange = m, m.type = W[i].type, m.sub = W[i].sub,
           HasParams(m.params, W[i].params, j)
    PROVE  GInv'
<1>1. /\ appendResult(m) /\ outcome' = Weigh(result') /\ st' = "done"
      /\ UNCHANGED <<header, s>> /\ st # "idle"
  BY DEF EndOfHeader, States
<1>2. j = Len(W[i].params) /\ i = Len(W)
  BY <1>1, LastPart
<1>3. IsAsWritten(m, W[i])
  BY <1>2 DEF IsAsWritten
<1>4. W \in Seq(WrittenRange) /\ W[i].type # <<>> /\ W[i].sub # <<>>
  BY <1>1, TextIsWritten, NamesAre
<1>5. Found(i)'
  BY <1>1, <1>3, <1>4, AppendsRange
<1>6. Found(Len(W))'
  BY <1>1, <1>2, <1>5 DEF Found, W
<1>7. header' \in Headers /\ s' = header'.text
  BY <1>1 DEF GInv
<1> QED
  BY <1>1, <1>6, <1>7 DEF GInv, States

LEMMA EndOfHeaderGInv ==
    ASSUME PInv, SInv, GInv, EndOfHeader
    PROVE  GInv'
<1> SUFFICES ASSUME Tracked PROVE GInv'
  <2>1. UNCHANGED header /\ st # "idle"
    BY DEF EndOfHeader, Refuse, States
  <2> QED
    BY <2>1, UntrackedGInv
<1>1. st \in States /\ st # "idle" /\ cur > Len(s)
  BY DEF EndOfHeader, States
<1>2. PICK i \in DOMAIN W : Found(i - 1) /\ At(i)
  BY <1>1 DEF GInv, Progress
<1>3. /\ s \in Text /\ Len(s) \in Nat /\ cur \in Nat /\ WrittenIn(s, W)
  BY <1>1, TextIsWritten
<1>4. cur = Len(s) + 1
  BY <1>1, <1>3 DEF SInv
<1>5. /\ W[i].slash \in Nat /\ PartEnd(i, 0) \in Nat
      /\ W[i].slash < PartEnd(i, 0) /\ PartEnd(i, 0) <= Len(s) + 1
      /\ W[i].sub \in Text /\ W[i].sub # <<>>
      /\ Spell(s, Told(s, W[i].slash + 1, PartEnd(i, 0)), W[i].sub)
      /\ 0 \in 0 .. Len(W[i].params)
  BY <1>1, <1>3, NamesAre, RangeIs
<1>6. CASE st = "type"
  <2>1. cur <= W[i].slash
    BY <1>2, <1>6 DEF At, AtParam, AtType
  <2> QED
    BY <1>3, <1>4, <1>5, <2>1
<1>7. CASE st = "subtype"
  <2>1. AtSubType(i)
    BY <1>2, <1>7 DEF At, AtParam
  <2>2. cur = PartEnd(i, 0)
    BY <1>3, <1>4, <1>5, <2>1 DEF AtSubType
  <2> DEFINE places == Told(s, W[i].slash + 1, PartEnd(i, 0))
  <2>3. tmpStr = W[i].sub
    <3>1. \A l \in places : l < cur
      BY <1>5, <2>2 DEF Told
    <3>2. tmpStr = Prefix(places, W[i].sub, cur)
      BY <2>1 DEF AtSubType, Reads
    <3> HIDE DEF places
    <3>3. Spell(s, places, W[i].sub)
      BY <1>5 DEF places
    <3> QED
      BY <1>5, <3>1, <3>2, <3>3, PrefixOfAll
  <2>4. ~EndsEarly
    BY <1>5, <1>7, <2>3 DEF EndsEarly
  <2> DEFINE m == WithSubType(tmpMedia)
  <2>5. LastRange = m
    BY <1>7 DEF LastRange
  <2>6. m \in RawMedia
    BY WithSubTypeIsRaw DEF PInv
  <2>7. m.type = W[i].type /\ m.sub = W[i].sub /\ m.params = NoMedia.params
    BY <2>1, <2>3 DEF AtSubType, WithSubType, NoMedia
  <2>8. HasParams(m.params, W[i].params, 0)
    BY <2>7, NoParams
  <2> HIDE DEF m
  <2> QED
    BY <1>2, <1>4, <1>5, <2>2, <2>4, <2>5, <2>6, <2>7, <2>8, EndsWithAll
<1>8. CASE st \in {"key", "value", "quoted", "separator"}
  <2>1. PICK j \in DOMAIN W[i].params :
            \/ st = "key" /\ AtKey(i, j)
            \/ st = "value" /\ AtValue(i, j)
            \/ st = "quoted" /\ AtQuoted(i, j)
            \/ st = "separator" /\ AtSeparator(i, j)
    BY <1>2, <1>8 DEF At, AtParam
  <2> DEFINE p == W[i].params[j]
             end == PartEnd(i, j)
  <2>2. /\ p.semi \in Nat /\ p.eq \in Nat /\ p.open \in Nat /\ p.close \in Nat
        /\ p.value \in Text /\ end \in Nat /\ end <= Len(s) + 1
        /\ ParamIn(s, p, end) /\ j \in 0 .. Len(W[i].params)
    BY <1>1, ParamsAre
  <2>3. p.eq < end
    BY <2>2 DEF ParamIn
  <2>4. IsQuoted(p) => p.open < p.close /\ p.close < end
    BY <2>2 DEF ParamIn, QuotedValueIn
  <2>5. CASE st = "key"
    <3>1. cur <= p.eq
      BY <2>1, <2>5 DEF AtKey
    <3> QED
      BY <1>3, <1>4, <2>2, <2>3, <3>1
  <2>6. CASE st = "quoted"
    <3>1. cur <= p.close /\ IsQuoted(p)
      BY <2>1, <2>6 DEF AtQuoted
    <3> QED
      BY <1>3, <1>4, <2>2, <2>4, <3>1
  <2>7. CASE st = "value"
    <3>1. AtValue(i, j)
      BY <2>1, <2>7
    <3>2. ~IsQuoted(p)
      <4>1. IsQuoted(p) => cur <= p.open
        BY <3>1 DEF AtValue
      <4> QED
        BY <1>3, <1>4, <2>2, <2>4, <4>1
    <3> DEFINE places == Told(s, p.eq + 1, end)
    <3>3. /\ cur <= end /\ tmpStr = Prefix(places, p.value, cur)
          /\ tmpKey = p.key /\ Partial(i, j - 1)
      BY <3>1, <3>2 DEF AtValue, Reads
    <3>4. cur = end
      BY <1>3, <1>4, <2>2, <3>3
    <3>5. p.value # <<>> /\ Spell(s, places, p.value)
      BY <2>2, <3>2 DEF ParamIn, PlainValueIn, Spells
    <3>6. tmpStr = p.value
      <4>1. \A l \in places : l < cur
        BY <2>2, <3>4 DEF Told
      <4> HIDE DEF places
      <4> QED
        BY <2>2, <3>3, <3>5, <4>1, PrefixOfAll
    <3>7. ~EndsEarly
      BY <2>7, <3>5, <3>6 DEF EndsEarly
    <3> DEFINE m == WithParam(tmpMedia)
    <3>8. LastRange = m
      BY <2>7 DEF LastRange
    <3>9. /\ m \in RawMedia /\ m.type = W[i].type /\ m.sub = W[i].sub
          /\ HasParams(m.params, W[i].params, j)
      BY <1>1, <3>3, <3>6, ParamIsRead
    <3> HIDE DEF m
    <3> QED
      BY <1>2, <1>4, <2>2, <3>4, <3>7, <3>8, <3>9, EndsWithAll
  <2>8. CASE st = "separator"
    <3>1. cur <= end /\ Partial(i, j)
      BY <2>1, <2>8 DEF AtSeparator
    <3>2. end = Len(s) + 1
      BY <1>3, <1>4, <2>2, <3>1
    <3>3. ~EndsEarly /\ LastRange = tmpMedia
      BY <2>8 DEF EndsEarly, LastRange
    <3>4. /\ tmpMedia \in RawMedia /\ tmpMedia.type = W[i].type /\ tmpMedia.sub = W[i].sub
          /\ HasParams(tmpMedia.params, W[i].params, j)
      BY <3>1 DEF PInv, Partial
    <3> QED
      BY <1>2, <2>2, <3>2, <3>3, <3>4, EndsWithAll
  <2> QED
    BY <1>8, <2>5, <2>6, <2>7, <2>8
<1> QED
  BY <1>1, <1>6, <1>7, <1>8 DEF States

LEMMA NextGInv ==
    ASSUME PInv, SInv, GInv, Next
    PROVE  GInv'
<1>1. CASE st = "idle" /\ \E h \in Headers : Receive(h)
  BY <1>1, ReceiveGInv
<1>2. CASE parseAcceptHeader
  BY <1>2, SkipGInv, ReadTypeGInv, ReadSubTypeGInv, ReadKeyGInv, ReadValueGInv,
     ReadQuotedGInv, ReadSeparatorGInv, EndOfHeaderGInv DEF parseAcceptHeader
<1>3. CASE Return
  BY <1>3 DEF Return, GInv, States
<1> QED
  BY <1>1, <1>2, <1>3 DEF Next

LEMMA FoundIsParsed ==
    ASSUME PInv, GInv
    PROVE  ListedIsParsed
<1> SUFFICES ASSUME st = "done", header.written # <<>>, ~QuoteBeforeComma
             PROVE  /\ Len(result) = Len(header.written)
                    /\ \A i \in DOMAIN result : IsAsWritten(result[i], header.written[i])
                    /\ outcome.kind = "malformed"
                         <=> \E i \in DOMAIN result : ~IsWeighed(result[i])
  BY DEF ListedIsParsed
<1>1. Tracked /\ W = header.written /\ st # "idle"
  BY DEF Tracked, W
<1>2. Found(Len(W)) /\ outcome = Weigh(result)
  BY <1>1 DEF GInv
<1>3. W \in Seq(WrittenRange) /\ W # <<>>
  BY <1>1, TextIsWritten
<1>4. result \in Seq(CompleteMedia) /\ Len(result) = Len(W)
  BY <1>2 DEF Found, PInv
<1>5. DOMAIN result = 1 .. Len(W) /\ result # <<>>
  BY <1>3, <1>4
<1>6. \A i \in DOMAIN result : IsAsWritten(result[i], W[i])
  BY <1>2, <1>5 DEF Found
<1>7. outcome.kind = "malformed" <=> \E i \in DOMAIN result : ~IsWeighed(result[i])
  BY <1>2, <1>5 DEF Weigh, Malformed
<1> QED
  BY <1>1, <1>4, <1>6, <1>7

\* A header that ranges are written in is parsed into those ranges, whatever
\* they are and however many, unless one that ends in quotes is followed by
\* another: parseAcceptHeader leaves none out, makes none up, and gives each its
\* own parameters, in their order and out of their quotes.
THEOREM WrittenIsParsed == Spec => []ListedIsParsed
<1>1. Init => GInv
  BY DEF Init, GInv, States
<1>2. GInv /\ PInv /\ SInv /\ [Next]_vars => GInv'
  <2>1. GInv /\ UNCHANGED vars => GInv'
    BY DEF GInv, vars, tmps, Tracked, QuoteBeforeComma, W, Progress, Found, At, AtType,
       AtSubType, AtParam, AtKey, AtValue, AtQuoted, AtSeparator, Partial, Reads, PartEnd
  <2> QED
    BY <2>1, NextGInv
<1>3. PInv /\ GInv => ListedIsParsed
  BY FoundIsParsed
<1> QED
  BY <1>1, <1>2, <1>3, ParserInvariant, ParserStands, PTL DEF Spec

-----------------------------------------------------------------------------
(* The parser and the ranking *)

\* The theorems of Negotiation, for names that are texts.
TextProofs == INSTANCE NegotiationProofs
            WITH Names    <- Text,
                 Vendored <- {name \in Text : \E i \in DOMAIN name : name[i] = "+"},
                 Wildcard <- <<"*">>,
                 NoName   <- <<>>

Answer(offers) == TextProofs!NegotiateContentTypeWithMediaTypes(outcome, offers)

LEMMA SameHeaders == Ranked!AcceptHeader = TextProofs!AcceptHeader
<1>1. Ranked!MediaType = TextProofs!MediaType
  BY DEF Ranked!MediaType, TextProofs!MediaType, Ranked!Specificities,
         TextProofs!Specificities
<1>2. \A type, sub : Ranked!specificityOf(type, sub) = TextProofs!specificityOf(type, sub)
  BY DEF Ranked!specificityOf, TextProofs!specificityOf
<1>3. \A m : Ranked!IsRange(m) <=> TextProofs!IsRange(m)
  BY <1>2 DEF Ranked!IsRange, TextProofs!IsRange
<1>4. Ranked!Ranges = TextProofs!Ranges
  BY <1>1, <1>3 DEF Ranked!Ranges, TextProofs!Ranges
<1> QED
  BY <1>4 DEF Ranked!AcceptHeader, TextProofs!AcceptHeader

\* Whatever text a client sends and whatever is offered, at any moment the
\* header parsed so far would be answered with the name of an offer: the parser
\* and the ranking compose.
THEOREM TextIsAnsweredWithAnOffer ==
    ASSUME NEW offers \in Seq(TextProofs!MediaType), offers # <<>>
    PROVE  Spec => [](\E j \in DOMAIN offers :
                TextProofs!TypeName(Answer(offers).selected) = TextProofs!TypeName(offers[j]))
<1>1. ASSUME PInv
      PROVE  \E j \in DOMAIN offers :
                TextProofs!TypeName(Answer(offers).selected) = TextProofs!TypeName(offers[j])
  <2>1. outcome \in TextProofs!AcceptHeader
    BY <1>1, SameHeaders DEF PInv
  <2>2. {<<>>, <<"*">>} \subseteq Text
    BY DEF Text, Chars, NameChars
  <2>3. {name \in Text : \E i \in DOMAIN name : name[i] = "+"}
            \subseteq Text \ {<<>>, <<"*">>}
    OBVIOUS
  <2> QED
    BY <2>1, <2>2, <2>3, TextProofs!OutcomeIsOffered DEF Answer
<1> QED
  BY <1>1, ParserInvariant, PTL
=============================================================================
