------------------------- MODULE NegotiationProofs -------------------------
(***************************************************************************)
(* Theorems about the operators of Negotiation, for any Accept header and  *)
(* any offers: the sort is a permutation, and what is selected is one of   *)
(* the offers.  That the sort loses nothing takes a counting argument: the *)
(* number of ranges ahead of one is injective, so it reaches every place.  *)
(***************************************************************************)
EXTENDS Negotiation, FiniteSetTheorems, SequenceTheorems, TLAPS

-----------------------------------------------------------------------------
(* Ranks and their order *)

LEMMA RankIsInt ==
    ASSUME NEW m \in MediaType
    PROVE  rank(m) \in Int
<1>1. m.params \in Int /\ m.weight \in Int /\ m.specificity \in Specificities
  BY DEF MediaType
<1> DEFINE base == CASE m.specificity = "undefined" -> m.params
                     [] m.specificity = "partial"   -> m.params + 1
                     [] m.specificity = "full"      -> m.params + 2
<1>2. base \in Int
  BY <1>1 DEF Specificities
<1>3. rank(m) = base * m.weight
  BY DEF rank
<1> HIDE DEF base
<1>4. \A a, b \in Int : a * b \in Int
  OBVIOUS
<1> QED
  BY <1>1, <1>2, <1>3, <1>4

LEMMA PrecedesIsTotal ==
    ASSUME NEW medias \in Seq(MediaType),
           NEW i \in DOMAIN medias, NEW j \in DOMAIN medias, i # j
    PROVE  Precedes(medias, i, j) \/ Precedes(medias, j, i)
<1>1. rank(medias[i]) \in Int /\ rank(medias[j]) \in Int
  BY RankIsInt
<1>2. i \in Int /\ j \in Int
  OBVIOUS
<1> QED
  BY <1>1, <1>2 DEF Precedes

LEMMA PrecedesIsStrict ==
    ASSUME NEW medias \in Seq(MediaType),
           NEW i \in DOMAIN medias
    PROVE  ~Precedes(medias, i, i)
<1>1. rank(medias[i]) \in Int
  BY RankIsInt
<1>2. i \in Int
  OBVIOUS
<1> QED
  BY <1>1, <1>2 DEF Precedes

LEMMA PrecedesIsTransitive ==
    ASSUME NEW medias \in Seq(MediaType),
           NEW i \in DOMAIN medias, NEW j \in DOMAIN medias, NEW k \in DOMAIN medias,
           Precedes(medias, i, j), Precedes(medias, j, k)
    PROVE  Precedes(medias, i, k)
<1>1. /\ rank(medias[i]) \in Int
      /\ rank(medias[j]) \in Int
      /\ rank(medias[k]) \in Int
  BY RankIsInt
<1>2. i \in Int /\ j \in Int /\ k \in Int
  OBVIOUS
<1> QED
  BY <1>1, <1>2 DEF Precedes

-----------------------------------------------------------------------------
(* The sort *)

LEMMA AheadIsFinite ==
    ASSUME NEW medias \in Seq(MediaType), NEW i \in DOMAIN medias
    PROVE  /\ IsFiniteSet(Ahead(medias, i))
           /\ Cardinality(Ahead(medias, i)) \in Nat
           /\ Cardinality(Ahead(medias, i)) < Len(medias)
<1> DEFINE others == (1 .. Len(medias)) \ {i}
<1>1. i \in 1 .. Len(medias) /\ Len(medias) \in Nat
  OBVIOUS
<1>2. /\ IsFiniteSet(1 .. Len(medias))
      /\ Cardinality(1 .. Len(medias)) = Len(medias)
  <2>1. /\ IsFiniteSet(1 .. Len(medias))
        /\ Cardinality(1 .. Len(medias)) =
              IF 1 > Len(medias) THEN 0 ELSE Len(medias) - 1 + 1
    <3>1. 1 \in Int /\ Len(medias) \in Int
      BY <1>1
    <3> QED
      BY <3>1, FS_Interval, Zenon
  <2>2. Len(medias) >= 1 /\ Len(medias) - 1 + 1 = Len(medias)
    BY <1>1
  <2> QED
    BY <2>1, <2>2
<1>3. IsFiniteSet(others) /\ Cardinality(others) = Len(medias) - 1
  BY <1>1, <1>2, FS_RemoveElement
<1>4. Ahead(medias, i) \in SUBSET others
  BY <1>1, PrecedesIsStrict DEF Ahead
<1>5. /\ IsFiniteSet(Ahead(medias, i))
      /\ Cardinality(Ahead(medias, i)) <= Cardinality(others)
  BY <1>3, <1>4, FS_Subset
<1>6. Cardinality(Ahead(medias, i)) \in Nat
  BY <1>5, FS_CardinalityType
<1> QED
  BY <1>1, <1>3, <1>5, <1>6

LEMMA AheadGrows ==
    ASSUME NEW medias \in Seq(MediaType),
           NEW i \in DOMAIN medias, NEW j \in DOMAIN medias,
           Precedes(medias, i, j)
    PROVE  Cardinality(Ahead(medias, i)) < Cardinality(Ahead(medias, j))
<1>1. Ahead(medias, i) \in SUBSET Ahead(medias, j)
  BY PrecedesIsTransitive DEF Ahead
<1>2. i \in Ahead(medias, j)
  BY DEF Ahead
<1>3. i \notin Ahead(medias, i)
  BY PrecedesIsStrict DEF Ahead
<1>4. Ahead(medias, i) # Ahead(medias, j)
  BY <1>2, <1>3
<1>5. /\ Cardinality(Ahead(medias, i)) <= Cardinality(Ahead(medias, j))
      /\ Cardinality(Ahead(medias, i)) # Cardinality(Ahead(medias, j))
  BY <1>1, <1>4, AheadIsFinite, FS_Subset
<1>6. /\ Cardinality(Ahead(medias, i)) \in Nat
      /\ Cardinality(Ahead(medias, j)) \in Nat
  BY AheadIsFinite
<1> QED
  BY <1>5, <1>6

\* Every place of the sorted sequence is taken by one range.
LEMMA PlaceExists ==
    ASSUME NEW medias \in Seq(MediaType), NEW k \in DOMAIN medias
    PROVE  /\ Place(medias, k) \in DOMAIN medias
           /\ Cardinality(Ahead(medias, Place(medias, k))) = k - 1
<1> DEFINE I == DOMAIN medias
           place == [i \in I |-> Cardinality(Ahead(medias, i)) + 1]
<1>1. I = 1 .. Len(medias) /\ Len(medias) \in Nat
  OBVIOUS
<1>2. IsFiniteSet(I)
  BY <1>1, FS_Interval
<1>3. place \in [I -> I]
  <2> SUFFICES ASSUME NEW i \in I
               PROVE  Cardinality(Ahead(medias, i)) + 1 \in 1 .. Len(medias)
    BY <1>1
  <2> HIDE DEF I
  <2> QED
    BY <1>1, AheadIsFinite DEF I
<1>4. ASSUME NEW i \in I, NEW j \in I, place[i] = place[j]
      PROVE  i = j
  <2> SUFFICES ASSUME i # j PROVE FALSE
    OBVIOUS
  <2>1. Cardinality(Ahead(medias, i)) = Cardinality(Ahead(medias, j))
    <3>1. /\ Cardinality(Ahead(medias, i)) \in Nat
          /\ Cardinality(Ahead(medias, j)) \in Nat
      BY AheadIsFinite
    <3> QED
      BY <1>4, <3>1
  <2>2. Precedes(medias, i, j) \/ Precedes(medias, j, i)
    BY PrecedesIsTotal
  <2>3. Cardinality(Ahead(medias, i)) \in Nat
    BY AheadIsFinite
  <2> QED
    BY <2>1, <2>2, <2>3, AheadGrows
<1>5. place \in Injection(I, I)
  BY <1>3, <1>4 DEF Injection, IsInjective
<1>6. place \in Surjection(I, I)
  BY <1>2, <1>5, FS_Injection
<1>7. PICK i \in I : place[i] = k
  BY <1>6 DEF Surjection
<1>8. Cardinality(Ahead(medias, i)) = k - 1
  <2>1. Cardinality(Ahead(medias, i)) \in Nat
    BY AheadIsFinite
  <2> QED
    BY <1>7, <2>1
<1> QED
  BY <1>8 DEF Place

\* Two ranges never share a place.
LEMMA PlaceIsUnique ==
    ASSUME NEW medias \in Seq(MediaType),
           NEW i \in DOMAIN medias, NEW j \in DOMAIN medias,
           Cardinality(Ahead(medias, i)) = Cardinality(Ahead(medias, j))
    PROVE  i = j
<1> SUFFICES ASSUME i # j PROVE FALSE
  OBVIOUS
<1>1. Precedes(medias, i, j) \/ Precedes(medias, j, i)
  BY PrecedesIsTotal
<1>2. Cardinality(Ahead(medias, i)) \in Nat
  BY AheadIsFinite
<1> QED
  BY <1>1, <1>2, AheadGrows

\* sort.SliceStable as sortByRank models it: the result has every range of the
\* Accept header and no other, in ascending rank.
THEOREM SortIsPermutation ==
    ASSUME NEW medias \in Seq(MediaType)
    PROVE  /\ sortByRank(medias) \in Seq(MediaType)
           /\ Len(sortByRank(medias)) = Len(medias)
           /\ \A k \in DOMAIN medias :
                 \E i \in DOMAIN medias : sortByRank(medias)[k] = medias[i]
           /\ \A i \in DOMAIN medias :
                 \E k \in DOMAIN medias : sortByRank(medias)[k] = medias[i]
           /\ \A k, l \in DOMAIN medias :
                 k < l => rank(sortByRank(medias)[k]) <= rank(sortByRank(medias)[l])
<1> DEFINE sorted == sortByRank(medias)
<1>1. /\ DOMAIN medias = 1 .. Len(medias)
      /\ Len(medias) \in Nat
  OBVIOUS
<1>2. \A k \in DOMAIN medias : sorted[k] = medias[Place(medias, k)]
  BY DEF sortByRank
<1>3. sorted \in [1 .. Len(medias) -> MediaType]
  <2>1. \A k \in DOMAIN medias : medias[Place(medias, k)] \in MediaType
    BY PlaceExists
  <2> QED
    BY <1>1, <2>1 DEF sortByRank
<1>4. sorted \in Seq(MediaType) /\ Len(sorted) = Len(medias)
  BY <1>1, <1>3
<1>5. ASSUME NEW k \in DOMAIN medias
      PROVE  \E i \in DOMAIN medias : sorted[k] = medias[i]
  BY <1>2, PlaceExists
<1>6. ASSUME NEW i \in DOMAIN medias
      PROVE  \E k \in DOMAIN medias : sorted[k] = medias[i]
  <2> DEFINE k == Cardinality(Ahead(medias, i)) + 1
  <2>1. k \in DOMAIN medias /\ k - 1 = Cardinality(Ahead(medias, i))
    BY <1>1, AheadIsFinite
  <2>2. Place(medias, k) = i
    BY <2>1, PlaceExists, PlaceIsUnique
  <2> QED
    BY <1>2, <2>1, <2>2
<1>7. ASSUME NEW k \in DOMAIN medias, NEW l \in DOMAIN medias, k < l
      PROVE  rank(sorted[k]) <= rank(sorted[l])
  <2> DEFINE a == Place(medias, k)
             b == Place(medias, l)
  <2>1. /\ a \in DOMAIN medias /\ b \in DOMAIN medias
        /\ Cardinality(Ahead(medias, a)) = k - 1
        /\ Cardinality(Ahead(medias, b)) = l - 1
    BY PlaceExists
  <2>2. k \in Int /\ l \in Int
    BY <1>1
  <2> HIDE DEF a, b
  <2>3. ~Precedes(medias, b, a)
    BY <1>7, <2>1, <2>2, AheadGrows
  <2>4. rank(medias[a]) <= rank(medias[b])
    <3>1. rank(medias[a]) \in Int /\ rank(medias[b]) \in Int
      BY <2>1, RankIsInt
    <3> QED
      BY <2>3, <3>1 DEF Precedes
  <2> QED
    BY <1>2, <2>4 DEF a, b
<1> QED
  BY <1>4, <1>5, <1>6, <1>7

-----------------------------------------------------------------------------
(* The first match, and the fallback *)

\* First(S) is the index at which a loop over the indices S finds something.
LEMMA FirstIsLeast ==
    ASSUME NEW S \in SUBSET Nat, S # {}
    PROVE  First(S) \in S /\ \A j \in S : First(S) <= j
<1> DEFINE Below(i)  == {k \in Nat : k < i}
           Belows    == {Below(i) : i \in S}
<1>1. Belows \subseteq FiniteSubsetsOf(Nat) /\ Belows # {}
  <2>1. ASSUME NEW i \in S PROVE IsFiniteSet(Below(i))
    <3>1. i \in Nat /\ Below(i) \in SUBSET Nat /\ \A k \in Below(i) : k <= i
      OBVIOUS
    <3> HIDE DEF Below
    <3> QED
      BY <3>1, FS_BoundedSetOfNaturals
  <2> QED
    BY <2>1 DEF FiniteSubsetsOf
<1>2. PICK b \in Belows : \A c \in Belows : ~ (<<c, b>> \in StrictSubsetOrdering(Nat))
  <2> HIDE DEF Belows
  <2> QED
    BY <1>1, FS_StrictSubsetOrderingWellFounded, WFMin, Zenon
<1>3. PICK i \in S : b = Below(i)
  OBVIOUS
<1>4. ASSUME NEW j \in S PROVE i <= j
  <2> SUFFICES ASSUME j < i PROVE FALSE
    OBVIOUS
  <2>1. Below(j) \subseteq Below(i) /\ Below(j) # Below(i)
    <3>1. j \in Below(i) /\ j \notin Below(j)
      OBVIOUS
    <3>2. Below(j) \subseteq Below(i)
      OBVIOUS
    <3> QED
      BY <3>1, <3>2
  <2>2. <<Below(j), Below(i)>> \in StrictSubsetOrdering(Nat)
    BY <2>1 DEF StrictSubsetOrdering
  <2> QED
    BY <1>2, <1>3, <2>2
<1> QED
  BY <1>4 DEF First

\* The fallback is an offer, vendored only if all are.
LEMMA FallbackIsOffered ==
    ASSUME NEW offers \in Seq(MediaType), offers # <<>>
    PROVE  /\ \E j \in DOMAIN offers : preferablyNonVendorOffer(offers) = offers[j]
           /\ preferablyNonVendorOffer(offers).vendor =>
                 \A j \in DOMAIN offers : offers[j].vendor
<1> DEFINE plain == {j \in DOMAIN offers : ~offers[j].vendor}
<1>1. 1 \in DOMAIN offers
  OBVIOUS
<1>2. CASE plain = {}
  BY <1>1, <1>2 DEF preferablyNonVendorOffer
<1>3. CASE plain # {}
  <2>1. plain \in SUBSET Nat
    OBVIOUS
  <2> HIDE DEF plain
  <2>2. First(plain) \in plain
    BY <1>3, <2>1, FirstIsLeast
  <2>3. preferablyNonVendorOffer(offers) = offers[First(plain)]
    BY <1>3 DEF preferablyNonVendorOffer, plain
  <2> QED
    BY <2>2, <2>3 DEF plain
<1> QED
  BY <1>2, <1>3

\* The pair the nested loops of doNegotiation find is a match, of the first
\* range that has one.
LEMMA FirstMatchMatches ==
    ASSUME NEW medias \in Seq(MediaType), NEW offers \in Seq(MediaType),
           Matching(medias, offers)
    PROVE  LET p == FirstMatch(medias, offers)
           IN  /\ p \in (DOMAIN medias) \X (DOMAIN offers)
               /\ matches(medias[p[1]], offers[p[2]])
               /\ \A i \in DOMAIN medias, j \in DOMAIN offers :
                     matches(medias[i], offers[j]) => p[1] <= i
<1> DEFINE fits == {p \in (DOMAIN medias) \X (DOMAIN offers) :
                       matches(medias[p[1]], offers[p[2]])}
           rows == {i \in DOMAIN medias :
                       \E j \in DOMAIN offers : matches(medias[i], offers[j])}
           row  == First(rows)
           cols == {j \in DOMAIN offers : matches(medias[row], offers[j])}
           col  == First(cols)
<1>1. row \in rows /\ \A i \in rows : row <= i
  <2>1. rows \in SUBSET Nat /\ rows # {}
    BY DEF Matching
  <2> HIDE DEF rows
  <2> QED
    BY <2>1, FirstIsLeast
<1>2. col \in cols /\ \A j \in cols : col <= j
  <2>1. cols \in SUBSET Nat /\ cols # {}
    <3> HIDE DEF row
    <3> QED
      BY <1>1
  <2> HIDE DEF cols
  <2> QED
    BY <2>1, FirstIsLeast
<1> HIDE DEF row, col
<1>3. <<row, col>> \in fits
  BY <1>1, <1>2
<1>4. ASSUME NEW s \in fits
      PROVE  row < s[1] \/ (row = s[1] /\ col <= s[2])
  <2>1. /\ s[1] \in rows /\ s[1] \in Nat /\ row \in Nat
        /\ s[1] = row => s[2] \in cols
    BY <1>1
  <2>2. row <= s[1]
    BY <1>1, <2>1
  <2> QED
    BY <1>2, <2>1, <2>2
<1>5. /\ FirstMatch(medias, offers) \in fits
      /\ \A s \in fits : \/ FirstMatch(medias, offers)[1] < s[1]
                           \/ FirstMatch(medias, offers)[1] = s[1]
  <2>1. FirstMatch(medias, offers) =
            CHOOSE p \in fits : \A s \in fits :
                p[1] < s[1] \/ (p[1] = s[1] /\ p[2] <= s[2])
    BY DEF FirstMatch
  <2>2. /\ <<row, col>>[1] = row
        /\ <<row, col>>[2] = col
    OBVIOUS
  <2>3. \E p \in fits : \A s \in fits :
            p[1] < s[1] \/ (p[1] = s[1] /\ p[2] <= s[2])
    <3> HIDE DEF fits
    <3> QED
      BY <1>3, <1>4, <2>2
  <2> HIDE DEF fits
  <2> QED
    BY <2>1, <2>3
<1>6. ASSUME NEW i \in DOMAIN medias, NEW j \in DOMAIN offers,
             matches(medias[i], offers[j])
      PROVE  FirstMatch(medias, offers)[1] <= i
  <2>1. <<i, j>> \in fits /\ <<i, j>>[1] = i
    BY <1>6
  <2>2. FirstMatch(medias, offers)[1] \in Int /\ i \in Int
    BY <1>5
  <2> QED
    BY <1>5, <2>1, <2>2
<1> QED
  BY <1>5, <1>6

\* The header after a tie: one of the first two ranges, then the others.
LEMMA TieIs ==
    ASSUME NEW medias \in Seq(MediaType)
    PROVE  LET kept == breakTie(medias)
           IN  \/ kept = medias
               \/ /\ Len(medias) >= 2 /\ rank(medias[1]) = rank(medias[2])
                  /\ kept \in Seq(MediaType) /\ Len(kept) = Len(medias) - 1
                  /\ kept[1] \in {medias[1], medias[2]}
                  /\ \A k \in 2 .. Len(medias) - 1 : kept[k] = medias[k + 1]
<1>0. Len(medias) \in Nat
  OBVIOUS
<1>1. CASE Len(medias) < 2 \/ rank(medias[1]) # rank(medias[2])
  BY <1>1 DEF breakTie
<1>2. CASE /\ Len(medias) >= 2 /\ rank(medias[1]) = rank(medias[2])
           /\ breakTie(medias) = Tail(medias)
  <2>1. /\ Tail(medias) \in Seq(MediaType) /\ Len(Tail(medias)) = Len(medias) - 1
        /\ \A k \in 1 .. Len(medias) - 1 : Tail(medias)[k] = medias[k + 1]
    BY <1>2
  <2>2. Tail(medias)[1] = medias[2]
    BY <1>0, <1>2, <2>1
  <2>3. \A k \in 2 .. Len(medias) - 1 : Tail(medias)[k] = medias[k + 1]
    BY <1>0, <2>1
  <2> DEFINE kept == breakTie(medias)
  <2>4. kept = Tail(medias)
    BY <1>2
  <2> HIDE DEF kept
  <2> QED
    BY <1>2, <2>1, <2>2, <2>3, <2>4 DEF kept
<1>3. CASE /\ Len(medias) >= 2 /\ rank(medias[1]) = rank(medias[2])
           /\ breakTie(medias) = <<medias[1]>> \o SubSeq(medias, 3, Len(medias))
  <2> DEFINE rest == SubSeq(medias, 3, Len(medias))
             kept == breakTie(medias)
  <2>1. /\ rest \in Seq(MediaType) /\ Len(rest) = Len(medias) - 2
        /\ \A k \in 1 .. Len(rest) : rest[k] = medias[k + 2]
    <3>1. \A i \in 3 .. Len(medias) : medias[i] \in MediaType
      OBVIOUS
    <3>2. Len(medias) \in Int
      OBVIOUS
    <3>3. /\ rest \in Seq(MediaType)
          /\ Len(rest) = IF 3 <= Len(medias) THEN Len(medias) - 3 + 1 ELSE 0
          /\ \A k \in 1 .. Len(medias) - 3 + 1 : rest[k] = medias[3 + k - 1]
      BY <3>1, <3>2, SubSeqProperties
    <3> HIDE DEF rest
    <3>4. Len(rest) = Len(medias) - 2
      <4>1. \A n \in Int : n >= 2 => (IF 3 <= n THEN n - 3 + 1 ELSE 0) = n - 2
        OBVIOUS
      <4>2. Len(rest) = IF 3 <= Len(medias) THEN Len(medias) - 3 + 1 ELSE 0
        BY <3>3
      <4> QED
        BY <1>3, <3>2, <4>1, <4>2, Zenon
    <3> QED
      BY <3>2, <3>3, <3>4
  <2>2. medias[1] \in MediaType
    BY <1>3
  <2> HIDE DEF rest
  <2>3. kept = <<medias[1]>> \o rest
    BY <1>3 DEF rest
  <2>4. <<medias[1]>> \in Seq(MediaType) /\ Len(<<medias[1]>>) = 1
    BY <2>2
  <2> HIDE DEF kept
  <2>5. kept \in Seq(MediaType) /\ Len(kept) = Len(medias) - 1
    BY <2>1, <2>3, <2>4
  <2>6. kept[1] = medias[1]
    BY <2>1, <2>3, <2>4
  <2>7. ASSUME NEW k \in 2 .. Len(medias) - 1
        PROVE  kept[k] = medias[k + 1]
    <3>1. kept[k] = rest[k - 1]
      BY <2>1, <2>3, <2>4
    <3>2. rest[k - 1] = medias[k + 1]
      <4>1. k - 1 \in 1 .. Len(rest) /\ (k - 1) + 2 = k + 1
        BY <1>0, <2>1, <2>7
      <4> QED
        BY <2>1, <4>1
    <3> QED
      BY <3>1, <3>2
  <2> QED
    BY <1>3, <2>5, <2>6, <2>7 DEF kept
<1>4. \/ Len(medias) < 2 \/ rank(medias[1]) # rank(medias[2])
      \/ /\ Len(medias) >= 2 /\ rank(medias[1]) = rank(medias[2])
         /\ \/ breakTie(medias) = Tail(medias)
            \/ breakTie(medias) = <<medias[1]>> \o SubSeq(medias, 3, Len(medias))
  BY DEF breakTie
<1> QED
  BY <1>1, <1>2, <1>3, <1>4

\* Breaking a tie only drops a range, and only one that shares its rank with
\* another; those that are left stay in their order.
LEMMA TieKeepsRanges ==
    ASSUME NEW medias \in Seq(MediaType)
    PROVE  /\ breakTie(medias) \in Seq(MediaType)
           /\ \A k \in DOMAIN breakTie(medias) :
                 \E i \in DOMAIN medias : breakTie(medias)[k] = medias[i]
           /\ \A i \in DOMAIN medias :
                 \/ \E k \in DOMAIN breakTie(medias) : breakTie(medias)[k] = medias[i]
                 \/ /\ i \in {1, 2} /\ {1, 2} \subseteq DOMAIN medias
                    /\ rank(medias[1]) = rank(medias[2])
           /\ (\A i, j \in DOMAIN medias : i < j => rank(medias[i]) <= rank(medias[j]))
              => \A k, l \in DOMAIN breakTie(medias) :
                    k < l => rank(breakTie(medias)[k]) <= rank(breakTie(medias)[l])
<1> DEFINE kept == breakTie(medias)
<1>1. CASE kept = medias
  BY <1>1
<1>2. CASE /\ Len(medias) >= 2 /\ rank(medias[1]) = rank(medias[2])
           /\ kept \in Seq(MediaType) /\ Len(kept) = Len(medias) - 1
           /\ kept[1] \in {medias[1], medias[2]}
           /\ \A k \in 2 .. Len(medias) - 1 : kept[k] = medias[k + 1]
  <2> HIDE DEF kept
  <2>1. /\ Len(medias) \in Nat /\ DOMAIN medias = 1 .. Len(medias)
        /\ DOMAIN kept = 1 .. Len(medias) - 1
        /\ 1 \in DOMAIN medias /\ 2 \in DOMAIN medias
    BY <1>2
  <2>2. ASSUME NEW k \in DOMAIN kept
        PROVE  \E i \in DOMAIN medias : kept[k] = medias[i]
    <3>1. CASE k = 1
      BY <1>2, <2>1, <3>1
    <3>2. CASE k # 1
      <4>1. k \in 2 .. Len(medias) - 1 /\ k + 1 \in DOMAIN medias
        BY <2>1, <3>2
      <4> QED
        BY <1>2, <4>1
    <3> QED
      BY <3>1, <3>2
  <2>3. ASSUME NEW i \in DOMAIN medias, i \notin {1, 2}
        PROVE  \E k \in DOMAIN kept : kept[k] = medias[i]
    <3>1. i - 1 \in 2 .. Len(medias) - 1 /\ i - 1 \in DOMAIN kept /\ (i - 1) + 1 = i
      BY <2>1, <2>3
    <3>2. kept[i - 1] = medias[i]
      BY <1>2, <3>1
    <3> QED
      BY <3>1, <3>2
  <2>4. ASSUME \A i, j \in DOMAIN medias : i < j => rank(medias[i]) <= rank(medias[j]),
               NEW k \in DOMAIN kept, NEW l \in DOMAIN kept, k < l
        PROVE  rank(kept[k]) <= rank(kept[l])
    <3>1. l \in 2 .. Len(medias) - 1 /\ l + 1 \in DOMAIN medias
      BY <2>1, <2>4
    <3>2. kept[l] = medias[l + 1]
      BY <1>2, <3>1
    <3>3. CASE k = 1
      <4>1. rank(kept[1]) = rank(medias[1]) \/ rank(kept[1]) = rank(medias[2])
        BY <1>2
      <4>2. rank(medias[1]) <= rank(medias[l + 1])
        <5>1. 1 < l + 1
          BY <3>1
        <5> QED
          BY <2>1, <2>4, <3>1, <5>1
      <4> QED
        BY <1>2, <3>2, <3>3, <4>1, <4>2
    <3>4. CASE k # 1
      <4>1. k \in 2 .. Len(medias) - 1 /\ k + 1 \in DOMAIN medias /\ k + 1 < l + 1
        BY <2>1, <2>4, <3>1, <3>4
      <4>2. kept[k] = medias[k + 1]
        BY <1>2, <4>1
      <4> QED
        BY <2>4, <3>1, <3>2, <4>1, <4>2
    <3> QED
      BY <3>3, <3>4
  <2>5. kept \in Seq(MediaType)
    BY <1>2
  <2> QED
    BY <1>2, <2>1, <2>2, <2>3, <2>4, <2>5 DEF kept
<1> QED
  BY <1>1, <1>2, TieIs

\* An offer's type put into a range is a media type again, of the offer's name.
LEMMA SelectionIsMediaType ==
    ASSUME NEW m \in MediaType, NEW o \in MediaType
    PROVE  /\ Selection(m, o) \in MediaType
           /\ TypeName(Selection(m, o)) = TypeName(o)
           /\ Selection(m, o).sub = o.sub
BY DEF Selection, MediaType, TypeName

-----------------------------------------------------------------------------
(* The outcome *)

\* A valid outcome comes from a range of the header and an offer that match,
\* any other is the fallback.
LEMMA RangesNegotiated ==
    ASSUME NEW medias \in Seq(MediaType),
           NEW offers \in Seq(MediaType), offers # <<>>
    PROVE  LET result == doNegotiation(sortByRank(medias), offers)
           IN  /\ result \in Outcome
               /\ result.valid =>
                     \E i \in DOMAIN medias, j \in DOMAIN offers :
                         /\ matches(medias[i], offers[j])
                         /\ result.selected = Selection(medias[i], offers[j])
               /\ ~result.valid =>
                     result.selected = preferablyNonVendorOffer(offers)
<1> DEFINE kept == breakTie(sortByRank(medias))
           pair == FirstMatch(kept, offers)
<1>1. kept \in Seq(MediaType)
  BY SortIsPermutation, TieKeepsRanges
<1>2. \A k \in DOMAIN kept : \E i \in DOMAIN medias : kept[k] = medias[i]
  <2> DEFINE sorted == sortByRank(medias)
  <2>1. /\ sorted \in Seq(MediaType)
        /\ DOMAIN sorted = DOMAIN medias
        /\ \A k \in DOMAIN medias : \E i \in DOMAIN medias : sorted[k] = medias[i]
    BY SortIsPermutation
  <2> HIDE DEF sorted
  <2>2. \A k \in DOMAIN breakTie(sorted) :
            \E i \in DOMAIN sorted : breakTie(sorted)[k] = sorted[i]
    BY <2>1, TieKeepsRanges
  <2> QED
    BY <2>1, <2>2 DEF sorted
<1>3. CASE Matching(kept, offers)
  <2>1. /\ pair[1] \in DOMAIN kept /\ pair[2] \in DOMAIN offers
        /\ matches(kept[pair[1]], offers[pair[2]])
    <3> HIDE DEF kept
    <3> QED
      BY <1>1, <1>3, FirstMatchMatches
  <2>2. doNegotiation(sortByRank(medias), offers) =
            [parsed |-> TRUE, valid |-> TRUE,
             selected |-> Selection(kept[pair[1]], offers[pair[2]])]
    BY <1>3 DEF doNegotiation
  <2> HIDE DEF kept, pair
  <2>3. kept[pair[1]] \in MediaType /\ offers[pair[2]] \in MediaType
    BY <1>1, <2>1
  <2>4. Selection(kept[pair[1]], offers[pair[2]]) \in MediaType
    BY <2>3, SelectionIsMediaType
  <2> QED
    BY <1>2, <2>1, <2>2, <2>4 DEF Outcome
<1>4. CASE ~Matching(kept, offers)
  <2>1. doNegotiation(sortByRank(medias), offers) =
            [parsed |-> TRUE, valid |-> FALSE,
             selected |-> preferablyNonVendorOffer(offers)]
    BY <1>4 DEF doNegotiation
  <2>2. preferablyNonVendorOffer(offers) \in MediaType
    BY FallbackIsOffered
  <2> QED
    BY <2>1, <2>2 DEF Outcome
<1> QED
  BY <1>3, <1>4

\* NegotiateContentTypeWithMediaTypes answers with the name of an offer, for
\* every Accept header and every list of offers.
THEOREM OutcomeIsOffered ==
    ASSUME NEW accept \in AcceptHeader,
           NEW offers \in Seq(MediaType), offers # <<>>
    PROVE  LET result == NegotiateContentTypeWithMediaTypes(accept, offers)
           IN  /\ result \in Outcome
               /\ \E j \in DOMAIN offers :
                     TypeName(result.selected) = TypeName(offers[j])
<1> DEFINE result == NegotiateContentTypeWithMediaTypes(accept, offers)
<1>1. CASE accept.kind \in {"blank", "malformed"}
  <2>1. /\ result.selected = preferablyNonVendorOffer(offers)
        /\ result = [parsed |-> result.parsed, valid |-> result.valid,
                     selected |-> preferablyNonVendorOffer(offers)]
        /\ result.parsed \in BOOLEAN /\ result.valid \in BOOLEAN
    BY <1>1 DEF NegotiateContentTypeWithMediaTypes
  <2> HIDE DEF result
  <2> QED
    BY <2>1, FallbackIsOffered DEF Outcome, result
<1>2. CASE accept.kind = "ranges"
  <2>1. accept.medias \in Seq(MediaType)
    BY <1>2 DEF AcceptHeader, Ranges
  <2>2. result = doNegotiation(sortByRank(accept.medias), offers)
    BY <1>2 DEF NegotiateContentTypeWithMediaTypes
  <2> HIDE DEF result
  <2>3. /\ result \in Outcome
        /\ ~result.valid => result.selected = preferablyNonVendorOffer(offers)
    BY <2>1, <2>2, RangesNegotiated
  <2>4. CASE result.valid
    <3>1. PICK i \in DOMAIN accept.medias, j \in DOMAIN offers :
              result.selected = Selection(accept.medias[i], offers[j])
      BY <2>1, <2>2, <2>4, RangesNegotiated
    <3>2. accept.medias[i] \in MediaType /\ offers[j] \in MediaType
      BY <2>1
    <3> QED
      BY <2>3, <3>1, <3>2, SelectionIsMediaType DEF result
  <2>5. CASE ~result.valid
    BY <2>3, <2>5, FallbackIsOffered DEF result
  <2> QED
    BY <2>4, <2>5
<1> QED
  BY <1>1, <1>2 DEF AcceptHeader

-----------------------------------------------------------------------------
(* What the order of the ranges decides *)

LEMMA SelectionKeepsRank ==
    ASSUME NEW m \in MediaType, NEW o \in MediaType
    PROVE  rank(Selection(m, o)) = rank(m)
<1>1. /\ Selection(m, o).params = m.params
      /\ Selection(m, o).weight = m.weight
      /\ Selection(m, o).specificity = m.specificity
  BY DEF Selection, MediaType
<1> QED
  BY <1>1 DEF rank

\* A range that is not there any more when offers are looked at had one of its
\* rank with it.
LEMMA DroppedInTieOnly ==
    ASSUME NEW medias \in Seq(MediaType), NEW i \in DOMAIN medias
    PROVE  LET kept == breakTie(sortByRank(medias))
           IN  \/ \E k \in DOMAIN kept : kept[k] = medias[i]
               \/ \E j \in DOMAIN medias \ {i} : rank(medias[j]) = rank(medias[i])
<1> DEFINE sorted == sortByRank(medias)
           kept   == breakTie(sorted)
           place  == Cardinality(Ahead(medias, i)) + 1
<1>1. /\ sorted \in Seq(MediaType)
      /\ DOMAIN sorted = DOMAIN medias
      /\ \A k \in DOMAIN medias : sorted[k] = medias[Place(medias, k)]
  BY SortIsPermutation DEF sortByRank
<1>2. place \in DOMAIN medias /\ Place(medias, place) = i
  <2>1. place \in DOMAIN medias /\ place - 1 = Cardinality(Ahead(medias, i))
    BY AheadIsFinite
  <2> QED
    BY <2>1, PlaceExists, PlaceIsUnique
<1> HIDE DEF place, sorted
<1>3. CASE \E k \in DOMAIN kept : kept[k] = sorted[place]
  BY <1>1, <1>2, <1>3 DEF sorted
<1>4. CASE /\ place \in {1, 2} /\ {1, 2} \subseteq DOMAIN sorted
           /\ rank(sorted[1]) = rank(sorted[2])
  <2>1. PICK l \in {1, 2} : l # place
    OBVIOUS
  <2>2. /\ l \in DOMAIN medias /\ rank(sorted[l]) = rank(sorted[place])
    BY <1>1, <1>4
  <2>3. Place(medias, l) \in DOMAIN medias /\ Place(medias, l) # i
    <3>1. /\ Cardinality(Ahead(medias, Place(medias, l))) = l - 1
          /\ Cardinality(Ahead(medias, Place(medias, place))) = place - 1
          /\ Place(medias, l) \in DOMAIN medias
      BY <1>2, <2>2, PlaceExists
    <3>2. l - 1 # place - 1
      BY <1>4, <2>1
    <3> QED
      BY <1>2, <3>1, <3>2
  <2> QED
    BY <1>1, <1>2, <2>2, <2>3
<1>5. (\E k \in DOMAIN kept : kept[k] = sorted[place])
      \/ /\ place \in {1, 2} /\ {1, 2} \subseteq DOMAIN sorted
         /\ rank(sorted[1]) = rank(sorted[2])
  BY <1>1, <1>2, TieKeepsRanges
<1> QED
  BY <1>3, <1>4, <1>5

\* No range that matches an offer has a lower rank than the one selected,
\* unless the tie may have dropped it.
LEMMA LeastRankWins ==
    ASSUME NEW medias \in Seq(MediaType),
           NEW offers \in Seq(MediaType), offers # <<>>,
           doNegotiation(sortByRank(medias), offers).valid,
           NEW i \in DOMAIN medias, NEW j \in DOMAIN offers,
           matches(medias[i], offers[j])
    PROVE  \/ rank(doNegotiation(sortByRank(medias), offers).selected)
                  <= rank(medias[i])
           \/ \E l \in DOMAIN medias \ {i} : rank(medias[l]) = rank(medias[i])
<1> DEFINE kept == breakTie(sortByRank(medias))
           pair == FirstMatch(kept, offers)
<1>1. /\ kept \in Seq(MediaType)
      /\ \A k, l \in DOMAIN kept : k < l => rank(kept[k]) <= rank(kept[l])
  <2> DEFINE sorted == sortByRank(medias)
  <2>1. /\ sorted \in Seq(MediaType)
        /\ \A k, l \in DOMAIN sorted : k < l => rank(sorted[k]) <= rank(sorted[l])
    <3>1. /\ sorted \in Seq(MediaType) /\ DOMAIN sorted = DOMAIN medias
          /\ \A k, l \in DOMAIN medias : k < l => rank(sorted[k]) <= rank(sorted[l])
      BY SortIsPermutation
    <3> QED
      BY <3>1
  <2> HIDE DEF sorted
  <2> QED
    BY <2>1, TieKeepsRanges DEF sorted
<1>2. /\ Matching(kept, offers)
      /\ doNegotiation(sortByRank(medias), offers).selected =
            Selection(kept[pair[1]], offers[pair[2]])
  BY DEF doNegotiation
<1>3. \/ \E k \in DOMAIN kept : kept[k] = medias[i]
      \/ \E l \in DOMAIN medias \ {i} : rank(medias[l]) = rank(medias[i])
  BY DroppedInTieOnly
<1> HIDE DEF kept
<1>4. ASSUME NEW k \in DOMAIN kept, kept[k] = medias[i]
      PROVE  rank(doNegotiation(sortByRank(medias), offers).selected)
                <= rank(medias[i])
  <2>1. /\ pair \in (DOMAIN kept) \X (DOMAIN offers)
        /\ pair[1] <= k
    BY <1>1, <1>2, <1>4, FirstMatchMatches
  <2>2. /\ pair[1] \in DOMAIN kept /\ pair[2] \in DOMAIN offers
        /\ kept[pair[1]] \in MediaType /\ offers[pair[2]] \in MediaType
    BY <1>1, <2>1
  <2>3. rank(Selection(kept[pair[1]], offers[pair[2]])) = rank(kept[pair[1]])
    BY <2>2, SelectionKeepsRank
  <2> HIDE DEF pair
  <2>4. rank(kept[pair[1]]) <= rank(kept[k])
    <3>1. rank(kept[k]) \in Int /\ rank(kept[pair[1]]) \in Int
      BY <1>1, <1>4, <2>2, RankIsInt
    <3>2. pair[1] < k \/ pair[1] = k
      BY <1>1, <2>1, <2>2
    <3> QED
      BY <1>1, <1>4, <2>2, <3>1, <3>2
  <2> QED
    BY <1>2, <1>4, <2>3, <2>4
<1> QED
  BY <1>3, <1>4

\* Where no two ranks are equal, the sort undoes every reordering.
LEMMA SortIgnoresOrder ==
    ASSUME NEW medias \in Seq(MediaType),
           \A i, j \in DOMAIN medias : rank(medias[i]) = rank(medias[j]) => i = j,
           NEW f \in [DOMAIN medias -> DOMAIN medias],
           \A i, j \in DOMAIN medias : f[i] = f[j] => i = j
    PROVE  sortByRank([i \in DOMAIN medias |-> medias[f[i]]]) = sortByRank(medias)
<1> DEFINE I == DOMAIN medias
           shuffled == [i \in I |-> medias[f[i]]]
<1>1. /\ I = 1 .. Len(medias) /\ Len(medias) \in Nat /\ IsFiniteSet(I)
  BY FS_Interval
<1>2. /\ shuffled \in Seq(MediaType) /\ DOMAIN shuffled = I
      /\ \A i \in I : shuffled[i] = medias[f[i]] /\ f[i] \in I
  BY <1>1
<1>3. f \in Surjection(I, I)
  <2>1. f \in Injection(I, I)
    BY DEF Injection, IsInjective
  <2> QED
    BY <1>1, <2>1, FS_Injection
<1> HIDE DEF shuffled
<1>4. \A i, j \in I : Precedes(shuffled, j, i) <=> Precedes(medias, f[j], f[i])
  <2> TAKE i \in I, j \in I
  <2>1. CASE i = j
    BY <1>2, <2>1, PrecedesIsStrict
  <2>2. CASE i # j
    <3>1. f[i] # f[j] /\ f[i] \in I /\ f[j] \in I
      BY <1>2, <2>2
    <3>2. rank(medias[f[i]]) # rank(medias[f[j]])
      BY <3>1
    <3> QED
      BY <1>2, <3>2 DEF Precedes
  <2> QED
    BY <2>1, <2>2
<1>5. ASSUME NEW i \in I
      PROVE  Cardinality(Ahead(medias, f[i])) = Cardinality(Ahead(shuffled, i))
  <2> DEFINE A == Ahead(shuffled, i)
             B == Ahead(medias, f[i])
             g == [j \in A |-> f[j]]
  <2>1. A = {j \in I : Precedes(medias, f[j], f[i])}
    BY <1>2, <1>4 DEF Ahead
  <2>2. B = {j \in I : Precedes(medias, j, f[i])}
    BY DEF Ahead
  <2> HIDE DEF A, B
  <2>3. g \in [A -> B] /\ \A j \in A : g[j] = f[j] /\ j \in I
    BY <1>2, <2>1, <2>2
  <2>4. IsInjective(g)
    BY <2>3 DEF IsInjective
  <2>5. \A b \in B : \E a \in A : g[a] = b
    <3> TAKE b \in B
    <3>1. b \in I /\ Precedes(medias, b, f[i])
      BY <2>2
    <3>2. PICK a \in I : f[a] = b
      BY <1>3, <3>1 DEF Surjection
    <3>3. a \in A
      BY <2>1, <3>1, <3>2
    <3> QED
      BY <2>3, <3>2, <3>3
  <2>6. g \in Bijection(A, B)
    BY <2>3, <2>4, <2>5 DEF Bijection, Injection, Surjection
  <2>7. IsFiniteSet(A)
    BY <1>2, AheadIsFinite DEF A
  <2>8. ExistsBijection(A, B)
    BY <2>6 DEF ExistsBijection
  <2> QED
    BY <2>7, <2>8, FS_Bijection DEF A, B
<1>6. ASSUME NEW k \in I
      PROVE  sortByRank(shuffled)[k] = sortByRank(medias)[k]
  <2>1. /\ Place(shuffled, k) \in I
        /\ Cardinality(Ahead(shuffled, Place(shuffled, k))) = k - 1
    BY <1>2, PlaceExists
  <2>2. /\ Place(medias, k) \in I
        /\ Cardinality(Ahead(medias, Place(medias, k))) = k - 1
    BY PlaceExists
  <2>3. f[Place(shuffled, k)] = Place(medias, k)
    BY <1>2, <1>5, <2>1, <2>2, PlaceIsUnique
  <2> QED
    BY <1>2, <2>1, <2>3 DEF sortByRank
<1>7. sortByRank(shuffled) = sortByRank(medias)
  BY <1>2, <1>6 DEF sortByRank
<1> QED
  BY <1>7 DEF shuffled
=============================================================================
