------------------------ MODULE NonConvexCoverProofs ------------------------
(***************************************************************************)
(* Theorems about NonConvexCover for every polygon, every forced level and *)
(* every depth of the trixels, whatever the tests of triangles answer: no  *)
(* trixel is looked at twice, and a cover and its complement share nothing *)
(* and leave out just what SpatialRange::contains overlooks.               *)
(*                                                                         *)
(* A value stands for the keys from its Low up to, but not including, its  *)
(* Past.  The bounds are multiples of the spans of levels, so two values   *)
(* lie apart or one in the other.                                          *)
(***************************************************************************)
EXTENDS NonConvexCover, EmbeddedLevelLemmas

Low(s)  == s - LevelById(s)
Past(s) == Low(s) + KeySpan(LevelById(s))

\* A value of a trixel of the sphere.
IsTrixel(s) ==
  /\ s \in Int
  /\ LevelById(s) \in Levels
  /\ Aligned(Low(s), LevelById(s))
  /\ 0 <= Low(s) /\ Past(s) <= EndOfKeys

Disjoint(a, b) == Past(a) <= Low(b) \/ Past(b) <= Low(a)
Within(a, b)   == Low(b) <= Low(a) /\ Past(a) <= Past(b)

-----------------------------------------------------------------------------
(***************************************************************************)
(* Trixels and their bounds.                                               *)
(***************************************************************************)
LEMMA TrixelFacts ==
  ASSUME NEW s, IsTrixel(s)
  PROVE  /\ s \in Nat /\ LevelById(s) \in Levels /\ LevelById(s) \in Nat /\ LevelById(s) <= Depth
         /\ Low(s) \in Nat /\ Past(s) \in Nat
         /\ s = Low(s) + LevelById(s)
         /\ Low(s) <= s /\ s < Low(s) + LevelMask /\ Low(s) + Unit <= Past(s)
         /\ KeySpan(LevelById(s)) \in Nat /\ Past(s) = Low(s) + KeySpan(LevelById(s))
         /\ Aligned(Low(s), LevelById(s)) /\ Aligned(Past(s), LevelById(s))
         /\ 0 <= Low(s) /\ Past(s) <= EndOfKeys /\ s < EndOfKeys
<1> USE LevelConstants
<1>1. /\ s \in Int /\ LevelById(s) \in Levels /\ Aligned(Low(s), LevelById(s))
      /\ 0 <= Low(s) /\ Past(s) <= EndOfKeys
  BY DEF IsTrixel
<1>2. /\ LevelById(s) \in Nat /\ LevelById(s) <= Depth
      /\ KeySpan(LevelById(s)) \in Nat /\ Unit <= KeySpan(LevelById(s))
  BY <1>1, KeySpanFacts
<1>3. Low(s) = s - LevelById(s) /\ Past(s) = Low(s) + KeySpan(LevelById(s))
  BY DEF Low, Past
<1>4. Aligned(Past(s), LevelById(s))
  BY <1>1, <1>3, AlignedSteps
<1>5. EndOfKeys \in Nat
  BY <1>1, EndIsAligned
<1>6. LevelMask > Depth
  BY EmbeddedLevelAssumption
<1> QED
  BY <1>1, <1>2, <1>3, <1>4, <1>5, <1>6

\* Bounds that differ do so by a Unit at least.
LEMMA BoundsApart ==
  ASSUME NEW s, IsTrixel(s), NEW t, IsTrixel(t)
  PROVE  /\ Low(s) < Past(t) => Low(s) + Unit <= Past(t)
         /\ Past(s) < Past(t) => Past(s) + Unit <= Past(t)
         /\ Low(s) < Low(t) => Low(s) + Unit <= Low(t)
         /\ Past(s) < Low(t) => Past(s) + Unit <= Low(t)
<1>1. /\ LevelById(s) \in Levels /\ Aligned(Low(s), LevelById(s)) /\ Aligned(Past(s), LevelById(s))
      /\ LevelById(t) \in Levels /\ Aligned(Low(t), LevelById(t)) /\ Aligned(Past(t), LevelById(t))
  BY TrixelFacts
<1>2. Low(s) < Past(t) => Low(s) + Unit <= Past(t)
  BY <1>1, UnitsApart
<1>3. Past(s) < Past(t) => Past(s) + Unit <= Past(t)
  BY <1>1, UnitsApart
<1>4. Low(s) < Low(t) => Low(s) + Unit <= Low(t)
  BY <1>1, UnitsApart
<1>5. Past(s) < Low(t) => Past(s) + Unit <= Low(t)
  BY <1>1, UnitsApart
<1> QED
  BY <1>2, <1>3, <1>4, <1>5

\* Of two trixels that are not apart, the one of the finer level lies in the other.
LEMMA Nested ==
  ASSUME NEW s, IsTrixel(s), NEW t, IsTrixel(t), LevelById(s) <= LevelById(t), ~Disjoint(s, t)
  PROVE  Within(t, s)
<1>1. /\ LevelById(s) \in Levels /\ Aligned(Low(s), LevelById(s)) /\ Aligned(Past(s), LevelById(s))
      /\ Low(s) \in Nat /\ Past(s) \in Nat
  BY TrixelFacts
<1>2. /\ LevelById(t) \in Levels /\ Aligned(Low(t), LevelById(t)) /\ Aligned(Past(t), LevelById(t))
      /\ Low(t) \in Nat /\ Past(t) \in Nat /\ KeySpan(LevelById(t)) \in Nat
      /\ Past(t) = Low(t) + KeySpan(LevelById(t))
  BY TrixelFacts
<1>3. Aligned(Low(s), LevelById(t)) /\ Aligned(Past(s), LevelById(t))
  BY <1>1, <1>2, AlignedFiner
<1>4. Low(s) < Past(t) /\ Low(t) < Past(s)
  BY <1>1, <1>2 DEF Disjoint
<1>5. Low(s) + KeySpan(LevelById(t)) <= Past(t)
  BY <1>2, <1>3, <1>4, AlignedApart
<1>6. Low(t) + KeySpan(LevelById(t)) <= Past(s)
  BY <1>2, <1>3, <1>4, AlignedApart
<1> QED
  BY <1>1, <1>2, <1>5, <1>6 DEF Within

LEMMA DisjointSymmetric ==
  ASSUME NEW a, NEW b, Disjoint(a, b)
  PROVE  Disjoint(b, a)
BY DEF Disjoint

\* What lies in something apart from b is apart from b.
LEMMA WithinApart ==
  ASSUME NEW a, IsTrixel(a), NEW b, IsTrixel(b), NEW c, IsTrixel(c), Within(c, a), Disjoint(a, b)
  PROVE  Disjoint(c, b)
<1>1. /\ Low(a) \in Nat /\ Past(a) \in Nat /\ Low(b) \in Nat /\ Past(b) \in Nat
      /\ Low(c) \in Nat /\ Past(c) \in Nat
  BY TrixelFacts
<1> QED
  BY <1>1 DEF Within, Disjoint

-----------------------------------------------------------------------------
(***************************************************************************)
(* The positions a trixel covers.                                          *)
(***************************************************************************)
LEMMA CoversMeans ==
  ASSUME NEW s, IsTrixel(s), NEW cell \in Int
  PROVE  Covers(cell, s) <=> Low(s) <= KeyOf(cell) /\ KeyOf(cell) < Past(s)
<1> DEFINE l == LevelById(s)
           q == cell \div Span(l)
<1>1. /\ l \in Levels /\ l \in Nat /\ Low(s) \in Nat /\ s = Low(s) + l /\ Past(s) \in Nat
      /\ KeySpan(l) \in Nat /\ Past(s) = Low(s) + KeySpan(l)
  BY TrixelFacts
<1>2. PICK n \in Int : Low(s) = n * KeySpan(l)
  BY TrixelFacts DEF Aligned
<1>3. s = n * KeySpan(l) + l
  BY <1>1, <1>2
<1>4. Position(s) \div Span(l) = n
  BY <1>1, <1>3, BareIdOfLow DEF BareId
<1>5. Past(s) = (n + 1) * KeySpan(l)
  BY <1>1, <1>2
<1>6. /\ n <= q <=> n * KeySpan(l) <= KeyOf(cell)
      /\ n + 1 <= q <=> (n + 1) * KeySpan(l) <= KeyOf(cell)
  <2>1. \A c \in Int : c <= q <=> c * KeySpan(l) <= KeyOf(cell)
    BY <1>1, FamilyBound
  <2>2. n + 1 \in Int
    OBVIOUS
  <2> HIDE DEF q, l
  <2> QED
    BY <2>1, <2>2
<1>7. q \in Int
  BY <1>1, SpanPositive, DivisionLaw
<1>8. KeyOf(cell) \in Int
  BY KeyOfFacts
<1>9. Covers(cell, s) <=> n = q
  BY <1>4 DEF Covers
<1> HIDE DEF q, l
<1> QED
  BY <1>1, <1>2, <1>5, <1>6, <1>7, <1>8, <1>9

\* The first position of a trixel.
LEMMA FirstPosition ==
  ASSUME NEW s, IsTrixel(s)
  PROVE  Position(s) \in Int /\ KeyOf(Position(s)) = Low(s) + LevelMask
<1>1. /\ LevelById(s) \in Levels /\ Aligned(Low(s), LevelById(s)) /\ LevelById(s) \in Nat
      /\ LevelById(s) <= Depth /\ s = Low(s) + LevelById(s) /\ Low(s) \in Nat
  BY TrixelFacts
<1>2. Depth \in Levels /\ Unit \in Nat /\ Depth + 2 <= Unit /\ LevelMask \in Nat /\ Depth \in Nat
  BY LevelConstants DEF Levels
<1>3. Aligned(Low(s), Depth)
  BY <1>1, <1>2, AlignedFiner
<1>4. PICK m \in Int : Low(s) = m * Unit
  BY <1>3, KeySpanFacts DEF Aligned
<1>5. s = m * Unit + LevelById(s) /\ s \in Int
  BY <1>1, <1>4
<1>6. m * Unit <= s /\ s < m * Unit + Unit
  BY <1>1, <1>2, <1>5
<1>7. Position(s) = m
  BY <1>2, <1>5, <1>6, DivisionLaw DEF Position
<1> QED
  BY <1>4, <1>7, <1>2 DEF KeyOf

\* What EachOnce says of two trixels is that they are apart.
LEMMA ApartMeans ==
  ASSUME NEW s, IsTrixel(s), NEW t, IsTrixel(t)
  PROVE  /\ Disjoint(s, t) => ~Covers(Position(s), t)
         /\ Covers(Position(s), s)
<1>1. Position(s) \in Int /\ KeyOf(Position(s)) = Low(s) + LevelMask
  BY FirstPosition
<1>2. /\ Low(s) \in Nat /\ Past(s) \in Nat /\ Low(t) \in Nat /\ Past(t) \in Nat
      /\ Low(s) + Unit <= Past(s) /\ Unit = LevelMask + 1 /\ LevelMask \in Nat
  BY TrixelFacts, LevelConstants
<1>3. Covers(Position(s), t) <=> Low(t) <= Low(s) + LevelMask /\ Low(s) + LevelMask < Past(t)
  BY <1>1, CoversMeans
<1>4. Covers(Position(s), s) <=> Low(s) <= Low(s) + LevelMask /\ Low(s) + LevelMask < Past(s)
  BY <1>1, CoversMeans
<1>5. ASSUME Disjoint(s, t), Covers(Position(s), t) PROVE FALSE
  <2>1. Past(s) <= Low(t)
    BY <1>2, <1>3, <1>5 DEF Disjoint
  <2> QED
    BY <2>1, <1>2, <1>3, <1>5
<1> QED
  BY <1>2, <1>4, <1>5

-----------------------------------------------------------------------------
(***************************************************************************)
(* Children and roots.                                                     *)
(***************************************************************************)
LEMMA ConstantsHere ==
  /\ Roots = 8 /\ Fanout = 4 /\ Depth = Fineness /\ KEY_MAX = EndOfKeys - 1
  /\ EndOfKeys \in Nat /\ KEY_MAX \in Nat /\ 0 \in Levels
  /\ EndOfKeys = 8 * KeySpan(0) /\ KeySpan(0) \in Nat
<1>1. 0 \in Levels
  BY LevelConstants DEF Levels
<1> QED
  BY <1>1, NonConvexCoverAssumption, EndIsAligned, KeyMaxAssumption, KeySpanFacts DEF EndOfKeys

\* The j-th child begins where the one before ends, the first one where its
\* parent does.
LEMMA ChildFacts ==
  ASSUME NEW s, IsTrixel(s), LevelById(s) < Depth, NEW j \in 1 .. 4
  PROVE  /\ IsTrixel(Children(s)[j])
         /\ LevelById(Children(s)[j]) = LevelById(s) + 1
         /\ Low(Children(s)[j]) = Low(s) + (j - 1) * KeySpan(LevelById(s) + 1)
         /\ Past(Children(s)[j]) = Low(s) + j * KeySpan(LevelById(s) + 1)
         /\ Past(s) = Low(s) + 4 * KeySpan(LevelById(s) + 1)
         /\ KeySpan(LevelById(s) + 1) \in Nat /\ KeySpan(LevelById(s) + 1) > 0
<1> DEFINE l == LevelById(s)
           c == Children(s)[j]
           w == KeySpan(l + 1)
<1>1. /\ s \in Nat /\ l \in Levels /\ l \in Nat /\ l # Depth
      /\ Low(s) \in Nat /\ s = Low(s) + l /\ Past(s) = Low(s) + KeySpan(l)
      /\ Aligned(Low(s), l) /\ Past(s) <= EndOfKeys
  BY TrixelFacts
<1>2. l + 1 \in Levels /\ Span(l) = 4 * Span(l + 1)
  BY <1>1, SpanStep, ConstantsHere
<1>3. w \in Nat /\ w > 0 /\ KeySpan(l) = 4 * w
  <2>1. Span(l + 1) \in Nat /\ Unit \in Nat /\ Unit > 0
    BY <1>2, SpanPositive, LevelConstants
  <2>2. KeySpan(l) = Span(l) * Unit /\ w = Span(l + 1) * Unit /\ Unit <= w /\ w \in Nat
    BY <1>2, KeySpanFacts DEF KeySpan
  <2> HIDE DEF l, w
  <2> QED
    BY <2>1, <2>2, <1>2
<1>4. c = 1 + s + (j - 1) * w
  BY DEF Children
<1>5. PICK n \in Int : Low(s) = n * KeySpan(l)
  BY <1>1 DEF Aligned
<1>6. Low(s) = (4 * n) * w
  <2> HIDE DEF l, w
  <2> QED
    BY <1>3, <1>5
<1>7. c = (4 * n + (j - 1)) * w + (l + 1)
  <2>1. j - 1 \in Int /\ (4 * n + (j - 1)) * w = (4 * n) * w + (j - 1) * w
    <3> HIDE DEF l, w
    <3> QED
      BY <1>3
  <2> HIDE DEF l, w, c
  <2> QED
    BY <2>1, <1>1, <1>4, <1>6, <1>3
<1>8. LevelById(c) = l + 1
  BY <1>2, <1>7, BareIdOfLow
<1>9. c \in Int /\ Low(c) = (4 * n + (j - 1)) * w /\ Aligned(Low(c), l + 1)
  <2>1. c \in Int /\ Low(c) = c - (l + 1) /\ (4 * n + (j - 1)) \in Int
    BY <1>1, <1>3, <1>4, <1>8 DEF Low
  <2>2. Low(c) = (4 * n + (j - 1)) * w
    <3> HIDE DEF c, w
    <3> QED
      BY <2>1, <1>1, <1>3, <1>7
  <2> QED
    BY <2>1, <2>2 DEF Aligned
<1>10. Low(c) = Low(s) + (j - 1) * w
  <2> HIDE DEF c, w
  <2> QED
    BY <1>6, <1>9, <1>3
<1>11. Past(c) = Low(c) + w
  BY <1>8 DEF Past
<1>12. Past(c) = Low(s) + j * w /\ Past(s) = Low(s) + 4 * w
  <2>1. \A k \in Int : (k - 1) * w + w = k * w
    <3> HIDE DEF w
    <3> QED
      BY <1>3
  <2> HIDE DEF c, w
  <2> QED
    BY <2>1, <1>1, <1>3, <1>10, <1>11
<1>13. 0 <= Low(c) /\ Past(c) <= EndOfKeys
  <2>1. (j - 1) * w >= 0 /\ j * w <= 4 * w /\ (j - 1) * w \in Int /\ j * w \in Int
    <3> HIDE DEF w
    <3> QED
      BY <1>3
  <2> HIDE DEF c, w
  <2> QED
    BY <2>1, <1>1, <1>3, <1>10, <1>12, ConstantsHere
<1> QED
  BY <1>2, <1>3, <1>8, <1>9, <1>10, <1>12, <1>13 DEF IsTrixel

\* Children lie in their parent, apart from each other, and leave nothing out.
LEMMA ChildrenDivide ==
  ASSUME NEW s, IsTrixel(s), LevelById(s) < Depth
  PROVE  /\ \A j \in 1 .. 4 : IsTrixel(Children(s)[j]) /\ Within(Children(s)[j], s)
         /\ \A i, j \in 1 .. 4 : i # j => Disjoint(Children(s)[i], Children(s)[j])
         /\ \A k \in Int : Low(s) <= k /\ k < Past(s) =>
              \E j \in 1 .. 4 : Low(Children(s)[j]) <= k /\ k < Past(Children(s)[j])
<1> DEFINE c == Children(s)
           w == KeySpan(LevelById(s) + 1)
<1>1. \A j \in 1 .. 4 : /\ IsTrixel(c[j])
                        /\ Low(c[j]) = Low(s) + (j - 1) * w
                        /\ Past(c[j]) = Low(s) + j * w
  BY ChildFacts
<1>2. Past(s) = Low(s) + 4 * w /\ w \in Nat /\ w > 0 /\ Low(s) \in Nat
  BY ChildFacts, TrixelFacts, 1 \in 1 .. 4
<1> HIDE DEF c, w
<1>3. /\ IsTrixel(c[1]) /\ Low(c[1]) = Low(s)         /\ Past(c[1]) = Low(s) + w
      /\ IsTrixel(c[2]) /\ Low(c[2]) = Low(s) + w     /\ Past(c[2]) = Low(s) + 2 * w
      /\ IsTrixel(c[3]) /\ Low(c[3]) = Low(s) + 2 * w /\ Past(c[3]) = Low(s) + 3 * w
      /\ IsTrixel(c[4]) /\ Low(c[4]) = Low(s) + 3 * w /\ Past(c[4]) = Low(s) + 4 * w
  <2>1. /\ 1 \in 1 .. 4 /\ (1 - 1) * w = 0 /\ 1 * w = w
        /\ 2 \in 1 .. 4 /\ (2 - 1) * w = w
        /\ 3 \in 1 .. 4 /\ (3 - 1) * w = 2 * w
        /\ 4 \in 1 .. 4 /\ (4 - 1) * w = 3 * w
    BY <1>2
  <2> QED
    BY <2>1, <1>1, <1>2
<1>4. \A j \in 1 .. 4 : j = 1 \/ j = 2 \/ j = 3 \/ j = 4
  OBVIOUS
<1>5. \A j \in 1 .. 4 : IsTrixel(c[j]) /\ Within(c[j], s)
  <2> TAKE j \in 1 .. 4
  <2> QED
    BY <1>2, <1>3, <1>4 DEF Within
<1>6. \A i, j \in 1 .. 4 : i # j => Disjoint(c[i], c[j])
  <2>1. /\ Disjoint(c[1], c[2]) /\ Disjoint(c[1], c[3]) /\ Disjoint(c[1], c[4])
        /\ Disjoint(c[2], c[3]) /\ Disjoint(c[2], c[4]) /\ Disjoint(c[3], c[4])
    BY <1>2, <1>3 DEF Disjoint
  <2>2. /\ Disjoint(c[2], c[1]) /\ Disjoint(c[3], c[1]) /\ Disjoint(c[4], c[1])
        /\ Disjoint(c[3], c[2]) /\ Disjoint(c[4], c[2]) /\ Disjoint(c[4], c[3])
    BY <2>1, DisjointSymmetric
  <2> TAKE i, j \in 1 .. 4
  <2> QED
    BY <2>1, <2>2, <1>4
<1>7. \A k \in Int : Low(s) <= k /\ k < Past(s) =>
        \E j \in 1 .. 4 : Low(c[j]) <= k /\ k < Past(c[j])
  <2> TAKE k \in Int
  <2>1. ASSUME Low(s) <= k, k < Past(s)
        PROVE  \/ Low(c[1]) <= k /\ k < Past(c[1])
               \/ Low(c[2]) <= k /\ k < Past(c[2])
               \/ Low(c[3]) <= k /\ k < Past(c[3])
               \/ Low(c[4]) <= k /\ k < Past(c[4])
    BY <2>1, <1>2, <1>3
  <2>2. 1 \in 1 .. 4 /\ 2 \in 1 .. 4 /\ 3 \in 1 .. 4 /\ 4 \in 1 .. 4
    OBVIOUS
  <2> QED
    BY <2>1, <2>2
<1> QED
  BY <1>5, <1>6, <1>7 DEF c

\* The roots do the same for the sphere.
LEMMA RootsDivide ==
  /\ \A j \in 1 .. 8 : IsTrixel(RootValues[j]) /\ LevelById(RootValues[j]) = 0
  /\ \A i, j \in 1 .. 8 : i # j => Disjoint(RootValues[i], RootValues[j])
  /\ \A k \in Int : 0 <= k /\ k < EndOfKeys =>
       \E j \in 1 .. 8 : Low(RootValues[j]) <= k /\ k < Past(RootValues[j])
<1> DEFINE w == KeySpan(0)
           c == RootValues
<1>1. w \in Nat /\ w > 0 /\ 0 \in Levels /\ EndOfKeys = 8 * w
  BY ConstantsHere, KeySpanFacts, LevelConstants
<1>2. \A j \in 1 .. 8 : /\ IsTrixel(c[j]) /\ LevelById(c[j]) = 0
                        /\ Low(c[j]) = (j - 1) * w /\ Past(c[j]) = j * w
  <2> TAKE j \in 1 .. 8
  <2>1. c[j] = (j - 1) * w + 0 /\ j - 1 \in Int /\ (j - 1) * w \in Int /\ c[j] = (j - 1) * w
    <3>1. c[j] = (j - 1) * w
      BY DEF RootValues
    <3> HIDE DEF c, w
    <3> QED
      BY <3>1, <1>1
  <2>2. LevelById(c[j]) = 0
    BY <2>1, <1>1, BareIdOfLow
  <2>3. Low(c[j]) = (j - 1) * w
    <3> HIDE DEF c, w
    <3> QED
      BY <2>1, <2>2 DEF Low
  <2>4. Aligned(Low(c[j]), 0)
    BY <2>1, <2>3 DEF Aligned
  <2>5. Past(c[j]) = Low(c[j]) + w
    BY <2>2 DEF Past
  <2> HIDE DEF c, w
  <2>6. (j - 1) * w >= 0 /\ (j - 1) * w + w = j * w /\ j * w <= 8 * w
    BY <1>1
  <2> QED
    BY <2>1, <2>2, <2>3, <2>4, <2>5, <2>6, <1>1 DEF IsTrixel
<1> HIDE DEF c, w
<1>3. \A i, j \in 1 .. 8 : i # j => Disjoint(c[i], c[j])
  <2>1. \A i, j \in 1 .. 8 : i < j => i * w <= (j - 1) * w
    BY <1>1
  <2> QED
    BY <2>1, <1>2 DEF Disjoint
<1>4. \A k \in Int : 0 <= k /\ k < EndOfKeys =>
        \E j \in 1 .. 8 : Low(c[j]) <= k /\ k < Past(c[j])
  <2> TAKE k \in Int
  <2> HAVE 0 <= k /\ k < EndOfKeys
  <2>1. k \div w \in Int /\ (k \div w) * w <= k /\ k < (k \div w) * w + w
    BY <1>1, DivisionLaw
  <2> DEFINE q == k \div w
  <2> HIDE DEF q
  <2>2. q \in Int /\ q * w <= k /\ k < q * w + w
    BY <2>1 DEF q
  <2>3. q >= 0
    <3>1. ASSUME q <= -1 PROVE FALSE
      <4>1. q * w + w = (q + 1) * w /\ (q + 1) * w <= 0
        BY <3>1, <2>2, <1>1
      <4> QED
        BY <4>1, <2>2, <1>1
    <3> QED
      BY <3>1, <2>2
  <2>4. q < 8
    <3>1. ASSUME q >= 8 PROVE FALSE
      <4>1. q * w >= 8 * w
        BY <3>1, <2>2, <1>1
      <4> QED
        BY <4>1, <2>2, <1>1
    <3> QED
      BY <3>1, <2>2
  <2>5. q + 1 \in 1 .. 8 /\ ((q + 1) - 1) * w = q * w /\ (q + 1) * w = q * w + w
    BY <2>2, <2>3, <2>4, <1>1
  <2> QED
    BY <2>5, <2>2, <1>2
<1> QED
  BY <1>2, <1>3, <1>4 DEF c

-----------------------------------------------------------------------------
(***************************************************************************)
(* The range of a set of trixels, and what a SpatialRange answers about it.*)
(***************************************************************************)
RangeOf(T)   == {IntervalOf(s, s) : s \in T}
AreTrixels(T) == \A s \in T : IsTrixel(s)
AllApart(T)   == \A a, b \in T : a # b => Disjoint(a, b)

LEMMA IntervalIs ==
  ASSUME NEW s, IsTrixel(s)
  PROVE  IntervalOf(s, s) = <<s, Past(s) - 1>>
<1>1. /\ LevelById(s) \in Levels /\ Aligned(Low(s), LevelById(s)) /\ s \in Nat
      /\ LevelById(s) <= Depth /\ s = Low(s) + LevelById(s) /\ Low(s) \in Nat
      /\ LevelById(s) \in Nat /\ Past(s) = Low(s) + KeySpan(LevelById(s))
      /\ Low(s) <= s /\ KeySpan(LevelById(s)) \in Nat
  BY TrixelFacts
<1>2. LevelById(s) # LevelMask
  BY <1>1, EmbeddedLevelAssumption
<1>3. s < Low(s) + KeySpan(LevelById(s))
  BY <1>1, KeySpanFacts, LevelConstants
<1>4. Truncate(s, LevelById(s)) = Low(s)
  BY <1>1, <1>3, TruncateIs
<1>5. Terminate(s, LevelById(s)) = Past(s) - 1
  BY <1>1, <1>4 DEF Terminate
<1> QED
  BY <1>2, <1>5 DEF IntervalOf

LEMMA RangeIs ==
  ASSUME NEW T, AreTrixels(T)
  PROVE  RangeOf(T) = {<<s, Past(s) - 1>> : s \in T}
<1>1. \A s \in T : IntervalOf(s, s) = <<s, Past(s) - 1>>
  BY IntervalIs DEF AreTrixels
<1> QED
  BY <1>1 DEF RangeOf

\* What findMIN makes of the terminator of the last trixel, which is KEY_MAX: a trixel of T ends
\* with the sphere, and those that do not end at or before k.
Passed(T, k) ==
  /\ \E b \in T : Past(b) = EndOfKeys
  /\ \A b \in T : Past(b) = EndOfKeys \/ Past(b) <= k

\* A value is in the range when its key is between the two ends of an interval, or when the
\* range ends with the sphere and all its other intervals are passed.
LEMMA ContainsMeans ==
  ASSUME NEW T, AreTrixels(T), AllApart(T), NEW c, IsTrixel(c)
  PROVE  ContainsValue(RangeOf(T), c) <=> (\E b \in T : b <= c /\ c < Past(b)) \/ Passed(T, c)
<1> DEFINE Los == {i[1] : i \in RangeOf(T)}
           His == {i[2] : i \in RangeOf(T)}
           loAbove == FindMIN(Los, c)
           hiAbove == FindMIN(His, c)
           loBelow == FindMAX(Los, c)
           hiBelow == FindMAX(His, c)
<1>1. Los = T /\ His = {Past(b) - 1 : b \in T}
  <2>1. RangeOf(T) = {<<b, Past(b) - 1>> : b \in T}
    BY RangeIs
  <2>2. Los = {<<b, Past(b) - 1>>[1] : b \in T} /\ His = {<<b, Past(b) - 1>>[2] : b \in T}
    BY <2>1
  <2> QED
    BY <2>2
<1>2. \A b \in T : /\ b \in Nat /\ Low(b) \in Nat /\ Past(b) \in Nat /\ LevelById(b) \in Nat
                   /\ Low(b) <= b /\ b < Low(b) + LevelMask /\ Low(b) + Unit <= Past(b)
                   /\ b < KEY_MAX /\ Past(b) - 1 <= KEY_MAX
  <2> TAKE b \in T
  <2>1. IsTrixel(b)
    BY DEF AreTrixels
  <2> QED
    BY <2>1, TrixelFacts, ConstantsHere, LevelConstants
<1>3. /\ c \in Nat /\ c < KEY_MAX /\ KEY_MAX \in Nat /\ KEY_MIN = -KEY_MAX
      /\ KEY_MAX = EndOfKeys - 1 /\ EndOfKeys \in Nat /\ Unit = LevelMask + 1 /\ LevelMask \in Nat
  BY TrixelFacts, ConstantsHere, LevelConstants DEF KEY_MIN
<1>4. \A b \in T : Past(b) - 1 # c
  <2> SUFFICES ASSUME NEW b \in T, Past(b) - 1 = c PROVE FALSE
    OBVIOUS
  <2>1. /\ IsTrixel(b) /\ Low(c) \in Nat /\ Past(b) \in Nat
        /\ Low(c) <= c /\ c < Low(c) + LevelMask
    BY TrixelFacts DEF AreTrixels
  <2>2. Low(c) < Past(b)
    BY <2>1
  <2>3. Low(c) + Unit <= Past(b)
    BY <2>1, <2>2, BoundsApart
  <2> QED
    BY <2>1, <2>3, <1>3
<1>5. ContainsValue(RangeOf(T), c) <=>
        hiBelow < loBelow \/ hiAbove < loAbove
  BY DEF ContainsValue
<1> HIDE DEF Los, His
<1>6. /\ Los \in SUBSET Nat /\ \A x \in Los : x < KEY_MAX
      /\ His \in SUBSET Nat /\ \A x \in His : x <= KEY_MAX
  <2>1. \A b \in T : Past(b) - 1 \in Nat
    BY <1>2, <1>3
  <2> QED
    BY <2>1, <1>1, <1>2
<1>7. /\ \A x \in Los : x \in Int /\ 0 <= x /\ x < KEY_MAX
      /\ \A x \in His : x \in Int /\ 0 <= x /\ x <= KEY_MAX
  BY <1>6
<1>8. \/ loAbove = KEY_MAX /\ \A x \in Los : x <= c
      \/ loAbove \in Los /\ c < loAbove /\ \A x \in Los : c < x => loAbove <= x
  <2>1. KEY_MAX \notin Los /\ \A x \in Los : x <= KEY_MAX
    BY <1>7, <1>3
  <2> QED
    BY <2>1, <1>3, <1>6, FindMINOfNats
<1>9. \/ hiAbove = KEY_MAX /\ \A x \in His : x <= c
      \/ hiAbove = KEY_MIN /\ KEY_MAX \in His /\ \A x \in His : x <= c \/ x = KEY_MAX
      \/ /\ hiAbove \in His /\ c < hiAbove /\ hiAbove < KEY_MAX
         /\ \A x \in His : c < x => hiAbove <= x
  <2>1. c \in Int /\ His \in SUBSET Nat /\ \A x \in His : x <= KEY_MAX
    BY <1>3, <1>6
  <2> QED
    BY <2>1, FindMINOfNats
<1>10. \/ loBelow = KEY_MIN /\ \A x \in Los : c <= x
       \/ loBelow \in Los /\ loBelow < c /\ \A x \in Los : x < c => x <= loBelow
  BY <1>3, <1>6, FindMAXOfNats
<1>11. \/ hiBelow = KEY_MIN /\ \A x \in His : c <= x
       \/ hiBelow \in His /\ hiBelow < c /\ \A x \in His : x < c => x <= hiBelow
  BY <1>3, <1>6, FindMAXOfNats
<1> HIDE DEF loAbove, hiAbove, loBelow, hiBelow
<1>12. /\ loAbove \in Int /\ 0 <= loAbove /\ loAbove <= KEY_MAX
       /\ hiAbove \in Int /\ hiBelow \in Int /\ KEY_MIN <= hiBelow /\ loBelow \in Int
  <2>1. loAbove \in Int /\ 0 <= loAbove /\ loAbove <= KEY_MAX
    BY <1>3, <1>7, <1>8
  <2>2. hiAbove \in Int
    BY <1>3, <1>7, <1>9
  <2>3. hiBelow \in Int /\ KEY_MIN <= hiBelow
    BY <1>3, <1>7, <1>11
  <2>4. loBelow \in Int
    BY <1>3, <1>7, <1>10
  <2> QED
    BY <2>1, <2>2, <2>3, <2>4
<1>13. Passed(T, c) <=> KEY_MAX \in His /\ \A x \in His : x <= c \/ x = KEY_MAX
  <2>1. \A b \in T : /\ Past(b) - 1 = KEY_MAX <=> Past(b) = EndOfKeys
                     /\ Past(b) - 1 <= c <=> Past(b) <= c
    BY <1>2, <1>3, <1>4
  <2>2. KEY_MAX \in His <=> \E b \in T : Past(b) = EndOfKeys
    BY <2>1, <1>1
  <2>3. (\A x \in His : x <= c \/ x = KEY_MAX) <=> \A b \in T : Past(b) = EndOfKeys \/ Past(b) <= c
    BY <2>1, <1>1
  <2> QED
    BY <2>2, <2>3 DEF Passed
<1>14. ASSUME hiAbove < loAbove, ~Passed(T, c) PROVE \E b \in T : b <= c /\ c < Past(b)
  <2>1. hiAbove \in His /\ c < hiAbove
    BY <1>3, <1>7, <1>12, <1>9, <1>13, <1>14
  <2>2. PICK b \in T : hiAbove = Past(b) - 1
    BY <1>1, <2>1
  <2>3. ~(c < b)
    <3>1. c < b => loAbove <= b
      BY <1>1, <1>2, <1>3, <1>7, <1>8
    <3>2. b < Past(b) - 1
      BY <1>2, <1>3
    <3> QED
      BY <3>1, <3>2, <1>2, <1>12, <1>14, <2>2
  <2> QED
    BY <1>2, <1>3, <2>1, <2>2, <2>3
<1>15. ASSUME hiBelow < loBelow PROVE \E b \in T : b <= c /\ c < Past(b)
  <2>1. KEY_MIN <= hiBelow /\ hiBelow \in Int
    BY <1>12
  <2>2. loBelow \in Los /\ loBelow < c
    BY <1>3, <1>10, <1>15, <2>1
  <2>3. PICK b \in T : loBelow = b
    BY <1>1, <2>2
  <2>4. Past(b) - 1 \in His /\ Past(b) - 1 > b /\ Past(b) - 1 \in Nat
    BY <1>1, <1>2, <1>3
  <2>5. ~(Past(b) - 1 < c)
    BY <1>2, <1>3, <1>7, <1>12, <1>11, <1>15, <2>1, <2>3, <2>4
  <2> QED
    BY <1>2, <1>3, <2>2, <2>3, <2>5
<1>16. ASSUME NEW b \in T, b <= c, c < Past(b) PROVE hiAbove < loAbove
  <2>1. Past(b) - 1 \in His /\ c < Past(b) - 1
    BY <1>1, <1>2, <1>3, <1>4, <1>16
  <2>2. CASE hiAbove = KEY_MIN
    <3>1. KEY_MIN < 0
      BY <1>3
    <3> QED
      BY <3>1, <2>2, <1>3, <1>12
  <2>3. CASE /\ hiAbove \in His /\ c < hiAbove /\ hiAbove < KEY_MAX
             /\ \A x \in His : c < x => hiAbove <= x
    <3>1. hiAbove <= Past(b) - 1
      BY <2>1, <2>3
    <3>2. \A d \in Los : c < d => Past(b) - 1 < d
      <4> SUFFICES ASSUME NEW d \in T, c < d, d <= Past(b) - 1 PROVE FALSE
        BY <1>1, <1>2
      <4>1. Disjoint(d, b)
        BY <1>2, <1>3, <1>16 DEF AllApart
      <4> QED
        BY <4>1, <1>2, <1>3, <1>16 DEF Disjoint
    <3>3. Past(b) - 1 \in Int
      BY <1>2
    <3> QED
      BY <1>3, <1>7, <1>12, <1>8, <2>3, <3>1, <3>2, <3>3
  <2> QED
    BY <2>1, <2>2, <2>3, <1>9, <1>3, <1>7
<1>17. ASSUME Passed(T, c) PROVE hiAbove < loAbove
  <2>1. KEY_MAX \in His /\ \A x \in His : x <= c \/ x = KEY_MAX
    BY <1>13, <1>17
  <2>2. hiAbove = KEY_MIN
    <3>1. CASE hiAbove = KEY_MAX /\ \A x \in His : x <= c
      BY <3>1, <2>1, <1>3
    <3>2. CASE hiAbove \in His /\ c < hiAbove /\ hiAbove < KEY_MAX
      BY <3>2, <2>1, <1>3, <1>7
    <3> QED
      BY <3>1, <3>2, <1>9
  <2>3. KEY_MIN < 0
    BY <1>3
  <2> QED
    BY <2>2, <2>3, <1>3, <1>12
<1> QED
  BY <1>5, <1>14, <1>15, <1>16, <1>17

\* What is in the range and not past it lies in one of its trixels.
LEMMA ContainedLies ==
  ASSUME NEW T, AreTrixels(T), AllApart(T), NEW c, IsTrixel(c), ContainsValue(RangeOf(T), c),
         ~Passed(T, c)
  PROVE  \E b \in T : Within(c, b)
<1>1. PICK b \in T : b <= c /\ c < Past(b)
  BY ContainsMeans
<1>2. IsTrixel(b)
  BY DEF AreTrixels
<1>3. /\ LevelById(c) \in Nat /\ c = Low(c) + LevelById(c) /\ Low(c) \in Nat /\ Past(c) \in Nat
      /\ Low(c) + Unit <= Past(c) /\ c < Low(c) + LevelMask
  BY TrixelFacts
<1>4. /\ LevelById(b) \in Nat /\ b = Low(b) + LevelById(b) /\ Low(b) \in Nat /\ Past(b) \in Nat
      /\ Low(b) + Unit <= Past(b) /\ b < Low(b) + LevelMask
  BY <1>2, TrixelFacts
<1>5. Unit = LevelMask + 1 /\ LevelMask \in Nat
  BY LevelConstants
<1>6. Low(c) < Past(b)
  BY <1>1, <1>3, <1>4
<1>7. Low(b) <= Low(c)
  <2>1. Low(c) < Low(b) => Low(c) + Unit <= Low(b)
    BY <1>2, BoundsApart
  <2> QED
    BY <2>1, <1>1, <1>3, <1>4, <1>5
<1>8. ~Disjoint(b, c) /\ ~Disjoint(c, b)
  BY <1>3, <1>4, <1>5, <1>6, <1>7 DEF Disjoint
<1>9. CASE LevelById(b) <= LevelById(c)
  BY <1>2, <1>8, <1>9, Nested
<1>10. CASE LevelById(c) < LevelById(b)
  <2>1. Within(b, c)
    BY <1>2, <1>3, <1>4, <1>8, <1>10, Nested
  <2>2. Low(c) <= Low(b)
    BY <2>1 DEF Within
  <2> QED
    BY <2>2, <1>1, <1>3, <1>4, <1>7, <1>10
<1> QED
  BY <1>3, <1>4, <1>9, <1>10

\* What lies in a trixel that is not finer is in the range.
LEMMA LyingIsContained ==
  ASSUME NEW T, AreTrixels(T), AllApart(T), NEW c, IsTrixel(c),
         NEW b \in T, LevelById(b) <= LevelById(c), Within(c, b)
  PROVE  ContainsValue(RangeOf(T), c)
<1>1. IsTrixel(b)
  BY DEF AreTrixels
<1>2. /\ LevelById(c) \in Nat /\ c = Low(c) + LevelById(c) /\ Low(c) \in Nat /\ Past(c) \in Nat
      /\ Low(c) + Unit <= Past(c) /\ c < Low(c) + LevelMask
  BY TrixelFacts
<1>3. LevelById(b) \in Nat /\ b = Low(b) + LevelById(b) /\ Low(b) \in Nat /\ Past(b) \in Nat
  BY <1>1, TrixelFacts
<1>4. Unit = LevelMask + 1 /\ LevelMask \in Nat
  BY LevelConstants
<1>5. Low(b) <= Low(c) /\ Past(c) <= Past(b)
  BY DEF Within
<1>6. b <= c /\ c < Past(b)
  BY <1>2, <1>3, <1>4, <1>5
<1> QED
  BY <1>6, ContainsMeans

InSome(k, S) == \E s \in S : Low(s) <= k /\ k < Past(s)

\* A key that is passed without being in a trixel of T, in a root that meets T.
Missed(T, k) ==
  /\ ~InSome(k, T) /\ Passed(T, k)
  /\ \E r \in 1 .. 8 : /\ Low(RootValues[r]) <= k /\ k < Past(RootValues[r])
                      /\ \E b \in T : ~Disjoint(RootValues[r], b)

\* What the range contains of a trixel that meets it is in one of its trixels or missed.
LEMMA ContainedIsMissed ==
  ASSUME NEW T, AreTrixels(T), AllApart(T), NEW s, IsTrixel(s), NEW b \in T, ~Disjoint(s, b),
         NEW c, IsTrixel(c), Within(c, s), ContainsValue(RangeOf(T), c),
         NEW k \in Int, Low(c) <= k, k < Past(c)
  PROVE  InSome(k, T) \/ Missed(T, k)
<1>1. /\ Low(c) \in Nat /\ Past(c) \in Nat /\ c \in Nat /\ Low(c) <= c /\ c < Low(c) + LevelMask
      /\ Low(s) \in Nat /\ Past(s) \in Nat /\ Past(s) <= EndOfKeys /\ EndOfKeys \in Nat
      /\ Unit = LevelMask + 1 /\ LevelMask \in Nat /\ LevelById(s) \in Nat
  BY TrixelFacts, ConstantsHere, LevelConstants
<1>2. \A x \in T : /\ IsTrixel(x) /\ Low(x) \in Nat /\ Past(x) \in Nat
  BY TrixelFacts DEF AreTrixels
<1>3. CASE ~Passed(T, c)
  <2>1. PICK d \in T : Within(c, d)
    BY <1>3, ContainedLies
  <2>2. Low(d) <= k /\ k < Past(d)
    BY <2>1, <1>1, <1>2 DEF Within
  <2> QED
    BY <2>2 DEF InSome
<1>4. CASE Passed(T, c) /\ ~InSome(k, T)
  <2>1. Passed(T, k)
    <3>1. ASSUME NEW x \in T, Past(x) <= c PROVE Past(x) <= k
      <4>1. Low(c) < Past(x) => Low(c) + Unit <= Past(x)
        BY <1>2, BoundsApart
      <4> QED
        BY <4>1, <3>1, <1>1, <1>2
    <3> QED
      BY <3>1, <1>4 DEF Passed
  <2>2. 0 <= k /\ k < EndOfKeys /\ Low(s) <= k /\ k < Past(s)
    BY <1>1 DEF Within
  <2>3. PICK r \in 1 .. 8 : Low(RootValues[r]) <= k /\ k < Past(RootValues[r])
    BY <2>2, RootsDivide
  <2> DEFINE root == RootValues[r]
  <2>4. IsTrixel(root) /\ LevelById(root) = 0 /\ Low(root) \in Nat /\ Past(root) \in Nat
    BY RootsDivide, TrixelFacts
  <2>5. Low(root) <= k /\ k < Past(root)
    BY <2>3
  <2> HIDE DEF root
  <2>6. ~Disjoint(root, s)
    BY <2>2, <2>4, <2>5, <1>1 DEF Disjoint
  <2>7. Within(s, root)
    BY <2>4, <2>6, <1>1, Nested
  <2>8. ~Disjoint(root, b)
    BY <2>4, <2>7, <1>2, WithinApart
  <2> QED
    BY <2>1, <2>5, <2>8, <1>4 DEF Missed, root
<1> QED
  BY <1>3, <1>4

\* Nothing of a trixel that is apart from T is missed: neither of a root nor of one that is
\* not passed.
LEMMA ApartIsNotMissed ==
  ASSUME NEW T, AreTrixels(T), NEW a, IsTrixel(a), \A b \in T : Disjoint(a, b),
         LevelById(a) = 0 \/ ~Passed(T, a),
         NEW k \in Int, Low(a) <= k, k < Past(a)
  PROVE  ~Missed(T, k)
<1> SUFFICES ASSUME Missed(T, k) PROVE FALSE
  OBVIOUS
<1>1. /\ Low(a) \in Nat /\ Past(a) \in Nat /\ a \in Nat /\ Low(a) <= a
  BY TrixelFacts
<1>2. \A x \in T : /\ IsTrixel(x) /\ Low(x) \in Nat /\ Past(x) \in Nat /\ LevelById(x) \in Nat
                   /\ Low(x) + Unit <= Past(x)
  BY TrixelFacts DEF AreTrixels
<1>3. CASE ~Passed(T, a)
  <2>1. \A x \in T : Past(x) <= k => Past(x) <= a
    <3> TAKE x \in T
    <3>1. Disjoint(a, x) /\ Unit \in Nat
      BY LevelConstants
    <3> QED
      BY <3>1, <1>1, <1>2 DEF Disjoint
  <2>2. Passed(T, k)
    BY DEF Missed
  <2> QED
    BY <2>1, <2>2, <1>3 DEF Passed
<1>4. CASE LevelById(a) = 0
  <2>1. PICK r \in 1 .. 8 : /\ Low(RootValues[r]) <= k /\ k < Past(RootValues[r])
                            /\ \E b \in T : ~Disjoint(RootValues[r], b)
    BY DEF Missed
  <2> DEFINE root == RootValues[r]
  <2>2. IsTrixel(root) /\ LevelById(root) = 0 /\ Low(root) \in Nat /\ Past(root) \in Nat
    BY RootsDivide, TrixelFacts
  <2>3. PICK b \in T : ~Disjoint(root, b)
    BY <2>1
  <2>4. Low(root) <= k /\ k < Past(root)
    BY <2>1
  <2> HIDE DEF root
  <2>5. ~Disjoint(a, root)
    BY <2>2, <2>4, <1>1 DEF Disjoint
  <2>6. Within(root, a)
    BY <2>2, <2>5, <1>4, Nested
  <2>7. Disjoint(root, b)
    BY <2>2, <2>6, <1>2, WithinApart
  <2> QED
    BY <2>3, <2>7
<1> QED
  BY <1>3, <1>4

\* Ranges have something in common when two of their trixels are not apart: raising the
\* low ends to a level, and skipping what ends before an interval begins, change nothing.
LEMMA AtLeastOneMeans ==
  ASSUME NEW S, AreTrixels(S), S # {}, NEW T, AreTrixels(T), AllApart(T), T # {}
  PROVE  AtLeastOne(RangeOf(S), RangeOf(T)) <=> \E a \in S, b \in T : ~Disjoint(a, b)
<1> DEFINE range1 == RangeOf(S)
           range2 == RangeOf(T)
           level == LevelById(First({i[1] : i \in range1}))
           At(r) == {AtLevelFromMultiLevel(level, i) : i \in r}
           From(lo) == {j \in range2 : ~\E k \in range2 : j[1] < k[1] /\ k[1] < lo}
           Raised(a) == IF LevelById(a) < level THEN a - LevelById(a) + level ELSE a
           Meets(i, j) == j[1] <= i[2] /\ j[2] >= i[1]
<1>1. /\ range1 = {<<a, Past(a) - 1>> : a \in S}
      /\ range2 = {<<b, Past(b) - 1>> : b \in T}
  BY RangeIs
<1>2. range1 # {} /\ range2 # {}
  <2>1. PICK a \in S, b \in T : TRUE
    OBVIOUS
  <2>2. <<a, Past(a) - 1>> \in range1 /\ <<b, Past(b) - 1>> \in range2
    BY <1>1
  <2> QED
    BY <2>2
<1>3. level \in Levels
  <2>1. {i[1] : i \in range1} = S
    <3>1. {i[1] : i \in range1} = {<<a, Past(a) - 1>>[1] : a \in S}
      BY <1>1
    <3> QED
      BY <3>1
  <2>2. S \in SUBSET Nat
    BY TrixelFacts DEF AreTrixels
  <2>3. First(S) \in S
    BY <2>2, FirstOfNats
  <2> QED
    BY <2>1, <2>3 DEF AreTrixels, IsTrixel
<1>4. AtLeastOne(range1, range2) <=>
        \E i \in At(range1) : \E j \in At(From(i[1])) : Meets(i, j)
  <2> DEFINE Common(i, j) == <<Max({i[1], j[1]}), Min({i[2], j[2]})>>
             Found == UNION {{Common(i, j) : j \in {k \in At(From(i[1])) : Meets(i, k)}} :
                               i \in At(range1)}
  <2>1. RangeFromIntersection(range1, range2) = Found
    BY <1>2 DEF RangeFromIntersection
  <2>2. Found # {} <=> \E i \in At(range1) : \E j \in At(From(i[1])) : Meets(i, j)
    <3> HIDE DEF Common, Meets, At, From, range1
    <3> QED
      OBVIOUS
  <2> QED
    BY <2>1, <2>2 DEF AtLeastOne
<1>5. \A a : AtLevelFromMultiLevel(level, <<a, Past(a) - 1>>) = <<Raised(a), Past(a) - 1>>
  BY DEF AtLevelFromMultiLevel
<1>6. \A a : IsTrixel(a) => /\ Raised(a) \in Int /\ Low(a) <= Raised(a)
                           /\ Raised(a) < Low(a) + LevelMask /\ a <= Raised(a)
  <2> SUFFICES ASSUME NEW a, IsTrixel(a)
               PROVE  /\ Raised(a) \in Int /\ Low(a) <= Raised(a)
                      /\ Raised(a) < Low(a) + LevelMask /\ a <= Raised(a)
    OBVIOUS
  <2>1. /\ a \in Nat /\ LevelById(a) \in Nat /\ Low(a) \in Nat /\ a = Low(a) + LevelById(a)
        /\ Low(a) <= a /\ a < Low(a) + LevelMask
    BY TrixelFacts
  <2>2. level \in Nat /\ level < LevelMask /\ LevelMask \in Nat
    BY <1>3, EmbeddedLevelAssumption, LevelConstants DEF Levels
  <2> HIDE DEF level
  <2>3. CASE LevelById(a) < level
    <3>1. Raised(a) = Low(a) + level
      BY <2>1, <2>2, <2>3
    <3> HIDE DEF Raised
    <3> QED
      BY <2>1, <2>2, <2>3, <3>1
  <2>4. CASE ~(LevelById(a) < level)
    BY <2>1, <2>4
  <2> QED
    BY <2>3, <2>4
<1> HIDE DEF level, Raised
<1>7. ASSUME NEW a \in S, NEW b \in T
      PROVE  Meets(<<Raised(a), Past(a) - 1>>, <<Raised(b), Past(b) - 1>>) <=> ~Disjoint(a, b)
  <2>1. IsTrixel(a) /\ IsTrixel(b)
    BY DEF AreTrixels
  <2>2. /\ Low(a) \in Nat /\ Past(a) \in Nat /\ Raised(a) \in Int
        /\ Low(a) <= Raised(a) /\ Raised(a) < Low(a) + LevelMask
    BY <2>1, <1>6, TrixelFacts
  <2>3. /\ Low(b) \in Nat /\ Past(b) \in Nat /\ Raised(b) \in Int
        /\ Low(b) <= Raised(b) /\ Raised(b) < Low(b) + LevelMask
    BY <2>1, <1>6, TrixelFacts
  <2>4. /\ Low(a) < Past(b) => Low(a) + Unit <= Past(b)
        /\ Low(b) < Past(a) => Low(b) + Unit <= Past(a)
    BY <2>1, BoundsApart
  <2>5. Unit = LevelMask + 1 /\ LevelMask \in Nat
    BY LevelConstants
  <2>6. Raised(b) <= Past(a) - 1 <=> Low(b) < Past(a)
    BY <2>2, <2>3, <2>4, <2>5
  <2>7. Past(b) - 1 >= Raised(a) <=> Low(a) < Past(b)
    BY <2>2, <2>3, <2>4, <2>5
  <2>8. Disjoint(a, b) <=> ~(Low(b) < Past(a)) \/ ~(Low(a) < Past(b))
    BY <2>2, <2>3 DEF Disjoint
  <2> QED
    BY <2>6, <2>7, <2>8
<1>8. ASSUME NEW a \in S, NEW b \in T, ~Disjoint(a, b)
      PROVE  <<b, Past(b) - 1>> \in From(Raised(a))
  <2> SUFFICES ASSUME NEW d \in T, b < d, d < Raised(a) PROVE FALSE
    BY <1>1
  <2>1. IsTrixel(a) /\ IsTrixel(b) /\ IsTrixel(d)
    BY DEF AreTrixels
  <2>2. /\ Low(a) \in Nat /\ Past(a) \in Nat /\ Raised(a) \in Int
        /\ Low(a) <= Raised(a) /\ Raised(a) < Low(a) + LevelMask
    BY <2>1, <1>6, TrixelFacts
  <2>3. /\ Low(b) \in Nat /\ Past(b) \in Nat /\ b \in Nat
        /\ Low(b) <= b /\ b < Low(b) + LevelMask /\ Low(b) + Unit <= Past(b)
    BY <2>1, TrixelFacts
  <2>4. /\ Low(d) \in Nat /\ Past(d) \in Nat /\ d \in Nat
        /\ Low(d) <= d /\ d < Low(d) + LevelMask /\ Low(d) + Unit <= Past(d)
    BY <2>1, TrixelFacts
  <2>5. Low(a) < Past(b) => Low(a) + Unit <= Past(b)
    BY <2>1, BoundsApart
  <2>6. Unit = LevelMask + 1 /\ LevelMask \in Nat
    BY LevelConstants
  <2>7. Low(a) < Past(b)
    BY <1>8, <2>2, <2>3 DEF Disjoint
  <2>8. Disjoint(b, d)
    BY <2>3, <2>4 DEF AllApart
  <2>9. Past(b) <= Low(d)
    BY <2>3, <2>4, <2>6, <2>8 DEF Disjoint
  <2>10. Low(a) + Unit <= Low(d)
    BY <2>2, <2>3, <2>4, <2>5, <2>6, <2>7, <2>9
  <2>11. d < Low(a) + LevelMask
    BY <2>2, <2>4, <2>6
  <2> QED
    BY <2>2, <2>4, <2>6, <2>10, <2>11
<1>9. ASSUME NEW a \in S, NEW b \in T, ~Disjoint(a, b)
      PROVE  \E i \in At(range1) : \E j \in At(From(i[1])) : Meets(i, j)
  <2>1. <<Raised(a), Past(a) - 1>> \in At(range1)
    BY <1>1, <1>5
  <2>2. <<Raised(b), Past(b) - 1>> \in At(From(Raised(a)))
    BY <1>5, <1>8, <1>9
  <2>3. Meets(<<Raised(a), Past(a) - 1>>, <<Raised(b), Past(b) - 1>>)
    BY <1>7, <1>9
  <2>4. <<Raised(a), Past(a) - 1>>[1] = Raised(a)
    OBVIOUS
  <2> HIDE DEF At, From, Meets, range1, range2
  <2> QED
    BY <2>1, <2>2, <2>3, <2>4
<1>10. ASSUME NEW i \in At(range1), NEW j \in At(From(i[1])), Meets(i, j)
       PROVE  \E a \in S, b \in T : ~Disjoint(a, b)
  <2>1. PICK a \in S : i = <<Raised(a), Past(a) - 1>>
    BY <1>1, <1>5
  <2>2. PICK b \in T : j = <<Raised(b), Past(b) - 1>>
    <3>1. j \in At(range2)
      OBVIOUS
    <3> QED
      BY <3>1, <1>1, <1>5
  <2> QED
    BY <2>1, <2>2, <1>7, <1>10
<1> QED
  BY <1>4, <1>9, <1>10

-----------------------------------------------------------------------------
(***************************************************************************)
(* The inductive invariant.  Good is about either loop: what waits in its  *)
(* worklist and what has been kept are trixels no finer than the forced    *)
(* level f, all of them apart.  Filling is about the second loop: what it  *)
(* divides is apart from what was found inside or divided further, and     *)
(* only what is Missed gets lost.                                          *)
(***************************************************************************)
IsPiece(s, f) == IsTrixel(s) /\ LevelById(s) <= f

Good(list, kept, f) ==
  /\ list \in Seq(Int)
  /\ \A i \in DOMAIN list : IsPiece(list[i], f)
  /\ \A a \in kept : IsPiece(a, f)
  /\ AllApart(kept)
  /\ \A i, j \in DOMAIN list : i # j => Disjoint(list[i], list[j])
  /\ \A i \in DOMAIN list : \A a \in kept : Disjoint(list[i], a)

Filling ==
  /\ interior = RangeOf(cover1)
  /\ force_resolution_level > 0 =>
       /\ \A a \in cover3 : \A b \in cover1 : Disjoint(a, b)
       /\ \A i \in DOMAIN cover2 : LevelById(cover2[i]) >= force_resolution_level =>
            \A b \in cover1 : Disjoint(cover2[i], b)
       /\ \A a \in cover3 : LevelById(a) = 0 \/ ~Passed(cover1, a)
       /\ \A i \in DOMAIN cover2 : LevelById(cover2[i]) = 0 \/ ~Passed(cover1, cover2[i])
  /\ \A k \in 0 .. EndOfKeys - 1 :
       InSome(k, cover3) \/ InSome(k, Range(cover2)) \/
         (force_resolution_level > 0 /\ (InSome(k, cover1) \/ Missed(cover1, k)))

IInv ==
  /\ task \in Polygons
  /\ phase \in {"sift", "complement", "done"}
  /\ Good(cover, cover1, force_resolution_level)
  /\ Good(cover2, cover3, force_resolution_level)
  /\ phase = "sift" => cover2 = <<>> /\ cover3 = {}
  /\ phase = "complement" => ~ccw_orientation
  /\ phase # "sift" /\ ~ccw_orientation => Filling
  /\ phase = "done" => cover2 = <<>>

-----------------------------------------------------------------------------
(***************************************************************************)
(* What the turns of a loop do to its worklist.                            *)
(***************************************************************************)
\* A trixel apart from all that waits and has been kept.
IsNew(s, list, kept) ==
  /\ \A i \in DOMAIN list : Disjoint(list[i], s)
  /\ \A a \in kept : Disjoint(a, s)

LEMMA NothingIsGood ==
  ASSUME NEW f
  PROVE  Good(<<>>, {}, f)
BY DEF Good, AllApart

\* The first one of the worklist is taken from it.
LEMMA TakenIsGood ==
  ASSUME NEW list, NEW kept, NEW f, Good(list, kept, f), list # <<>>
  PROVE  /\ Head(list) = list[1] /\ 1 \in DOMAIN list
         /\ IsPiece(Head(list), f)
         /\ Good(Tail(list), kept, f)
         /\ IsNew(Head(list), Tail(list), kept)
         /\ Range(list) = Range(Tail(list)) \cup {Head(list)}
         /\ \A i \in DOMAIN Tail(list) : i + 1 \in DOMAIN list /\ Tail(list)[i] = list[i + 1]
<1>1. list \in Seq(Int) /\ Len(list) \in Nat /\ Len(list) > 0 /\ DOMAIN list = 1 .. Len(list)
  BY DEF Good
<1>2. /\ Tail(list) \in Seq(Int) /\ DOMAIN Tail(list) = 1 .. Len(list) - 1
      /\ \A i \in 1 .. Len(list) - 1 : Tail(list)[i] = list[i + 1]
  BY <1>1
<1>3. Head(list) = list[1] /\ 1 \in DOMAIN list
  BY <1>1
<1>4. \A i \in DOMAIN Tail(list) : i + 1 \in DOMAIN list /\ Tail(list)[i] = list[i + 1]
  BY <1>1, <1>2
<1>5. IsPiece(Head(list), f)
  BY <1>3 DEF Good
<1>6. Good(Tail(list), kept, f)
  <2>1. \A i \in DOMAIN Tail(list) : IsPiece(Tail(list)[i], f)
    BY <1>4 DEF Good
  <2>2. \A i, j \in DOMAIN Tail(list) : i # j => Disjoint(Tail(list)[i], Tail(list)[j])
    <3> TAKE i, j \in DOMAIN Tail(list)
    <3> HAVE i # j
    <3>1. i + 1 # j + 1
      BY <1>2
    <3> QED
      BY <3>1, <1>4 DEF Good
  <2>3. \A i \in DOMAIN Tail(list) : \A a \in kept : Disjoint(Tail(list)[i], a)
    BY <1>4 DEF Good
  <2> QED
    BY <1>2, <2>1, <2>2, <2>3 DEF Good
<1>7. IsNew(Head(list), Tail(list), kept)
  <2>1. \A i \in DOMAIN Tail(list) : Disjoint(Tail(list)[i], Head(list))
    <3> TAKE i \in DOMAIN Tail(list)
    <3>1. i + 1 # 1
      BY <1>2
    <3> QED
      BY <3>1, <1>3, <1>4 DEF Good
  <2>2. \A a \in kept : Disjoint(a, Head(list))
    BY <1>3, DisjointSymmetric DEF Good
  <2> QED
    BY <2>1, <2>2 DEF IsNew
<1>8. Range(list) = Range(Tail(list)) \cup {Head(list)}
  <2>1. \A i \in DOMAIN list : i = 1 \/ (i - 1 \in DOMAIN Tail(list) /\ (i - 1) + 1 = i)
    BY <1>1, <1>2
  <2>2. \A i \in DOMAIN list : i = 1 \/ \E j \in DOMAIN Tail(list) : Tail(list)[j] = list[i]
    BY <2>1, <1>4
  <2> QED
    BY <2>2, <1>3, <1>4 DEF Range
<1> QED
  BY <1>3, <1>4, <1>5, <1>6, <1>7, <1>8

\* Keeping new trixels that are apart.
LEMMA KeepingIsGood ==
  ASSUME NEW list, NEW kept, NEW f, Good(list, kept, f),
         NEW N, AllApart(N), \A s \in N : IsPiece(s, f) /\ IsNew(s, list, kept)
  PROVE  Good(list, kept \cup N, f)
<1>1. \A a \in kept \cup N : IsPiece(a, f)
  BY DEF Good
<1>2. AllApart(kept \cup N)
  <2>1. \A a \in kept : \A s \in N : Disjoint(a, s) /\ Disjoint(s, a)
    BY DisjointSymmetric DEF IsNew
  <2>2. AllApart(kept)
    BY DEF Good
  <2> QED
    BY <2>1, <2>2 DEF AllApart
<1>3. \A i \in DOMAIN list : \A a \in kept \cup N : Disjoint(list[i], a)
  BY DEF Good, IsNew
<1> QED
  BY <1>1, <1>2, <1>3 DEF Good

\* A new trixel at the end of the worklist, if it is in S.
LEMMA PushBackIsGood ==
  ASSUME NEW list, NEW kept, NEW f, Good(list, kept, f),
         NEW c, IsPiece(c, f), IsNew(c, list, kept), NEW S
  PROVE  /\ Good(PushBack(list, c, S), kept, f)
         /\ Range(PushBack(list, c, S)) = Range(list) \cup ({c} \cap S)
         /\ \A d : IsNew(d, list, kept) /\ Disjoint(c, d) => IsNew(d, PushBack(list, c, S), kept)
<1>1. CASE c \notin S
  BY <1>1 DEF PushBack
<1>2. CASE c \in S
  <2> DEFINE new == Append(list, c)
             n == Len(list)
  <2>1. list \in Seq(Int) /\ n \in Nat /\ DOMAIN list = 1 .. n /\ c \in Int
    BY DEF Good, IsPiece, IsTrixel
  <2>2. /\ new \in Seq(Int) /\ DOMAIN new = 1 .. n + 1
        /\ \A i \in 1 .. n : new[i] = list[i]
        /\ new[n + 1] = c
    BY <2>1
  <2> HIDE DEF new, n
  <2>3. /\ \A i \in DOMAIN new : (i \in DOMAIN list /\ new[i] = list[i]) \/ (i = n + 1 /\ new[i] = c)
        /\ \A i \in DOMAIN list : i \in DOMAIN new /\ new[i] = list[i]
        /\ n + 1 \in DOMAIN new
    <3>1. /\ \A i \in 1 .. n + 1 : i \in 1 .. n \/ i = n + 1
          /\ \A i \in 1 .. n : i \in 1 .. n + 1
          /\ n + 1 \in 1 .. n + 1
      BY <2>1
    <3>2. \A i \in 1 .. n + 1 : (i \in DOMAIN list /\ new[i] = list[i]) \/ (i = n + 1 /\ new[i] = c)
      BY <3>1, <2>1, <2>2, Zenon
    <3>3. \A i \in 1 .. n : new[i] = list[i]
      BY <2>2
    <3>4. DOMAIN new = 1 .. n + 1 /\ DOMAIN list = 1 .. n
      BY <2>1, <2>2
    <3> QED
      BY <3>1, <3>2, <3>3, <3>4, Zenon
  <2>4. \A i \in DOMAIN list : Disjoint(list[i], c) /\ Disjoint(c, list[i])
    BY DisjointSymmetric DEF IsNew
  <2>5. \A i \in DOMAIN new : IsPiece(new[i], f)
    BY <2>3 DEF Good
  <2>6. \A i, j \in DOMAIN new : i # j => Disjoint(new[i], new[j])
    BY <2>3, <2>4 DEF Good
  <2>7. \A i \in DOMAIN new : \A a \in kept : Disjoint(new[i], a)
    BY <2>3, DisjointSymmetric DEF Good, IsNew
  <2>8. Good(new, kept, f)
    BY <2>2, <2>5, <2>6, <2>7 DEF Good
  <2>9. Range(new) = Range(list) \cup {c}
    BY <2>2, <2>3 DEF Range
  <2>10. \A d : IsNew(d, list, kept) /\ Disjoint(c, d) => IsNew(d, new, kept)
    BY <2>3 DEF IsNew
  <2>11. PushBack(list, c, S) = new
    BY <1>2 DEF PushBack, new
  <2> QED
    BY <1>2, <2>8, <2>9, <2>10, <2>11
<1> QED
  BY <1>1, <1>2

\* Four of them, apart from each other.
LEMMA PushEachIsGood ==
  ASSUME NEW list, NEW kept, NEW f, Good(list, kept, f), NEW c, NEW S,
         \A j \in 1 .. 4 : IsPiece(c[j], f) /\ IsNew(c[j], list, kept),
         \A i, j \in 1 .. 4 : i # j => Disjoint(c[i], c[j])
  PROVE  /\ Good(PushEach(list, c, S), kept, f)
         /\ Range(PushEach(list, c, S)) = Range(list) \cup ({c[1], c[2], c[3], c[4]} \cap S)
<1> DEFINE l1 == PushBack(list, c[1], S)
           l2 == PushBack(l1, c[2], S)
           l3 == PushBack(l2, c[3], S)
           l4 == PushBack(l3, c[4], S)
<1>1. 1 \in 1 .. 4 /\ 2 \in 1 .. 4 /\ 3 \in 1 .. 4 /\ 4 \in 1 .. 4
  OBVIOUS
<1>2. /\ IsPiece(c[1], f) /\ IsNew(c[1], list, kept) /\ IsPiece(c[2], f) /\ IsNew(c[2], list, kept)
      /\ IsPiece(c[3], f) /\ IsNew(c[3], list, kept) /\ IsPiece(c[4], f) /\ IsNew(c[4], list, kept)
  BY <1>1
<1>3. /\ Disjoint(c[1], c[2]) /\ Disjoint(c[1], c[3]) /\ Disjoint(c[1], c[4])
      /\ Disjoint(c[2], c[3]) /\ Disjoint(c[2], c[4]) /\ Disjoint(c[3], c[4])
  BY <1>1
<1>4. /\ Good(l1, kept, f) /\ Range(l1) = Range(list) \cup ({c[1]} \cap S)
      /\ IsNew(c[2], l1, kept) /\ IsNew(c[3], l1, kept) /\ IsNew(c[4], l1, kept)
  BY <1>2, <1>3, PushBackIsGood
<1> HIDE DEF l1
<1>5. /\ Good(l2, kept, f) /\ Range(l2) = Range(l1) \cup ({c[2]} \cap S)
      /\ IsNew(c[3], l2, kept) /\ IsNew(c[4], l2, kept)
  BY <1>2, <1>3, <1>4, PushBackIsGood
<1> HIDE DEF l2
<1>6. /\ Good(l3, kept, f) /\ Range(l3) = Range(l2) \cup ({c[3]} \cap S)
      /\ IsNew(c[4], l3, kept)
  BY <1>2, <1>3, <1>5, PushBackIsGood
<1> HIDE DEF l3
<1>7. Good(l4, kept, f) /\ Range(l4) = Range(l3) \cup ({c[4]} \cap S)
  BY <1>2, <1>6, PushBackIsGood
<1> HIDE DEF l4
<1>8. Range(l4) = Range(list) \cup ({c[1], c[2], c[3], c[4]} \cap S)
  BY <1>4, <1>5, <1>6, <1>7
<1>9. PushEach(list, c, S) = l4
  BY DEF PushEach, l1, l2, l3, l4
<1> QED
  BY <1>7, <1>8, <1>9

\* All four of them, as the first loop adds them.
LEMMA ConcatenationIsPushEach ==
  ASSUME NEW list \in Seq(Int), NEW c, c = [j \in 1 .. 4 |-> c[j]],
         c[1] \in Int, c[2] \in Int, c[3] \in Int, c[4] \in Int
  PROVE  list \o c = PushEach(list, c, {c[1], c[2], c[3], c[4]})
<1>1. c = <<c[1], c[2], c[3], c[4]>>
  OBVIOUS
<1>2. PICK c1 \in Int, c2 \in Int, c3 \in Int, c4 \in Int :
        c[1] = c1 /\ c[2] = c2 /\ c[3] = c3 /\ c[4] = c4
  OBVIOUS
<1>3. list \o <<c1, c2, c3, c4>> = Append(Append(Append(Append(list, c1), c2), c3), c4)
  <2> DEFINE n == Len(list)
             l1 == Append(list, c1)
             l2 == Append(l1, c2)
             l3 == Append(l2, c3)
             l4 == Append(l3, c4)
             l == list \o <<c1, c2, c3, c4>>
  <2>1. n \in Nat
    OBVIOUS
  <2>2. l1 \in Seq(Int) /\ Len(l1) = n + 1 /\ (\A i \in 1 .. n : l1[i] = list[i]) /\ l1[n + 1] = c1
    OBVIOUS
  <2> HIDE DEF l1
  <2>3. l2 \in Seq(Int) /\ Len(l2) = n + 2 /\ (\A i \in 1 .. n + 1 : l2[i] = l1[i]) /\ l2[n + 2] = c2
    BY <2>1, <2>2, SMTT(30)
  <2> HIDE DEF l2
  <2>4. l3 \in Seq(Int) /\ Len(l3) = n + 3 /\ (\A i \in 1 .. n + 2 : l3[i] = l2[i]) /\ l3[n + 3] = c3
    BY <2>1, <2>3, SMTT(30)
  <2> HIDE DEF l3
  <2>5. l4 \in Seq(Int) /\ Len(l4) = n + 4 /\ (\A i \in 1 .. n + 3 : l4[i] = l3[i]) /\ l4[n + 4] = c4
    BY <2>1, <2>4, SMTT(30)
  <2> HIDE DEF l4
  <2>6. /\ l \in Seq(Int) /\ Len(l) = n + 4 /\ \A i \in 1 .. n : l[i] = list[i]
        /\ l[n + 1] = c1 /\ l[n + 2] = c2 /\ l[n + 3] = c3 /\ l[n + 4] = c4
    OBVIOUS
  <2> HIDE DEF l, n
  <2>7. \A i \in 1 .. n + 4 : l[i] = l4[i]
    <3>1. \A i \in 1 .. n : i \in 1 .. n + 1 /\ i \in 1 .. n + 2 /\ i \in 1 .. n + 3
      BY <2>1
    <3>2. \A i \in 1 .. n : l4[i] = list[i]
      BY <3>1, <2>2, <2>3, <2>4, <2>5
    <3>3. /\ n + 1 \in 1 .. n + 1 /\ n + 1 \in 1 .. n + 2 /\ n + 1 \in 1 .. n + 3
          /\ n + 2 \in 1 .. n + 2 /\ n + 2 \in 1 .. n + 3 /\ n + 3 \in 1 .. n + 3
      BY <2>1, SMTT(30)
    <3>4. l4[n + 1] = c1 /\ l4[n + 2] = c2 /\ l4[n + 3] = c3 /\ l4[n + 4] = c4
      BY <3>3, <2>2, <2>3, <2>4, <2>5
    <3>5. \A i \in 1 .. n + 4 : i \in 1 .. n \/ i = n + 1 \/ i = n + 2 \/ i = n + 3 \/ i = n + 4
      <4> TAKE i \in 1 .. n + 4
      <4>1. i <= n => i \in 1 .. n
        BY <2>1
      <4>2. i > n => i - n \in 1 .. 4
        BY <2>1, SMTT(30)
      <4>3. \A d \in 1 .. 4 : d = 1 \/ d = 2 \/ d = 3 \/ d = 4
        OBVIOUS
      <4>4. i > n => i - n = 1 \/ i - n = 2 \/ i - n = 3 \/ i - n = 4
        BY <4>2, <4>3
      <4>5. \A d \in Nat : i - n = d => i = n + d
        BY <2>1
      <4>6. i \in Int /\ (i <= n \/ i > n)
        BY <2>1
      <4> QED
        BY <4>1, <4>4, <4>5, <4>6
    <3> QED
      BY <3>2, <3>4, <3>5, <2>6
  <2>8. l = l4
    <3>1. l = [i \in 1 .. n + 4 |-> l[i]] /\ l4 = [i \in 1 .. n + 4 |-> l4[i]]
      BY <2>5, <2>6
    <3> QED
      BY <3>1, <2>7
  <2> QED
    BY <2>8 DEF l, l1, l2, l3, l4
<1>4. PushEach(list, c, {c1, c2, c3, c4}) = Append(Append(Append(Append(list, c1), c2), c3), c4)
  BY <1>2 DEF PushEach, PushBack
<1>5. c = <<c1, c2, c3, c4>>
  BY <1>1, <1>2
<1> QED
  BY <1>2, <1>3, <1>4, <1>5

\* The children of a trixel taken from the worklist are new.
LEMMA ChildrenAreNew ==
  ASSUME NEW list, NEW kept, NEW f \in 0 .. Depth, Good(list, kept, f), list # <<>>,
         LevelById(Head(list)) < f
  PROVE  /\ \A j \in 1 .. 4 : /\ IsPiece(Children(Head(list))[j], f)
                              /\ IsNew(Children(Head(list))[j], Tail(list), kept)
                              /\ LevelById(Children(Head(list))[j]) = LevelById(Head(list)) + 1
         /\ \A i, j \in 1 .. 4 :
              i # j => Disjoint(Children(Head(list))[i], Children(Head(list))[j])
         /\ Range(Children(Head(list))) = {Children(Head(list))[j] : j \in 1 .. 4}
<1> DEFINE h == Head(list)
           c == Children(h)
<1>1. /\ IsPiece(h, f) /\ IsTrixel(h) /\ IsNew(h, Tail(list), kept) /\ Good(Tail(list), kept, f)
  BY TakenIsGood DEF IsPiece
<1>2. LevelById(h) < Depth /\ LevelById(h) \in Nat
  BY <1>1, TrixelFacts, LevelConstants
<1>3. /\ \A j \in 1 .. 4 : IsTrixel(c[j]) /\ Within(c[j], h)
      /\ \A i, j \in 1 .. 4 : i # j => Disjoint(c[i], c[j])
  BY <1>1, <1>2, ChildrenDivide
<1>4. \A j \in 1 .. 4 : LevelById(c[j]) = LevelById(h) + 1
  BY <1>1, <1>2, ChildFacts
<1>5. Range(c) = {c[j] : j \in 1 .. 4}
  BY DEF Range, Children
<1> HIDE DEF c, h
<1>6. \A j \in 1 .. 4 : IsPiece(c[j], f)
  BY <1>2, <1>3, <1>4, h = Head(list) DEF IsPiece, h
<1>7. \A j \in 1 .. 4 : IsNew(c[j], Tail(list), kept)
  <2> TAKE j \in 1 .. 4
  <2>1. ASSUME NEW a, IsTrixel(a), Disjoint(a, h) PROVE Disjoint(a, c[j])
    <3>1. Disjoint(h, a)
      BY <2>1, DisjointSymmetric
    <3>2. Disjoint(c[j], a)
      BY <2>1, <3>1, <1>1, <1>3, WithinApart
    <3> QED
      BY <3>2, DisjointSymmetric
  <2>2. \A i \in DOMAIN Tail(list) : IsTrixel(Tail(list)[i]) /\ Disjoint(Tail(list)[i], h)
    BY <1>1 DEF IsNew, Good, IsPiece
  <2>3. \A a \in kept : IsTrixel(a) /\ Disjoint(a, h)
    BY <1>1 DEF IsNew, Good, IsPiece
  <2> QED
    BY <2>1, <2>2, <2>3 DEF IsNew
<1> QED
  BY <1>3, <1>4, <1>5, <1>6, <1>7 DEF c, h

\* The eight roots are a good worklist at every forced level.
LEMMA RootsAreGood ==
  ASSUME NEW f \in 0 .. Depth
  PROVE  Good(RootValues, {}, f)
<1>1. RootValues \in Seq(Int) /\ DOMAIN RootValues = 1 .. 8
  <2>1. DOMAIN RootValues = 1 .. 8
    BY DEF RootValues
  <2>2. \A r \in 1 .. 8 : RootValues[r] \in Int
    BY RootsDivide DEF IsTrixel
  <2>3. RootValues = [r \in 1 .. 8 |-> RootValues[r]]
    BY DEF RootValues
  <2>4. RootValues \in [1 .. 8 -> Int]
    BY <2>2, <2>3
  <2>5. \A n \in Nat : \A g \in [1 .. n -> Int] : g \in Seq(Int)
    OBVIOUS
  <2> HIDE DEF RootValues
  <2>6. RootValues \in Seq(Int)
    BY <2>4, <2>5, 8 \in Nat
  <2> QED
    BY <2>1, <2>6
<1>2. \A i \in 1 .. 8 : IsPiece(RootValues[i], f)
  BY RootsDivide DEF IsPiece
<1> QED
  BY <1>1, <1>2, RootsDivide DEF Good, AllApart

LEMMA ForcedLevel ==
  ASSUME task \in Polygons
  PROVE  force_resolution_level \in 0 .. Depth
BY NonConvexCoverAssumption DEF force_resolution_level

LEMMA InitInvariant == Init => IInv
<1> SUFFICES ASSUME Init PROVE IInv
  OBVIOUS
<1>1. /\ task \in Polygons /\ cover = RootValues /\ cover1 = {} /\ cover2 = <<>> /\ cover3 = {}
      /\ phase = "sift"
  BY DEF Init
<1>2. force_resolution_level \in 0 .. Depth
  BY <1>1, ForcedLevel
<1>3. Good(cover, cover1, force_resolution_level)
  BY <1>1, <1>2, RootsAreGood
<1>4. Good(cover2, cover3, force_resolution_level)
  BY <1>1, NothingIsGood
<1> QED
  BY <1>1, <1>3, <1>4 DEF IInv

-----------------------------------------------------------------------------
(***************************************************************************)
(* The steps.                                                              *)
(***************************************************************************)
LEMMA SiftInvariant == IInv /\ Sift => IInv'
<1> SUFFICES ASSUME IInv, Sift PROVE IInv'
  OBVIOUS
<1> DEFINE f == force_resolution_level
           i0 == Head(cover)
<1>1. /\ phase = "sift" /\ cover # <<>> /\ phase' = phase /\ task' = task /\ cover2' = cover2
      /\ cover3' = cover3
  BY DEF Sift
<1>2. /\ task \in Polygons /\ Good(cover, cover1, f) /\ Good(cover2, cover3, f)
      /\ cover2 = <<>> /\ cover3 = {}
  BY <1>1 DEF IInv
<1>3. f' = f /\ f \in 0 .. Depth
  BY <1>1, <1>2, ForcedLevel DEF force_resolution_level
<1>4. \/ cover' = Tail(cover) /\ cover1' = cover1
      \/ cover' = Tail(cover) /\ cover1' = cover1 \cup {i0}
      \/ /\ LevelById(i0) # f
         /\ cover' = Tail(cover) \o Children(i0) /\ cover1' = cover1
  BY DEF Sift
<1>5. /\ Good(Tail(cover), cover1, f) /\ IsPiece(i0, f) /\ IsNew(i0, Tail(cover), cover1)
  BY <1>1, <1>2, TakenIsGood
<1> HIDE DEF f
<1>6. Good(cover', cover1', f)
  <2>1. CASE cover' = Tail(cover) /\ cover1' = cover1
    BY <2>1, <1>5
  <2>2. CASE cover' = Tail(cover) /\ cover1' = cover1 \cup {i0}
    <3>1. AllApart({i0})
      BY DEF AllApart
    <3>2. \A s \in {i0} : IsPiece(s, f) /\ IsNew(s, Tail(cover), cover1)
      BY <1>5
    <3> HIDE DEF i0
    <3>3. Good(Tail(cover), cover1 \cup {i0}, f)
      BY <3>1, <3>2, <1>5, KeepingIsGood
    <3> QED
      BY <2>2, <3>3
  <2>3. CASE LevelById(i0) # f /\ cover' = Tail(cover) \o Children(i0) /\ cover1' = cover1
    <3> DEFINE c == Children(i0)
               S == {c[1], c[2], c[3], c[4]}
    <3>1. LevelById(i0) < f
      <4>1. IsTrixel(i0) /\ LevelById(i0) <= f
        BY <1>5 DEF IsPiece
      <4>2. LevelById(i0) \in Nat
        BY <4>1, TrixelFacts
      <4> QED
        BY <4>1, <4>2, <2>3, <1>3
    <3>2. /\ \A j \in 1 .. 4 : IsPiece(c[j], f) /\ IsNew(c[j], Tail(cover), cover1)
          /\ \A i, j \in 1 .. 4 : i # j => Disjoint(c[i], c[j])
      BY <3>1, <1>1, <1>2, <1>3, ChildrenAreNew
    <3>3. c = [j \in 1 .. 4 |-> c[j]]
      BY DEF Children
    <3>4. Tail(cover) \in Seq(Int)
      BY <1>5 DEF Good
    <3> HIDE DEF c
    <3>5. c[1] \in Int /\ c[2] \in Int /\ c[3] \in Int /\ c[4] \in Int
      <4>1. \A j \in 1 .. 4 : c[j] \in Int
        BY <3>2 DEF IsPiece, IsTrixel
      <4> QED
        BY <4>1
    <3>6. Tail(cover) \o c = PushEach(Tail(cover), c, S)
      BY <3>3, <3>4, <3>5, ConcatenationIsPushEach
    <3>7. Good(PushEach(Tail(cover), c, S), cover1, f)
      <4> HIDE DEF S
      <4> QED
        BY <3>2, <1>5, PushEachIsGood
    <3> QED
      BY <2>3, <3>6, <3>7 DEF c
  <2> QED
    BY <2>1, <2>2, <2>3, <1>4
<1>7. Good(cover', cover1', f') /\ Good(cover2', cover3', f')
  BY <1>1, <1>2, <1>3, <1>6
<1>8. Good(cover, cover1, force_resolution_level)' /\ Good(cover2, cover3, force_resolution_level)'
  BY <1>7 DEF f
<1> QED
  BY <1>1, <1>2, <1>8 DEF IInv

LEMMA SiftEndsInvariant == IInv /\ SiftEnds => IInv'
<1> SUFFICES ASSUME IInv, SiftEnds PROVE IInv'
  OBVIOUS
<1> DEFINE f == force_resolution_level
<1>1. /\ phase = "sift" /\ cover = <<>> /\ task' = task /\ cover' = cover /\ cover1' = cover1
      /\ cover3' = cover3 /\ ccw_orientation' = ccw_orientation
  BY DEF SiftEnds
<1>2. /\ task \in Polygons /\ Good(cover, cover1, f) /\ Good(cover2, cover3, f)
      /\ cover2 = <<>> /\ cover3 = {}
  BY <1>1 DEF IInv
<1>3. f' = f /\ f \in 0 .. Depth
  BY <1>1, <1>2, ForcedLevel DEF force_resolution_level
<1>4. Good(cover', cover1', f')
  BY <1>1, <1>2, <1>3
<1>5. CASE ccw_orientation
  <2>1. phase' = "done" /\ cover2' = cover2
    BY <1>5 DEF SiftEnds
  <2>2. Good(cover2', cover3', f')
    BY <2>1, <1>1, <1>2, <1>3
  <2> QED
    BY <2>1, <2>2, <1>1, <1>2, <1>4, <1>5 DEF IInv
<1>6. CASE ~ccw_orientation
  <2>1. /\ phase' = "complement" /\ cover2' = RootValues
        /\ interior' = {IntervalOf(siv, siv) : siv \in cover1}
    BY <1>6 DEF SiftEnds
  <2>2. Good(cover2', cover3', f')
    BY <2>1, <1>1, <1>2, <1>3, RootsAreGood
  <2>3. interior' = RangeOf(cover1')
    BY <2>1, <1>1 DEF RangeOf
  <2>4. \A i \in DOMAIN RootValues : LevelById(RootValues[i]) = 0
    BY RootsDivide DEF RootValues
  <2>5. \A k \in 0 .. EndOfKeys - 1 : InSome(k, Range(RootValues))
    <3>1. DOMAIN RootValues = 1 .. 8
      BY DEF RootValues
    <3>2. EndOfKeys \in Nat
      BY ConstantsHere
    <3> SUFFICES ASSUME NEW k \in 0 .. EndOfKeys - 1 PROVE InSome(k, Range(RootValues))
      OBVIOUS
    <3>3. k \in Int /\ 0 <= k /\ k < EndOfKeys
      BY <3>2
    <3>4. PICK j \in 1 .. 8 : Low(RootValues[j]) <= k /\ k < Past(RootValues[j])
      BY <3>3, RootsDivide
    <3>5. RootValues[j] \in Range(RootValues)
      BY <3>1 DEF Range
    <3> QED
      BY <3>4, <3>5 DEF InSome
  <2>6. Filling'
    <3>1. /\ f' > 0 => \A i \in DOMAIN cover2' : ~(LevelById(cover2'[i]) >= f')
          /\ \A i \in DOMAIN cover2' : LevelById(cover2'[i]) = 0
      BY <2>1, <2>4, <1>3
    <3> QED
      BY <3>1, <2>1, <2>3, <2>5, <1>1, <1>2 DEF Filling
  <2> QED
    BY <2>1, <2>2, <2>6, <1>1, <1>2, <1>4, <1>6 DEF IInv
<1> QED
  BY <1>5, <1>6

\* What the second loop learns of a trixel and the interior, in either order.  Nothing is
\* known of an empty interior, and nothing has to be.
LEMMA InteriorMeets ==
  ASSUME NEW S, AreTrixels(S), AllApart(S), NEW s, IsTrixel(s)
  PROVE  /\ ~AtLeastOne(RangeOf(S), {IntervalOf(s, s)}) => \A b \in S : Disjoint(s, b)
         /\ ~AtLeastOne({IntervalOf(s, s)}, RangeOf(S)) => \A b \in S : Disjoint(s, b)
         /\ S # {} /\ AtLeastOne({IntervalOf(s, s)}, RangeOf(S)) => \E b \in S : ~Disjoint(s, b)
         /\ S # {} /\ AtLeastOne(RangeOf(S), {IntervalOf(s, s)}) => \E b \in S : ~Disjoint(s, b)
<1> DEFINE single == {s}
<1>1. single # {} /\ AreTrixels(single) /\ AllApart(single) /\ {IntervalOf(s, s)} = RangeOf(single)
  BY DEF AreTrixels, AllApart, RangeOf
<1> HIDE DEF single
<1>2. S # {} => (AtLeastOne(RangeOf(S), RangeOf(single)) <=> \E a \in S, b \in single : ~Disjoint(a, b))
  BY <1>1, AtLeastOneMeans
<1>3. S # {} => (AtLeastOne(RangeOf(single), RangeOf(S)) <=> \E a \in single, b \in S : ~Disjoint(a, b))
  BY <1>1, AtLeastOneMeans
<1> QED
  BY <1>1, <1>2, <1>3, DisjointSymmetric DEF single

LEMMA KeepInvariant == IInv /\ ComplementKeep => IInv'
<1> SUFFICES ASSUME IInv, ComplementKeep PROVE IInv'
  OBVIOUS
<1> DEFINE f == force_resolution_level
           i0 == Head(cover2)
<1>1. /\ phase = "complement" /\ cover2 # <<>> /\ phase' = phase /\ task' = task /\ cover' = cover
      /\ cover1' = cover1 /\ interior' = interior /\ ccw_orientation' = ccw_orientation
      /\ cover2' = Tail(cover2) /\ cover3' = cover3 \cup {i0}
  BY DEF ComplementKeep
<1>2. \/ LevelById(i0) >= f
      \/ ~AtLeastOne(interior, {IntervalOf(i0, i0)})
  BY DEF ComplementKeep
<1>3. /\ task \in Polygons /\ Good(cover, cover1, f) /\ Good(cover2, cover3, f)
      /\ ~ccw_orientation /\ Filling
  BY <1>1 DEF IInv
<1>4. f' = f /\ f \in 0 .. Depth
  BY <1>1, <1>3, ForcedLevel DEF force_resolution_level
<1>5. /\ interior = RangeOf(cover1)
      /\ f > 0 => /\ \A a \in cover3 : \A b \in cover1 : Disjoint(a, b)
                  /\ \A i \in DOMAIN cover2 : LevelById(cover2[i]) >= f =>
                       \A b \in cover1 : Disjoint(cover2[i], b)
                  /\ \A a \in cover3 : LevelById(a) = 0 \/ ~Passed(cover1, a)
                  /\ \A i \in DOMAIN cover2 : LevelById(cover2[i]) = 0 \/ ~Passed(cover1, cover2[i])
      /\ \A k \in 0 .. EndOfKeys - 1 : InSome(k, cover3) \/ InSome(k, Range(cover2)) \/
                                           (f > 0 /\ (InSome(k, cover1) \/ Missed(cover1, k)))
  BY <1>3 DEF Filling
<1>6. /\ i0 = cover2[1] /\ 1 \in DOMAIN cover2
      /\ IsPiece(i0, f) /\ Good(Tail(cover2), cover3, f) /\ IsNew(i0, Tail(cover2), cover3)
      /\ Range(cover2) = Range(Tail(cover2)) \cup {i0}
      /\ \A i \in DOMAIN Tail(cover2) : i + 1 \in DOMAIN cover2 /\ Tail(cover2)[i] = cover2[i + 1]
  BY <1>1, <1>3, TakenIsGood
<1>7. AreTrixels(cover1) /\ AllApart(cover1) /\ IsTrixel(i0)
  BY <1>3, <1>6 DEF Good, IsPiece, AreTrixels
<1> HIDE DEF f, i0
<1>8. Good(cover2', cover3', f)
  <2>1. AllApart({i0}) /\ \A s \in {i0} : IsPiece(s, f) /\ IsNew(s, Tail(cover2), cover3)
    BY <1>6 DEF AllApart
  <2>2. Good(Tail(cover2), cover3 \cup {i0}, f)
    BY <2>1, <1>6, KeepingIsGood
  <2> QED
    BY <2>2, <1>1
<1>9. f > 0 => \A b \in cover1 : Disjoint(i0, b)
  <2>1. CASE LevelById(i0) >= f
    BY <2>1, <1>5, <1>6
  <2>2. CASE ~AtLeastOne(interior, {IntervalOf(i0, i0)})
    BY <2>2, <1>5, <1>7, InteriorMeets
  <2> QED
    BY <2>1, <2>2, <1>2
<1>10. f > 0 => /\ \A a \in cover3' : \A b \in cover1' : Disjoint(a, b)
                /\ \A i \in DOMAIN cover2' : LevelById(cover2'[i]) >= f =>
                     \A b \in cover1' : Disjoint(cover2'[i], b)
                /\ \A a \in cover3' : LevelById(a) = 0 \/ ~Passed(cover1', a)
                /\ \A i \in DOMAIN cover2' : LevelById(cover2'[i]) = 0 \/ ~Passed(cover1', cover2'[i])
  <2>1. f > 0 => \A a \in cover3' : \A b \in cover1' : Disjoint(a, b)
    BY <1>1, <1>5, <1>9
  <2>2. f > 0 => \A i \in DOMAIN cover2' : LevelById(cover2'[i]) >= f =>
                   \A b \in cover1' : Disjoint(cover2'[i], b)
    BY <1>1, <1>5, <1>6
  <2>3. f > 0 => \A a \in cover3' : LevelById(a) = 0 \/ ~Passed(cover1', a)
    BY <1>1, <1>5, <1>6
  <2>4. f > 0 => \A i \in DOMAIN cover2' : LevelById(cover2'[i]) = 0 \/ ~Passed(cover1', cover2'[i])
    BY <1>1, <1>5, <1>6
  <2> QED
    BY <2>1, <2>2, <2>3, <2>4
<1>11. \A k \in 0 .. EndOfKeys - 1 : InSome(k, cover3') \/ InSome(k, Range(cover2')) \/
                                        (f > 0 /\ (InSome(k, cover1') \/ Missed(cover1', k)))
  <2>1. \A k : InSome(k, Range(cover2)) => InSome(k, cover3') \/ InSome(k, Range(cover2'))
    BY <1>1, <1>6 DEF InSome
  <2>2. \A k : InSome(k, cover3) => InSome(k, cover3')
    BY <1>1 DEF InSome
  <2> QED
    BY <2>1, <2>2, <1>1, <1>5
<1>12. Filling'
  <2>1. interior' = RangeOf(cover1)'
    BY <1>1, <1>5 DEF RangeOf
  <2> QED
    BY <2>1, <1>4, <1>10, <1>11 DEF Filling, f
<1>13. Good(cover, cover1, force_resolution_level)' /\ Good(cover2, cover3, force_resolution_level)'
  BY <1>1, <1>3, <1>4, <1>8 DEF f
<1> QED
  BY <1>1, <1>3, <1>12, <1>13 DEF IInv

LEMMA DivideInvariant == IInv /\ ComplementDivide => IInv'
<1> SUFFICES ASSUME IInv, ComplementDivide PROVE IInv'
  OBVIOUS
<1> DEFINE f == force_resolution_level
           i0 == Head(cover2)
           c == Children(i0)
           children == Range(c)
           U == Undecided(children)
           O == Outside(children)
<1>1. /\ phase = "complement" /\ cover2 # <<>> /\ phase' = phase /\ task' = task /\ cover' = cover
      /\ cover1' = cover1 /\ interior' = interior /\ ccw_orientation' = ccw_orientation
      /\ LevelById(i0) < f /\ AtLeastOne(interior, {IntervalOf(i0, i0)})
      /\ cover2' = PushEach(Tail(cover2), c, U) /\ cover3' = cover3 \cup O
  BY DEF ComplementDivide
<1>2. /\ task \in Polygons /\ Good(cover, cover1, f) /\ Good(cover2, cover3, f)
      /\ ~ccw_orientation /\ Filling
  BY <1>1 DEF IInv
<1>3. f' = f /\ f \in 0 .. Depth
  BY <1>1, <1>2, ForcedLevel DEF force_resolution_level
<1>4. /\ interior = RangeOf(cover1)
      /\ f > 0 => /\ \A a \in cover3 : \A b \in cover1 : Disjoint(a, b)
                  /\ \A i \in DOMAIN cover2 : LevelById(cover2[i]) >= f =>
                       \A b \in cover1 : Disjoint(cover2[i], b)
                  /\ \A a \in cover3 : LevelById(a) = 0 \/ ~Passed(cover1, a)
                  /\ \A i \in DOMAIN cover2 : LevelById(cover2[i]) = 0 \/ ~Passed(cover1, cover2[i])
      /\ \A k \in 0 .. EndOfKeys - 1 : InSome(k, cover3) \/ InSome(k, Range(cover2)) \/
                                           (f > 0 /\ (InSome(k, cover1) \/ Missed(cover1, k)))
  BY <1>2 DEF Filling
<1>5. /\ IsPiece(i0, f) /\ IsTrixel(i0) /\ Good(Tail(cover2), cover3, f)
      /\ Range(cover2) = Range(Tail(cover2)) \cup {i0}
      /\ \A i \in DOMAIN Tail(cover2) : i + 1 \in DOMAIN cover2 /\ Tail(cover2)[i] = cover2[i + 1]
  BY <1>1, <1>2, TakenIsGood DEF IsPiece
<1>6. /\ \A j \in 1 .. 4 : /\ IsPiece(c[j], f) /\ IsNew(c[j], Tail(cover2), cover3)
                           /\ LevelById(c[j]) = LevelById(i0) + 1
      /\ \A i, j \in 1 .. 4 : i # j => Disjoint(c[i], c[j])
      /\ children = {c[j] : j \in 1 .. 4}
  BY <1>1, <1>2, <1>3, ChildrenAreNew
<1>7. /\ LevelById(i0) < Depth /\ LevelById(i0) \in Nat /\ f > 0 /\ f \in Nat
  BY <1>1, <1>3, <1>5, TrixelFacts, LevelConstants
<1>8. \A k \in Int : Low(i0) <= k /\ k < Past(i0) =>
        \E j \in 1 .. 4 : Low(c[j]) <= k /\ k < Past(c[j])
  BY <1>5, <1>7, ChildrenDivide
<1>8a. \A d \in children : Within(d, i0)
  BY <1>5, <1>6, <1>7, ChildrenDivide
<1>9. /\ AreTrixels(cover1) /\ AllApart(cover1) /\ \A b \in cover1 : LevelById(b) <= f
  BY <1>2 DEF Good, IsPiece, AreTrixels
<1>10. \A d \in children : /\ IsPiece(d, f) /\ IsTrixel(d) /\ d \in Nat
                           /\ IsNew(d, Tail(cover2), cover3)
  BY <1>6, TrixelFacts DEF IsPiece
<1>11. /\ O \subseteq children /\ U \subseteq children
       /\ \A d \in children : d \in U \/ d \in O \/ ContainsValue(interior, d)
       /\ \A d \in O : d \notin U
       /\ \A d \in U \cup O : ~ContainsValue(interior, d)
  BY DEF Undecided, Outside
<1>11a. \A d \in U \cup O : ~Passed(cover1, d)
  <2> TAKE d \in U \cup O
  <2>1. IsTrixel(d)
    BY <1>10, <1>11
  <2> QED
    BY <2>1, <1>4, <1>9, <1>11, ContainsMeans
<1>12. \A d \in O : \A b \in cover1 : Disjoint(d, b)
  <2> TAKE d \in O
  <2>1. d \in Nat /\ IsTrixel(d)
    BY <1>10, <1>11
  <2>2. ~AtLeastOne({IntervalOf(d, d)}, interior)
    <3>1. ~Overlaps[d]
      BY DEF Outside
    <3> QED
      BY <2>1, <3>1 DEF Overlaps
  <2> QED
    BY <2>1, <2>2, <1>4, <1>9, InteriorMeets
<1>13. \A d \in U : LevelById(d) >= f => \A b \in cover1 : Disjoint(d, b)
  <2> SUFFICES ASSUME NEW d \in U, LevelById(d) >= f, cover1 # {} PROVE FALSE
    OBVIOUS
  <2>1. d \in Nat /\ IsTrixel(d)
    BY <1>10, <1>11
  <2>2. AtLeastOne({IntervalOf(d, d)}, interior) /\ ~ContainsValue(interior, d)
    <3>1. Overlaps[d] /\ ~ContainsValue(interior, d)
      BY DEF Undecided
    <3> QED
      BY <2>1, <3>1 DEF Overlaps
  <2>3. PICK b \in cover1 : ~Disjoint(d, b)
    BY <2>1, <2>2, <1>4, <1>9, InteriorMeets
  <2>4. IsTrixel(b) /\ LevelById(b) <= f /\ LevelById(b) \in Nat /\ LevelById(d) \in Nat
    BY <2>1, <1>9, TrixelFacts DEF AreTrixels
  <2>5. LevelById(b) <= LevelById(d)
    BY <2>4, <1>7
  <2>6. Within(d, b)
    <3>1. ~Disjoint(b, d)
      BY <2>3, DisjointSymmetric
    <3> QED
      BY <3>1, <2>1, <2>4, <2>5, Nested
  <2>7. ContainsValue(RangeOf(cover1), d)
    BY <2>1, <2>5, <2>6, <1>9, LyingIsContained
  <2> QED
    BY <2>2, <2>7, <1>4
<1> HIDE DEF f, i0, c, U, O, children
<1>14. /\ Good(cover2', cover3, f)
       /\ Range(cover2') = Range(Tail(cover2)) \cup (children \cap U)
  <2>1. /\ Good(PushEach(Tail(cover2), c, U), cover3, f)
        /\ Range(PushEach(Tail(cover2), c, U)) =
             Range(Tail(cover2)) \cup ({c[1], c[2], c[3], c[4]} \cap U)
    BY <1>5, <1>6, PushEachIsGood
  <2>2. children = {c[1], c[2], c[3], c[4]}
    <3>1. 1 .. 4 = {1, 2, 3, 4}
      OBVIOUS
    <3> QED
      BY <3>1, <1>6
  <2> QED
    BY <2>1, <2>2, <1>1
<1>15. \A i \in DOMAIN cover2' :
         cover2'[i] \in U \/ \E j \in DOMAIN Tail(cover2) : cover2'[i] = Tail(cover2)[j]
  BY <1>14 DEF Range
<1>16. \A d, e \in children : d # e => Disjoint(d, e)
  BY <1>6
<1>17. Good(cover2', cover3', f)
  <2>1. AllApart(O) /\ \A d \in O : IsPiece(d, f)
    BY <1>10, <1>11, <1>16 DEF AllApart
  <2>2. \A d \in O : IsNew(d, cover2', cover3)
    <3> TAKE d \in O
    <3>1. d \in children /\ d \notin U /\ IsNew(d, Tail(cover2), cover3)
      BY <1>10, <1>11
    <3>2. \A e \in U : Disjoint(e, d)
      BY <3>1, <1>11, <1>16
    <3>3. \A i \in DOMAIN cover2' : Disjoint(cover2'[i], d)
      BY <3>1, <3>2, <1>15 DEF IsNew
    <3> QED
      BY <3>1, <3>3 DEF IsNew
  <2>3. Good(cover2', cover3 \cup O, f)
    BY <2>1, <2>2, <1>14, KeepingIsGood
  <2> QED
    BY <2>3, <1>1
<1>18. /\ \A a \in cover3' : \A b \in cover1' : Disjoint(a, b)
       /\ \A i \in DOMAIN cover2' : LevelById(cover2'[i]) >= f =>
            \A b \in cover1' : Disjoint(cover2'[i], b)
       /\ \A a \in cover3' : LevelById(a) = 0 \/ ~Passed(cover1', a)
       /\ \A i \in DOMAIN cover2' : LevelById(cover2'[i]) = 0 \/ ~Passed(cover1', cover2'[i])
  <2>1. \A a \in cover3' : \A b \in cover1' : Disjoint(a, b)
    BY <1>1, <1>4, <1>7, <1>12
  <2>2. \A j \in DOMAIN Tail(cover2) : LevelById(Tail(cover2)[j]) >= f =>
          \A b \in cover1 : Disjoint(Tail(cover2)[j], b)
    BY <1>4, <1>5, <1>7
  <2>3. \A i \in DOMAIN cover2' : LevelById(cover2'[i]) >= f =>
          \A b \in cover1' : Disjoint(cover2'[i], b)
    BY <2>2, <1>1, <1>13, <1>15
  <2>4. \A a \in cover3' : LevelById(a) = 0 \/ ~Passed(cover1', a)
    BY <1>1, <1>4, <1>7, <1>11a
  <2>5. \A j \in DOMAIN Tail(cover2) : \/ LevelById(Tail(cover2)[j]) = 0
                                      \/ ~Passed(cover1, Tail(cover2)[j])
    BY <1>4, <1>5, <1>7
  <2>6. \A i \in DOMAIN cover2' : LevelById(cover2'[i]) = 0 \/ ~Passed(cover1', cover2'[i])
    BY <2>5, <1>1, <1>15, <1>11a
  <2> QED
    BY <2>1, <2>3, <2>4, <2>6
<1>19. \A k \in 0 .. EndOfKeys - 1 : InSome(k, cover3') \/ InSome(k, Range(cover2')) \/
                                        (f > 0 /\ (InSome(k, cover1') \/ Missed(cover1', k)))
  <2> TAKE k \in 0 .. EndOfKeys - 1
  <2>1. k \in Int
    OBVIOUS
  <2>2. CASE InSome(k, cover3)
    BY <2>2, <1>1 DEF InSome
  <2>3. CASE InSome(k, Range(Tail(cover2)))
    BY <2>3, <1>14 DEF InSome
  <2>4. CASE Low(i0) <= k /\ k < Past(i0)
    <3>1. PICK d \in children : Low(d) <= k /\ k < Past(d)
      BY <2>1, <2>4, <1>6, <1>8
    <3>2. CASE d \in U
      BY <3>1, <3>2, <1>14 DEF InSome
    <3>3. CASE d \in O
      BY <3>1, <3>3, <1>1 DEF InSome
    <3>4. CASE ContainsValue(interior, d)
      <4>1. IsTrixel(d) /\ Within(d, i0)
        BY <1>10, <1>8a
      <4>2. cover1 # {}
        <5>1. (\E b \in cover1 : b <= d /\ d < Past(b)) \/ Passed(cover1, d)
          BY <4>1, <3>4, <1>4, <1>9, ContainsMeans
        <5> QED
          BY <5>1 DEF Passed
      <4>3. PICK b \in cover1 : ~Disjoint(i0, b)
        BY <4>2, <1>1, <1>4, <1>5, <1>9, InteriorMeets
      <4>4. InSome(k, cover1) \/ Missed(cover1, k)
        BY <4>1, <4>3, <3>1, <3>4, <2>1, <1>4, <1>5, <1>9, ContainedIsMissed
      <4> QED
        BY <4>4, <1>1, <1>7
    <3> QED
      BY <3>2, <3>3, <3>4, <1>11
  <2>5. CASE f > 0 /\ (InSome(k, cover1) \/ Missed(cover1, k))
    BY <2>5, <1>1
  <2>6. InSome(k, Range(cover2)) => InSome(k, Range(Tail(cover2))) \/ (Low(i0) <= k /\ k < Past(i0))
    BY <1>5 DEF InSome
  <2> QED
    BY <2>2, <2>3, <2>4, <2>5, <2>6, <1>4
<1>20. Filling'
  <2>1. interior' = RangeOf(cover1)'
    BY <1>1, <1>4 DEF RangeOf
  <2> QED
    BY <2>1, <1>3, <1>18, <1>19 DEF Filling, f
<1>21. Good(cover, cover1, force_resolution_level)' /\ Good(cover2, cover3, force_resolution_level)'
  BY <1>1, <1>2, <1>3, <1>17 DEF f
<1> QED
  BY <1>1, <1>2, <1>20, <1>21 DEF IInv

LEMMA EndsInvariant == IInv /\ ComplementEnds => IInv'
<1> SUFFICES ASSUME IInv, ComplementEnds PROVE IInv'
  OBVIOUS
<1>1. /\ phase = "complement" /\ cover2 = <<>> /\ phase' = "done"
      /\ UNCHANGED <<task, p, ccw_orientation, cover, cover2, cover1, cover3, interior>>
  BY DEF ComplementEnds
<1>2. ~ccw_orientation /\ Filling
  BY <1>1 DEF IInv
<1>3. force_resolution_level' = force_resolution_level
  BY <1>1 DEF force_resolution_level
<1>4. Filling'
  BY <1>1, <1>2, <1>3 DEF Filling, RangeOf
<1> QED
  BY <1>1, <1>2, <1>3, <1>4 DEF IInv

LEMMA StutterInvariant == IInv /\ UNCHANGED vars => IInv'
BY DEF IInv, vars, Filling, RangeOf, force_resolution_level

-----------------------------------------------------------------------------
(***************************************************************************)
(* Theorems.                                                               *)
(***************************************************************************)

\* At every turn of either loop of NonConvexHull what waits and what has been kept are trixels
\* of the sphere no finer than the forced level, all of them apart; and of a clockwise polygon
\* every key is in what was found inside, in what waits, in what has been kept or is missed.
THEOREM WorklistsAreGoodAlways == Spec => []IInv
<1>1. IInv /\ [Next]_vars => IInv'
  BY SiftInvariant, SiftEndsInvariant, DivideInvariant, KeepInvariant, EndsInvariant,
     StutterInvariant DEF Next
<1> QED
  BY InitInvariant, <1>1, PTL DEF Spec

LEMMA GoodIsApart ==
  ASSUME NEW list, NEW kept, NEW f, Good(list, kept, f)
  PROVE  Apart(list, kept)
<1>1. /\ \A i \in DOMAIN list : IsTrixel(list[i])
      /\ \A a \in kept : IsTrixel(a)
  BY DEF Good, IsPiece
<1>2. \A a, b \in kept : Covers(Position(a), b) => a = b
  BY <1>1, ApartMeans DEF Good, AllApart
<1>3. \A i \in DOMAIN list : \A a \in kept :
        ~Covers(Position(a), list[i]) /\ ~Covers(Position(list[i]), a)
  BY <1>1, ApartMeans, DisjointSymmetric DEF Good
<1>4. \A i, j \in DOMAIN list : Covers(Position(list[i]), list[j]) => i = j
  BY <1>1, ApartMeans DEF Good
<1> QED
  BY <1>2, <1>3, <1>4 DEF Apart

\* Whatever the tests of triangles answer, NonConvexHull looks at no part of the sphere twice.
THEOREM EachOnceAlways == Spec => []EachOnce
<1>1. IInv => EachOnce
  BY GoodIsApart DEF IInv, EachOnce
<1> QED
  BY <1>1, WorklistsAreGoodAlways, PTL

\* The positions of the sphere are the keys below its end.
LEMMA PositionKey ==
  ASSUME NEW cell \in Positions
  PROVE  cell \in Int /\ KeyOf(cell) \in 0 .. EndOfKeys - 1
<1>1. 0 \in Levels /\ Span(0) \in Nat /\ Span(0) > 0 /\ Unit \in Nat /\ Unit = LevelMask + 1
      /\ LevelMask \in Nat /\ Roots \in Nat
  BY ConstantsHere, SpanPositive, LevelConstants
<1>2. PICK n \in Nat : n = Roots * Span(0)
  BY <1>1
<1>3. EndOfKeys = n * Unit
  <2>1. \A r, s, u \in Nat : r * (s * u) = (r * s) * u
    OBVIOUS
  <2> QED
    BY <2>1, <1>1, <1>2 DEF EndOfKeys, KeySpan
<1>4. cell \in Int /\ 0 <= cell /\ cell <= n - 1
  BY <1>2 DEF Positions
<1>5. KeyOf(cell) = cell * Unit + LevelMask
  BY DEF KeyOf
<1>6. cell * Unit >= 0 /\ cell * Unit <= (n - 1) * Unit /\ (n - 1) * Unit = n * Unit - Unit
  BY <1>1, <1>4
<1>7. cell * Unit \in Int /\ n * Unit \in Int
  BY <1>1, <1>4
<1> QED
  BY <1>1, <1>3, <1>4, <1>5, <1>6, <1>7

\* The last position has the last key, which only a trixel that ends with the sphere covers.
LEMMA LastIs ==
  ASSUME NEW s, IsTrixel(s)
  PROVE  Covers(LastPosition, s) <=> Past(s) = EndOfKeys
<1>1. 0 \in Levels /\ Span(0) \in Nat /\ Span(0) > 0 /\ Unit \in Nat /\ Unit = LevelMask + 1
      /\ LevelMask \in Nat /\ Roots \in Nat
  BY ConstantsHere, SpanPositive, LevelConstants
<1>2. PICK n \in Nat : n = Roots * Span(0)
  BY <1>1
<1>3. EndOfKeys = n * Unit
  <2>1. \A r, w, u \in Nat : r * (w * u) = (r * w) * u
    OBVIOUS
  <2> QED
    BY <2>1, <1>1, <1>2 DEF EndOfKeys, KeySpan
<1>4. LastPosition = n - 1 /\ LastPosition \in Int
  BY <1>2 DEF LastPosition
<1>5. KeyOf(LastPosition) = EndOfKeys - 1
  <2>1. (n - 1) * Unit = n * Unit - Unit
    BY <1>1
  <2> QED
    BY <2>1, <1>1, <1>3, <1>4 DEF KeyOf
<1>6. /\ Low(s) \in Nat /\ Past(s) \in Nat /\ Past(s) <= EndOfKeys /\ EndOfKeys \in Nat
      /\ Low(s) + Unit <= Past(s)
  BY TrixelFacts, ConstantsHere
<1>7. Covers(LastPosition, s) <=> Low(s) <= EndOfKeys - 1 /\ EndOfKeys - 1 < Past(s)
  BY <1>4, <1>5, CoversMeans
<1>8. Unit > 0
  BY <1>1
<1> QED
  BY <1>6, <1>7, <1>8, <1>1

\* What contains overlooks are the positions of the keys that are missed.
LEMMA OverlookedIsMissed ==
  ASSUME AreTrixels(cover1), NEW cell \in Positions
  PROVE  Overlooked(cell) <=> Missed(cover1, KeyOf(cell))
<1> DEFINE k == KeyOf(cell)
<1>1. cell \in Int /\ k \in Int /\ k = cell * Unit + LevelMask
  BY PositionKey DEF KeyOf
<1>2. Unit = LevelMask + 1 /\ LevelMask \in Nat /\ Unit \in Nat
  BY LevelConstants
<1>3. CoveredBy(cover1, cell) <=> InSome(k, cover1)
  BY <1>1, CoversMeans DEF CoveredBy, InSome, AreTrixels
<1>4. ASSUME ~InSome(k, cover1), NEW b \in cover1
      PROVE  Position(b) < cell <=> Past(b) <= k
  <2>1. IsTrixel(b) /\ Low(b) \in Nat /\ Past(b) \in Nat /\ Low(b) + Unit <= Past(b)
    BY TrixelFacts DEF AreTrixels
  <2>2. PICK n \in Int : n = Position(b) /\ n * Unit + LevelMask = Low(b) + LevelMask
    BY <2>1, FirstPosition DEF KeyOf
  <2>3. ~(Low(b) <= k /\ k < Past(b))
    BY <1>4 DEF InSome
  <2>4. n < cell <=> n * Unit < cell * Unit
    <3>1. n < cell => n * Unit < cell * Unit
      <4>1. n + 1 <= cell => (n + 1) * Unit <= cell * Unit
        BY <1>1, <1>2
      <4>2. (n + 1) * Unit = n * Unit + Unit /\ Unit > 0
        BY <1>2
      <4> QED
        BY <4>1, <4>2, <1>1, <1>2
    <3>2. cell <= n => cell * Unit <= n * Unit
      BY <1>1, <1>2
    <3> QED
      BY <3>1, <3>2, <1>1, <1>2
  <2>5. n * Unit \in Int /\ cell * Unit \in Int /\ n * Unit = Low(b)
    BY <1>1, <1>2, <2>1, <2>2
  <2>6. n < cell <=> Low(b) + LevelMask < k
    <3>1. k = cell * Unit + LevelMask
      BY <1>1
    <3> HIDE DEF k
    <3> QED
      BY <3>1, <2>4, <2>5, <1>2
  <2> HIDE DEF k
  <2> QED
    BY <2>1, <2>2, <2>3, <2>6, <1>1, <1>2
<1>5. \A b \in cover1 : Covers(LastPosition, b) <=> Past(b) = EndOfKeys
  BY LastIs DEF AreTrixels
<1>6. ASSUME NEW r \in 1 .. 8, NEW b \in cover1
      PROVE  Covers(Position(b), RootValues[r]) <=> ~Disjoint(RootValues[r], b)
  <2> DEFINE root == RootValues[r]
  <2>1. /\ IsTrixel(root) /\ LevelById(root) = 0 /\ IsTrixel(b) /\ LevelById(b) \in Nat
        /\ Low(root) \in Nat /\ Past(root) \in Nat
        /\ Low(b) \in Nat /\ Past(b) \in Nat /\ Low(b) + Unit <= Past(b)
    BY RootsDivide, TrixelFacts DEF AreTrixels
  <2>2. Position(b) \in Int /\ KeyOf(Position(b)) = Low(b) + LevelMask
    BY <2>1, FirstPosition
  <2> HIDE DEF root
  <2>3. Covers(Position(b), root) <=> Low(root) <= Low(b) + LevelMask /\ Low(b) + LevelMask < Past(root)
    BY <2>1, <2>2, CoversMeans
  <2>4. Disjoint(root, b) => ~Covers(Position(b), root)
    BY <2>1, ApartMeans, DisjointSymmetric
  <2>5. ASSUME ~Disjoint(root, b) PROVE Covers(Position(b), root)
    <3>1. Within(b, root)
      BY <2>1, <2>5, Nested
    <3> QED
      BY <3>1, <2>1, <2>3, <1>2 DEF Within
  <2> QED
    BY <2>4, <2>5 DEF root
<1>7. \A r \in 1 .. 8 : Covers(cell, RootValues[r]) <=> Low(RootValues[r]) <= k /\ k < Past(RootValues[r])
  BY <1>1, RootsDivide, CoversMeans
<1>8. Range(RootValues) = {RootValues[r] : r \in 1 .. 8}
  BY DEF Range, RootValues
<1> HIDE DEF k
<1>9. (\E root \in Range(RootValues) :
         Covers(cell, root) /\ \E b \in cover1 : Covers(Position(b), root))
       <=> \E r \in 1 .. 8 : /\ Low(RootValues[r]) <= k /\ k < Past(RootValues[r])
                             /\ \E b \in cover1 : ~Disjoint(RootValues[r], b)
  BY <1>6, <1>7, <1>8
<1>10. ~InSome(k, cover1) =>
         (Passed(cover1, k) <=>
            /\ \E b \in cover1 : Covers(LastPosition, b)
            /\ \A b \in cover1 : Covers(LastPosition, b) \/ Position(b) < cell)
  BY <1>4, <1>5 DEF Passed
<1>11. Overlooked(cell) <=> Missed(cover1, k)
  BY <1>3, <1>9, <1>10 DEF Overlooked, Missed
<1> QED
  BY <1>11 DEF k

\* For every clockwise polygon and every forced level above 0 the trixels NonConvexHull gives
\* are all those it did not find inside, but for what contains overlooks when the interior
\* ends with the sphere; at level 0 they are the sphere.
THEOREM ComplementIsTheRestAlways == Spec => []ComplementIsTheRest
<1>1. IInv => ComplementIsTheRest
  <2> SUFFICES ASSUME IInv, phase = "done", ~ccw_orientation, NEW cell \in Positions
               PROVE  CoveredBy(cover3, cell) <=>
                        force_resolution_level = 0 \/ ~(CoveredBy(cover1, cell) \/ Overlooked(cell))
    BY DEF ComplementIsTheRest
  <2> DEFINE k == KeyOf(cell)
             f == force_resolution_level
  <2>1. cell \in Int /\ k \in 0 .. EndOfKeys - 1 /\ k \in Int
    BY PositionKey
  <2>2. /\ Good(cover, cover1, f) /\ Good(cover2, cover3, f) /\ cover2 = <<>> /\ Filling
        /\ f \in Nat
    BY ForcedLevel, LevelConstants DEF IInv
  <2>3. AreTrixels(cover1) /\ AreTrixels(cover3)
    BY <2>2 DEF Good, IsPiece, AreTrixels
  <2>4. /\ CoveredBy(cover1, cell) <=> InSome(k, cover1)
        /\ CoveredBy(cover3, cell) <=> InSome(k, cover3)
    BY <2>1, <2>3, CoversMeans DEF CoveredBy, InSome, AreTrixels
  <2>5. Overlooked(cell) <=> Missed(cover1, k)
    BY <2>3, OverlookedIsMissed
  <2>6. /\ f > 0 => /\ \A a \in cover3 : \A b \in cover1 : Disjoint(a, b)
                   /\ \A a \in cover3 : LevelById(a) = 0 \/ ~Passed(cover1, a)
        /\ \/ InSome(k, cover3) \/ InSome(k, Range(cover2))
           \/ (f > 0 /\ (InSome(k, cover1) \/ Missed(cover1, k)))
    BY <2>1, <2>2 DEF Filling
  <2>7. ~InSome(k, Range(cover2))
    BY <2>2 DEF InSome, Range
  <2>8. ASSUME f > 0, InSome(k, cover3) PROVE ~InSome(k, cover1) /\ ~Missed(cover1, k)
    <3>1. PICK a \in cover3 : Low(a) <= k /\ k < Past(a)
      BY <2>8 DEF InSome
    <3>2. /\ IsTrixel(a) /\ Low(a) \in Nat /\ Past(a) \in Nat
          /\ \A b \in cover1 : IsTrixel(b) /\ Low(b) \in Nat /\ Past(b) \in Nat
      BY <2>3, TrixelFacts DEF AreTrixels
    <3>3. \A b \in cover1 : Disjoint(a, b)
      BY <2>6, <2>8
    <3>4. LevelById(a) = 0 \/ ~Passed(cover1, a)
      BY <2>6, <2>8
    <3>5. k \in Int
      BY <2>1
    <3> HIDE DEF k
    <3>6. ~InSome(k, cover1)
      BY <3>1, <3>2, <3>3, <3>5 DEF Disjoint, InSome
    <3> QED
      BY <3>1, <3>2, <3>3, <3>4, <3>5, <3>6, <2>3, ApartIsNotMissed
  <2>9. f = 0 \/ f > 0
    BY <2>2
  <2>10. f = 0 => ~(f > 0)
    OBVIOUS
  <2> HIDE DEF k, f
  <2> QED
    BY <2>4, <2>5, <2>6, <2>7, <2>8, <2>9, <2>10 DEF f
<1> QED
  BY <1>1, WorklistsAreGoodAlways, PTL

\* NonConvexHull divides the sphere: no part of it is looked at twice in either loop, and a
\* cover and its complement share nothing and leave out just what contains overlooks.
THEOREM SphereIsDividedAlways == Spec => []SphereIsDivided
<1>1. EachOnce /\ ComplementIsTheRest => SphereIsDivided
  BY DEF SphereIsDivided
<1> QED
  BY <1>1, EachOnceAlways, ComplementIsTheRestAlways, PTL
=============================================================================
