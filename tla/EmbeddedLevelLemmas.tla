------------------------ MODULE EmbeddedLevelLemmas ------------------------
(***************************************************************************)
(* Lemmas about index values, for every number of roots, fan-out, depth    *)
(* and level mask: the spans of the levels divide each other, and what     *)
(* truncation, terminators, successors and predecessors are on the bounds  *)
(* of triangles.                                                           *)
(*                                                                         *)
(* The bounds of the triangles of level l are the multiples of KeySpan(l). *)
(* A low end of level l is such a bound plus l, a terminator of level l is *)
(* such a bound minus 1.                                                   *)
(***************************************************************************)
EXTENDS EmbeddedLevel, OrderedKeysProofs

Aligned(x, l) == \E n \in Int : x = n * KeySpan(l)

-----------------------------------------------------------------------------
(***************************************************************************)
(* Powers and spans.                                                       *)
(***************************************************************************)

\* The recursion that defines Power has a solution.
LEMMA PowerRecursion ==
  Power = [n \in 0 .. Depth |-> IF n = 0 THEN 1 ELSE Fanout * Power[n - 1]]
<1> DEFINE Solves(f, m) == f = [n \in 0 .. m |-> IF n = 0 THEN 1 ELSE Fanout * f[n - 1]]
           Bad == {m \in Nat : ~\E f : Solves(f, m)}
<1>1. Bad = {}
  <2> SUFFICES ASSUME Bad # {} PROVE FALSE
    OBVIOUS
  <2>1. PICK m \in Bad : \A k \in Bad : m <= k
    BY LeastExists
  <2>2. CASE m = 0
    <3> DEFINE g == [n \in 0 .. 0 |-> 1]
    <3>1. Solves(g, 0)
      OBVIOUS
    <3> QED
      BY <3>1, <2>1, <2>2
  <2>3. CASE m # 0
    <3>1. m - 1 \in Nat /\ \E f : Solves(f, m - 1)
      <4> HIDE DEF Solves
      <4> QED
        BY <2>1, <2>3
    <3>2. PICK f : Solves(f, m - 1)
      BY <3>1
    <3> DEFINE g == [n \in 0 .. m |-> IF n = m THEN Fanout * f[m - 1] ELSE f[n]]
    <3>3. \A n \in 0 .. m - 1 : f[n] = IF n = 0 THEN 1 ELSE Fanout * f[n - 1]
      BY <3>2
    <3>4. \A n \in 0 .. m : g[n] = IF n = 0 THEN 1 ELSE Fanout * g[n - 1]
      <4> TAKE n \in 0 .. m
      <4>1. CASE n = m
        BY <4>1, <3>1, <2>3
      <4>2. CASE n # m /\ n = 0
        BY <4>2, <3>1, <3>3
      <4>3. CASE n # m /\ n # 0
        <5>1. n \in 0 .. m - 1 /\ n - 1 \in 0 .. m - 1 /\ n - 1 # m
          BY <4>3, <3>1
        <5> QED
          BY <5>1, <4>3, <3>3
      <4> QED
        BY <4>1, <4>2, <4>3
    <3>5. Solves(g, m)
      BY <3>4
    <3> QED
      BY <3>5, <2>1
  <2> QED
    BY <2>2, <2>3
<1>2. \E f : Solves(f, Depth)
  BY <1>1, EmbeddedLevelAssumption
<1> HIDE DEF Bad
<1>3. Power = CHOOSE f : Solves(f, Depth)
  BY DEF Power
<1> HIDE DEF Solves
<1>4. Solves(Power, Depth)
  BY <1>2, <1>3
<1> QED
  BY <1>4 DEF Solves

LEMMA LevelConstants ==
  /\ Depth \in Nat /\ Fanout \in Nat /\ Fanout > 1 /\ Roots \in Nat /\ Roots > 0
  /\ LevelMask \in Nat /\ Unit \in Nat /\ Unit = LevelMask + 1 /\ Depth + 2 <= Unit
  /\ \A l \in Levels : l \in Nat /\ l <= Depth
BY EmbeddedLevelAssumption DEF Unit, Levels

LEMMA SpanStep ==
  /\ Span(Depth) = 1
  /\ \A l \in Levels : l # Depth => l + 1 \in Levels /\ Span(l) = Fanout * Span(l + 1)
<1> USE LevelConstants
<1>1. Span(Depth) = 1
  BY PowerRecursion DEF Span
<1>2. ASSUME NEW l \in Levels, l # Depth
      PROVE  l + 1 \in Levels /\ Span(l) = Fanout * Span(l + 1)
  <2>1. /\ Depth - l \in 0 .. Depth /\ Depth - l # 0
        /\ (Depth - l) - 1 = Depth - (l + 1)
        /\ l + 1 \in Levels
    BY <1>2 DEF Levels
  <2>2. Power[Depth - l] = Fanout * Power[(Depth - l) - 1]
    BY <2>1, PowerRecursion
  <2> QED
    BY <2>1, <2>2 DEF Span
<1> QED
  BY <1>1, <1>2

\* A coarser span is a multiple of a finer one.
LEMMA SpanPositive ==
  ASSUME NEW l \in Levels
  PROVE  Span(l) \in Nat /\ Span(l) > 0
<1> USE LevelConstants
<1> DEFINE Bad == {d \in Nat : \E i \in Levels : d = Depth - i /\ ~(Span(i) \in Nat /\ Span(i) > 0)}
<1>1. Bad = {}
  <2> SUFFICES ASSUME Bad # {} PROVE FALSE
    OBVIOUS
  <2>1. PICK d \in Bad : \A k \in Bad : d <= k
    BY LeastExists
  <2>2. PICK i \in Levels : d = Depth - i /\ ~(Span(i) \in Nat /\ Span(i) > 0)
    BY <2>1
  <2>3. i # Depth
    BY <2>2, SpanStep
  <2>4. i + 1 \in Levels /\ Span(i) = Fanout * Span(i + 1)
    BY <2>3, SpanStep
  <2>5. Depth - (i + 1) \in Nat /\ Depth - (i + 1) < d
    BY <2>2, <2>4
  <2>6. Span(i + 1) \in Nat /\ Span(i + 1) > 0
    BY <2>1, <2>4, <2>5
  <2> QED
    BY <2>2, <2>4, <2>6
<1>2. Depth - l \in Nat
  OBVIOUS
<1> QED
  BY <1>1, <1>2

LEMMA SpanDivides ==
  ASSUME NEW i \in Levels, NEW j \in Levels, i <= j
  PROVE  \E m \in Nat : m > 0 /\ Span(i) = m * Span(j)
<1> USE LevelConstants
<1> DEFINE Divides(a, b) == \E m \in Nat : m > 0 /\ Span(a) = m * Span(b)
           Bad == {d \in Nat : \E a \in Levels : a <= j /\ d = j - a /\ ~Divides(a, j)}
<1>1. Bad = {}
  <2> SUFFICES ASSUME Bad # {} PROVE FALSE
    OBVIOUS
  <2>1. PICK d \in Bad : \A k \in Bad : d <= k
    BY LeastExists
  <2>2. PICK a \in Levels : a <= j /\ d = j - a /\ ~Divides(a, j)
    BY <2>1
  <2>3. CASE a = j
    <3>1. Span(a) = 1 * Span(j)
      BY <2>3, SpanPositive
    <3> QED
      BY <2>2, <3>1
  <2>4. CASE a # j
    <3>1. a # Depth /\ a + 1 \in Levels /\ Span(a) = Fanout * Span(a + 1)
      BY <2>2, <2>4, SpanStep
    <3>2. j - (a + 1) \in Nat /\ j - (a + 1) < d /\ a + 1 <= j
      BY <2>2, <2>4
    <3>3. Divides(a + 1, j)
      <4> HIDE DEF Divides
      <4> QED
        BY <2>1, <3>1, <3>2
    <3>4. PICK m \in Nat : m > 0 /\ Span(a + 1) = m * Span(j)
      BY <3>3
    <3>5. Fanout * m \in Nat /\ Fanout * m > 0
      BY <3>4
    <3>6. Span(a) = (Fanout * m) * Span(j)
      BY <3>1, <3>4, SpanPositive
    <3> QED
      BY <2>2, <3>5, <3>6
  <2> QED
    BY <2>3, <2>4
<1>2. j - i \in Nat
  OBVIOUS
<1> QED
  BY <1>1, <1>2

LEMMA KeySpanFacts ==
  /\ KeySpan(Depth) = Unit
  /\ \A l \in Levels : KeySpan(l) \in Nat /\ Unit <= KeySpan(l)
<1> USE LevelConstants
<1>1. KeySpan(Depth) = Unit
  BY SpanStep DEF KeySpan
<1>2. ASSUME NEW l \in Levels PROVE KeySpan(l) \in Nat /\ Unit <= KeySpan(l)
  <2>1. PICK s \in Nat : s > 0 /\ Span(l) = s
    BY SpanPositive
  <2>2. s * Unit \in Nat /\ Unit <= s * Unit
    BY <2>1
  <2> QED
    BY <2>1, <2>2 DEF KeySpan
<1> QED
  BY <1>1, <1>2

-----------------------------------------------------------------------------
(***************************************************************************)
(* The bounds of the triangles of a level.                                 *)
(***************************************************************************)
LEMMA AlignedIsInt ==
  ASSUME NEW l \in Levels, NEW x, Aligned(x, l)
  PROVE  x \in Int
BY KeySpanFacts DEF Aligned

LEMMA AlignedFiner ==
  ASSUME NEW i \in Levels, NEW j \in Levels, i <= j, NEW x, Aligned(x, i)
  PROVE  Aligned(x, j)
<1> USE LevelConstants
<1>1. PICK n \in Int : x = n * KeySpan(i)
  BY DEF Aligned
<1>2. PICK m \in Nat : m > 0 /\ Span(i) = m * Span(j)
  BY SpanDivides
<1>3. PICK s \in Nat : s = Span(j)
  BY SpanPositive
<1>4. x = n * ((m * s) * Unit)
  BY <1>1, <1>2, <1>3 DEF KeySpan
<1>5. n * ((m * s) * Unit) = (n * m) * (s * Unit)
  OBVIOUS
<1>6. n * m \in Int
  OBVIOUS
<1> QED
  BY <1>3, <1>4, <1>5, <1>6 DEF Aligned, KeySpan

LEMMA AlignedSteps ==
  ASSUME NEW l \in Levels, NEW x, Aligned(x, l)
  PROVE  Aligned(x + KeySpan(l), l) /\ Aligned(x - KeySpan(l), l)
<1>1. PICK n \in Int : x = n * KeySpan(l)
  BY DEF Aligned
<1>2. PICK k \in Nat : k = KeySpan(l)
  BY KeySpanFacts
<1>3. x + k = (n + 1) * k /\ x - k = (n - 1) * k /\ n + 1 \in Int /\ n - 1 \in Int
  BY <1>1, <1>2
<1> QED
  BY <1>2, <1>3 DEF Aligned

LEMMA MultiplesApart ==
  ASSUME NEW k \in Nat, NEW n \in Int, NEW m \in Int, n * k < m * k
  PROVE  n * k + k <= m * k
<1>1. n < m
  <2> SUFFICES ASSUME m <= n PROVE FALSE
    OBVIOUS
  <2>1. (n - m) * k >= 0
    OBVIOUS
  <2> QED
    BY <2>1
<1>2. (m - (n + 1)) * k >= 0
  BY <1>1
<1> QED
  BY <1>2

LEMMA AlignedApart ==
  ASSUME NEW l \in Levels, NEW x, NEW y, Aligned(x, l), Aligned(y, l), x < y
  PROVE  x + KeySpan(l) <= y
<1>1. PICK n \in Int : x = n * KeySpan(l)
  BY DEF Aligned
<1>2. PICK m \in Int : y = m * KeySpan(l)
  BY DEF Aligned
<1>3. PICK k \in Nat : k = KeySpan(l)
  BY KeySpanFacts
<1> QED
  BY <1>1, <1>2, <1>3, MultiplesApart

LEMMA DivisionLaw ==
  ASSUME NEW f \in Nat, f > 0, NEW k \in Int
  PROVE  /\ k \div f \in Int /\ (k \div f) * f <= k /\ k < (k \div f) * f + f
         /\ k % f = k - (k \div f) * f
         /\ \A q \in Int : q * f <= k /\ k < q * f + f => q = k \div f
<1>1. /\ k = (k \div f) * f + (k % f) /\ k % f \in 0 .. f - 1 /\ k \div f \in Int
  OBVIOUS
<1>2. ASSUME NEW q \in Int, q * f <= k, k < q * f + f PROVE q = k \div f
  <2> DEFINE d == k \div f
  <2>1. d \in Int /\ d * f <= k /\ k < d * f + f
    BY <1>1
  <2> HIDE DEF d
  <2>2. ~(q * f < d * f) /\ ~(d * f < q * f)
    BY <1>2, <2>1, MultiplesApart
  <2>3. q * f = d * f
    BY <2>1, <2>2
  <2>4. (q - d) * f = 0
    BY <2>1, <2>3
  <2>5. q = d
    BY <2>1, <2>4
  <2> QED
    BY <2>5 DEF d
<1> QED
  BY <1>1, <1>2

\* Truncation goes down to the bound of the triangle.
LEMMA TruncateResult ==
  ASSUME NEW l \in Levels, NEW k \in Int
  PROVE  /\ Aligned(Truncate(k, l), l)
         /\ Truncate(k, l) \in Int
         /\ Truncate(k, l) <= k /\ k < Truncate(k, l) + KeySpan(l)
<1>1. KeySpan(l) \in Nat /\ KeySpan(l) > 0
  BY KeySpanFacts, LevelConstants
<1>2. k \div KeySpan(l) \in Int
  BY <1>1, DivisionLaw
<1>3. Aligned(Truncate(k, l), l)
  BY <1>2 DEF Truncate, Aligned
<1> QED
  BY <1>1, <1>3, DivisionLaw, AlignedIsInt DEF Truncate

LEMMA TruncateIs ==
  ASSUME NEW l \in Levels, NEW k \in Int, NEW x, Aligned(x, l), x <= k, k < x + KeySpan(l)
  PROVE  Truncate(k, l) = x
<1>1. KeySpan(l) \in Nat /\ KeySpan(l) > 0
  BY KeySpanFacts, LevelConstants
<1>2. PICK n \in Int : x = n * KeySpan(l)
  BY DEF Aligned
<1>3. n = k \div KeySpan(l)
  BY <1>1, <1>2, DivisionLaw
<1> QED
  BY <1>2, <1>3 DEF Truncate

LEMMA EndIsAligned ==
  ASSUME NEW l \in Levels
  PROVE  Aligned(EndOfKeys, l) /\ EndOfKeys \in Nat /\ EndOfKeys > 0
<1> USE LevelConstants
<1>1. 0 \in Levels
  BY DEF Levels
<1>2. Aligned(EndOfKeys, 0)
  BY DEF EndOfKeys, Aligned
<1>3. PICK k \in Nat : k = KeySpan(0) /\ k > 0
  BY <1>1, KeySpanFacts
<1>4. Roots * k \in Nat /\ Roots * k > 0
  BY <1>3
<1> QED
  BY <1>1, <1>2, <1>3, <1>4, AlignedFiner DEF EndOfKeys

LEMMA ZeroIsAligned ==
  ASSUME NEW l \in Levels
  PROVE  Aligned(0, l)
<1>1. 0 = 0 * KeySpan(l)
  BY KeySpanFacts
<1> QED
  BY <1>1 DEF Aligned

\* Bounds of any two levels are at least a unit apart.
LEMMA UnitsApart ==
  ASSUME NEW i \in Levels, NEW j \in Levels, NEW x, NEW y,
         Aligned(x, i), Aligned(y, j), x < y
  PROVE  x + Unit <= y
<1>1. Depth \in Levels /\ i <= Depth /\ j <= Depth
  BY LevelConstants DEF Levels
<1>2. Aligned(x, Depth) /\ Aligned(y, Depth)
  BY <1>1, AlignedFiner
<1> QED
  BY <1>1, <1>2, AlignedApart, KeySpanFacts

-----------------------------------------------------------------------------
(***************************************************************************)
(* Low ends, terminators, and their neighbours.                            *)
(***************************************************************************)

\* The level of a bound plus a level.
LEMMA LevelOfLow ==
  ASSUME NEW l \in Levels, NEW k \in Int, NEW i \in Levels, Aligned(k - l, i)
  PROVE  LevelById(k) = l
<1> USE LevelConstants
<1>1. PICK n \in Int : k - l = n * KeySpan(i)
  BY DEF Aligned
<1>2. PICK s \in Nat : s = Span(i)
  BY SpanPositive
<1>3. k - l = (n * s) * Unit /\ n * s \in Int
  BY <1>1, <1>2 DEF KeySpan
<1>4. PICK q \in Int : k - l = q * Unit
  BY <1>3
<1>5. q * Unit \in Int /\ q * Unit <= k /\ k < q * Unit + Unit
  BY <1>4
<1>6. q = k \div Unit
  BY <1>5, DivisionLaw
<1>7. k % Unit = k - q * Unit
  BY <1>6, DivisionLaw
<1> QED
  BY <1>4, <1>5, <1>7 DEF LevelById

LEMMA LowEndMeans ==
  ASSUME NEW l \in Levels, NEW k \in Int
  PROVE  LevelById(k) = l /\ k = Truncate(k, l) + l <=> Aligned(k - l, l)
<1> USE LevelConstants, KeySpanFacts
<1>1. ASSUME k = Truncate(k, l) + l PROVE Aligned(k - l, l)
  <2>1. Aligned(Truncate(k, l), l) /\ Truncate(k, l) \in Int
    BY TruncateResult
  <2>2. k - l = Truncate(k, l)
    BY <1>1, <2>1
  <2> QED
    BY <2>1, <2>2
<1>2. ASSUME Aligned(k - l, l) PROVE LevelById(k) = l /\ k = Truncate(k, l) + l
  <2>1. k - l <= k /\ k < (k - l) + KeySpan(l)
    OBVIOUS
  <2>2. Truncate(k, l) = k - l
    BY <1>2, <2>1, TruncateIs
  <2> QED
    BY <1>2, <2>2, LevelOfLow
<1> QED
  BY <1>1, <1>2

LEMMA HighEndMeans ==
  ASSUME NEW l \in Levels, NEW h \in Int
  PROVE  h = Terminate(h, l) <=> Aligned(h + 1, l)
<1> USE LevelConstants, KeySpanFacts
<1>1. ASSUME h = Terminate(h, l) PROVE Aligned(h + 1, l)
  <2>1. Aligned(Truncate(h, l), l) /\ Truncate(h, l) \in Int
    BY TruncateResult
  <2>2. h + 1 = Truncate(h, l) + KeySpan(l)
    BY <1>1, <2>1 DEF Terminate
  <2> QED
    BY <2>1, <2>2, AlignedSteps
<1>2. ASSUME Aligned(h + 1, l) PROVE h = Terminate(h, l)
  <2> DEFINE x == (h + 1) - KeySpan(l)
  <2>1. Aligned(x, l)
    BY <1>2, AlignedSteps
  <2>2. x <= h /\ h < x + KeySpan(l) /\ x \in Int
    OBVIOUS
  <2>3. Truncate(h, l) = x
    BY <2>1, <2>2, TruncateIs
  <2> QED
    BY <2>2, <2>3 DEF Terminate
<1> QED
  BY <1>1, <1>2

LEMMA PredecessorIs ==
  ASSUME NEW l \in Levels, NEW k \in Int, NEW x, Aligned(x, l),
         x <= k, k < x + KeySpan(l)
  PROVE  Predecessor(k, l) = x - 1
<1> USE KeySpanFacts
<1>1. x \in Int
  BY AlignedIsInt
<1>2. Aligned(x - KeySpan(l), l)
  BY AlignedSteps
<1>3. /\ k - KeySpan(l) \in Int
      /\ x - KeySpan(l) <= k - KeySpan(l)
      /\ k - KeySpan(l) < (x - KeySpan(l)) + KeySpan(l)
  BY <1>1
<1>4. Truncate(k - KeySpan(l), l) = x - KeySpan(l)
  BY <1>2, <1>3, TruncateIs
<1> QED
  BY <1>1, <1>4 DEF Predecessor, Terminate

\* The same at a bound, at any level that bound is aligned at.
LEMMA PredecessorOfLow ==
  ASSUME NEW l \in Levels, NEW m \in Levels, NEW x \in Int, Aligned(x, l)
  PROVE  Predecessor(x + m, l) = x - 1
<1>1. x <= x + m /\ x + m < x + KeySpan(l) /\ x + m \in Int
  BY KeySpanFacts, LevelConstants
<1> QED
  BY <1>1, PredecessorIs

\* The successor is the next bound plus the level, unless there is none.
LEMMA SuccessorIs ==
  ASSUME NEW l \in Levels, NEW t \in Int, NEW x, Aligned(x, l),
         x - KeySpan(l) <= t, t < x, x # EndOfKeys
  PROVE  Successor(t, l) = x + l
<1> USE KeySpanFacts
<1>1. x \in Int
  BY AlignedIsInt
<1>2. Aligned(x - KeySpan(l), l) /\ t < (x - KeySpan(l)) + KeySpan(l)
  BY <1>1, AlignedSteps
<1>3. Truncate(t, l) = x - KeySpan(l)
  BY <1>2, TruncateIs
<1>4. Truncate(t, l) + KeySpan(l) = x
  BY <1>1, <1>3
<1> QED
  BY <1>4 DEF Successor

LEMMA SuccessorOfHigh ==
  ASSUME NEW l \in Levels, NEW t \in Int, Aligned(t + 1, l), t + 1 # EndOfKeys
  PROVE  Successor(t, l) = t + 1 + l
<1>1. (t + 1) - KeySpan(l) <= t /\ t < t + 1
  BY KeySpanFacts, LevelConstants
<1> QED
  BY <1>1, SuccessorIs

-----------------------------------------------------------------------------
(***************************************************************************)
(* Positions.  KeyOf(p) is the last key of position p; a position lies in  *)
(* an interval of keys just when its last key does.                        *)
(***************************************************************************)
KeyOf(p) == p * Unit + LevelMask

LEMMA KeyOfFacts ==
  ASSUME NEW p \in Int
  PROVE  KeyOf(p) \in Int /\ Aligned(KeyOf(p) + 1, Depth) /\ Position(KeyOf(p)) = p
<1> USE LevelConstants, KeySpanFacts
<1>1. p * Unit \in Int
  OBVIOUS
<1>2. KeyOf(p) \in Int /\ p * Unit <= KeyOf(p) /\ KeyOf(p) < p * Unit + Unit
  BY <1>1 DEF KeyOf
<1>3. Position(KeyOf(p)) = p
  BY <1>2, DivisionLaw DEF Position
<1>4. KeyOf(p) + 1 = (p + 1) * Unit
  BY <1>1 DEF KeyOf
<1>5. Aligned(KeyOf(p) + 1, Depth)
  <2>1. KeyOf(p) + 1 = (p + 1) * KeySpan(Depth) /\ p + 1 \in Int
    BY <1>4
  <2> QED
    BY <2>1, Zenon DEF Aligned
<1> QED
  BY <1>2, <1>3, <1>5

LEMMA PositionBelow ==
  ASSUME NEW p \in Int, NEW k \in Int
  PROVE  Position(k) \in Int /\ (Position(k) <= p <=> k <= KeyOf(p))
<1> USE LevelConstants
<1> DEFINE q == Position(k)
<1>1. q \in Int /\ q * Unit <= k /\ k < q * Unit + Unit
  BY DivisionLaw DEF Position
<1>2. q * Unit \in Int /\ p * Unit \in Int
  BY <1>1
<1> HIDE DEF q
<1>3. ASSUME q <= p PROVE k <= KeyOf(p)
  <2>1. (p - q) * Unit >= 0
    BY <1>1, <1>3
  <2>2. p * Unit >= q * Unit
    BY <2>1, <1>1
  <2> QED
    BY <2>2, <1>1, <1>2 DEF KeyOf
<1>4. ASSUME ~(q <= p) PROVE ~(k <= KeyOf(p))
  <2>1. (q - (p + 1)) * Unit >= 0
    BY <1>1, <1>4
  <2>2. q * Unit >= p * Unit + Unit
    BY <2>1, <1>1
  <2> QED
    BY <2>2, <1>1, <1>2 DEF KeyOf
<1> QED
  BY <1>1, <1>3, <1>4 DEF q

LEMMA PositionAbove ==
  ASSUME NEW p \in Int, NEW h \in Int, NEW l \in Levels, Aligned(h + 1, l)
  PROVE  p <= Position(h) <=> KeyOf(p) <= h
<1> USE LevelConstants
<1>1. Position(h) \in Int /\ (Position(h) <= p - 1 <=> h <= KeyOf(p - 1))
  BY PositionBelow
<1>2. KeyOf(p) = KeyOf(p - 1) + Unit /\ KeyOf(p) \in Int /\ KeyOf(p - 1) \in Int
  <2>1. p * Unit \in Int /\ (p - 1) * Unit = p * Unit - Unit
    OBVIOUS
  <2> QED
    BY <2>1 DEF KeyOf
<1>3. ASSUME ~(h <= KeyOf(p - 1)) PROVE KeyOf(p) <= h
  <2>1. Aligned(KeyOf(p - 1) + 1, Depth) /\ Depth \in Levels
    BY KeyOfFacts DEF Levels
  <2>2. KeyOf(p - 1) + 1 < h + 1
    BY <1>2, <1>3
  <2>3. KeyOf(p - 1) + 1 + Unit <= h + 1
    BY <2>1, <2>2, UnitsApart
  <2> QED
    BY <2>3, <1>2
<1>4. ASSUME h <= KeyOf(p - 1) PROVE ~(KeyOf(p) <= h)
  BY <1>2, <1>4
<1> QED
  BY <1>1, <1>3, <1>4

-----------------------------------------------------------------------------
(***************************************************************************)
(* Numbers of triangles.                                                   *)
(***************************************************************************)
LEMMA DivisionAtLeast ==
  ASSUME NEW f \in Nat, f > 0, NEW k \in Int, NEW c \in Int
  PROVE  c <= k \div f <=> c * f <= k
<1> DEFINE q == k \div f
<1>1. q \in Int /\ q * f <= k /\ k < q * f + f
  BY DivisionLaw
<1> HIDE DEF q
<1>2. c <= q => c * f <= q * f
  BY <1>1
<1>3. q < c => q * f + f <= c * f
  <2>1. q < c => q * f < c * f
    BY <1>1
  <2> QED
    BY <1>1, <2>1, MultiplesApart
<1>4. c * f \in Int /\ q * f \in Int
  BY <1>1
<1>5. c <= q <=> c * f <= k
  BY <1>1, <1>2, <1>3, <1>4
<1> QED
  BY <1>5 DEF q

\* There are Roots * Power[l] triangles of level l.
LEMMA PowerProduct ==
  ASSUME NEW l \in Levels
  PROVE  /\ Power[l] \in Nat
         /\ EndOfKeys = (Roots * Power[l]) * KeySpan(l)
<1> USE LevelConstants
<1>1. \A n \in 0 .. Depth : Power[n] \in Nat
  <2> TAKE n \in 0 .. Depth
  <2>1. Depth - n \in Levels /\ Depth - (Depth - n) = n
    BY DEF Levels
  <2> QED
    BY <2>1, SpanPositive DEF Span
<1> DEFINE Bad == {a \in Nat : a <= Depth /\ Power[a] * Power[Depth - a] # Power[Depth]}
<1>2. Bad = {}
  <2> SUFFICES ASSUME Bad # {} PROVE FALSE
    OBVIOUS
  <2>1. PICK m \in Bad : \A a \in Bad : m <= a
    BY LeastExists
  <2>2. m \in Nat /\ m <= Depth /\ Power[m] * Power[Depth - m] # Power[Depth]
    BY <2>1
  <2>3. m # 0
    <3>1. ASSUME m = 0 PROVE FALSE
      <4>1. Power[0] = 1 /\ Power[Depth] \in Nat /\ Depth - 0 = Depth
        BY <1>1, PowerRecursion
      <4> QED
        BY <2>2, <3>1, <4>1
    <3> QED
      BY <3>1
  <2>4. m - 1 \in Nat /\ m - 1 <= Depth /\ m - 1 \notin Bad
    BY <2>1, <2>2, <2>3
  <2>5. Power[m - 1] * Power[Depth - (m - 1)] = Power[Depth]
    BY <2>4
  <2>6. /\ m \in 0 .. Depth /\ Power[m] = Fanout * Power[m - 1]
        /\ Depth - (m - 1) \in 0 .. Depth /\ Depth - (m - 1) # 0
        /\ (Depth - (m - 1)) - 1 = Depth - m
        /\ m - 1 \in 0 .. Depth /\ Depth - m \in 0 .. Depth
    BY <2>2, <2>3, <2>4, PowerRecursion
  <2>7. Power[Depth - (m - 1)] = Fanout * Power[Depth - m]
    BY <2>6, PowerRecursion
  <2> DEFINE x == Power[m - 1]
             y == Power[Depth - m]
  <2>8. x \in Nat /\ y \in Nat
    BY <1>1, <2>6
  <2>9. x * (Fanout * y) = Power[Depth]
    BY <2>5, <2>7
  <2>10. (Fanout * x) * y # Power[Depth]
    BY <2>2, <2>6
  <2> HIDE DEF x, y
  <2>11. x * (Fanout * y) = (Fanout * x) * y
    BY <2>8
  <2> QED
    BY <2>9, <2>10, <2>11
<1>3. l \in 0 .. Depth /\ Power[l] * Span(l) = Span(0)
  <2>1. l \in Nat /\ l <= Depth /\ Depth - 0 = Depth
    BY DEF Levels
  <2>2. Power[l] * Power[Depth - l] = Power[Depth]
    BY <1>2, <2>1
  <2> QED
    BY <2>1, <2>2 DEF Span
<1> DEFINE x == Power[l]
           y == Span(l)
<1>4. x \in Nat /\ y \in Nat /\ x * y = Span(0)
  BY <1>1, <1>3, SpanPositive
<1>5. EndOfKeys = Roots * ((x * y) * Unit) /\ KeySpan(l) = y * Unit
  BY <1>4 DEF EndOfKeys, KeySpan
<1> HIDE DEF x, y
<1>6. Roots * ((x * y) * Unit) = (Roots * x) * (y * Unit)
  BY <1>4
<1> QED
  BY <1>4, <1>5, <1>6 DEF x

\* The number of the triangle a low end begins with.
LEMMA BareIdOfLow ==
  ASSUME NEW l \in Levels, NEW n \in Int
  PROVE  /\ BareId(n * KeySpan(l) + l) = n
         /\ LevelById(n * KeySpan(l) + l) = l
<1> DEFINE k == n * KeySpan(l) + l
<1>1. /\ l \in Nat /\ Unit \in Nat /\ l < Unit /\ Unit > 0
      /\ Span(l) \in Nat /\ Span(l) > 0 /\ KeySpan(l) = Span(l) * Unit
      /\ KeySpan(l) \in Nat
  BY LevelConstants, SpanPositive, KeySpanFacts DEF KeySpan
<1>2. k \in Int /\ k - l = n * KeySpan(l)
  BY <1>1
<1>3. Aligned(k - l, l)
  BY <1>2 DEF Aligned
<1>4. LevelById(k) = l
  BY <1>2, <1>3, LevelOfLow
<1>5. k \div Unit = n * Span(l)
  <2> DEFINE q == n * Span(l)
  <2>1. q \in Int /\ k = q * Unit + l
    BY <1>1
  <2> HIDE DEF q, k
  <2>2. q * Unit <= k /\ k < q * Unit + Unit
    BY <1>1, <2>1
  <2> QED
    BY <1>1, <1>2, <2>1, <2>2, DivisionLaw DEF q
<1>6. (n * Span(l)) \div Span(l) = n
  <2>1. n * Span(l) \in Int /\ n * Span(l) < n * Span(l) + Span(l)
    BY <1>1
  <2> QED
    BY <1>1, <2>1, DivisionLaw
<1> QED
  BY <1>4, <1>5, <1>6 DEF BareId, Position

LEMMA IncrementOfLow ==
  ASSUME NEW l \in Levels, NEW n \in Int, NEW i \in Int
  PROVE  Increment(n * KeySpan(l) + l, l, i) = (n + i) * KeySpan(l) + l
<1> DEFINE x == n * KeySpan(l)
<1>1. /\ l \in Nat /\ KeySpan(l) \in Nat /\ l < KeySpan(l)
  BY LevelConstants, KeySpanFacts
<1>2. x \in Int /\ Aligned(x, l)
  BY <1>1 DEF Aligned
<1>3. Truncate(x + l, l) = x
  BY <1>1, <1>2, TruncateIs
<1>4. (n + i) * KeySpan(l) = x + i * KeySpan(l)
  BY <1>1
<1> QED
  BY <1>3, <1>4 DEF Increment

\* The triangle a terminator ends with.
LEMMA IdOfHigh ==
  ASSUME NEW l \in Levels, NEW m \in Int
  PROVE  IdFromTerminator(m * KeySpan(l) - 1, l) = (m - 1) * KeySpan(l) + l
<1>1. KeySpan(l) \in Nat /\ KeySpan(l) > 0
  BY LevelConstants, KeySpanFacts
<1>2. (m - 1) * KeySpan(l) = m * KeySpan(l) - KeySpan(l)
  BY <1>1
<1>3. Aligned((m - 1) * KeySpan(l), l) /\ (m - 1) * KeySpan(l) \in Int
  BY <1>1 DEF Aligned
<1>4. Truncate(m * KeySpan(l) - 1, l) = (m - 1) * KeySpan(l)
  BY <1>1, <1>2, <1>3, TruncateIs
<1> QED
  BY <1>4 DEF IdFromTerminator

\* Which family a position belongs to.
LEMMA FamilyBound ==
  ASSUME NEW l \in Levels, NEW c \in Int, NEW p \in Int
  PROVE  c <= p \div Span(l) <=> c * KeySpan(l) <= KeyOf(p)
<1>1. /\ Unit \in Nat /\ Unit > 0 /\ LevelMask = Unit - 1
      /\ Span(l) \in Nat /\ Span(l) > 0 /\ KeySpan(l) = Span(l) * Unit
  BY LevelConstants, SpanPositive DEF KeySpan
<1>2. c <= p \div Span(l) <=> c * Span(l) <= p
  BY <1>1, DivisionAtLeast
<1> DEFINE x == c * Span(l)
<1>3. x \in Int /\ c * KeySpan(l) = x * Unit
  BY <1>1
<1> HIDE DEF x
<1>4. x <= p => x * Unit <= p * Unit
  BY <1>1, <1>3
<1>5. p < x => p * Unit + Unit <= x * Unit
  <2>1. p < x => p * Unit < x * Unit
    BY <1>1, <1>3
  <2> QED
    BY <1>1, <1>3, <2>1, MultiplesApart
<1>6. KeyOf(p) = p * Unit + Unit - 1 /\ p * Unit \in Int /\ x * Unit \in Int
  BY <1>1, <1>3 DEF KeyOf
<1>7. x <= p <=> x * Unit <= KeyOf(p)
  BY <1>1, <1>3, <1>4, <1>5, <1>6
<1> QED
  BY <1>2, <1>3, <1>7 DEF x
=============================================================================
