------------------------ MODULE TemporalFormatLemmas ------------------------
(***************************************************************************)
(* Lemmas about the format of temporal words, for every calendar and every *)
(* width of the resolutions: what sums over the fields and powers of two   *)
(* are, and what a number in mixed radix says of its digits.               *)
(***************************************************************************)
EXTENDS TemporalFormat, WellFoundedInduction, TLAPS

Finest == Len(Fields)

-----------------------------------------------------------------------------
(***************************************************************************)
(* Induction over an interval, from below and from above: a set that has   *)
(* one end and the neighbour of whatever it has holds the interval.        *)
(***************************************************************************)
LEMMA LeastExists ==
  ASSUME NEW S \in SUBSET Nat, S # {}
  PROVE  \E m \in S : \A k \in S : m <= k
<1>1. PICK x \in S : \A y \in S : <<y, x>> \notin OpToRel(<, Nat)
  BY NatLessThanWellFounded, WFMin
<1>2. \A y \in S : ~(y < x)
  BY <1>1 DEF OpToRel
<1> QED
  BY <1>2

LEMMA Climbing ==
  ASSUME NEW a \in Int, NEW b \in Int, NEW S, a \in S,
         \A k \in a .. b - 1 : k \in S => k + 1 \in S
  PROVE  \A k \in a .. b : k \in S
<1> DEFINE Bad == {d \in Nat : a + d <= b /\ a + d \notin S}
<1>1. ASSUME Bad # {} PROVE FALSE
  <2>1. PICK d \in Bad : \A e \in Bad : d <= e
    BY <1>1, LeastExists
  <2>2. d # 0
    BY <2>1
  <2>3. d - 1 \in Nat /\ d - 1 \notin Bad
    BY <2>1, <2>2
  <2>4. a + (d - 1) \in S /\ a + (d - 1) \in a .. b - 1
    BY <2>1, <2>3
  <2>5. (a + (d - 1)) + 1 = a + d
    BY <2>1
  <2> QED
    BY <2>1, <2>4, <2>5
<1>2. ASSUME NEW k \in a .. b, k \notin S PROVE FALSE
  <2>1. k - a \in Nat /\ a + (k - a) = k
    OBVIOUS
  <2>2. k - a \in Bad
    BY <2>1, <1>2
  <2> HIDE DEF Bad
  <2> QED
    BY <1>1, <2>2
<1> QED
  BY <1>2

LEMMA Descending ==
  ASSUME NEW a \in Int, NEW b \in Int, NEW S, b \in S,
         \A k \in a .. b - 1 : k + 1 \in S => k \in S
  PROVE  \A k \in a .. b : k \in S
<1> DEFINE Bad == {d \in Nat : a <= b - d /\ b - d \notin S}
<1>1. ASSUME Bad # {} PROVE FALSE
  <2>1. PICK d \in Bad : \A e \in Bad : d <= e
    BY <1>1, LeastExists
  <2>2. d # 0
    BY <2>1
  <2>3. d - 1 \in Nat /\ d - 1 \notin Bad
    BY <2>1, <2>2
  <2>4. b - (d - 1) \in S /\ b - d \in a .. b - 1
    BY <2>1, <2>3
  <2>5. b - (d - 1) = (b - d) + 1
    BY <2>1
  <2> QED
    BY <2>1, <2>4, <2>5
<1>2. ASSUME NEW k \in a .. b, k \notin S PROVE FALSE
  <2>1. b - k \in Nat /\ b - (b - k) = k
    OBVIOUS
  <2>2. b - k \in Bad
    BY <2>1, <1>2
  <2> HIDE DEF Bad
  <2> QED
    BY <1>1, <2>2
<1> QED
  BY <1>2

-----------------------------------------------------------------------------
(***************************************************************************)
(* Sums over the fields.                                                   *)
(***************************************************************************)
LEMMA FormatFacts ==
  /\ Finest \in Nat /\ Finest > 1 /\ Ids = 1 .. Finest
  /\ ResolutionWidth \in Nat /\ ResolutionWidth > 0
  /\ \A i \in Ids : Width(i) \in Nat /\ Scale(i) \in Nat
                    /\ MaxValue(i) \in Nat /\ MaxValue(i) > 0
<1>1. /\ Fields \in Seq([width : Nat, maxValue : Nat, scale : Nat])
      /\ Len(Fields) > 1 /\ ResolutionWidth \in Nat \ {0}
      /\ \A i \in Ids : 0 < MaxValue(i)
  BY TemporalFormatAssumption
<1>2. \A i \in 1 .. Len(Fields) : Fields[i] \in [width : Nat, maxValue : Nat, scale : Nat]
  <2> DEFINE R == [width : Nat, maxValue : Nat, scale : Nat]
  <2>1. Fields \in Seq(R)
    BY <1>1
  <2> HIDE DEF R
  <2>2. \A i \in 1 .. Len(Fields) : Fields[i] \in R
    BY <2>1
  <2> QED
    BY <2>2 DEF R
<1> QED
  BY <1>1, <1>2 DEF Finest, Ids, Width, Scale, MaxValue

\* The recursion that defines Sums has a solution.
LEMMA SumsRecursion ==
  ASSUME NEW part
  PROVE  Sums(part) = [k \in 1 .. Finest + 1 |->
                         IF k > Finest THEN 0 ELSE part[k] + Sums(part)[k + 1]]
<1> DEFINE Solves(f, m) == f = [k \in m .. Finest + 1 |->
                                  IF k > Finest THEN 0 ELSE part[k] + f[k + 1]]
           S == {m \in 1 .. Finest + 1 : \E f : Solves(f, m)}
<1> Finest \in Nat /\ Finest > 1 /\ Ids = 1 .. Finest
  BY FormatFacts
<1>1. Finest + 1 \in S
  <2> DEFINE g == [k \in Finest + 1 .. Finest + 1 |-> 0]
  <2>1. Solves(g, Finest + 1)
    OBVIOUS
  <2>2. \E f : Solves(f, Finest + 1)
    BY <2>1
  <2> HIDE DEF Solves
  <2> QED
    BY <2>2
<1>2. ASSUME NEW m \in 1 .. (Finest + 1) - 1, m + 1 \in S PROVE m \in S
  <2>1. PICK f : Solves(f, m + 1)
    BY <1>2
  <2> DEFINE g == [k \in m .. Finest + 1 |-> IF k = m THEN part[m] + f[m + 1] ELSE f[k]]
  <2>2. \A k \in m + 1 .. Finest + 1 :
          f[k] = IF k > Finest THEN 0 ELSE part[k] + f[k + 1]
    BY <2>1
  <2>3. \A k \in m .. Finest + 1 :
          g[k] = IF k > Finest THEN 0 ELSE part[k] + g[k + 1]
    <3> TAKE k \in m .. Finest + 1
    <3>1. CASE k = m
      BY <3>1
    <3>2. CASE k # m /\ k > Finest
      BY <3>2, <2>2
    <3>3. CASE k # m /\ ~(k > Finest)
      <4>1. k \in m + 1 .. Finest + 1 /\ k + 1 \in m .. Finest + 1 /\ k + 1 # m
        BY <3>3
      <4> QED
        BY <4>1, <3>3, <2>2
    <3> QED
      BY <3>1, <3>2, <3>3
  <2>4. Solves(g, m)
    BY <2>3
  <2>5. \E h : Solves(h, m)
    BY <2>4
  <2> HIDE DEF Solves
  <2> QED
    BY <2>5
<1>3. 1 \in S
  <2> HIDE DEF S
  <2>1. \A m \in 1 .. (Finest + 1) - 1 : m + 1 \in S => m \in S
    BY <1>2
  <2>2. 1 \in Int /\ Finest + 1 \in Int /\ 1 \in 1 .. Finest + 1
    OBVIOUS
  <2>3. \A m \in 1 .. Finest + 1 : m \in S
    BY <1>1, <2>1, <2>2, Descending
  <2> QED
    BY <2>2, <2>3
<1>4. \E f : Solves(f, 1)
  BY <1>3
<1> HIDE DEF S
<1>5. Sums(part) = CHOOSE f : Solves(f, 1)
  BY DEF Sums, Finest
<1> HIDE DEF Solves
<1>6. Solves(Sums(part), 1)
  BY <1>4, <1>5
<1> QED
  BY <1>6 DEF Solves

LEMMA SumsOf ==
  ASSUME NEW part, \A i \in Ids : part[i] \in Int
  PROVE  /\ Sums(part)[Finest + 1] = 0
         /\ \A k \in Ids : Sums(part)[k] = part[k] + Sums(part)[k + 1]
         /\ \A k \in 1 .. Finest + 1 : Sums(part)[k] \in Int
<1> Finest \in Nat /\ Finest > 1 /\ Ids = 1 .. Finest
  BY FormatFacts
<1> DEFINE s == Sums(part)
<1>1. \A k \in 1 .. Finest + 1 : s[k] = IF k > Finest THEN 0 ELSE part[k] + s[k + 1]
  BY SumsRecursion
<1> HIDE DEF s
<1>2. s[Finest + 1] = 0 /\ \A k \in Ids : s[k] = part[k] + s[k + 1]
  BY <1>1
<1> DEFINE T == {k \in 1 .. Finest + 1 : s[k] \in Int}
<1>3. Finest + 1 \in T /\ \A k \in 1 .. (Finest + 1) - 1 : k + 1 \in T => k \in T
  BY <1>2, SMTT(30)
<1>4. \A k \in 1 .. Finest + 1 : k \in T
  <2>1. 1 \in Int /\ Finest + 1 \in Int
    OBVIOUS
  <2> HIDE DEF T
  <2> QED
    BY <1>3, <2>1, Descending
<1> QED
  BY <1>2, <1>4 DEF s

LEMMA SumsOfNats ==
  ASSUME NEW part, \A i \in Ids : part[i] \in Nat
  PROVE  \A k \in 1 .. Finest + 1 : Sums(part)[k] \in Nat
<1> Finest \in Nat /\ Finest > 1 /\ Ids = 1 .. Finest
  BY FormatFacts
<1> DEFINE s == Sums(part)
<1>1. s[Finest + 1] = 0 /\ \A k \in Ids : s[k] = part[k] + s[k + 1]
  BY SumsOf
<1> HIDE DEF s
<1> DEFINE T == {k \in 1 .. Finest + 1 : s[k] \in Nat}
<1>2. Finest + 1 \in T /\ \A k \in 1 .. (Finest + 1) - 1 : k + 1 \in T => k \in T
  <2>1. \A k \in 1 .. (Finest + 1) - 1 : k \in Ids /\ part[k] \in Nat
    OBVIOUS
  <2> QED
    BY <1>1, <2>1
<1>3. \A k \in 1 .. Finest + 1 : k \in T
  <2>1. 1 \in Int /\ Finest + 1 \in Int
    OBVIOUS
  <2> HIDE DEF T
  <2> QED
    BY <1>2, <2>1, Descending
<1> QED
  BY <1>3 DEF s

-----------------------------------------------------------------------------
(***************************************************************************)
(* Offsets and powers of two.                                              *)
(***************************************************************************)
\* The lowest bit of the finest field.
LowBits == TypeWidth + 2 * ResolutionWidth

LEMMA OffsetFacts ==
  /\ LowBits \in Nat /\ WordBits \in Nat /\ LowBits <= WordBits
  /\ Offset[Finest] = LowBits
  /\ \A i \in Ids : /\ Offset[i] \in Nat
                    /\ Offset[i] + Width(i) = Offset[i - 1]
                    /\ Offset[i] + Width(i) <= WordBits
<1> DEFINE part == [j \in Ids |-> Width(j)]
           s == Sums(part)
<1>1. /\ Finest \in Nat /\ Finest > 1 /\ Ids = 1 .. Finest
      /\ \A i \in Ids : Width(i) \in Nat
      /\ LowBits \in Nat
  BY FormatFacts DEF LowBits, TypeWidth
<1>2. \A i \in Ids : part[i] \in Nat /\ part[i] \in Int /\ part[i] = Width(i)
  BY <1>1
<1>3. \A i \in 0 .. Finest : Offset[i] = LowBits + s[i + 1]
  <2>1. {0} \cup Ids = 0 .. Finest
    BY <1>1
  <2> HIDE DEF part
  <2>2. Offset = [i \in {0} \cup Ids |-> LowBits + s[i + 1]]
    BY DEF Offset, LowBits, part
  <2> HIDE DEF s
  <2> QED
    BY <2>1, <2>2
<1> HIDE DEF part
<1>4. s[Finest + 1] = 0 /\ \A k \in Ids : s[k] = part[k] + s[k + 1]
  BY <1>2, SumsOf
<1>5. \A k \in 1 .. Finest + 1 : s[k] \in Nat
  BY <1>2, SumsOfNats
<1> HIDE DEF s
<1>6. Offset[Finest] = LowBits
  BY <1>1, <1>3, <1>4
<1>7. \A i \in 0 .. Finest : Offset[i] \in Nat /\ LowBits <= Offset[i]
  <2> TAKE i \in 0 .. Finest
  <2>1. i + 1 \in 1 .. Finest + 1
    BY <1>1
  <2>2. Offset[i] = LowBits + s[i + 1] /\ s[i + 1] \in Nat
    BY <1>3, <1>5, <2>1
  <2> QED
    BY <1>1, <2>2
<1>8. \A i \in Ids : Offset[i] + Width(i) = Offset[i - 1]
  <2> TAKE i \in Ids
  <2>1. i \in 0 .. Finest /\ i - 1 \in 0 .. Finest /\ (i - 1) + 1 = i /\ s[i + 1] \in Nat
    BY <1>1, <1>5
  <2>2. s[i] = Width(i) + s[i + 1] /\ Offset[i] = LowBits + s[i + 1]
        /\ Offset[i - 1] = LowBits + s[i]
    BY <1>2, <1>3, <1>4, <2>1
  <2> QED
    BY <1>1, <2>1, <2>2
<1>9. \A i \in 0 .. Finest : Offset[i] <= Offset[0]
  <2> DEFINE T == {i \in 0 .. Finest : Offset[i] <= Offset[0]}
  <2>1. 0 \in T
    BY <1>1, <1>7
  <2>2. ASSUME NEW k \in 0 .. Finest - 1, k \in T PROVE k + 1 \in T
    <3>1. k + 1 \in Ids /\ (k + 1) - 1 = k /\ k + 1 \in 0 .. Finest
      BY <1>1
    <3>2. Offset[k + 1] + Width(k + 1) = Offset[k]
      BY <1>8, <3>1
    <3>3. Width(k + 1) \in Nat /\ Offset[k + 1] \in Nat /\ Offset[0] \in Nat
      BY <1>1, <1>7, <3>1
    <3> QED
      BY <2>2, <3>1, <3>2, <3>3
  <2>3. 0 \in Int /\ Finest \in Int
    BY <1>1
  <2> HIDE DEF T
  <2>4. \A k \in 0 .. Finest : k \in T
    BY <2>1, <2>2, <2>3, Climbing
  <2> QED
    BY <2>4 DEF T
<1>10. WordBits \in Nat /\ LowBits <= WordBits
  BY <1>1, <1>7 DEF WordBits
<1>11. \A i \in Ids : /\ Offset[i] \in Nat
                      /\ Offset[i] + Width(i) = Offset[i - 1]
                      /\ Offset[i] + Width(i) <= WordBits
  <2> TAKE i \in Ids
  <2>1. i \in 0 .. Finest /\ i - 1 \in 0 .. Finest
    BY <1>1
  <2> QED
    BY <1>7, <1>8, <1>9, <2>1 DEF WordBits
<1> QED
  BY <1>1, <1>6, <1>10, <1>11

\* No field lies below the resolutions.
LEMMA OffsetAboveLow ==
  ASSUME NEW i \in Ids
  PROVE  Offset[i] >= LowBits
<1> DEFINE T == {k \in 1 .. Finest : Offset[k] >= LowBits}
<1>1. Finest \in Nat /\ Finest > 1 /\ Ids = 1 .. Finest /\ 1 \in Int /\ Finest \in Int
      /\ \A k \in Ids : Width(k) \in Nat
  BY FormatFacts
<1>2. LowBits \in Nat /\ Offset[Finest] = LowBits
      /\ \A k \in Ids : Offset[k] \in Nat /\ Offset[k] + Width(k) = Offset[k - 1]
  BY OffsetFacts
<1>3. Finest \in T
  BY <1>1, <1>2
<1>4. \A k \in 1 .. Finest - 1 : k + 1 \in T => k \in T
  <2> SUFFICES ASSUME NEW k \in 1 .. Finest - 1, k + 1 \in T PROVE k \in T
    OBVIOUS
  <2>1. k \in Ids /\ k + 1 \in Ids /\ (k + 1) - 1 = k
    BY <1>1
  <2>2. Offset[k + 1] + Width(k + 1) = Offset[(k + 1) - 1] /\ Offset[k + 1] \in Nat
        /\ Width(k + 1) \in Nat
    BY <1>1, <1>2, <2>1
  <2>3. Offset[k] = Offset[k + 1] + Width(k + 1)
    BY <2>1, <2>2
  <2>4. Offset[k + 1] >= LowBits /\ k \in 1 .. Finest
    BY <1>1
  <2>5. Offset[k] >= LowBits
    BY <1>2, <2>2, <2>3, <2>4
  <2> QED
    BY <2>4, <2>5
<1> HIDE DEF T
<1>5. \A k \in 1 .. Finest : k \in T
  BY <1>1, <1>3, <1>4, Descending
<1> QED
  BY <1>1, <1>5 DEF T

\* The recursion that defines Two has a solution.
LEMMA TwoRecursion ==
  Two = [n \in 0 .. WordBits |-> IF n = 0 THEN 1 ELSE 2 * Two[n - 1]]
<1> DEFINE Solves(f, m) == f = [n \in 0 .. m |-> IF n = 0 THEN 1 ELSE 2 * f[n - 1]]
           S == {m \in 0 .. WordBits : \E f : Solves(f, m)}
<1> WordBits \in Nat
  BY OffsetFacts
<1>1. 0 \in S
  <2> DEFINE g == [n \in 0 .. 0 |-> 1]
  <2>1. Solves(g, 0)
    OBVIOUS
  <2>2. \E f : Solves(f, 0)
    BY <2>1
  <2> HIDE DEF Solves
  <2> QED
    BY <2>2
<1>2. ASSUME NEW k \in 0 .. WordBits - 1, k \in S PROVE k + 1 \in S
  <2>1. PICK f : Solves(f, k)
    BY <1>2
  <2> DEFINE g == [n \in 0 .. k + 1 |-> IF n = k + 1 THEN 2 * f[k] ELSE f[n]]
  <2>2. \A n \in 0 .. k : f[n] = IF n = 0 THEN 1 ELSE 2 * f[n - 1]
    BY <2>1
  <2>3. \A n \in 0 .. k + 1 : g[n] = IF n = 0 THEN 1 ELSE 2 * g[n - 1]
    <3> TAKE n \in 0 .. k + 1
    <3>1. CASE n = k + 1
      BY <3>1
    <3>2. CASE n # k + 1 /\ n = 0
      BY <3>2, <2>2
    <3>3. CASE n # k + 1 /\ n # 0
      <4>1. n \in 0 .. k /\ n - 1 \in 0 .. k + 1 /\ n - 1 # k + 1
        BY <3>3
      <4> QED
        BY <4>1, <3>3, <2>2
    <3> QED
      BY <3>1, <3>2, <3>3
  <2>4. Solves(g, k + 1)
    BY <2>3
  <2>5. \E h : Solves(h, k + 1)
    BY <2>4
  <2> HIDE DEF Solves
  <2> QED
    BY <2>5
<1>3. \E f : Solves(f, WordBits)
  <2> HIDE DEF S
  <2>1. 0 \in Int /\ WordBits \in Int /\ WordBits \in 0 .. WordBits
    OBVIOUS
  <2>2. \A k \in 0 .. WordBits : k \in S
    BY <1>1, <1>2, <2>1, Climbing
  <2>3. WordBits \in S
    BY <2>1, <2>2
  <2> QED
    BY <2>3 DEF S
<1> HIDE DEF S
<1>4. Two = CHOOSE f : Solves(f, WordBits)
  BY DEF Two
<1> HIDE DEF Solves
<1>5. Solves(Two, WordBits)
  BY <1>3, <1>4
<1> QED
  BY <1>5 DEF Solves

LEMMA TwoFacts ==
  /\ Two[0] = 1
  /\ \A n \in 0 .. WordBits : Two[n] \in Nat /\ Two[n] > 0
  /\ \A n \in 0 .. WordBits - 1 : Two[n + 1] = 2 * Two[n]
<1> WordBits \in Nat
  BY OffsetFacts
<1>1. \A n \in 0 .. WordBits : Two[n] = IF n = 0 THEN 1 ELSE 2 * Two[n - 1]
  BY TwoRecursion
<1>2. \A n \in 0 .. WordBits - 1 : Two[n + 1] = 2 * Two[n]
  <2> TAKE n \in 0 .. WordBits - 1
  <2>1. n + 1 \in 0 .. WordBits /\ n + 1 # 0 /\ (n + 1) - 1 = n
    OBVIOUS
  <2> QED
    BY <1>1, <2>1
<1> DEFINE T == {n \in 0 .. WordBits : Two[n] \in Nat /\ Two[n] > 0}
<1>3. 0 \in T /\ \A n \in 0 .. WordBits - 1 : n \in T => n + 1 \in T
  BY <1>1, <1>2
<1>4. \A n \in 0 .. WordBits : n \in T
  <2>1. 0 \in Int /\ WordBits \in Int
    OBVIOUS
  <2> HIDE DEF T
  <2> QED
    BY <1>3, <2>1, Climbing
<1> QED
  BY <1>1, <1>2, <1>4

LEMMA TwoProduct ==
  ASSUME NEW a \in Nat, NEW b \in Nat, a + b <= WordBits
  PROVE  Two[a + b] = Two[a] * Two[b]
<1> WordBits \in Nat
  BY OffsetFacts
<1> DEFINE T == {n \in 0 .. b : Two[a + n] = Two[a] * Two[n]}
<1>1. 0 \in T
  <2>1. Two[a] \in Nat /\ a + 0 = a /\ Two[0] = 1
    BY TwoFacts
  <2> QED
    BY <2>1
<1>2. ASSUME NEW n \in 0 .. b - 1, n \in T PROVE n + 1 \in T
  <2>1. Two[a + n] = Two[a] * Two[n]
    BY <1>2
  <2>2. a + n \in 0 .. WordBits - 1 /\ n \in 0 .. WordBits - 1 /\ a \in 0 .. WordBits
        /\ a + (n + 1) = (a + n) + 1
    OBVIOUS
  <2>3. Two[a + (n + 1)] = 2 * Two[a + n] /\ Two[n + 1] = 2 * Two[n]
    BY <2>2, TwoFacts
  <2>4. Two[a] \in Nat /\ Two[n] \in Nat
    BY <2>2, TwoFacts
  <2>5. \A x, y \in Nat : 2 * (x * y) = x * (2 * y)
    OBVIOUS
  <2>6. Two[a + (n + 1)] = Two[a] * Two[n + 1]
    BY <2>1, <2>3, <2>4, <2>5
  <2>7. n + 1 \in 0 .. b
    OBVIOUS
  <2> QED
    BY <2>6, <2>7
<1>3. b \in T
  <2>1. 0 \in Int /\ b \in Int /\ b \in 0 .. b
    OBVIOUS
  <2> HIDE DEF T
  <2>2. \A n \in 0 .. b : n \in T
    BY <1>1, <1>2, <2>1, Climbing
  <2> QED
    BY <2>1, <2>2
<1> QED
  BY <1>3

-----------------------------------------------------------------------------
(***************************************************************************)
(* Numbers in mixed radix.  Digit d[k] has the radix r[k] and the place    *)
(* p[k]; from field lo on, a place is the next finer one times its radix.  *)
(***************************************************************************)
Radix(r, p, lo) ==
  /\ lo \in Ids
  /\ \A k \in Ids : r[k] \in Nat /\ r[k] > 0 /\ p[k] \in Nat /\ p[k] > 0
  /\ \A k \in Ids : lo <= k /\ k < Finest => p[k] = r[k + 1] * p[k + 1]

Digits(d, r) == \A k \in Ids : d[k] \in Nat /\ d[k] < r[k]

\* What the digits from k on are worth.
Worth(d, p) == Sums([k \in Ids |-> d[k] * p[k]])

LEMMA WorthOf ==
  ASSUME NEW d, NEW p, \A k \in Ids : d[k] \in Nat /\ p[k] \in Nat
  PROVE  /\ Worth(d, p)[Finest + 1] = 0
         /\ \A k \in Ids : Worth(d, p)[k] = d[k] * p[k] + Worth(d, p)[k + 1]
         /\ \A k \in 1 .. Finest + 1 : Worth(d, p)[k] \in Nat
<1> DEFINE part == [k \in Ids |-> d[k] * p[k]]
<1>1. \A k \in Ids : part[k] = d[k] * p[k] /\ part[k] \in Nat /\ part[k] \in Int
  OBVIOUS
<1>2. Worth(d, p) = Sums(part)
  BY DEF Worth
<1> HIDE DEF part
<1>3. /\ Sums(part)[Finest + 1] = 0
      /\ \A k \in Ids : Sums(part)[k] = part[k] + Sums(part)[k + 1]
  BY <1>1, SumsOf
<1>4. \A k \in 1 .. Finest + 1 : Sums(part)[k] \in Nat
  BY <1>1, SumsOfNats
<1> QED
  BY <1>1, <1>2, <1>3, <1>4

\* The digits below a place are worth less than it.
LEMMA TailBound ==
  ASSUME NEW r, NEW p, NEW lo, Radix(r, p, lo), NEW d, Digits(d, r)
  PROVE  \A k \in lo .. Finest : /\ Worth(d, p)[k + 1] \in Nat
                                 /\ Worth(d, p)[k + 1] + p[Finest] <= p[k]
<1> DEFINE w == Worth(d, p)
           T == {k \in lo .. Finest : w[k + 1] + p[Finest] <= p[k]}
<1>1. Finest \in Nat /\ Finest > 1 /\ Ids = 1 .. Finest /\ lo \in 1 .. Finest
  BY FormatFacts DEF Radix
<1>2. \A k \in Ids : d[k] \in Nat /\ p[k] \in Nat
  BY DEF Radix, Digits
<1>3. /\ w[Finest + 1] = 0
      /\ \A k \in Ids : w[k] = d[k] * p[k] + w[k + 1]
      /\ \A k \in 1 .. Finest + 1 : w[k] \in Nat
  BY <1>2, WorthOf
<1> HIDE DEF w
<1>4. Finest \in T
  BY <1>1, <1>2, <1>3
<1>5. ASSUME NEW k \in lo .. Finest - 1, k + 1 \in T PROVE k \in T
  <2>1. k \in Ids /\ k + 1 \in Ids /\ k < Finest /\ lo <= k /\ k \in lo .. Finest
        /\ Finest \in Ids /\ (k + 1) + 1 \in 1 .. Finest + 1
    BY <1>1
  <2>2. p[k] = r[k + 1] * p[k + 1]
    BY <2>1 DEF Radix
  <2>3. /\ r[k + 1] \in Nat /\ p[k + 1] \in Nat /\ d[k + 1] \in Nat
        /\ d[k + 1] + 1 <= r[k + 1] /\ p[Finest] \in Nat
    BY <2>1 DEF Radix, Digits
  <2>4. w[k + 1] = d[k + 1] * p[k + 1] + w[(k + 1) + 1] /\ w[(k + 1) + 1] \in Nat
        /\ w[(k + 1) + 1] + p[Finest] <= p[k + 1]
    BY <1>3, <1>5, <2>1
  <2>5. (d[k + 1] + 1) * p[k + 1] <= r[k + 1] * p[k + 1]
    <3>1. \A x, y, z \in Nat : x <= y => x * z <= y * z
      OBVIOUS
    <3> QED
      BY <2>3, <3>1
  <2>6. (d[k + 1] + 1) * p[k + 1] = d[k + 1] * p[k + 1] + p[k + 1]
    BY <2>3
  <2>7. d[k + 1] * p[k + 1] \in Nat /\ r[k + 1] * p[k + 1] \in Nat
    BY <2>3
  <2>8. w[k + 1] + p[Finest] <= p[k]
    BY <2>2, <2>3, <2>4, <2>5, <2>6, <2>7
  <2> QED
    BY <2>1, <2>8
<1>6. \A k \in lo .. Finest : k \in T
  <2>1. lo \in Int /\ Finest \in Int
    BY <1>1
  <2> HIDE DEF T
  <2> QED
    BY <1>4, <1>5, <2>1, Descending
<1>7. \A k \in lo .. Finest : k + 1 \in 1 .. Finest + 1
  BY <1>1
<1> QED
  BY <1>3, <1>6, <1>7 DEF w

\* Above a digit stands a multiple of its radix.
LEMMA HeadExists ==
  ASSUME NEW r, NEW p, NEW lo, Radix(r, p, lo), NEW d, Digits(d, r)
  PROVE  \A k \in lo .. Finest :
           \E a \in Nat : Worth(d, p)[lo] = (a * r[k] + d[k]) * p[k] + Worth(d, p)[k + 1]
<1> DEFINE w == Worth(d, p)
           T == {k \in lo .. Finest :
                   \E a \in Nat : w[lo] = (a * r[k] + d[k]) * p[k] + w[k + 1]}
<1>1. Finest \in Nat /\ Finest > 1 /\ Ids = 1 .. Finest /\ lo \in 1 .. Finest
  BY FormatFacts DEF Radix
<1>2. \A k \in Ids : d[k] \in Nat /\ p[k] \in Nat /\ r[k] \in Nat
  BY DEF Radix, Digits
<1>3. \A k \in Ids : w[k] = d[k] * p[k] + w[k + 1]
  BY <1>2, WorthOf
<1>4. \A k \in 1 .. Finest + 1 : w[k] \in Nat
  BY <1>2, WorthOf
<1> HIDE DEF w
<1>5. lo \in T
  <2>1. lo \in Ids
    BY <1>1
  <2>2. 0 * r[lo] + d[lo] = d[lo]
    BY <1>2, <2>1
  <2>3. w[lo] = (0 * r[lo] + d[lo]) * p[lo] + w[lo + 1]
    BY <1>3, <2>1, <2>2
  <2> QED
    BY <1>1, <2>3
<1>6. ASSUME NEW k \in lo .. Finest - 1, k \in T PROVE k + 1 \in T
  <2>1. k \in Ids /\ k + 1 \in Ids /\ k < Finest /\ lo <= k /\ k + 1 \in lo .. Finest
        /\ (k + 1) + 1 \in 1 .. Finest + 1
    BY <1>1
  <2>2. PICK a \in Nat : w[lo] = (a * r[k] + d[k]) * p[k] + w[k + 1]
    BY <1>6
  <2>3. p[k] = r[k + 1] * p[k + 1]
    BY <2>1 DEF Radix
  <2> DEFINE b == a * r[k] + d[k]
  <2>4. b \in Nat
    BY <1>2, <2>1
  <2>5. w[lo] = b * (r[k + 1] * p[k + 1]) + (d[k + 1] * p[k + 1] + w[(k + 1) + 1])
    BY <1>3, <2>1, <2>2, <2>3
  <2> HIDE DEF b
  <2>6. \A x, y, z, u, v \in Nat : x * (y * z) + (u * z + v) = (x * y + u) * z + v
    BY SMTT(30)
  <2>7. w[lo] = (b * r[k + 1] + d[k + 1]) * p[k + 1] + w[(k + 1) + 1]
    <3>1. /\ r[k + 1] \in Nat /\ p[k + 1] \in Nat /\ d[k + 1] \in Nat
          /\ w[(k + 1) + 1] \in Nat
      BY <1>2, <1>4, <2>1
    <3> QED
      BY <2>4, <2>5, <2>6, <3>1
  <2> QED
    BY <2>1, <2>4, <2>7
<1>7. \A k \in lo .. Finest : k \in T
  <2>1. lo \in Int /\ Finest \in Int
    BY <1>1
  <2> HIDE DEF T
  <2> QED
    BY <1>5, <1>6, <2>1, Climbing
<1> QED
  BY <1>7 DEF w

LEMMA Quotient ==
  ASSUME NEW f \in Nat, f > 0, NEW q \in Int, NEW t \in Nat, t < f
  PROVE  (q * f + t) \div f = q /\ (q * f + t) % f = t
<1> DEFINE k == q * f + t
           e == k \div f
<1>1. k \in Int /\ q * f \in Int
  OBVIOUS
<1> HIDE DEF k
<1>2. e \in Int /\ k = e * f + (k % f) /\ k % f \in 0 .. f - 1
  BY <1>1
<1> HIDE DEF e
<1>3. k = q * f + t
  BY DEF k
<1>4. ~(q < e)
  <2> SUFFICES ASSUME q + 1 <= e PROVE FALSE
    BY <1>2
  <2>1. (e - (q + 1)) * f >= 0
    BY <1>2
  <2>2. (e - (q + 1)) * f = e * f - q * f - f
    BY <1>2
  <2> QED
    BY <1>1, <1>2, <1>3, <2>1, <2>2
<1>5. ~(e < q)
  <2> SUFFICES ASSUME e + 1 <= q PROVE FALSE
    BY <1>2
  <2>1. (q - (e + 1)) * f >= 0
    BY <1>2
  <2>2. (q - (e + 1)) * f = q * f - e * f - f
    BY <1>2
  <2> QED
    BY <1>1, <1>2, <1>3, <2>1, <2>2
<1>6. e = q
  BY <1>2, <1>4, <1>5
<1> QED
  BY <1>1, <1>2, <1>3, <1>6 DEF k, e

\* Dividing by its place and reducing by its radix brings a digit back,
\* whatever stands below the finest place.
LEMMA DigitOf ==
  ASSUME NEW r, NEW p, NEW lo, Radix(r, p, lo), NEW d, Digits(d, r),
         NEW low \in Nat, low < p[Finest], NEW k \in lo .. Finest
  PROVE  ((Worth(d, p)[lo] + low) \div p[k]) % r[k] = d[k]
<1>1. Finest \in Nat /\ Ids = 1 .. Finest /\ lo \in 1 .. Finest
  BY FormatFacts DEF Radix
<1>2. k \in Ids /\ Finest \in Ids
  BY <1>1
<1>3. r[k] \in Nat /\ r[k] > 0 /\ p[k] \in Nat /\ p[k] > 0 /\ p[Finest] \in Nat
      /\ d[k] \in Nat /\ d[k] < r[k]
  BY <1>2 DEF Radix, Digits
<1>4. PICK a \in Nat : Worth(d, p)[lo] = (a * r[k] + d[k]) * p[k] + Worth(d, p)[k + 1]
  BY HeadExists
<1> DEFINE t == Worth(d, p)[k + 1] + low
           q == a * r[k] + d[k]
<1>5. t \in Nat /\ t < p[k]
  <2>1. Worth(d, p)[k + 1] \in Nat /\ Worth(d, p)[k + 1] + p[Finest] <= p[k]
    BY TailBound
  <2> QED
    BY <1>3, <2>1
<1>6. q \in Nat
  BY <1>3
<1>7. Worth(d, p)[lo] + low = q * p[k] + t
  <2>1. q * p[k] \in Nat /\ Worth(d, p)[k + 1] \in Nat
    BY <1>3, <1>6, TailBound
  <2> QED
    BY <1>4, <2>1
<1> HIDE DEF t, q
<1>8. (q * p[k] + t) \div p[k] = q
  BY <1>3, <1>5, <1>6, Quotient
<1>9. q % r[k] = d[k]
  <2>1. a \in Int /\ q = a * r[k] + d[k]
    BY DEF q
  <2>2. (a * r[k] + d[k]) % r[k] = d[k]
    BY <1>3, <2>1, Quotient
  <2> QED
    BY <2>1, <2>2
<1> QED
  BY <1>7, <1>8, <1>9

\* The number with the greater digit where they first differ is the greater,
\* and there is such a place.
LEMMA SameHead ==
  ASSUME NEW r, NEW p, NEW lo, Radix(r, p, lo), NEW d, Digits(d, r), NEW e, Digits(e, r),
         NEW k \in lo .. Finest, \A j \in lo .. k - 1 : d[j] = e[j]
  PROVE  Worth(d, p)[lo] - Worth(d, p)[k] = Worth(e, p)[lo] - Worth(e, p)[k]
<1> DEFINE u == Worth(d, p)
           v == Worth(e, p)
           T == {j \in lo .. k : u[lo] - u[j] = v[lo] - v[j]}
<1>1. Finest \in Nat /\ Ids = 1 .. Finest /\ lo \in 1 .. Finest /\ k \in 1 .. Finest
      /\ \A j \in Ids : d[j] \in Nat /\ e[j] \in Nat /\ p[j] \in Nat
  BY FormatFacts DEF Radix, Digits
<1>2. /\ \A j \in Ids : u[j] = d[j] * p[j] + u[j + 1] /\ v[j] = e[j] * p[j] + v[j + 1]
      /\ \A j \in 1 .. Finest + 1 : u[j] \in Nat /\ v[j] \in Nat
  <2>1. \A j \in Ids : d[j] \in Nat /\ p[j] \in Nat
    BY <1>1
  <2>2. \A j \in Ids : e[j] \in Nat /\ p[j] \in Nat
    BY <1>1
  <2>3. /\ \A j \in Ids : u[j] = d[j] * p[j] + u[j + 1]
        /\ \A j \in 1 .. Finest + 1 : u[j] \in Nat
    BY <2>1, WorthOf
  <2>4. /\ \A j \in Ids : v[j] = e[j] * p[j] + v[j + 1]
        /\ \A j \in 1 .. Finest + 1 : v[j] \in Nat
    BY <2>2, WorthOf
  <2> HIDE DEF u, v
  <2> QED
    BY <2>3, <2>4
<1> HIDE DEF u, v
<1>3. lo \in T
  BY <1>1, <1>2
<1>4. ASSUME NEW j \in lo .. k - 1, j \in T PROVE j + 1 \in T
  <2>1. j \in Ids /\ j + 1 \in 1 .. Finest + 1 /\ j + 1 \in lo .. k /\ j \in 1 .. Finest + 1
        /\ lo \in 1 .. Finest + 1
    BY <1>1
  <2>2. d[j] * p[j] = e[j] * p[j] /\ d[j] * p[j] \in Nat
    BY <1>1, <2>1
  <2>3. u[lo] - u[j + 1] = v[lo] - v[j + 1]
    BY <1>2, <1>4, <2>1, <2>2
  <2> QED
    BY <2>1, <2>3
<1>5. \A j \in lo .. k : j \in T
  <2>1. lo \in Int /\ k \in Int
    BY <1>1
  <2> HIDE DEF T
  <2> QED
    BY <1>3, <1>4, <2>1, Climbing
<1> QED
  BY <1>1, <1>5 DEF u, v

LEMMA LaterDigit ==
  ASSUME NEW r, NEW p, NEW lo, Radix(r, p, lo), NEW d, Digits(d, r), NEW e, Digits(e, r),
         NEW k \in lo .. Finest, \A j \in lo .. k - 1 : d[j] = e[j], d[k] < e[k],
         NEW x \in Nat, x < p[Finest], NEW y \in Nat
  PROVE  Worth(d, p)[lo] + x < Worth(e, p)[lo] + y
<1> DEFINE u == Worth(d, p)
           v == Worth(e, p)
<1>1. Finest \in Nat /\ Ids = 1 .. Finest /\ lo \in Ids /\ k \in Ids
      /\ k \in 1 .. Finest + 1 /\ lo \in 1 .. Finest + 1 /\ k + 1 \in 1 .. Finest + 1
      /\ Finest \in Ids
  BY FormatFacts DEF Radix
<1>2. \A j \in Ids : d[j] \in Nat /\ e[j] \in Nat /\ p[j] \in Nat
  BY DEF Radix, Digits
<1>3. u[lo] - u[k] = v[lo] - v[k]
  BY SameHead
<1>4. u[k + 1] + p[Finest] <= p[k]
  BY TailBound
<1>5. /\ u[k] = d[k] * p[k] + u[k + 1] /\ v[k] = e[k] * p[k] + v[k + 1]
      /\ u[lo] \in Nat /\ v[lo] \in Nat /\ u[k + 1] \in Nat /\ v[k + 1] \in Nat
      /\ u[k] \in Nat /\ v[k] \in Nat
  <2>1. /\ \A j \in Ids : u[j] = d[j] * p[j] + u[j + 1]
        /\ \A j \in 1 .. Finest + 1 : u[j] \in Nat
    BY <1>2, WorthOf
  <2>2. /\ \A j \in Ids : v[j] = e[j] * p[j] + v[j + 1]
        /\ \A j \in 1 .. Finest + 1 : v[j] \in Nat
    BY <1>2, WorthOf
  <2> HIDE DEF u, v
  <2> QED
    BY <1>1, <2>1, <2>2
<1> HIDE DEF u, v
<1>6. d[k] * p[k] + p[k] <= e[k] * p[k]
  <2>1. \A f, g, h \in Nat : f < g => f * h + h <= g * h
    <3> SUFFICES ASSUME NEW f \in Nat, NEW g \in Nat, NEW h \in Nat, f < g
                 PROVE  f * h + h <= g * h
      OBVIOUS
    <3>1. (g - (f + 1)) * h >= 0
      OBVIOUS
    <3> QED
      BY <3>1
  <2> QED
    BY <1>1, <1>2, <2>1
<1>7. d[k] * p[k] \in Nat /\ e[k] * p[k] \in Nat /\ p[Finest] \in Nat /\ p[k] \in Nat
  BY <1>1, <1>2
<1>8. u[lo] + x < v[lo] + y
  BY <1>3, <1>4, <1>5, <1>6, <1>7
<1> QED
  BY <1>8 DEF u, v

LEMMA FirstDifference ==
  ASSUME NEW r, NEW p, NEW lo, Radix(r, p, lo), NEW d, Digits(d, r), NEW e, Digits(e, r),
         Worth(d, p)[lo] < Worth(e, p)[lo]
  PROVE  \E k \in lo .. Finest : d[k] < e[k] /\ \A j \in lo .. k - 1 : d[j] = e[j]
<1> DEFINE u == Worth(d, p)
           v == Worth(e, p)
           Differ == {k \in lo .. Finest : d[k] # e[k]}
<1>1. Finest \in Nat /\ Ids = 1 .. Finest /\ lo \in Ids /\ Finest \in Ids
  BY FormatFacts DEF Radix
<1>2. \A j \in Ids : d[j] \in Nat /\ e[j] \in Nat /\ p[j] \in Nat
  BY DEF Radix, Digits
<1>3. /\ \A j \in Ids : u[j] = d[j] * p[j] + u[j + 1] /\ v[j] = e[j] * p[j] + v[j + 1]
      /\ u[Finest + 1] = 0 /\ v[Finest + 1] = 0
      /\ \A j \in 1 .. Finest + 1 : u[j] \in Nat /\ v[j] \in Nat
  BY <1>2, WorthOf
<1>4. u[lo] < v[lo]
  OBVIOUS
<1> HIDE DEF u, v
<1>5. ASSUME Differ = {} PROVE FALSE
  <2>1. \A j \in lo .. Finest : d[j] = e[j]
    BY <1>5
  <2>2. u[lo] - u[Finest] = v[lo] - v[Finest]
    <3>1. lo \in Ids /\ Finest \in lo .. Finest
      BY <1>1
    <3>2. \A j \in lo .. Finest - 1 : d[j] = e[j]
      BY <1>1, <2>1
    <3> QED
      BY <3>1, <3>2, SameHead DEF u, v
  <2>3. d[Finest] = e[Finest]
    BY <1>1, <2>1
  <2>4. u[Finest] = v[Finest]
    BY <1>1, <1>3, <2>3
  <2>5. u[lo] \in Nat /\ v[lo] \in Nat /\ u[Finest] \in Nat /\ v[Finest] \in Nat
    BY <1>1, <1>3
  <2> QED
    BY <1>4, <2>2, <2>4, <2>5
<1>6. PICK k \in Differ : \A j \in Differ : k <= j
  <2>1. Differ \subseteq Nat
    BY <1>1
  <2> HIDE DEF Differ
  <2> QED
    BY <1>5, <2>1, LeastExists
<1>7. k \in lo .. Finest /\ k \in Ids /\ \A j \in lo .. k - 1 : d[j] = e[j]
  BY <1>1, <1>6
<1>8. ASSUME e[k] < d[k] PROVE FALSE
  <2>1. \A j \in lo .. k - 1 : e[j] = d[j]
    BY <1>7
  <2>2. p[Finest] \in Nat /\ 0 < p[Finest]
    BY <1>1 DEF Radix
  <2>3. v[lo] + 0 < u[lo] + 0
    BY <1>7, <1>8, <2>1, <2>2, LaterDigit DEF u, v
  <2>4. u[lo] \in Nat /\ v[lo] \in Nat
    BY <1>1, <1>3
  <2> QED
    BY <1>4, <2>3, <2>4
<1>9. d[k] < e[k]
  BY <1>2, <1>6, <1>7, <1>8
<1> QED
  BY <1>7, <1>9

-----------------------------------------------------------------------------
(***************************************************************************)
(* The two systems of places: bits for packed words, and milliseconds.     *)
(***************************************************************************)
BitRadix == [i \in Ids |-> Two[Width(i)]]
BitPlace == [i \in Ids |-> Two[Offset[i]]]

Radices    == [i \in Ids |-> MaxValue(i) + 1]
ScalePlace == [i \in Ids |-> Scale(i)]

LEMMA BitsAreRadix ==
  /\ Radix(BitRadix, BitPlace, 1)
  /\ BitPlace[Finest] = Two[LowBits]
  /\ \A i \in Ids : MaxValue(i) < BitRadix[i]
<1>1. Finest \in Nat /\ Finest > 1 /\ Ids = 1 .. Finest /\ 1 \in Ids /\ Finest \in Ids
  BY FormatFacts
<1>2. \A i \in Ids : Width(i) \in Nat /\ Offset[i] \in Nat /\ Offset[i] + Width(i) <= WordBits
                     /\ Offset[i] + Width(i) = Offset[i - 1]
  BY OffsetFacts, FormatFacts
<1>3. WordBits \in Nat
  BY OffsetFacts
<1>4. \A i \in Ids : /\ BitRadix[i] \in Nat /\ BitRadix[i] > 0
                     /\ BitPlace[i] \in Nat /\ BitPlace[i] > 0
  <2> TAKE i \in Ids
  <2>1. Width(i) \in 0 .. WordBits /\ Offset[i] \in 0 .. WordBits
    BY <1>2, <1>3
  <2> QED
    BY <2>1, TwoFacts DEF BitRadix, BitPlace
<1>5. ASSUME NEW k \in Ids, k < Finest
      PROVE  BitPlace[k] = BitRadix[k + 1] * BitPlace[k + 1]
  <2>1. k + 1 \in Ids /\ (k + 1) - 1 = k
    BY <1>1, <1>5
  <2>2. Width(k + 1) \in Nat /\ Offset[k + 1] \in Nat
        /\ Width(k + 1) + Offset[k + 1] <= WordBits
        /\ Width(k + 1) + Offset[k + 1] = Offset[k]
    BY <1>2, <2>1
  <2>3. Two[Offset[k]] = Two[Width(k + 1)] * Two[Offset[k + 1]]
    BY <2>2, TwoProduct
  <2> QED
    BY <2>1, <2>3 DEF BitPlace, BitRadix
<1>6. BitPlace[Finest] = Two[LowBits]
  BY <1>1, OffsetFacts DEF BitPlace
<1>7. \A i \in Ids : MaxValue(i) < BitRadix[i]
  BY TemporalFormatAssumption DEF BitRadix
<1> QED
  BY <1>1, <1>4, <1>5, <1>6, <1>7 DEF Radix

LEMMA ScalesAreRadix ==
  /\ Radix(Radices, ScalePlace, 2)
  /\ ScalePlace[Finest] = 1
  /\ \A i \in Ids : Radices[i] = MaxValue(i) + 1 /\ ScalePlace[i] = Scale(i)
<1>1. Finest \in Nat /\ Finest > 1 /\ Ids = 1 .. Finest /\ 2 \in Ids /\ Finest \in Ids
      /\ 1 \in Ids
  BY FormatFacts
<1>2. \A i \in Ids : Radices[i] = MaxValue(i) + 1 /\ ScalePlace[i] = Scale(i)
  BY DEF Radices, ScalePlace
<1>3. \A i \in Ids : Scale(i) \in Nat /\ MaxValue(i) \in Nat /\ MaxValue(i) > 0
  BY FormatFacts
<1>4. Scale(Finest) = 1
  BY TemporalFormatAssumption DEF Finest
<1>5. ASSUME NEW k \in Ids, 2 <= k, k < Finest
      PROVE  k + 1 \in Ids /\ Scale(k) = (MaxValue(k + 1) + 1) * Scale(k + 1)
  <2>1. k \in Ids \ {1, Finest} /\ k + 1 \in Ids
    BY <1>1, <1>5
  <2> QED
    BY <2>1, TemporalFormatAssumption DEF Finest
<1> DEFINE T == {k \in 2 .. Finest : Scale(k) > 0}
<1>6. Finest \in T
  BY <1>1, <1>4
<1>7. ASSUME NEW k \in 2 .. Finest - 1, k + 1 \in T PROVE k \in T
  <2>1. k \in Ids /\ 2 <= k /\ k < Finest /\ k \in 2 .. Finest /\ k + 1 \in Ids
    BY <1>1
  <2>2. Scale(k) = (MaxValue(k + 1) + 1) * Scale(k + 1)
    BY <1>5, <2>1
  <2>3. \A x, y \in Nat : x > 0 /\ y > 0 => x * y > 0
    OBVIOUS
  <2>4. MaxValue(k + 1) + 1 \in Nat /\ MaxValue(k + 1) + 1 > 0
        /\ Scale(k + 1) \in Nat /\ Scale(k + 1) > 0
    BY <1>3, <1>7, <2>1
  <2>5. Scale(k) > 0
    BY <2>2, <2>3, <2>4
  <2> QED
    BY <2>1, <2>5
<1>8. \A k \in 2 .. Finest : k \in T
  <2>1. 2 \in Int /\ Finest \in Int
    BY <1>1
  <2> HIDE DEF T
  <2> QED
    BY <1>6, <1>7, <2>1, Descending
<1>9. Scale(1) > 0
  <2>1. MaxValue(2) * Scale(2) < Scale(1)
    BY TemporalFormatAssumption
  <2>2. MaxValue(2) * Scale(2) \in Nat /\ Scale(1) \in Nat
    BY <1>1, <1>3
  <2> QED
    BY <2>1, <2>2
<1>10. \A k \in Ids : Scale(k) > 0
  BY <1>1, <1>8, <1>9
<1> QED
  BY <1>1, <1>2, <1>3, <1>4, <1>5, <1>10, SMTT(30) DEF Radix

-----------------------------------------------------------------------------
(***************************************************************************)
(* Packed words.  Every field of a sound word is in its range.             *)
(***************************************************************************)
Sound(w) ==
  /\ w \in Words
  /\ w.type = 1
  /\ \A i \in Ids : w.field[i] \in 0 .. MaxValue(i)

\* The fields as they are packed, the bits below them, and all of it.
Stored(w) == [i \in Ids |-> IF w.ba = 1 THEN w.field[i] ELSE Reversed(i, w.field[i])]

Low(w) == w.forward * Two[ForwardOffset] + w.reverse * Two[ReverseOffset] + w.type

Index(w) == Worth(Stored(w), BitPlace)[1] + Low(w)

LEMMA WordParts ==
  ASSUME NEW w \in Words
  PROVE  /\ w.ba \in 0 .. 1
         /\ w.field \in [Ids -> Int]
         /\ w.forward \in 0 .. ResolutionMask
         /\ w.reverse \in 0 .. ResolutionMask
         /\ w.type \in 0 .. 3
         /\ w = [ba |-> w.ba, field |-> w.field, forward |-> w.forward,
                 reverse |-> w.reverse, type |-> w.type]
BY DEF Words

LEMMA LowPowers ==
  /\ Two[ResolutionWidth] \in Nat /\ Two[ResolutionWidth] > 0
  /\ ResolutionMask = Two[ResolutionWidth] - 1
  /\ Two[TypeWidth] = 4 /\ Two[ReverseOffset] = 4
  /\ Two[ForwardOffset] = Two[ResolutionWidth] * 4
  /\ Two[LowBits] = Two[ResolutionWidth] * Two[ForwardOffset]
<1>1. ResolutionWidth \in Nat /\ ResolutionWidth > 0 /\ WordBits \in Nat /\ LowBits <= WordBits
      /\ LowBits = 2 + 2 * ResolutionWidth
  BY FormatFacts, OffsetFacts DEF LowBits, TypeWidth
<1>2. Two[ResolutionWidth] \in Nat /\ Two[ResolutionWidth] > 0
  <2>1. ResolutionWidth \in 0 .. WordBits
    BY <1>1
  <2> QED
    BY <2>1, TwoFacts
<1>3. Two[2] = 4
  <2>1. 0 \in 0 .. WordBits - 1 /\ 1 \in 0 .. WordBits - 1
    BY <1>1
  <2>2. Two[0 + 1] = 2 * Two[0] /\ Two[1 + 1] = 2 * Two[1] /\ Two[0] = 1
    BY <2>1, TwoFacts
  <2>3. 0 + 1 = 1 /\ 1 + 1 = 2
    OBVIOUS
  <2> QED
    BY <2>2, <2>3
<1>4. Two[ResolutionWidth + 2] = Two[ResolutionWidth] * Two[2]
  BY <1>1, TwoProduct
<1>5. Two[ResolutionWidth + (ResolutionWidth + 2)]
        = Two[ResolutionWidth] * Two[ResolutionWidth + 2]
  BY <1>1, TwoProduct
<1>6. /\ ForwardOffset = ResolutionWidth + 2
      /\ LowBits = ResolutionWidth + (ResolutionWidth + 2)
  BY <1>1 DEF ForwardOffset, TypeWidth
<1> QED
  BY <1>2, <1>3, <1>4, <1>5, <1>6 DEF TypeWidth, ReverseOffset, ResolutionMask

\* What stands below the fields, and how it is found under any multiple of them.
LEMMA LowParts ==
  ASSUME NEW w, Sound(w)
  PROVE  /\ Low(w) \in Nat /\ 0 < Low(w) /\ Low(w) < Two[LowBits]
         /\ \A a \in Nat :
              LET index == a * Two[LowBits] + Low(w)
              IN  /\ Bits(index, ForwardOffset, ResolutionWidth) = w.forward
                  /\ Bits(index, ReverseOffset, ResolutionWidth) = w.reverse
                  /\ index % Two[TypeWidth] = w.type
<1> DEFINE r == Two[ResolutionWidth]
           f == w.forward
           b == w.reverse
<1>1. /\ r \in Nat /\ r > 0
      /\ Two[TypeWidth] = 4 /\ Two[ReverseOffset] = 4 /\ Two[ForwardOffset] = r * 4
      /\ Two[LowBits] = r * (r * 4)
  BY LowPowers
<1>2. f \in Nat /\ f < r /\ b \in Nat /\ b < r /\ w.type = 1
  BY LowPowers, WordParts DEF Sound
<1>3. Low(w) = f * (r * 4) + b * 4 + 1
  BY <1>1, <1>2 DEF Low
<1> HIDE DEF r, f, b
<1>5. b * 4 + 1 \in Nat /\ b * 4 + 1 < r * 4 /\ f * (r * 4) \in Nat /\ r * 4 \in Nat
  BY <1>1, <1>2
<1>6. f * (r * 4) + r * 4 <= r * (r * 4)
  <2>1. (r - (f + 1)) * (r * 4) >= 0
    BY <1>1, <1>2
  <2>2. (r - (f + 1)) * (r * 4) = r * (r * 4) - (f * (r * 4) + r * 4)
    BY <1>1, <1>2, SMTT(30)
  <2>3. r * (r * 4) \in Nat
    BY <1>1
  <2> QED
    BY <1>5, <2>1, <2>2, <2>3
<1>7. Low(w) \in Nat /\ 0 < Low(w) /\ Low(w) < r * (r * 4)
  <2>1. r * (r * 4) \in Nat
    BY <1>1
  <2>2. \A x, y, z, t \in Nat : y + z <= x /\ t + 1 < z => y + t + 1 < x
    OBVIOUS
  <2>3. f * (r * 4) + b * 4 + 1 < r * (r * 4)
    BY <1>2, <1>5, <1>6, <2>1, <2>2
  <2>4. f * (r * 4) + b * 4 + 1 \in Nat /\ 0 < f * (r * 4) + b * 4 + 1
    BY <1>2, <1>5
  <2> QED
    BY <1>3, <2>3, <2>4
<1>8. ASSUME NEW a \in Nat
      PROVE  LET index == a * (r * (r * 4)) + Low(w)
             IN  /\ (index \div (r * 4)) % r = f
                 /\ (index \div 4) % r = b
                 /\ index % 4 = 1
  <2> DEFINE index == a * (r * (r * 4)) + Low(w)
             head  == a * r + f
  <2>1. head \in Nat
    BY <1>1, <1>2
  <2>2. index = head * (r * 4) + (b * 4 + 1)
    <3>1. \A x, y, z, u, v \in Nat : x * (y * z) + (u * z + v) = (x * y + u) * z + v
      BY SMTT(30)
    <3>2. index = a * (r * (r * 4)) + (f * (r * 4) + (b * 4 + 1))
      BY <1>1, <1>2, <1>3, <1>5
    <3> QED
      BY <1>1, <1>2, <1>5, <3>1, <3>2
  <2>3. head % r = f
    BY <1>1, <1>2, Quotient
  <2> HIDE DEF index, head
  <2>4. index \div (r * 4) = head
    <3> DEFINE m == r * 4
               t == b * 4 + 1
    <3>1. m \in Nat /\ m > 0 /\ t \in Nat /\ t < m /\ head \in Int
      BY <1>1, <1>5, <2>1
    <3>2. index = head * m + t
      BY <2>2
    <3> HIDE DEF m, t
    <3>3. index \div m = head
      BY <3>1, <3>2, Quotient
    <3> QED
      BY <3>3 DEF m
  <2> DEFINE second == head * r + b
  <2>5. second \in Nat /\ second % r = b
    BY <1>1, <1>2, <2>1, Quotient
  <2>6. index = second * 4 + 1
    <3>1. \A x, y, u, v \in Nat : x * (y * 4) + (u * 4 + v) = (x * y + u) * 4 + v
      OBVIOUS
    <3> QED
      BY <1>1, <1>2, <2>1, <2>2, <3>1
  <2> HIDE DEF second
  <2>7. index \div 4 = second /\ index % 4 = 1
    BY <2>5, <2>6, Quotient
  <2> QED
    BY <2>3, <2>4, <2>5, <2>7 DEF index
<1>9. \A a \in Nat :
        LET index == a * Two[LowBits] + Low(w)
        IN  /\ Bits(index, ForwardOffset, ResolutionWidth) = f
            /\ Bits(index, ReverseOffset, ResolutionWidth) = b
            /\ index % Two[TypeWidth] = w.type
  BY <1>1, <1>2, <1>8 DEF Bits, r
<1> QED
  BY <1>1, <1>7, <1>9 DEF f, b

LEMMA StoredIsDigits ==
  ASSUME NEW w, Sound(w)
  PROVE  /\ Digits(Stored(w), BitRadix)
         /\ \A i \in Ids : Stored(w)[i] = IF w.ba = 1 THEN w.field[i]
                                          ELSE Reversed(i, w.field[i])
<1>1. ASSUME NEW i \in Ids
      PROVE  /\ Stored(w)[i] = IF w.ba = 1 THEN w.field[i] ELSE Reversed(i, w.field[i])
             /\ Stored(w)[i] \in Nat /\ Stored(w)[i] < BitRadix[i]
  <2>1. w.field[i] \in 0 .. MaxValue(i) /\ MaxValue(i) \in Nat
    BY FormatFacts DEF Sound
  <2>2. Reversed(i, w.field[i]) \in 0 .. MaxValue(i)
    BY <2>1 DEF Reversed
  <2>3. MaxValue(i) < BitRadix[i] /\ BitRadix[i] \in Nat
    BY BitsAreRadix DEF Radix
  <2>4. Stored(w)[i] = IF w.ba = 1 THEN w.field[i] ELSE Reversed(i, w.field[i])
    BY DEF Stored
  <2> QED
    BY <2>1, <2>2, <2>3, <2>4
<1> QED
  BY <1>1 DEF Digits

LEMMA IndexFacts ==
  ASSUME NEW w, Sound(w)
  PROVE  /\ Index(w) \in Nat /\ Index(w) > 0
         /\ \A i \in Ids : Bits(Index(w), Offset[i], Width(i)) = Stored(w)[i]
         /\ Bits(Index(w), ForwardOffset, ResolutionWidth) = w.forward
         /\ Bits(Index(w), ReverseOffset, ResolutionWidth) = w.reverse
         /\ Index(w) % Two[TypeWidth] = w.type
<1> DEFINE s == Stored(w)
           u == Worth(s, BitPlace)
<1>1. Radix(BitRadix, BitPlace, 1) /\ Digits(s, BitRadix)
  BY BitsAreRadix, StoredIsDigits
<1>2. Finest \in Nat /\ Finest > 1 /\ Ids = 1 .. Finest /\ Finest \in 1 .. Finest
      /\ Finest \in Ids /\ 1 \in 1 .. Finest + 1
  BY FormatFacts
<1>3. \A k \in Ids : s[k] \in Nat /\ BitPlace[k] \in Nat /\ BitRadix[k] \in Nat
  BY <1>1 DEF Radix, Digits
<1>4. u[1] \in Nat /\ u[Finest + 1] = 0
  BY <1>2, <1>3, WorthOf
<1>5. BitPlace[Finest] = Two[LowBits]
  BY BitsAreRadix
<1>6. PICK a \in Nat : u[1] = (a * BitRadix[Finest] + s[Finest]) * BitPlace[Finest]
                                + u[Finest + 1]
  BY <1>1, <1>2, HeadExists
<1>7. Low(w) \in Nat /\ 0 < Low(w) /\ Low(w) < Two[LowBits]
  BY LowParts
<1>8. ASSUME NEW i \in Ids
      PROVE  Bits(Index(w), Offset[i], Width(i)) = s[i]
  <2>1. ((u[1] + Low(w)) \div BitPlace[i]) % BitRadix[i] = s[i]
    BY <1>1, <1>2, <1>5, <1>7, DigitOf
  <2>2. BitPlace[i] = Two[Offset[i]] /\ BitRadix[i] = Two[Width(i)]
    BY DEF BitPlace, BitRadix
  <2> QED
    BY <2>1, <2>2 DEF Bits, Index
<1>9. Index(w) = u[1] + Low(w)
  BY DEF Index
<1> HIDE DEF s, u
<1> DEFINE b == a * BitRadix[Finest] + s[Finest]
<1>10. b \in Nat
  <2>1. BitRadix[Finest] \in Nat /\ s[Finest] \in Nat
    BY <1>2, <1>3
  <2>2. a * BitRadix[Finest] \in Nat
    BY <2>1
  <2> QED
    BY <2>1, <2>2
<1> HIDE DEF b
<1>11. Index(w) = b * Two[LowBits] + Low(w)
  <2>1. u[1] = b * Two[LowBits] + 0
    BY <1>4, <1>5, <1>6 DEF b
  <2>2. b * Two[LowBits] \in Nat
    BY <1>2, <1>3, <1>5, <1>10
  <2> QED
    BY <1>9, <2>1, <2>2
<1>12. /\ Bits(Index(w), ForwardOffset, ResolutionWidth) = w.forward
       /\ Bits(Index(w), ReverseOffset, ResolutionWidth) = w.reverse
       /\ Index(w) % Two[TypeWidth] = w.type
  BY <1>10, <1>11, LowParts
<1>13. Index(w) \in Nat /\ Index(w) > 0
  BY <1>4, <1>7, <1>9
<1> QED
  BY <1>8, <1>12, <1>13 DEF s

LEMMA EncodeIs ==
  ASSUME NEW w, Sound(w)
  PROVE  Encode(w) = IF w.ba = 0 THEN -Index(w) ELSE Index(w)
<1> DEFINE S(i) == IF w.ba = 1 THEN w.field[i] ELSE Reversed(i, w.field[i])
           placed == [i \in Ids |-> (S(i) % Two[Width(i)]) * Two[Offset[i]]]
<1>1. placed = [i \in Ids |-> Stored(w)[i] * BitPlace[i]]
  <2>1. ASSUME NEW i \in Ids
        PROVE  (S(i) % Two[Width(i)]) * Two[Offset[i]] = Stored(w)[i] * BitPlace[i]
    <3>1. Stored(w)[i] \in Nat /\ Stored(w)[i] < BitRadix[i] /\ BitRadix[i] \in Nat
          /\ Stored(w)[i] = S(i)
      BY StoredIsDigits, BitsAreRadix DEF Digits, Radix
    <3>2. BitPlace[i] = Two[Offset[i]] /\ BitRadix[i] = Two[Width(i)]
      BY DEF BitPlace, BitRadix
    <3> HIDE DEF S
    <3>3. S(i) % BitRadix[i] = S(i)
      BY <3>1
    <3> QED
      BY <3>1, <3>2, <3>3
  <2> QED
    BY <2>1
<1>2. Sums(placed) = Worth(Stored(w), BitPlace)
  BY <1>1 DEF Worth
<1>3. Encode(w) = IF w.ba = 0
                  THEN -(Sums(placed)[1] + w.forward * Two[ForwardOffset]
                           + w.reverse * Two[ReverseOffset] + w.type)
                  ELSE Sums(placed)[1] + w.forward * Two[ForwardOffset]
                         + w.reverse * Two[ReverseOffset] + w.type
  BY DEF Encode
<1> HIDE DEF placed
<1>4. Sums(placed)[1] + w.forward * Two[ForwardOffset] + w.reverse * Two[ReverseOffset] + w.type
        = Index(w)
  <2>1. Sums(placed)[1] \in Nat
    <3>1. \A k \in Ids : Stored(w)[k] \in Nat /\ BitPlace[k] \in Nat
      BY StoredIsDigits, BitsAreRadix DEF Digits, Radix
    <3>2. 1 \in 1 .. Finest + 1
      BY FormatFacts
    <3> QED
      BY <1>2, <3>1, <3>2, WorthOf
  <2>2. w.forward * Two[ForwardOffset] \in Nat /\ w.reverse * Two[ReverseOffset] \in Nat
        /\ w.type \in Nat
    BY LowPowers, WordParts DEF Sound
  <2> QED
    BY <1>2, <2>1, <2>2 DEF Index, Low
<1> QED
  BY <1>3, <1>4

\* A sound word comes back from the integer it is packed into.
LEMMA DecodeOfEncode ==
  ASSUME NEW w, Sound(w)
  PROVE  Decode(Encode(w)) = w
<1> DEFINE x == Encode(w)
           index == IF x < 0 THEN -x ELSE x
<1>1. w.ba \in 0 .. 1 /\ w.type = 1
  BY WordParts DEF Sound
<1>2. /\ Index(w) \in Nat /\ Index(w) > 0
      /\ \A i \in Ids : Bits(Index(w), Offset[i], Width(i)) = Stored(w)[i]
      /\ Bits(Index(w), ForwardOffset, ResolutionWidth) = w.forward
      /\ Bits(Index(w), ReverseOffset, ResolutionWidth) = w.reverse
      /\ Index(w) % Two[TypeWidth] = w.type
  BY IndexFacts
<1>3. x = IF w.ba = 0 THEN -Index(w) ELSE Index(w)
  BY EncodeIs
<1> HIDE DEF x
<1>4. index = Index(w) /\ (x < 0 <=> w.ba = 0) /\ (x > 0 <=> w.ba = 1)
  BY <1>1, <1>2, <1>3
<1>5. [i \in Ids |-> IF x < 0 THEN Reversed(i, Bits(index, Offset[i], Width(i)))
                     ELSE Bits(index, Offset[i], Width(i))] = w.field
  <2>1. ASSUME NEW i \in Ids
        PROVE  (IF x < 0 THEN Reversed(i, Stored(w)[i]) ELSE Stored(w)[i]) = w.field[i]
    <3>1. w.field[i] \in 0 .. MaxValue(i) /\ MaxValue(i) \in Nat
      BY FormatFacts DEF Sound
    <3>2. Stored(w)[i] = IF w.ba = 1 THEN w.field[i] ELSE Reversed(i, w.field[i])
      BY StoredIsDigits
    <3>3. Reversed(i, Reversed(i, w.field[i])) = w.field[i]
      BY <3>1 DEF Reversed
    <3> QED
      BY <1>1, <1>4, <3>2, <3>3
  <2>2. w.field = [i \in Ids |-> w.field[i]]
    BY WordParts DEF Sound
  <2> HIDE DEF index
  <2>3. \A i \in Ids : (IF x < 0 THEN Reversed(i, Bits(index, Offset[i], Width(i)))
                        ELSE Bits(index, Offset[i], Width(i))) = w.field[i]
    BY <1>2, <1>4, <2>1
  <2> QED
    BY <2>2, <2>3
<1>6. Decode(x) = [ba      |-> IF x > 0 THEN 1 ELSE 0,
                   field   |-> [i \in Ids |->
                                  IF x < 0 THEN Reversed(i, Bits(index, Offset[i], Width(i)))
                                  ELSE Bits(index, Offset[i], Width(i))],
                   forward |-> Bits(index, ForwardOffset, ResolutionWidth),
                   reverse |-> Bits(index, ReverseOffset, ResolutionWidth),
                   type    |-> index % Two[TypeWidth]]
  BY DEF Decode
<1> HIDE DEF index
<1>7. (IF x > 0 THEN 1 ELSE 0) = w.ba
  BY <1>1, <1>4
<1>8. Decode(x) = [ba |-> w.ba, field |-> w.field, forward |-> w.forward,
                   reverse |-> w.reverse, type |-> w.type]
  BY <1>2, <1>4, <1>5, <1>6, <1>7
<1>9. Decode(x) = w
  BY <1>8, WordParts DEF Sound
<1> QED
  BY <1>9 DEF x

\* Words on one side of the start are packed in the order of their fields.
LEMMA EncodeOrders ==
  ASSUME NEW w, Sound(w), NEW v, Sound(v), NEW k \in Ids,
         \A j \in 1 .. k - 1 : Stored(w)[j] = Stored(v)[j], Stored(w)[k] < Stored(v)[k]
  PROVE  Index(w) < Index(v)
<1>1. Radix(BitRadix, BitPlace, 1) /\ BitPlace[Finest] = Two[LowBits]
  BY BitsAreRadix
<1>2. Digits(Stored(w), BitRadix) /\ Digits(Stored(v), BitRadix)
  BY StoredIsDigits
<1>3. Low(w) \in Nat /\ Low(w) < BitPlace[Finest] /\ Low(v) \in Nat
  BY <1>1, LowParts
<1>4. k \in 1 .. Finest
  BY FormatFacts
<1>5. Worth(Stored(w), BitPlace)[1] + Low(w) < Worth(Stored(v), BitPlace)[1] + Low(v)
  BY <1>1, <1>2, <1>3, <1>4, LaterDigit
<1> QED
  BY <1>5 DEF Index

-----------------------------------------------------------------------------
(***************************************************************************)
(* Words and milliseconds.                                                 *)
(***************************************************************************)
LEMMA FractionIs ==
  ASSUME NEW w, Sound(w)
  PROVE  /\ FractionOfYear(w) = Worth(w.field, ScalePlace)[2]
         /\ FractionOfYear(w) \in Nat
         /\ Digits(w.field, Radices)
<1>1. \A i \in Ids : w.field[i] \in 0 .. MaxValue(i) /\ MaxValue(i) \in Nat
  BY FormatFacts DEF Sound
<1>2. \A i \in Ids : Radices[i] = MaxValue(i) + 1 /\ ScalePlace[i] = Scale(i)
                     /\ ScalePlace[i] \in Nat
  BY ScalesAreRadix DEF Radix
<1>3. Digits(w.field, Radices)
  <2> SUFFICES ASSUME NEW i \in Ids PROVE w.field[i] \in Nat /\ w.field[i] < Radices[i]
    BY DEF Digits
  <2> QED
    BY <1>1, <1>2
<1>4. [i \in Ids |-> w.field[i] * Scale(i)] = [i \in Ids |-> w.field[i] * ScalePlace[i]]
  BY <1>2
<1>5. FractionOfYear(w) = Worth(w.field, ScalePlace)[2]
  BY <1>4 DEF FractionOfYear, Worth
<1>6. Worth(w.field, ScalePlace)[2] \in Nat
  <2>1. 2 \in 1 .. Finest + 1
    BY FormatFacts
  <2>2. \A k \in Ids : w.field[k] \in Nat /\ ScalePlace[k] \in Nat
    BY <1>2, <1>3 DEF Digits
  <2> QED
    BY <2>1, <2>2, WorthOf
<1> QED
  BY <1>3, <1>5, <1>6

\* The milliseconds into the year bring the fields below the year back.
LEMMA FractionDigits ==
  ASSUME NEW w, Sound(w)
  PROVE  \A i \in Ids : i # 1 =>
           (FractionOfYear(w) \div Scale(i)) % (MaxValue(i) + 1) = w.field[i]
<1> SUFFICES ASSUME NEW i \in Ids, i # 1
             PROVE  (FractionOfYear(w) \div Scale(i)) % (MaxValue(i) + 1) = w.field[i]
  OBVIOUS
<1>1. i \in 2 .. Finest
  BY FormatFacts
<1>2. Radix(Radices, ScalePlace, 2) /\ ScalePlace[Finest] = 1
      /\ Radices[i] = MaxValue(i) + 1 /\ ScalePlace[i] = Scale(i)
  BY ScalesAreRadix
<1>3. /\ FractionOfYear(w) = Worth(w.field, ScalePlace)[2]
      /\ FractionOfYear(w) \in Nat
      /\ Digits(w.field, Radices)
  BY FractionIs
<1>4. 0 \in Nat /\ 0 < ScalePlace[Finest]
  BY <1>2
<1>5. ((Worth(w.field, ScalePlace)[2] + 0) \div ScalePlace[i]) % Radices[i] = w.field[i]
  BY <1>1, <1>2, <1>3, <1>4, DigitOf
<1> QED
  BY <1>2, <1>3, <1>5

\* Fields are in range after they are set from milliseconds into the year.
LEMMA DatedIs ==
  ASSUME NEW w \in Words, NEW ba \in 0 .. 1, NEW year \in Int, NEW rest \in Int
  PROVE  /\ Dated(w, ba, year, rest) \in Words
         /\ Dated(w, ba, year, rest).ba = ba
         /\ Dated(w, ba, year, rest).field[1] = year
         /\ \A i \in Ids : i # 1 =>
              /\ Dated(w, ba, year, rest).field[i] = (rest \div Scale(i)) % (MaxValue(i) + 1)
              /\ Dated(w, ba, year, rest).field[i] \in 0 .. MaxValue(i)
         /\ Dated(w, ba, year, rest).forward = w.forward
         /\ Dated(w, ba, year, rest).reverse = w.reverse
         /\ Dated(w, ba, year, rest).type = w.type
<1> DEFINE g == [i \in Ids |-> IF i = 1 THEN year
                               ELSE (rest \div Scale(i)) % (MaxValue(i) + 1)]
<1>1. \A i \in Ids : Scale(i) \in Nat /\ Scale(i) > 0 /\ MaxValue(i) \in Nat
  BY FormatFacts, ScalesAreRadix DEF Radix
<1>2. 1 \in Ids
  BY FormatFacts
<1>3. ASSUME NEW i \in Ids, i # 1
      PROVE  (rest \div Scale(i)) % (MaxValue(i) + 1) \in 0 .. MaxValue(i)
  <2>1. rest \div Scale(i) \in Int
    BY <1>1
  <2>2. \A x \in Int, m \in Nat : x % (m + 1) \in 0 .. m
    OBVIOUS
  <2> QED
    BY <1>1, <2>1, <2>2
<1>4. g \in [Ids -> Int] /\ g[1] = year
      /\ \A i \in Ids : i # 1 => g[i] = (rest \div Scale(i)) % (MaxValue(i) + 1)
                                 /\ g[i] \in 0 .. MaxValue(i)
  BY <1>2, <1>3
<1>5. Dated(w, ba, year, rest) = [w EXCEPT !.ba = ba, !.field = g]
  BY DEF Dated
<1> HIDE DEF g
<1>6. Dated(w, ba, year, rest) = [ba |-> ba, field |-> g, forward |-> w.forward,
                                  reverse |-> w.reverse, type |-> w.type]
  BY <1>5, WordParts
<1>7. Dated(w, ba, year, rest) \in Words
  BY <1>4, <1>6, WordParts DEF Words
<1> QED
  BY <1>4, <1>6, <1>7

LEMMA YearOf ==
  ASSUME NEW ms \in Int
  PROVE  /\ Scale(1) \in Nat /\ Scale(1) > 0
         /\ ms \div Scale(1) \in Int
         /\ ms - (ms \div Scale(1)) * Scale(1) \in Int
         /\ (ms \div Scale(1)) * Scale(1) <= ms
         /\ ms < ((ms \div Scale(1)) + 1) * Scale(1)
<1>1. Scale(1) \in Nat /\ Scale(1) > 0
  <2>1. 1 \in Ids
    BY FormatFacts
  <2>2. \A k \in Ids : ScalePlace[k] > 0
    BY ScalesAreRadix DEF Radix
  <2>3. ScalePlace[1] > 0 /\ ScalePlace[1] = Scale(1)
    BY <2>1, <2>2, ScalesAreRadix
  <2> QED
    BY <2>1, <2>3, FormatFacts
<1> DEFINE f == Scale(1)
<1>2. f \in Nat /\ f > 0
  BY <1>1
<1> HIDE DEF f
<1> DEFINE q == ms \div f
<1>3. q \in Int /\ ms = f * q + (ms % f) /\ ms % f \in 0 .. f - 1
  BY <1>2
<1> HIDE DEF q
<1>4. f * q = q * f /\ (q + 1) * f = q * f + f /\ q * f \in Int
  BY <1>2, <1>3
<1>5. q * f <= ms /\ ms < (q + 1) * f /\ ms - q * f \in Int
  BY <1>2, <1>3, <1>4
<1> QED
  BY <1>1, <1>3, <1>5 DEF f, q

\* Whatever millisecond a word is set to, it is sound, and there is no year 0
\* after the start.
LEMMA FromMillisecondsIsSound ==
  ASSUME NEW w \in Words, w.type = 1, NEW ms \in Int, Representable(ms)
  PROVE  /\ Sound(FromMilliseconds(w, ms))
         /\ ~NoSuchYear(FromMilliseconds(w, ms))
         /\ FromMilliseconds(w, ms).forward = w.forward
         /\ FromMilliseconds(w, ms).reverse = w.reverse
<1> DEFINE f == Scale(1)
           q == ms \div Scale(1)
           rest == ms - q * f
           m == MaxValue(1)
<1>1. /\ f \in Nat /\ f > 0 /\ q \in Int /\ rest \in Int
      /\ q * f <= ms /\ ms < (q + 1) * f
  BY YearOf
<1>2. m \in Nat /\ m > 0 /\ 1 \in Ids
  BY FormatFacts
<1>3. -m * f <= ms /\ ms <= (m + 1) * f - 1
  BY DEF Representable, FirstMillisecond, LastMillisecond
<1>4. FromMilliseconds(w, ms) = IF ms < f THEN Dated(w, 0, -q, rest)
                                ELSE Dated(w, 1, q % (m + 1), rest)
  BY DEF FromMilliseconds
<1> HIDE DEF f, q, rest, m
<1>5. \A x, y \in Int : x * f < y * f => x < y
  <2> SUFFICES ASSUME NEW x \in Int, NEW y \in Int, x * f < y * f, y <= x PROVE FALSE
    OBVIOUS
  <2>1. (x - y) * f >= 0
    BY <1>1
  <2>2. (x - y) * f = x * f - y * f
    BY <1>1
  <2> QED
    BY <1>1, <2>1, <2>2
<1>6. ASSUME ms < f PROVE -q \in 0 .. m
  <2>1. q * f < 1 * f
    BY <1>1, <1>6
  <2>2. q <= 0
    BY <1>1, <1>5, <2>1
  <2>3. (-m) * f < (q + 1) * f
    <3>1. (-m) * f = -m * f /\ -m * f \in Int /\ (q + 1) * f \in Int
      BY <1>1, <1>2
    <3> QED
      BY <1>1, <1>3, <3>1
  <2>4. -m < q + 1
    BY <1>1, <1>2, <1>5, <2>3
  <2> QED
    BY <1>1, <1>2, <2>2, <2>4
<1>7. ASSUME ~(ms < f) PROVE q % (m + 1) = q /\ q \in 1 .. m
  <2>1. 1 * f < (q + 1) * f
    BY <1>1, <1>7
  <2>2. 0 < q
    BY <1>1, <1>5, <2>1
  <2>3. q * f < (m + 1) * f
    BY <1>1, <1>2, <1>3
  <2>4. q < m + 1
    BY <1>1, <1>2, <1>5, <2>3
  <2>5. \A x, y \in Nat : x <= y => x % (y + 1) = x
    OBVIOUS
  <2> QED
    BY <1>1, <1>2, <2>2, <2>4, <2>5
<1>8. ASSUME NEW ba \in 0 .. 1, NEW year \in 0 .. m
      PROVE  LET v == Dated(w, ba, year, rest)
             IN  Sound(v) /\ v.ba = ba /\ v.field[1] = year
                 /\ v.forward = w.forward /\ v.reverse = w.reverse
  <2> DEFINE v == Dated(w, ba, year, rest)
  <2>1. /\ v \in Words /\ v.ba = ba /\ v.field[1] = year
        /\ \A i \in Ids : i # 1 => v.field[i] \in 0 .. MaxValue(i)
        /\ v.forward = w.forward /\ v.reverse = w.reverse /\ v.type = w.type
    BY <1>1, <1>2, DatedIs
  <2> HIDE DEF v
  <2>2. Sound(v)
    BY <2>1 DEF Sound, m
  <2> QED
    BY <2>1, <2>2 DEF v
<1>9. CASE ms < f
  <2>1. FromMilliseconds(w, ms) = Dated(w, 0, -q, rest)
    BY <1>4, <1>9
  <2>2. 0 \in 0 .. 1 /\ -q \in 0 .. m
    BY <1>6, <1>9
  <2> QED
    BY <1>8, <2>1, <2>2 DEF NoSuchYear
<1>10. CASE ~(ms < f)
  <2>1. FromMilliseconds(w, ms) = Dated(w, 1, q, rest)
    BY <1>4, <1>7, <1>10
  <2>2. 1 \in 0 .. 1 /\ q \in 0 .. m /\ q # 0
    BY <1>2, <1>7, <1>10
  <2> QED
    BY <1>8, <2>1, <2>2 DEF NoSuchYear
<1> QED
  BY <1>9, <1>10

\* A word whose year is not overfull comes back from its milliseconds.
LEMMA MillisecondsRoundTrip ==
  ASSUME NEW w, Sound(w), ~NoSuchYear(w), FractionOfYear(w) < Scale(1)
  PROVE  FromMilliseconds(w, Milliseconds(w)) = w
<1> DEFINE f == Scale(1)
           m == MaxValue(1)
           y == w.field[1]
           t == FractionOfYear(w)
           q == IF w.ba = 1 THEN y ELSE -y
           ms == Milliseconds(w)
<1>1. /\ f \in Nat /\ f > 0 /\ m \in Nat /\ m > 0 /\ 1 \in Ids
      /\ t \in Nat /\ t < f
      /\ w.ba \in 0 .. 1 /\ w \in Words
      /\ y \in 0 .. m /\ (w.ba = 1 => y # 0)
  BY FormatFacts, YearOf, FractionIs, WordParts DEF Sound, NoSuchYear
<1>2. ms = q * f + t
  <2>1. ms = (IF w.ba = 1 THEN 1 ELSE -1) * y * f + t
    BY DEF Milliseconds
  <2>2. (IF w.ba = 1 THEN 1 ELSE -1) * y = q
    BY <1>1
  <2> QED
    BY <2>1, <2>2
<1>3. \A i \in Ids : i # 1 => (t \div Scale(i)) % (MaxValue(i) + 1) = w.field[i]
  BY FractionDigits
<1> DEFINE back == FromMilliseconds(w, ms)
<1>4. back = IF ms < f THEN Dated(w, 0, -(ms \div f), ms - (ms \div f) * f)
             ELSE Dated(w, 1, (ms \div f) % (m + 1), ms - (ms \div f) * f)
  BY DEF FromMilliseconds
<1> HIDE DEF f, m, y, t, ms, back
<1>5. q \in Int
  BY <1>1
<1>6. ms \div f = q /\ ms - q * f = t /\ q * f \in Int
  BY <1>1, <1>2, <1>5, Quotient
<1>7. back = Dated(w, w.ba, y, t)
  <2>1. CASE w.ba = 1
    <3>1. q = y /\ q > 0 /\ q <= m
      BY <1>1, <2>1
    <3> HIDE DEF q
    <3>2. ~(ms < f)
      <4>1. (q - 1) * f >= 0
        BY <1>1, <1>5, <3>1
      <4>2. (q - 1) * f = q * f - f
        BY <1>1, <1>5
      <4> QED
        BY <1>1, <1>2, <1>6, <4>1, <4>2
    <3>3. q % (m + 1) = q
      <4>1. \A a, b \in Nat : a <= b => a % (b + 1) = a
        OBVIOUS
      <4> QED
        BY <1>1, <1>5, <3>1, <4>1
    <3> QED
      BY <1>4, <1>6, <2>1, <3>1, <3>2, <3>3
  <2>2. CASE w.ba # 1
    <3>1. w.ba = 0 /\ q = -y /\ q <= 0 /\ -q = y
      BY <1>1, <2>2
    <3> HIDE DEF q
    <3>2. ms < f
      <4>1. (-q) * f >= 0
        BY <1>1, <1>5, <3>1
      <4>2. (-q) * f = -(q * f)
        BY <1>1, <1>5
      <4> QED
        BY <1>1, <1>2, <1>6, <4>1, <4>2
    <3> QED
      BY <1>4, <1>6, <3>1, <3>2
  <2> QED
    BY <2>1, <2>2
<1> HIDE DEF q
<1> DEFINE v == Dated(w, w.ba, y, t)
<1>8. /\ v \in Words /\ v.ba = w.ba /\ v.field[1] = y
      /\ \A i \in Ids : i # 1 => v.field[i] = (t \div Scale(i)) % (MaxValue(i) + 1)
      /\ v.forward = w.forward /\ v.reverse = w.reverse /\ v.type = w.type
  BY <1>1, DatedIs
<1> HIDE DEF v
<1>9. \A i \in Ids : v.field[i] = w.field[i]
  BY <1>3, <1>8 DEF y
<1>10. v.field = w.field
  <2>1. v.field \in [Ids -> Int] /\ w.field \in [Ids -> Int]
    BY <1>1, <1>8, WordParts
  <2> QED
    BY <1>9, <2>1
<1>11. v = w
  <2>1. /\ v = [ba |-> v.ba, field |-> v.field, forward |-> v.forward,
                reverse |-> v.reverse, type |-> v.type]
        /\ w = [ba |-> w.ba, field |-> w.field, forward |-> w.forward,
                reverse |-> w.reverse, type |-> w.type]
    BY <1>1, <1>8, WordParts
  <2> QED
    BY <1>8, <1>10, <2>1
<1> QED
  BY <1>7, <1>11 DEF back, v, ms
=============================================================================
