---------------------- MODULE HtmRangeMultiLevelProofs ----------------------
(***************************************************************************)
(* Theorems about HtmRangeMultiLevel for every number of roots, fan-out,   *)
(* depth and level mask, every KEY_MAX no index value exceeds, and every   *)
(* set of ranges that leaves out the last triangle of the sphere.          *)
(*                                                                         *)
(* RangeIsWellFormed is not inductive: the turns of mergeRange rely on     *)
(* what the loop has already passed (Behind), on what is left to merge     *)
(* being whole triangles (LeftToMerge), and case 5.2 on nothing reaching   *)
(* over the end of the triangle the current interval ends in (NoStraddle). *)
(***************************************************************************)
EXTENDS HtmRangeMultiLevel, EmbeddedLevelLemmas, TLAPS

-----------------------------------------------------------------------------
(***************************************************************************)
(* Lemmas about the two lists: where the iterators go, what a rewriting of *)
(* a stretch of the lists leaves, and which level each position then has.  *)
(* Most are stated of any function f from low ends to high ends and set H, *)
(* so that they can be used of the lists before and after a step.          *)
(***************************************************************************)

\* A run of whole triangles of the level its low end carries.
IsInterval(l, h) ==
  /\ l \in 0 .. EndOfKeys - 1 /\ h \in 0 .. EndOfKeys - 1
  /\ l < h
  /\ LevelById(l) \in Levels
  /\ Aligned(l - LevelById(l), LevelById(l))
  /\ Aligned(h + 1, LevelById(l))

\* The lists hold such runs, one above the other, and nothing else.
Good(f, H) ==
  /\ \A l \in DOMAIN f : IsInterval(l, f[l])
  /\ \A l1, l2 \in DOMAIN f : l1 < l2 => f[l1] < l2
  /\ H = {f[l] : l \in DOMAIN f}

LEMMA KeyBounds ==
  /\ KEY_MAX \in Nat /\ EndOfKeys \in Nat /\ EndOfKeys > 0 /\ EndOfKeys - 1 <= KEY_MAX
  /\ \A x \in 0 .. EndOfKeys - 1 : x \in Nat /\ x <= KEY_MAX /\ x < EndOfKeys
<1>1. 0 \in Levels
  BY LevelConstants DEF Levels
<1>2. EndOfKeys \in Nat /\ EndOfKeys > 0
  BY <1>1, EndIsAligned
<1>3. KEY_MAX \in Nat /\ EndOfKeys - 1 <= KEY_MAX
  BY <1>2, KeyMaxAssumption, HtmRangeMultiLevelAssumption
<1> QED
  BY <1>2, <1>3

\* The keys of the two lists.
LEMMA GoodKeys ==
  ASSUME NEW f, NEW H, Good(f, H)
  PROVE  /\ DOMAIN f \in SUBSET Nat /\ H \in SUBSET Nat
         /\ DOMAIN f \subseteq 0 .. EndOfKeys - 1 /\ H \subseteq 0 .. EndOfKeys - 1
         /\ \A x \in DOMAIN f \cup H : x \in Nat /\ x <= KEY_MAX /\ x < EndOfKeys
         /\ \A l \in DOMAIN f : l \in Nat /\ f[l] \in Nat /\ f[l] \in H /\ l < f[l]
BY KeyBounds DEF Good, IsInterval

LEMMA PositionsAreNotKeys ==
  ASSUME NEW f, NEW H, Good(f, H)
  PROVE  /\ Header \notin DOMAIN f \cup H /\ Nil \notin DOMAIN f \cup H
         /\ Freed \notin DOMAIN f \cup H
         /\ Header # Nil /\ Header # Freed /\ Nil # Freed /\ Header > 0
BY GoodKeys, KeyBounds DEF Header, Nil, Freed

-----------------------------------------------------------------------------
(***************************************************************************)
(* Where the two iterators go: together, to the ends of one interval.      *)
(***************************************************************************)
LEMMA FirstTogether ==
  ASSUME NEW f, NEW H, Good(f, H)
  PROVE  \/ First(DOMAIN f) = Nil /\ First(H) = Nil /\ DOMAIN f = {} /\ H = {}
         \/ /\ First(DOMAIN f) \in DOMAIN f
            /\ First(H) = f[First(DOMAIN f)]
            /\ \A x \in DOMAIN f : First(DOMAIN f) <= x
<1> DEFINE l == First(DOMAIN f)
           h == First(H)
<1>1. /\ DOMAIN f \in SUBSET Nat /\ H \in SUBSET Nat
      /\ \A x \in DOMAIN f : x \in Nat /\ f[x] \in Nat /\ f[x] \in H /\ x < f[x]
      /\ \A x, y \in DOMAIN f : x < y => f[x] < y
      /\ H = {f[x] : x \in DOMAIN f}
  BY GoodKeys, PositionsAreNotKeys DEF Good
<1>2. \/ l = Nil /\ DOMAIN f = {}
      \/ l \in DOMAIN f /\ \A x \in DOMAIN f : l <= x
  BY <1>1, FirstOfNats
<1>3. \/ h = Nil /\ H = {}
      \/ h \in H /\ \A x \in H : h <= x
  BY <1>1, FirstOfNats
<1> HIDE DEF l, h
<1>4. CASE l = Nil /\ DOMAIN f = {}
  BY <1>1, <1>3, <1>4 DEF l, h
<1>5. CASE l \in DOMAIN f /\ \A x \in DOMAIN f : l <= x
  <2>1. h \in H /\ \A x \in H : h <= x
    BY <1>1, <1>3, <1>5
  <2>2. PICK m \in DOMAIN f : h = f[m]
    BY <1>1, <2>1
  <2>3. h <= f[l]
    BY <1>1, <1>5, <2>1
  <2>4. m = l
    BY <1>1, <1>5, <2>2, <2>3
  <2> QED
    BY <1>5, <2>2, <2>4 DEF l, h
<1> QED
  BY <1>2, <1>4, <1>5

LEMMA AfterTogether ==
  ASSUME NEW f, NEW H, Good(f, H), NEW e \in DOMAIN f
  PROVE  \/ /\ After(DOMAIN f, e) = Nil /\ After(H, f[e]) = Nil
            /\ \A x \in DOMAIN f : x <= e
         \/ /\ After(DOMAIN f, e) \in DOMAIN f /\ e < After(DOMAIN f, e)
            /\ After(H, f[e]) = f[After(DOMAIN f, e)]
            /\ \A x \in DOMAIN f : e < x => After(DOMAIN f, e) <= x
<1> DEFINE l == After(DOMAIN f, e)
           h == After(H, f[e])
<1>1. /\ DOMAIN f \in SUBSET Nat /\ H \in SUBSET Nat
      /\ \A x \in DOMAIN f : x \in Nat /\ f[x] \in Nat /\ f[x] \in H /\ x < f[x]
      /\ \A x, y \in DOMAIN f : x < y => f[x] < y
      /\ H = {f[x] : x \in DOMAIN f}
  BY GoodKeys DEF Good
<1>0. e \in Nat /\ e # Header /\ f[e] \in Nat /\ f[e] # Header
  BY <1>1, PositionsAreNotKeys
<1>2. \/ l = Nil /\ \A x \in DOMAIN f : x <= e
      \/ l \in DOMAIN f /\ e < l /\ \A x \in DOMAIN f : e < x => l <= x
  BY <1>0, <1>1, AfterOfNats
<1>3. \/ h = Nil /\ \A x \in H : x <= f[e]
      \/ h \in H /\ f[e] < h /\ \A x \in H : f[e] < x => h <= x
  BY <1>0, <1>1, AfterOfNats
<1> HIDE DEF l, h
<1>4. CASE l = Nil /\ \A x \in DOMAIN f : x <= e
  <2>1. ASSUME h \in H, f[e] < h PROVE FALSE
    <3>1. PICK m \in DOMAIN f : h = f[m]
      BY <1>1, <2>1
    <3>2. m <= e
      BY <1>4
    <3> QED
      BY <1>1, <2>1, <3>1, <3>2
  <2> QED
    BY <1>3, <1>4, <2>1 DEF l, h
<1>5. CASE l \in DOMAIN f /\ e < l /\ \A x \in DOMAIN f : e < x => l <= x
  <2>1. f[e] < f[l] /\ f[l] \in H
    BY <1>1, <1>5
  <2>2. h \in H /\ f[e] < h /\ h <= f[l]
    BY <1>1, <1>3, <2>1
  <2>3. PICK m \in DOMAIN f : h = f[m]
    BY <1>1, <2>2
  <2>4. e < m
    BY <1>1, <2>2, <2>3
  <2>5. m = l
    BY <1>1, <1>5, <2>2, <2>3, <2>4
  <2> QED
    BY <1>5, <2>3, <2>5 DEF l, h
<1> QED
  BY <1>2, <1>4, <1>5

-----------------------------------------------------------------------------
(***************************************************************************)
(* What Rewrite leaves, when freed takes whole intervals and the new ones  *)
(* neither overlap each other nor what is kept.                            *)
(***************************************************************************)
Fits(from, to, intervals) ==
  /\ \A i \in intervals : IsInterval(i[1], i[2])
  /\ \A i, j \in intervals : i = j \/ i[2] < j[1] \/ j[2] < i[1]
  /\ \A l \in Lows : \/ to < from \/ los[l] < from \/ to < l
                     \/ from <= l /\ los[l] <= to
  /\ \A l \in Lows, i \in intervals :
        (from <= l /\ l <= to) \/ los[l] < i[1] \/ i[2] < l

\* The lists after such a rewriting.
Leaves(from, to, intervals) ==
  /\ Good(los', his')
  /\ DOMAIN los' = {l \in Lows : l < from \/ to < l} \cup {i[1] : i \in intervals}
  /\ \A l \in Lows : l < from \/ to < l => los'[l] = los[l]
  /\ \A i \in intervals : los'[i[1]] = i[2]

LEMMA Rewritten ==
  ASSUME Good(los, his), NEW from \in Int, NEW to \in Int, NEW intervals,
         Fits(from, to, intervals), Rewrite(<<from, to>>, intervals)
  PROVE  Leaves(from, to, intervals)
<1> DEFINE kept == {l \in Lows : l < from \/ to < l}
           Value(l) == IF \E i \in intervals : i[1] = l
                       THEN (CHOOSE i \in intervals : i[1] = l)[2]
                       ELSE los[l]
<1>1. /\ \A l \in Lows : IsInterval(l, los[l]) /\ l \in Nat /\ los[l] \in Nat /\ l < los[l]
      /\ \A l1, l2 \in Lows : l1 < l2 => los[l1] < l2
      /\ his = {los[l] : l \in Lows}
  BY GoodKeys DEF Good, Lows
<1>2. /\ \A i \in intervals : IsInterval(i[1], i[2]) /\ i[1] \in Int /\ i[2] \in Int /\ i[1] < i[2]
      /\ \A i, j \in intervals : i = j \/ i[2] < j[1] \/ j[2] < i[1]
      /\ \A l \in Lows : \/ to < from \/ los[l] < from \/ to < l
                         \/ from <= l /\ los[l] <= to
      /\ \A l \in Lows, i \in intervals :
            (from <= l /\ l <= to) \/ los[l] < i[1] \/ i[2] < l
  BY DEF Fits, IsInterval
<1>3. /\ los' = [l \in kept \cup {i[1] : i \in intervals} |-> Value(l)]
      /\ his' = {x \in his : x < from \/ to < x} \cup {i[2] : i \in intervals}
  BY DEF Rewrite, FreeRange
<1>4. \A i \in intervals : Value(i[1]) = i[2]
  <2> TAKE i \in intervals
  <2>1. \A j \in intervals : j[1] = i[1] => j = i
    BY <1>2
  <2>2. (CHOOSE j \in intervals : j[1] = i[1]) = i
    BY <2>1
  <2> QED
    BY <2>2
<1>5. \A l \in kept : ~\E i \in intervals : i[1] = l
  BY <1>1, <1>2
<1>6. \A l \in kept : Value(l) = los[l]
  BY <1>5
<1> HIDE DEF Value
<1>7. /\ DOMAIN los' = kept \cup {i[1] : i \in intervals}
      /\ \A l \in kept : los'[l] = los[l]
      /\ \A i \in intervals : los'[i[1]] = i[2]
  BY <1>3, <1>4, <1>6
<1>8. \A l \in DOMAIN los' : IsInterval(l, los'[l])
  BY <1>1, <1>2, <1>7
<1>9. ASSUME NEW l1 \in DOMAIN los', NEW l2 \in DOMAIN los', l1 < l2
      PROVE  los'[l1] < l2
  <2>1. CASE l1 \in kept /\ l2 \in kept
    BY <2>1, <1>1, <1>7, <1>9
  <2>2. ASSUME l1 \in kept, NEW i \in intervals, l2 = i[1] PROVE los'[l1] < l2
    BY <2>2, <1>1, <1>2, <1>7, <1>9
  <2>3. ASSUME NEW i \in intervals, l1 = i[1], l2 \in kept PROVE los'[l1] < l2
    BY <2>3, <1>1, <1>2, <1>7, <1>9
  <2>4. ASSUME NEW i \in intervals, l1 = i[1], NEW j \in intervals, l2 = j[1]
        PROVE  los'[l1] < l2
    BY <2>4, <1>2, <1>7, <1>9
  <2> QED
    BY <2>1, <2>2, <2>3, <2>4, <1>7
<1>10. his' = {los'[l] : l \in DOMAIN los'}
  <2>1. ASSUME NEW h \in his' PROVE h \in {los'[l] : l \in DOMAIN los'}
    <3>1. CASE h \in his /\ (h < from \/ to < h)
      <4>1. PICK l \in Lows : h = los[l]
        BY <3>1, <1>1
      <4>2. l \in kept
        BY <4>1, <3>1, <1>1, <1>2
      <4> QED
        BY <4>1, <4>2, <1>7
    <3>2. ASSUME NEW i \in intervals, h = i[2] PROVE h \in {los'[l] : l \in DOMAIN los'}
      BY <3>2, <1>7
    <3> QED
      BY <3>1, <3>2, <1>3
  <2>2. ASSUME NEW l \in DOMAIN los' PROVE los'[l] \in his'
    <3>1. CASE l \in kept
      <4>1. los[l] < from \/ to < los[l]
        BY <3>1, <1>1, <1>2
      <4> QED
        BY <3>1, <4>1, <1>1, <1>3, <1>7
    <3>2. ASSUME NEW i \in intervals, l = i[1] PROVE los'[l] \in his'
      BY <3>2, <1>3, <1>7
    <3> QED
      BY <3>1, <3>2, <1>7
  <2> QED
    BY <2>1, <2>2
<1> QED
  BY <1>7, <1>8, <1>9, <1>10 DEF Good, Leaves

-----------------------------------------------------------------------------
(***************************************************************************)
(* The level each position is covered at.                                  *)
(***************************************************************************)
MapOf(f) ==
  LET levels(p) == {LevelById(l) : l \in {x \in DOMAIN f : /\ Position(x) <= p
                                                           /\ p <= Position(f[x])}}
  IN  [p \in Positions |-> Min(levels(p) \cup {Depth + 1})]

LEMMA LevelAtIsMap == LevelAt = MapOf(los) /\ Lows = DOMAIN los
BY DEF LevelAt, MapOf, Lows

\* The interval l .. h reaches over position p.
Over(l, h, p) == l <= KeyOf(p) /\ KeyOf(p) <= h

LEMMA LevelOfPosition ==
  ASSUME NEW f, NEW H, Good(f, H), NEW p \in Positions
  PROVE  /\ \A l \in DOMAIN f : Over(l, f[l], p) => MapOf(f)[p] = LevelById(l)
         /\ (\A l \in DOMAIN f : ~Over(l, f[l], p)) => MapOf(f)[p] = Depth + 1
<1> DEFINE at == {x \in DOMAIN f : Position(x) <= p /\ p <= Position(f[x])}
           levels == {LevelById(l) : l \in at}
<1>1. MapOf(f)[p] = Min(levels \cup {Depth + 1})
  BY DEF MapOf
<1>2. p \in Int /\ KeyOf(p) \in Int
  BY KeyOfFacts DEF Positions
<1>3. \A l \in DOMAIN f : l \in at <=> Over(l, f[l], p)
  <2> TAKE l \in DOMAIN f
  <2>1. l \in Int /\ f[l] \in Int /\ LevelById(l) \in Levels /\ Aligned(f[l] + 1, LevelById(l))
    BY DEF Good, IsInterval
  <2>2. (Position(l) <= p <=> l <= KeyOf(p)) /\ (p <= Position(f[l]) <=> KeyOf(p) <= f[l])
    BY <1>2, <2>1, PositionBelow, PositionAbove
  <2> QED
    BY <2>2 DEF Over
<1>4. ASSUME NEW l \in DOMAIN f, Over(l, f[l], p) PROVE MapOf(f)[p] = LevelById(l)
  <2>1. \A x \in at : x = l
    <3> TAKE x \in at
    <3>1. Over(x, f[x], p) /\ x \in DOMAIN f
      BY <1>3
    <3>2. /\ x \in Nat /\ l \in Nat /\ f[x] \in Nat /\ f[l] \in Nat
          /\ x < l => f[x] < l
          /\ l < x => f[l] < x
      BY <1>4, <3>1, GoodKeys DEF Good
    <3> QED
      BY <1>2, <1>4, <3>1, <3>2 DEF Over
  <2>2. levels = {LevelById(l)}
    BY <1>3, <1>4, <2>1
  <2>3. LevelById(l) \in Int /\ LevelById(l) < Depth + 1 /\ Depth + 1 \in Int
    BY LevelConstants DEF Good, IsInterval
  <2> DEFINE v == LevelById(l)
             d == Depth + 1
  <2>4. v \in Int /\ v < d /\ d \in Int
    BY <2>3
  <2> HIDE DEF v, d
  <2>5. v \in {v, d} /\ \A y \in {v, d} : v <= y
    BY <2>4
  <2>6. \A x \in {v, d} : (\A y \in {v, d} : x <= y) => x = v
    BY <2>4
  <2>7. Min({v, d}) = v
    BY <2>5, <2>6 DEF Min
  <2>8. levels \cup {Depth + 1} = {v, d}
    BY <2>2 DEF v, d
  <2> QED
    BY <1>1, <2>7, <2>8 DEF v
<1>5. ASSUME \A l \in DOMAIN f : ~Over(l, f[l], p) PROVE MapOf(f)[p] = Depth + 1
  <2>1. levels \cup {Depth + 1} = {Depth + 1}
    BY <1>3, <1>5
  <2> DEFINE d == Depth + 1
  <2>2. d \in Int
    BY LevelConstants
  <2> HIDE DEF d
  <2>3. Min({d}) = d
    BY <2>2 DEF Min
  <2> QED
    BY <1>1, <2>1, <2>3 DEF d
<1> QED
  BY <1>4, <1>5

LEMMA MapIsTyped ==
  ASSUME NEW f, NEW H, Good(f, H)
  PROVE  MapOf(f) \in [Positions -> 0 .. Depth + 1]
<1>1. ASSUME NEW p \in Positions PROVE MapOf(f)[p] \in 0 .. Depth + 1
  <2>1. CASE \E l \in DOMAIN f : Over(l, f[l], p)
    <3>1. PICK l \in DOMAIN f : Over(l, f[l], p)
      BY <2>1
    <3>2. MapOf(f)[p] = LevelById(l) /\ LevelById(l) \in Levels
      BY <3>1, LevelOfPosition DEF Good, IsInterval
    <3> QED
      BY <3>2, LevelConstants DEF Levels
  <2>2. CASE \A l \in DOMAIN f : ~Over(l, f[l], p)
    BY <2>2, LevelOfPosition, LevelConstants
  <2> QED
    BY <2>1, <2>2
<1> QED
  BY <1>1 DEF MapOf

\* What a rewriting does to the map: the new intervals give their levels, what
\* was freed and not replaced is uncovered, and the rest is as before.
LeavesAt(from, to, intervals, p) ==
  /\ KeyOf(p) \in Int
  /\ \A i \in intervals : Over(i[1], i[2], p) => MapOf(los')[p] = LevelById(i[1])
  /\ (\A i \in intervals : ~Over(i[1], i[2], p)) =>
       IF from <= KeyOf(p) /\ KeyOf(p) <= to
       THEN MapOf(los')[p] = Depth + 1
       ELSE MapOf(los')[p] = MapOf(los)[p]

LEMMA RewrittenMap ==
  ASSUME Good(los, his), NEW from \in Int, NEW to \in Int, NEW intervals,
         Fits(from, to, intervals), Rewrite(<<from, to>>, intervals),
         NEW p \in Positions
  PROVE  LeavesAt(from, to, intervals, p)
<1>1. /\ Good(los', his')
      /\ DOMAIN los' = {l \in Lows : l < from \/ to < l} \cup {i[1] : i \in intervals}
      /\ \A l \in Lows : l < from \/ to < l => los'[l] = los[l]
      /\ \A i \in intervals : los'[i[1]] = i[2]
  <2>1. Leaves(from, to, intervals)
    BY Rewritten
  <2> QED
    BY <2>1 DEF Leaves
<1>2. KeyOf(p) \in Int
  BY KeyOfFacts DEF Positions
<1>3. /\ \A l \in DOMAIN los' : Over(l, los'[l], p) => MapOf(los')[p] = LevelById(l)
      /\ (\A l \in DOMAIN los' : ~Over(l, los'[l], p)) => MapOf(los')[p] = Depth + 1
  BY <1>1, LevelOfPosition
<1>4. /\ \A l \in Lows : Over(l, los[l], p) => MapOf(los)[p] = LevelById(l)
      /\ (\A l \in Lows : ~Over(l, los[l], p)) => MapOf(los)[p] = Depth + 1
  BY LevelOfPosition DEF Lows
<1>5. \A i \in intervals : Over(i[1], i[2], p) => MapOf(los')[p] = LevelById(i[1])
  BY <1>1, <1>3
<1>6. ASSUME \A i \in intervals : ~Over(i[1], i[2], p)
      PROVE  IF from <= KeyOf(p) /\ KeyOf(p) <= to
             THEN MapOf(los')[p] = Depth + 1
             ELSE MapOf(los')[p] = MapOf(los)[p]
  <2>1. \A l \in Lows : l \in Nat /\ los[l] \in Nat /\ l < los[l]
    BY GoodKeys DEF Lows
  <2>2. \A l \in Lows : \/ to < from \/ los[l] < from \/ to < l
                        \/ from <= l /\ los[l] <= to
    BY DEF Fits
  <2>3. CASE from <= KeyOf(p) /\ KeyOf(p) <= to
    <3>1. ASSUME NEW l \in DOMAIN los', Over(l, los'[l], p) PROVE FALSE
      <4>1. l \in Lows /\ (l < from \/ to < l) /\ los'[l] = los[l]
        BY <1>1, <1>6, <3>1
      <4>2. los[l] < from \/ to < l
        BY <2>1, <2>2, <2>3, <4>1, <1>2
      <4> QED
        BY <4>1, <4>2, <2>1, <2>3, <3>1, <1>2 DEF Over
    <3> QED
      BY <3>1, <2>3, <1>3
  <2>4. CASE ~(from <= KeyOf(p) /\ KeyOf(p) <= to)
    <3>1. CASE \E l \in Lows : Over(l, los[l], p)
      <4>1. PICK l \in Lows : Over(l, los[l], p)
        BY <3>1
      <4>2. l < from \/ to < l
        BY <4>1, <2>1, <2>2, <2>4, <1>2 DEF Over
      <4>3. l \in DOMAIN los' /\ los'[l] = los[l]
        BY <4>1, <4>2, <1>1
      <4> QED
        BY <4>1, <4>3, <2>4, <1>3, <1>4
    <3>2. CASE \A l \in Lows : ~Over(l, los[l], p)
      <4>1. \A l \in DOMAIN los' : ~Over(l, los'[l], p)
        BY <3>2, <1>1, <1>6
      <4> QED
        BY <4>1, <3>2, <2>4, <1>3, <1>4
    <3> QED
      BY <3>1, <3>2
  <2> QED
    BY <2>3, <2>4
<1> QED
  BY <1>2, <1>5, <1>6 DEF LeavesAt

-----------------------------------------------------------------------------
(***************************************************************************)
(* The pieces CompressionPass makes of an interval.                        *)
(***************************************************************************)
\* How far it is to the next multiple.
LEMMA ToNextMultiple ==
  ASSUME NEW f \in Nat, f > 0, NEW n \in Int
  PROVE  /\ (f - (n % f)) % f \in Nat
         /\ \E c \in Int : n + ((f - (n % f)) % f) = c * f
         /\ (f - (n % f)) % f <= f + (n % f)
         /\ n % f \in Nat
<1> DEFINE r == n % f
           q == n \div f
           t == (f - r) % f
<1>1. r \in 0 .. f - 1 /\ q \in Int /\ n = q * f + r
  OBVIOUS
<1> HIDE DEF r, q
<1>2. ASSUME r = 0 PROVE t = 0 /\ n + t = q * f
  <2>1. f - r = f /\ 1 * f = f
    BY <1>1, <1>2
  <2>2. f \div f = 1
    BY <1>1, <2>1, DivisionLaw
  <2>3. t = 0
    BY <1>1, <2>1, <2>2, DivisionLaw
  <2> QED
    BY <1>1, <1>2, <2>3
<1>3. ASSUME r > 0 PROVE t = f - r /\ n + t = (q + 1) * f
  <2>1. f - r \in Int /\ 0 * f = 0
    BY <1>1
  <2>2. 0 * f <= f - r /\ f - r < 0 * f + f
    BY <1>1, <1>3, <2>1
  <2>3. 0 = (f - r) \div f
    BY <1>1, <2>1, <2>2, DivisionLaw
  <2>4. t = f - r
    BY <1>1, <2>1, <2>3, DivisionLaw
  <2> QED
    BY <1>1, <2>4
<1> HIDE DEF t
<1>4. t \in Nat /\ t <= f + r /\ r \in Nat
  BY <1>1, <1>2, <1>3
<1>5. \E c \in Int : n + t = c * f
  <2>1. CASE r = 0
    <3>1. q \in Int /\ n + t = q * f
      BY <1>1, <1>2, <2>1
    <3> QED
      BY <3>1
  <2>2. CASE r > 0
    <3>1. q + 1 \in Int /\ n + t = (q + 1) * f
      BY <1>1, <1>3, <2>2
    <3> QED
      BY <3>1
  <2> QED
    BY <1>1, <2>1, <2>2
<1>6. t = (f - (n % f)) % f /\ r = n % f
  BY DEF r, t
<1> QED
  BY <1>4, <1>5, <1>6, Zenon

\* The triangles c .. d - 1 of the next coarser level lie in lo .. hi, and the
\* pieces are those and what is left on either side.
AreParents(lo, hi, c, d) ==
  LET l     == LevelById(lo)
      first == c * KeySpan(l - 1)
      last  == d * KeySpan(l - 1)
  IN  /\ l - 1 \in Levels /\ c < d
      /\ lo - l <= first /\ last <= hi + 1
      /\ Pieces(lo, hi) = Segment(lo, first - 1)
                            \cup {<<first + (l - 1), last - 1>>}
                            \cup Segment(last + l, hi)

LEMMA PiecesAre ==
  ASSUME NEW lo, NEW hi, IsInterval(lo, hi)
  PROVE  \/ Pieces(lo, hi) = {<<lo, hi>>}
         \/ \E c, d \in Int : AreParents(lo, hi, c, d)
<1> DEFINE l == LevelById(lo)
<1>1. /\ l \in Levels /\ Aligned(lo - l, l) /\ Aligned(hi + 1, l)
      /\ lo \in Int /\ hi \in Int /\ l \in Nat /\ l <= Depth /\ lo < hi
      /\ Fanout \in Nat /\ Fanout > 1
  BY LevelConstants DEF IsInterval
<1> SUFFICES ASSUME Pieces(lo, hi) # {<<lo, hi>>}
             PROVE  \E c, d \in Int : AreParents(lo, hi, c, d)
  OBVIOUS
<1> DEFINE k == KeySpan(l)
<1>2. k \in Nat /\ k > 0
  BY <1>1, KeySpanFacts, LevelConstants
<1>3. PICK n \in Int : lo - l = n * k
  BY <1>1 DEF Aligned
<1>4. PICK m \in Int : hi + 1 = m * k
  BY <1>1 DEF Aligned
<1>5. lo = n * k + l /\ hi = m * k - 1 /\ n * k \in Int /\ m * k \in Int
  BY <1>1, <1>2, <1>3, <1>4
<1>6. BareId(lo) = n
  BY <1>1, <1>5, BareIdOfLow
<1>7. BareId(IdFromTerminator(hi, l)) = m - 1
  <2>1. IdFromTerminator(hi, l) = (m - 1) * k + l
    BY <1>1, <1>5, IdOfHigh
  <2> QED
    BY <1>1, <2>1, BareIdOfLow
<1> DEFINE number0 == n % Fanout
           delta   == (m - 1) - n
           toFirst == (Fanout - number0) % Fanout
           parents == (1 + delta - toFirst) \div Fanout
           f       == (n + toFirst) * k
           e       == (n + toFirst + Fanout * parents) * k
<1>8. /\ toFirst \in Nat /\ number0 \in Nat /\ toFirst <= Fanout + number0
      /\ \E c \in Int : n + toFirst = c * Fanout
  <2>1. Fanout > 0 /\ Fanout \in Nat
    BY <1>1
  <2> QED
    BY <2>1, ToNextMultiple, Zenon
<1>9. parents \in Int /\ parents * Fanout <= 1 + delta - toFirst
  <2>1. 1 + delta - toFirst \in Int
    BY <1>8
  <2> QED
    BY <1>1, <2>1, DivisionLaw
<1>10. Increment(lo, l, toFirst) = f + l
  BY <1>1, <1>5, <1>8, IncrementOfLow
<1>11. Increment(f + l, l, Fanout * parents) = e + l
  <2>1. n + toFirst \in Int /\ Fanout * parents \in Int
    BY <1>1, <1>8, <1>9
  <2> QED
    BY <1>1, <2>1, IncrementOfLow
<1>12. LocalTriangleNumber(lo) = number0
  BY <1>6 DEF LocalTriangleNumber
<1>13. f \in Int /\ e \in Int /\ Aligned(f, l) /\ Aligned(e, l)
  <2>1. n + toFirst \in Int /\ n + toFirst + Fanout * parents \in Int
    BY <1>1, <1>8, <1>9
  <2> QED
    BY <1>2, <2>1 DEF Aligned
<1> HIDE DEF f, e, toFirst, number0, parents, k
<1>14. /\ l # 0 /\ ~(delta < Fanout - 1 + number0) /\ parents # 0
       /\ Pieces(lo, hi) = Segment(lo, Predecessor(f + l, l)) \cup
                            {<<(f + l) - 1, Predecessor(e + l, l)>>} \cup
                            Segment(e + l, hi)
  <2>1. BareId(IdFromTerminator(hi, l)) - BareId(lo) = delta
    BY <1>6, <1>7
  <2>2. (1 + (BareId(IdFromTerminator(hi, l)) - BareId(lo)) -
          ((Fanout - LocalTriangleNumber(lo)) % Fanout)) \div Fanout = parents
    BY <2>1, <1>12 DEF parents, toFirst
  <2>3. (Fanout - LocalTriangleNumber(lo)) % Fanout = toFirst
    BY <1>12 DEF toFirst
  <2>4. l = LevelById(lo)
    OBVIOUS
  <2> HIDE DEF l, delta
  <2>5. Pieces(lo, hi) =
          IF l = 0 \/ delta < Fanout - 1 + number0 \/ parents = 0
          THEN {<<lo, hi>>}
          ELSE Segment(lo, Predecessor(Increment(lo, l, toFirst), l)) \cup
                {<<Increment(lo, l, toFirst) - 1,
                   Predecessor(Increment(Increment(lo, l, toFirst), l,
                                         Fanout * parents), l)>>} \cup
                Segment(Increment(Increment(lo, l, toFirst), l,
                                  Fanout * parents), hi)
    BY <2>1, <2>2, <2>3, <2>4, <1>12 DEF Pieces, TooFew
  <2> QED
    BY <2>5, <1>10, <1>11
<1>15. Predecessor(f + l, l) = f - 1 /\ Predecessor(e + l, l) = e - 1
  BY <1>1, <1>13, PredecessorOfLow
<1>16. parents >= 1
  <2>1. parents \in Int /\ parents * Fanout <= 1 + delta - toFirst /\ parents # 0
        /\ 0 <= 1 + delta - toFirst
    BY <1>1, <1>8, <1>9, <1>14
  <2>2. 0 <= parents
    <3>1. 0 * Fanout <= 1 + delta - toFirst /\ 1 + delta - toFirst \in Int
      BY <1>1, <1>8, <2>1
    <3> QED
      BY <1>1, <3>1, DivisionAtLeast DEF parents
  <2> QED
    BY <2>1, <2>2
<1>17. PICK c \in Int : n + toFirst = c * Fanout
  BY <1>8
<1> DEFINE d == c + parents
           s == KeySpan(l - 1)
<1>18. /\ l - 1 \in Levels /\ s = Fanout * k
  <2>1. l - 1 \in Levels /\ l - 1 # Depth /\ (l - 1) + 1 = l
    <3>1. l # 0
      BY <1>14
    <3> HIDE DEF l
    <3> QED
      BY <1>1, <3>1, LevelConstants DEF Levels
  <2>2. Span(l - 1) = Fanout * Span(l)
    BY <2>1, SpanStep
  <2>3. Span(l) \in Nat /\ Unit \in Nat
    BY <1>1, SpanPositive, LevelConstants
  <2> QED
    BY <1>1, <2>1, <2>2, <2>3 DEF KeySpan, k
<1>19. f = c * s
  <2>1. f = (c * Fanout) * k
    BY <1>17 DEF f
  <2> QED
    BY <1>1, <1>2, <1>18, <2>1
<1>20. e = d * s
  <2>1. n + toFirst + Fanout * parents = d * Fanout
    BY <1>1, <1>8, <1>9, <1>17
  <2>2. e = (d * Fanout) * k
    BY <2>1 DEF e
  <2>3. d \in Int
    BY <1>9
  <2> HIDE DEF d
  <2> QED
    BY <1>1, <1>2, <1>18, <2>2, <2>3
<1>21. lo - l <= f
  <2>1. f = n * k + toFirst * k
    BY <1>2, <1>8 DEF f
  <2>2. 0 <= toFirst * k
    BY <1>2, <1>8
  <2> QED
    BY <1>2, <1>3, <1>8, <2>1, <2>2
<1>22. e <= hi + 1
  <2> DEFINE a == n + toFirst + Fanout * parents
  <2>1. a \in Int /\ a <= m
    BY <1>1, <1>8, <1>9
  <2>2. e = a * k
    BY DEF e
  <2> HIDE DEF a
  <2>3. a * k <= m * k
    BY <1>2, <2>1
  <2> QED
    BY <1>4, <2>2, <2>3
<1>23. c < d /\ d \in Int
  BY <1>9, <1>16
<1>24. (f + l) - 1 = f + (l - 1)
  BY <1>1, <1>13
<1>25. AreParents(lo, hi, c, d)
  BY <1>14, <1>15, <1>18, <1>19, <1>20, <1>21, <1>22, <1>23, <1>24 DEF AreParents
<1> QED
  BY <1>23, <1>25

\* How the bounds lie to each other: first is where the parents begin and last
\* where they end, and no two of the four bounds are closer than a unit.
ParentsLie(lo, hi, l, first, last) ==
  /\ l \in Levels /\ l - 1 \in Levels /\ l \in Nat /\ Unit \in Nat /\ l + 2 <= Unit
  /\ lo \in Nat /\ hi \in Nat /\ hi < EndOfKeys /\ EndOfKeys \in Nat
  /\ LevelById(lo) = l
  /\ first \in Int /\ last \in Int
  /\ 0 <= lo - l /\ lo - l <= first /\ first < last /\ last <= hi + 1
  /\ Aligned(lo - l, l) /\ Aligned(hi + 1, l)
  /\ Aligned(first, l) /\ Aligned(last, l)
  /\ Aligned(first, l - 1) /\ Aligned(last, l - 1)
  /\ \A x, y \in {lo - l, first, last, hi + 1} : x < y => x + Unit <= y

LEMMA ParentsAreApart ==
  ASSUME NEW lo, NEW hi, IsInterval(lo, hi), NEW c \in Int, NEW d \in Int,
         AreParents(lo, hi, c, d)
  PROVE  ParentsLie(lo, hi, LevelById(lo), c * KeySpan(LevelById(lo) - 1),
                                           d * KeySpan(LevelById(lo) - 1))
<1> DEFINE l == LevelById(lo)
           s == KeySpan(l - 1)
           f == c * s
           e == d * s
<1>1. /\ l \in Levels /\ Aligned(lo - l, l) /\ Aligned(hi + 1, l)
      /\ lo \in Nat /\ hi \in Nat /\ hi < EndOfKeys /\ EndOfKeys \in Nat
      /\ l \in Nat /\ Unit \in Nat /\ l + 2 <= Unit
  BY LevelConstants, KeyBounds DEF IsInterval
<1>2. l - 1 \in Levels /\ c < d /\ lo - l <= f /\ e <= hi + 1
  BY DEF AreParents
<1>3. s \in Nat /\ s > 0
  BY <1>1, <1>2, KeySpanFacts, LevelConstants
<1>4. l - 1 <= l
  BY <1>1
<1> HIDE DEF l, s
<1>5. f \in Int /\ e \in Int /\ f < e
  <2>1. c * s + s <= d * s
    <3>1. c + 1 <= d
      BY <1>2
    <3>2. (c + 1) * s <= d * s
      BY <1>3, <3>1
    <3> QED
      BY <1>3, <3>2
  <2> QED
    BY <1>3, <2>1
<1>6. Aligned(f, l - 1) /\ Aligned(e, l - 1)
  BY DEF Aligned, s
<1> HIDE DEF f, e
<1>7. Aligned(f, l) /\ Aligned(e, l)
  BY <1>1, <1>2, <1>4, <1>6, AlignedFiner
<1>8. ASSUME NEW x \in {lo - l, f, e, hi + 1}, NEW y \in {lo - l, f, e, hi + 1}, x < y
      PROVE  x + Unit <= y
  <2>1. Aligned(x, l) /\ Aligned(y, l)
    BY <1>1, <1>7
  <2> QED
    BY <1>1, <1>8, <2>1, UnitsApart
<1>9. 0 <= lo - l
  <2>1. Aligned(0, l)
    BY <1>1, ZeroIsAligned
  <2>2. lo - l < 0 => lo - l + Unit <= 0
    BY <1>1, <2>1, UnitsApart
  <2> QED
    BY <1>1, <2>2
<1>10. ParentsLie(lo, hi, l, f, e)
  BY <1>1, <1>2, <1>5, <1>6, <1>7, <1>8, <1>9 DEF ParentsLie, l
<1> QED
  BY <1>10 DEF l, f, e, s

\* The pieces are intervals, one above the other; the first begins where lo
\* does, or a little below it, and the last ends at hi.
ParentPieces(lo, hi, l, first, last) ==
  Segment(lo, first - 1) \cup {<<first + (l - 1), last - 1>>} \cup Segment(last + l, hi)

LEMMA ThreePieces ==
  ASSUME NEW lo, NEW hi, NEW l, NEW first, NEW last, ParentsLie(lo, hi, l, first, last),
         NEW i \in ParentPieces(lo, hi, l, first, last)
  PROVE  \/ i = <<lo, first - 1>> /\ lo - l < first
         \/ i = <<first + (l - 1), last - 1>>
         \/ i = <<last + l, hi>> /\ last < hi + 1
<1>1. CASE i \in Segment(lo, first - 1)
  <2>1. i = <<lo, first - 1>> /\ lo < first - 1
    BY <1>1 DEF Segment
  <2> QED
    BY <2>1 DEF ParentsLie
<1>2. CASE i \in Segment(last + l, hi)
  <2>1. i = <<last + l, hi>> /\ last + l < hi
    BY <1>2 DEF Segment
  <2> QED
    BY <2>1 DEF ParentsLie
<1> QED
  BY <1>1, <1>2 DEF ParentPieces

LEMMA PiecesAreIntervals ==
  ASSUME NEW lo, NEW hi, NEW l, NEW first, NEW last, ParentsLie(lo, hi, l, first, last)
  PROVE  /\ lo - l < first => /\ IsInterval(lo, first - 1)
                              /\ Segment(lo, first - 1) = {<<lo, first - 1>>}
         /\ IsInterval(first + (l - 1), last - 1)
         /\ LevelById(first + (l - 1)) = l - 1
         /\ last < hi + 1 => /\ IsInterval(last + l, hi)
                             /\ Segment(last + l, hi) = {<<last + l, hi>>}
                             /\ LevelById(last + l) = l
<1> USE DEF ParentsLie
<1>1. ASSUME lo - l < first
      PROVE  IsInterval(lo, first - 1) /\ Segment(lo, first - 1) = {<<lo, first - 1>>}
  <2>1. lo - l + Unit <= first
    BY <1>1
  <2>2. lo < first - 1 /\ first - 1 \in 0 .. EndOfKeys - 1 /\ (first - 1) + 1 = first
        /\ lo \in 0 .. EndOfKeys - 1
    BY <2>1
  <2>3. LevelById(lo) \in Levels /\ Aligned(lo - LevelById(lo), LevelById(lo))
        /\ Aligned((first - 1) + 1, LevelById(lo))
    BY <2>2
  <2> QED
    BY <2>2, <2>3 DEF IsInterval, Segment
<1>2. /\ IsInterval(first + (l - 1), last - 1)
      /\ LevelById(first + (l - 1)) = l - 1
  <2>1. first + Unit <= last
    OBVIOUS
  <2>2. first + (l - 1) < last - 1 /\ last - 1 \in 0 .. EndOfKeys - 1
        /\ first + (l - 1) \in 0 .. EndOfKeys - 1 /\ (last - 1) + 1 = last
        /\ first + (l - 1) - (l - 1) = first
    BY <2>1, LevelConstants
  <2>3. LevelById(first + (l - 1)) = l - 1
    BY <2>2, LevelOfLow
  <2> QED
    BY <2>2, <2>3 DEF IsInterval
<1>3. ASSUME last < hi + 1
      PROVE  /\ IsInterval(last + l, hi) /\ Segment(last + l, hi) = {<<last + l, hi>>}
             /\ LevelById(last + l) = l
  <2>1. last + Unit <= hi + 1
    BY <1>3
  <2>2. last + l < hi /\ last + l \in 0 .. EndOfKeys - 1 /\ hi \in 0 .. EndOfKeys - 1
        /\ last + l - l = last
    BY <2>1
  <2>3. LevelById(last + l) = l
    BY <2>2, LevelOfLow
  <2> QED
    BY <2>2, <2>3 DEF IsInterval, Segment
<1> QED
  BY <1>1, <1>2, <1>3

LEMMA PiecesApart ==
  ASSUME NEW lo, NEW hi, NEW l, NEW first, NEW last, ParentsLie(lo, hi, l, first, last),
         NEW i \in ParentPieces(lo, hi, l, first, last),
         NEW j \in ParentPieces(lo, hi, l, first, last)
  PROVE  i = j \/ i[2] < j[1] \/ j[2] < i[1]
<1>1. /\ l \in Nat /\ Unit \in Nat /\ l + 2 <= Unit /\ first \in Int /\ last \in Int
      /\ lo \in Nat /\ hi \in Nat /\ lo - l <= first /\ first + Unit <= last /\ last <= hi + 1
  BY DEF ParentsLie
<1>2. \/ i = <<lo, first - 1>> /\ lo - l < first
      \/ i = <<first + (l - 1), last - 1>>
      \/ i = <<last + l, hi>> /\ last < hi + 1
  BY ThreePieces
<1>3. \/ j = <<lo, first - 1>> /\ lo - l < first
      \/ j = <<first + (l - 1), last - 1>>
      \/ j = <<last + l, hi>> /\ last < hi + 1
  BY ThreePieces
<1>4. l >= 1
  BY <1>1, LevelConstants DEF ParentsLie
<1> QED
  BY <1>1, <1>2, <1>3, <1>4

\* What lies below an interval lies below the triangle its low end is in.
LEMMA LowerLiesBelow ==
  ASSUME Good(los, his), NEW lo \in Lows, NEW x \in Lows, x < lo
  PROVE  los[x] < lo - LevelById(lo)
<1> DEFINE l == LevelById(lo)
<1>1. /\ IsInterval(lo, los[lo]) /\ IsInterval(x, los[x]) /\ los[x] < lo
  BY LevelAtIsMap DEF Good
<1>2. /\ l \in Levels /\ l \in Nat /\ Unit \in Nat /\ l + 2 <= Unit
      /\ lo \in Nat /\ los[x] \in Nat /\ Aligned(lo - l, l)
      /\ LevelById(x) \in Levels /\ Aligned(los[x] + 1, LevelById(x))
  BY <1>1, LevelConstants DEF IsInterval
<1> HIDE DEF l
<1>3. lo - l < los[x] + 1 => lo - l + Unit <= los[x] + 1
  BY <1>2, UnitsApart
<1>4. los[x] < lo - l
  BY <1>1, <1>2, <1>3
<1> QED
  BY <1>4 DEF l

LEMMA PiecesFit ==
  ASSUME Good(los, his), NEW lo \in Lows, NEW l, NEW first, NEW last,
         ParentsLie(lo, los[lo], l, first, last)
  PROVE  Fits(lo, los[lo], ParentPieces(lo, los[lo], l, first, last))
<1> DEFINE hi == los[lo]
           new == ParentPieces(lo, hi, l, first, last)
<1>1. /\ l \in Nat /\ Unit \in Nat /\ l + 2 <= Unit /\ first \in Int /\ last \in Int
      /\ lo \in Nat /\ hi \in Nat /\ lo - l <= first /\ first + Unit <= last /\ last <= hi + 1
      /\ LevelById(lo) = l /\ 1 <= l
  BY LevelConstants DEF ParentsLie
<1>2. \A i \in new : \/ i = <<lo, first - 1>> /\ lo - l < first
                     \/ i = <<first + (l - 1), last - 1>>
                     \/ i = <<last + l, hi>> /\ last < hi + 1
  BY ThreePieces
<1>3. \A i, j \in new : i = j \/ i[2] < j[1] \/ j[2] < i[1]
  BY PiecesApart
<1>4. \A i \in new : IsInterval(i[1], i[2])
  BY <1>2, PiecesAreIntervals
<1>5. \A i \in new : i[1] \in Int /\ i[2] \in Int /\ lo - l <= i[1] /\ i[2] <= hi
  BY <1>1, <1>2
<1>6. \A x \in Lows : /\ x \in Nat /\ los[x] \in Nat /\ x < los[x]
                      /\ x < lo => los[x] < lo - l
                      /\ lo < x => hi < x
  BY <1>1, LowerLiesBelow, GoodKeys, LevelAtIsMap DEF Good
<1> HIDE DEF new
<1>7. \A x \in Lows : los[x] < lo \/ hi < x \/ (lo <= x /\ los[x] <= hi)
  BY <1>1, <1>6
<1>8. \A x \in Lows, i \in new : (lo <= x /\ x <= hi) \/ los[x] < i[1] \/ i[2] < x
  <2> TAKE x \in Lows, i \in new
  <2>1. x < lo \/ x = lo \/ lo < x
    BY <1>1, <1>6
  <2> QED
    BY <1>1, <1>5, <1>6, <2>1
<1>9. Fits(lo, hi, new)
  BY <1>3, <1>4, <1>7, <1>8 DEF Fits
<1> QED
  BY <1>9 DEF new

\* Freeing the low end alone and putting in pieces that end where the interval
\* does is freeing the whole interval.
LEMMA RewriteWhole ==
  ASSUME Good(los, his), NEW lo \in Lows, NEW new, Rewrite(<<lo, lo>>, new),
         \E i \in new : i[2] = los[lo]
  PROVE  Rewrite(<<lo, los[lo]>>, new)
<1> DEFINE hi == los[lo]
<1>1. \A x \in Lows : x \in Nat /\ los[x] \in Nat /\ x < los[x]
  BY GoodKeys, LevelAtIsMap
<1>2. \A x, y \in Lows : x < y => los[x] < y
  BY LevelAtIsMap DEF Good
<1>3. his = {los[x] : x \in Lows}
  BY LevelAtIsMap DEF Good
<1>4. FreeRange(Lows, lo, lo) = FreeRange(Lows, lo, hi)
  BY <1>1, <1>2 DEF FreeRange
<1>5. FreeRange(his, lo, lo) = his
  BY <1>1, <1>2, <1>3 DEF FreeRange
<1>6. FreeRange(his, lo, hi) = his \ {hi}
  BY <1>1, <1>2, <1>3 DEF FreeRange
<1>7. FreeRange(his, lo, lo) \cup {i[2] : i \in new}
        = FreeRange(his, lo, hi) \cup {i[2] : i \in new}
  BY <1>5, <1>6
<1> QED
  BY <1>4, <1>7 DEF Rewrite

\* The parents are covered at their own level afterwards and their children at
\* theirs before; nothing else changes.
LEMMA ParentsMap ==
  ASSUME Good(los, his), NEW lo \in Lows, NEW l, NEW first, NEW last,
         ParentsLie(lo, los[lo], l, first, last),
         Rewrite(<<lo, los[lo]>>, ParentPieces(lo, los[lo], l, first, last)),
         NEW p \in Positions
  PROVE  IF first <= KeyOf(p) /\ KeyOf(p) < last
         THEN MapOf(los)[p] = l /\ MapOf(los')[p] = l - 1
         ELSE MapOf(los')[p] = MapOf(los)[p]
<1> DEFINE hi == los[lo]
           new == ParentPieces(lo, hi, l, first, last)
<1>1. /\ l \in Nat /\ Unit \in Nat /\ l + 2 <= Unit /\ first \in Int /\ last \in Int
      /\ lo \in Nat /\ hi \in Nat /\ lo - l <= first /\ first + Unit <= last /\ last <= hi + 1
      /\ LevelById(lo) = l /\ 1 <= l
      /\ first > lo - l => first >= lo - l + Unit
  BY LevelConstants DEF ParentsLie
<1>2. \A i \in new : \/ i = <<lo, first - 1>> /\ lo - l < first
                     \/ i = <<first + (l - 1), last - 1>>
                     \/ i = <<last + l, hi>> /\ last < hi + 1
  BY ThreePieces
<1>3. /\ lo - l < first => <<lo, first - 1>> \in new
      /\ <<first + (l - 1), last - 1>> \in new /\ LevelById(first + (l - 1)) = l - 1
      /\ last < hi + 1 => <<last + l, hi>> \in new /\ LevelById(last + l) = l
  BY PiecesAreIntervals DEF ParentPieces
<1>4. LeavesAt(lo, hi, new, p)
  <2>1. Fits(lo, hi, new)
    BY PiecesFit
  <2> QED
    BY <1>1, <2>1, RewrittenMap
<1>5. /\ KeyOf(p) \in Int
      /\ \A i \in new : Over(i[1], i[2], p) => MapOf(los')[p] = LevelById(i[1])
      /\ (\A i \in new : ~Over(i[1], i[2], p)) =>
           IF lo <= KeyOf(p) /\ KeyOf(p) <= hi
           THEN MapOf(los')[p] = Depth + 1
           ELSE MapOf(los')[p] = MapOf(los)[p]
  BY <1>4 DEF LeavesAt
<1> HIDE DEF new
<1>6. Over(lo, hi, p) => MapOf(los)[p] = l
  BY <1>1, LevelOfPosition, LevelAtIsMap
<1>7. /\ first <= KeyOf(p) => first + Unit <= KeyOf(p) + 1
      /\ last <= KeyOf(p) => last + Unit <= KeyOf(p) + 1
  <2>1. Aligned(KeyOf(p) + 1, Depth) /\ Depth \in Levels /\ l \in Levels
        /\ Aligned(first, l) /\ Aligned(last, l)
    BY KeyOfFacts, LevelConstants DEF Positions, Levels, ParentsLie
  <2>2. /\ first < KeyOf(p) + 1 => first + Unit <= KeyOf(p) + 1
        /\ last < KeyOf(p) + 1 => last + Unit <= KeyOf(p) + 1
    BY <2>1, UnitsApart
  <2> QED
    BY <1>1, <1>5, <2>2
<1>8. CASE first <= KeyOf(p) /\ KeyOf(p) < last
  <2>1. Over(first + (l - 1), last - 1, p) /\ Over(lo, hi, p)
    BY <1>1, <1>5, <1>7, <1>8 DEF Over
  <2>2. MapOf(los')[p] = l - 1
    <3> DEFINE i == <<first + (l - 1), last - 1>>
    <3>1. i \in new /\ i[1] = first + (l - 1) /\ i[2] = last - 1
      BY <1>3
    <3> HIDE DEF i
    <3> QED
      BY <1>3, <1>5, <2>1, <3>1
  <2> QED
    BY <1>6, <1>8, <2>1, <2>2
<1>9. CASE lo - l < first /\ lo <= KeyOf(p) /\ KeyOf(p) < first
  <2>1. Over(lo, first - 1, p) /\ Over(lo, hi, p)
    BY <1>1, <1>5, <1>9 DEF Over
  <2>2. MapOf(los')[p] = l
    <3> DEFINE i == <<lo, first - 1>>
    <3>1. i \in new /\ i[1] = lo /\ i[2] = first - 1
      BY <1>3, <1>9
    <3> HIDE DEF i
    <3> QED
      BY <1>1, <1>5, <2>1, <3>1
  <2> QED
    BY <1>1, <1>5, <1>6, <1>9, <2>1, <2>2
<1>10. CASE last <= KeyOf(p) /\ KeyOf(p) <= hi
  <2>1. Over(last + l, hi, p) /\ Over(lo, hi, p) /\ last < hi + 1
    BY <1>1, <1>5, <1>7, <1>10 DEF Over
  <2>2. MapOf(los')[p] = l
    <3> DEFINE i == <<last + l, hi>>
    <3>1. i \in new /\ i[1] = last + l /\ i[2] = hi
      BY <1>3, <2>1
    <3> HIDE DEF i
    <3> QED
      BY <1>3, <1>5, <2>1, <3>1
  <2> QED
    BY <1>1, <1>5, <1>6, <1>10, <2>1, <2>2
<1>11. CASE KeyOf(p) > hi \/ (KeyOf(p) < lo /\ ~(first <= KeyOf(p)))
  <2>1. \A i \in new : ~Over(i[1], i[2], p)
    BY <1>1, <1>2, <1>5, <1>11 DEF Over
  <2>2. ~(lo <= KeyOf(p) /\ KeyOf(p) <= hi) /\ ~(first <= KeyOf(p) /\ KeyOf(p) < last)
    BY <1>1, <1>5, <1>11
  <2> QED
    BY <1>5, <2>1, <2>2
<1> QED
  BY <1>1, <1>5, <1>8, <1>9, <1>10, <1>11

-----------------------------------------------------------------------------

\* What MCRanges and AnyRange = FALSE restrict clients to: the cases above the
\* current interval take the successor of a high end for the next low end,
\* which it is not at the end of the sphere.
Restricted ==
  /\ AnyRange = FALSE
  /\ \A r \in Ranges : r[2] + 1 < EndOfKeys

-----------------------------------------------------------------------------
(***************************************************************************)
(* The inductive invariant.                                                *)
(***************************************************************************)
Iterators ==
  /\ loAt \in Lows \cup {Header, Nil, Freed}
  /\ hiAt \in his \cup {Header, Nil, Freed}
  /\ call.op = "idle" => AtOneInterval \/ loAt = Nil
  /\ call.op = "merge" => AtOneInterval /\ loAt # Freed /\ loAt # Header
  /\ call.op = "defrag" => /\ call.lo0 \in Lows /\ hiAt = los[call.lo0]
                           /\ loAt = After(Lows, call.lo0)
  /\ call.op = "compress" => /\ AtOneInterval /\ loAt # Freed /\ loAt # Header
                             /\ call.lo0 # Nil =>
                                  /\ call.lo0 \in Lows
                                  /\ call.hi0 = los[call.lo0]
                                  /\ loAt = After(Lows, call.lo0)

LeftToMerge ==
  /\ IsInterval(call.lo, call.hi) /\ call.hi + 1 < EndOfKeys
  /\ Aligned(call.lo1 - Level, Level)
  /\ call.lo <= call.lo1 /\ call.lo1 < call.hi
  /\ call.hi1 = call.hi

\* The loop has passed only intervals below what is left to merge.
Behind == \A l \in Lows : (loAt \in Lows => l < loAt) => los[l] < call.lo1

\* Either the merge is at its beginning and clients have left out the ranges
\* case 5.2 cuts wrongly, or no interval reaches into the rest from below.
NoStraddle ==
  \/ call.lo1 = call.lo /\ ~CutsStraddler(call.lo, call.hi)
  \/ \A l \in Lows : l - LevelById(l) < call.lo1 - Level => los[l] < call.lo1

\* The level of position p once lo..hi has been merged at level l, if it was v.
With(v, lo, hi, l, p) == IF Over(lo, hi, p) /\ l < v THEN l ELSE v

\* The rest makes the map what the whole range would have made of the old one.
Sofar ==
  \A p \in Positions :
     With(MapOf(los)[p], call.lo1, call.hi1, Level, p)
       = With(call.before[p], call.lo, call.hi, Level, p)

\* From lo1 on the map is the old one, but for the finer intervals the merge
\* has deleted to put its own in their place.
Untouched ==
  \A p \in Positions :
     call.lo1 <= KeyOf(p) =>
       \/ MapOf(los)[p] = call.before[p]
       \/ \A l \in Lows : los[l] < call.lo1 \/ KeyOf(p) < l

IInv ==
  /\ Good(los, his)
  /\ call \in Calls
  /\ Iterators
  /\ call.op = "merge" => LeftToMerge /\ Behind /\ NoStraddle /\ Sofar /\ Untouched

-----------------------------------------------------------------------------
(***************************************************************************)
(* The beginning, and what every step needs to know.                       *)
(***************************************************************************)
LEMMA RangesAreIntervals ==
  ASSUME NEW r \in Ranges
  PROVE  IsInterval(r[1], r[2])
<1> DEFINE l == LevelById(r[1])
<1>1. /\ l \in Levels /\ r[1] = Truncate(r[1], l) + l
      /\ r[2] = Terminate(r[2], l)
      /\ r[1] < r[2] /\ r[2] < EndOfKeys
  BY HtmRangeMultiLevelAssumption
<1>2. r[1] \in Nat /\ r[2] \in Nat
  BY HtmRangeMultiLevelAssumption
<1> QED
  BY <1>1, <1>2, LowEndMeans, HighEndMeans, KeyBounds DEF IsInterval

LEMMA InitIInv == Init => IInv
<1> SUFFICES ASSUME Init PROVE IInv
  OBVIOUS
<1>1. Lows = {} /\ his = {} /\ call = [op |-> "idle"] /\ loAt = Header /\ hiAt = Header
  BY DEF Init, Lows, Idle
<1>2. Good(los, his)
  BY <1>1 DEF Good, Lows
<1> QED
  BY <1>1, <1>2 DEF IInv, Iterators, AtOneInterval, Calls, Idle

\* The locals of a merge.
LEMMA MergeLocals ==
  ASSUME call \in Calls, call.op = "merge"
  PROVE  /\ call \in [op : {"merge"}, lo : Int, hi : Int, lo1 : Int, hi1 : Int,
                      errors : Nat, before : [Positions -> 0 .. Depth + 1]]
         /\ call.lo \in Int /\ call.hi \in Int /\ call.lo1 \in Int /\ call.hi1 \in Int
         /\ call.errors \in Nat /\ call.before \in [Positions -> 0 .. Depth + 1]
BY DEF Calls, Idle

-----------------------------------------------------------------------------
(***************************************************************************)
(* A turn of mergeRange at an interval: the four bounds, and what lies     *)
(* below and above the interval.                                           *)
(***************************************************************************)
AtTurn == IInv /\ call.op = "merge" /\ loAt >= 0

LEMMA TurnFacts ==
  ASSUME AtTurn
  PROVE  /\ loAt \in Lows /\ hiAt = los[loAt] /\ hiAt \in his
         /\ Level \in Levels /\ LLevel \in Levels
         /\ loAt \in Nat /\ hiAt \in Nat /\ call.lo1 \in Nat /\ call.hi1 \in Nat
         /\ loAt < hiAt /\ call.lo1 < call.hi1
         /\ hiAt < EndOfKeys /\ call.hi1 + 1 < EndOfKeys /\ EndOfKeys \in Nat
         /\ Aligned(loAt - LLevel, LLevel) /\ Aligned(hiAt + 1, LLevel)
         /\ Aligned(call.lo1 - Level, Level) /\ Aligned(call.hi1 + 1, Level)
         /\ call.lo \in Nat /\ call.lo <= call.lo1 /\ call.hi = call.hi1
         /\ Good(los, his)
<1> USE DEF AtTurn
<1>1. loAt \in Lows /\ hiAt = los[loAt]
  BY DEF IInv, Iterators, AtOneInterval, Nil, Freed
<1>2. IsInterval(loAt, hiAt) /\ hiAt \in his
  BY <1>1, LevelAtIsMap DEF IInv, Good
<1>3. LeftToMerge
  BY DEF IInv
<1>4. /\ call.lo1 \in Int /\ call.hi1 \in Int /\ EndOfKeys \in Nat
      /\ call.lo \in Nat /\ call.hi \in Nat
  BY <1>3, MergeLocals, KeyBounds DEF IInv, LeftToMerge, IsInterval
<1> QED
  BY <1>1, <1>2, <1>3, <1>4 DEF IInv, LeftToMerge, IsInterval, Level, LLevel

\* Any two of the four bounds are at least a unit apart.
LEMMA TurnApart ==
  ASSUME AtTurn
  PROVE  /\ Unit \in Nat /\ Level \in Nat /\ LLevel \in Nat
         /\ Level + 2 <= Unit /\ LLevel + 2 <= Unit
         /\ \A x, y \in {loAt - LLevel, hiAt + 1, call.lo1 - Level, call.hi1 + 1} :
               x < y => x + Unit <= y
<1>1. /\ Level \in Levels /\ LLevel \in Levels
      /\ Aligned(loAt - LLevel, LLevel) /\ Aligned(hiAt + 1, LLevel)
      /\ Aligned(call.lo1 - Level, Level) /\ Aligned(call.hi1 + 1, Level)
  BY TurnFacts
<1>2. ASSUME NEW x \in {loAt - LLevel, hiAt + 1, call.lo1 - Level, call.hi1 + 1},
             NEW y \in {loAt - LLevel, hiAt + 1, call.lo1 - Level, call.hi1 + 1},
             x < y
      PROVE  x + Unit <= y
  <2>1. PICK i \in Levels : Aligned(x, i)
    BY <1>1
  <2>2. PICK j \in Levels : Aligned(y, j)
    BY <1>1
  <2> QED
    BY <1>2, <2>1, <2>2, UnitsApart
<1> QED
  BY <1>1, <1>2, LevelConstants

\* The intervals below and above the one the loop is at.
LEMMA TurnNeighbours ==
  ASSUME AtTurn, NEW l \in Lows
  PROVE  /\ l \in Nat /\ los[l] \in Nat /\ l < los[l]
         /\ IsInterval(l, los[l])
         /\ l < loAt => los[l] < call.lo1 /\ los[l] < loAt
         /\ loAt < l => hiAt < l
<1>1. loAt \in Lows /\ hiAt = los[loAt] /\ Good(los, his) /\ loAt \in Nat
  BY TurnFacts
<1>2. l \in Nat /\ los[l] \in Nat /\ l < los[l] /\ IsInterval(l, los[l])
  BY <1>1, GoodKeys, LevelAtIsMap DEF Good
<1>3. l < loAt => los[l] < call.lo1
  BY <1>1 DEF AtTurn, IInv, Behind
<1> QED
  BY <1>1, <1>2, <1>3, LevelAtIsMap DEF Good

\* The levels of the positions around the interval.
LEMMA TurnMap ==
  ASSUME AtTurn, NEW p \in Positions
  PROVE  /\ KeyOf(p) \in Int /\ MapOf(los)[p] \in 0 .. Depth + 1 /\ Depth \in Nat
         /\ Level <= Depth /\ LLevel <= Depth
         /\ \A x \in {loAt - LLevel, hiAt + 1, call.lo1 - Level, call.hi1 + 1} :
               x <= KeyOf(p) => x + Unit <= KeyOf(p) + 1
         /\ Over(loAt, hiAt, p) => MapOf(los)[p] = LLevel
         /\ call.lo1 <= KeyOf(p) /\ KeyOf(p) < loAt => MapOf(los)[p] = Depth + 1
<1>1. /\ Level \in Levels /\ LLevel \in Levels /\ Good(los, his)
      /\ loAt \in Lows /\ hiAt = los[loAt]
      /\ loAt \in Int /\ hiAt \in Int /\ call.lo1 \in Int
      /\ Aligned(loAt - LLevel, LLevel) /\ Aligned(hiAt + 1, LLevel)
      /\ Aligned(call.lo1 - Level, Level) /\ Aligned(call.hi1 + 1, Level)
      /\ Depth \in Levels /\ Depth \in Nat /\ Level <= Depth /\ LLevel <= Depth
  BY TurnFacts, LevelConstants DEF Levels
<1>2. /\ KeyOf(p) \in Int /\ Aligned(KeyOf(p) + 1, Depth)
  BY KeyOfFacts DEF Positions
<1>3. MapOf(los)[p] \in 0 .. Depth + 1
  BY <1>1, MapIsTyped
<1>4. ASSUME NEW x \in {loAt - LLevel, hiAt + 1, call.lo1 - Level, call.hi1 + 1},
             x <= KeyOf(p)
      PROVE  x + Unit <= KeyOf(p) + 1
  <2>1. PICK i \in Levels : Aligned(x, i)
    BY <1>1
  <2>2. x < KeyOf(p) + 1
    BY <1>2, <1>4, <2>1, AlignedIsInt
  <2> QED
    BY <1>1, <1>2, <2>1, <2>2, UnitsApart
<1>5. Over(loAt, hiAt, p) => MapOf(los)[p] = LLevel
  BY <1>1, LevelOfPosition, LevelAtIsMap DEF LLevel
<1>6. ASSUME call.lo1 <= KeyOf(p), KeyOf(p) < loAt PROVE MapOf(los)[p] = Depth + 1
  <2>1. ASSUME NEW l \in DOMAIN los, Over(l, los[l], p) PROVE FALSE
    <3>1. /\ l \in Nat /\ los[l] \in Nat /\ l < los[l]
          /\ l < loAt => los[l] < call.lo1
      BY TurnNeighbours, LevelAtIsMap
    <3> QED
      BY <1>1, <1>2, <1>6, <2>1, <3>1 DEF Over
  <2> QED
    BY <1>1, <2>1, LevelOfPosition
<1> QED
  BY <1>1, <1>2, <1>3, <1>4, <1>5, <1>6

-----------------------------------------------------------------------------
(***************************************************************************)
(* How a turn leaves the iterators and the locals.                         *)
(***************************************************************************)
LEMMA Rewound ==
  ASSUME Good(los', his'), RewindIterators
  PROVE  /\ AtOneInterval' /\ loAt' # Freed /\ loAt' # Header
         /\ loAt' \in Lows' \cup {Nil} /\ hiAt' \in his' \cup {Nil}
         /\ \A l \in Lows' : ~(loAt' \in Lows' => l < loAt')
<1>1. /\ Header \notin Lows' /\ Nil \notin Lows' /\ Freed \notin Lows'
      /\ Header # Nil /\ Header # Freed /\ Nil # Freed
      /\ \A l \in Lows' : l \in Nat /\ los'[l] \in his'
  BY PositionsAreNotKeys, GoodKeys DEF Lows
<1>2. \/ loAt' = Nil /\ hiAt' = Nil /\ Lows' = {}
      \/ loAt' \in Lows' /\ hiAt' = los'[loAt'] /\ \A x \in Lows' : loAt' <= x
  BY FirstTogether DEF RewindIterators, Lows
<1> QED
  BY <1>1, <1>2 DEF AtOneInterval

LEMMA Stepped ==
  ASSUME Good(los, his), loAt \in Lows, hiAt = los[loAt], StepIterators,
         los' = los, his' = his
  PROVE  /\ AtOneInterval' /\ loAt' # Freed /\ loAt' # Header
         /\ loAt' \in Lows' \cup {Nil} /\ hiAt' \in his' \cup {Nil}
         /\ loAt' = After(Lows, loAt)
         /\ \A l \in Lows : (loAt' \in Lows => l < loAt') => l <= loAt
<1>1. /\ Header \notin Lows /\ Nil \notin Lows /\ Freed \notin Lows
      /\ Header # Nil /\ Header # Freed /\ Nil # Freed
      /\ \A l \in Lows : l \in Nat /\ los[l] \in his
  BY PositionsAreNotKeys, GoodKeys DEF Lows
<1>2. \/ loAt' = Nil /\ hiAt' = Nil /\ \A x \in Lows : x <= loAt
      \/ /\ loAt' \in Lows /\ hiAt' = los[loAt'] /\ loAt < loAt'
         /\ \A x \in Lows : loAt < x => loAt' <= x
  BY AfterTogether DEF StepIterators, Lows
<1>3. Lows' = Lows
  BY DEF Lows
<1> QED
  BY <1>1, <1>2, <1>3 DEF AtOneInterval, StepIterators

LEMMA MergeStops ==
  ASSUME Good(los', his'), call' = Idle, AtOneInterval'
  PROVE  IInv'
<1>1. loAt' \in Lows' => los'[loAt'] \in his'
  BY GoodKeys DEF Lows
<1>2. call' = [op |-> "idle"]
  BY DEF Idle
<1>3. Iterators'
  BY <1>1, <1>2 DEF Iterators, AtOneInterval
<1> QED
  BY <1>2, <1>3 DEF IInv, Calls, Idle

\* What stays of the locals when a turn changes only lo1, and perhaps errors.
GoesOn(x) ==
  /\ call' \in Calls /\ call'.op = "merge"
  /\ call'.lo = call.lo /\ call'.hi = call.hi /\ call'.hi1 = call.hi1
  /\ call'.before = call.before /\ call'.lo1 = x
  /\ Level' = Level

LEMMA LocalsGoOn ==
  ASSUME call \in Calls, call.op = "merge", NEW x \in Int,
         \/ call' = [call EXCEPT !.lo1 = x]
         \/ call' = [call EXCEPT !.lo1 = x, !.errors = @ + 1]
         \/ x = call.lo1 /\ call' = call
         \/ x = call.lo1 /\ call' = [call EXCEPT !.errors = @ + 1]
  PROVE  GoesOn(x)
<1> DEFINE M == [op : {"merge"}, lo : Int, hi : Int, lo1 : Int, hi1 : Int,
                 errors : Nat, before : [Positions -> 0 .. Depth + 1]]
<1>1. call \in M
  BY MergeLocals
<1>2. CASE call' = [call EXCEPT !.lo1 = x]
  <2>1. /\ call' \in M /\ call'.op = "merge"
        /\ call'.lo = call.lo /\ call'.hi = call.hi /\ call'.hi1 = call.hi1
        /\ call'.before = call.before /\ call'.lo1 = x
    BY <1>1, <1>2
  <2> QED
    BY <2>1 DEF GoesOn, Calls, Level
<1>3. CASE call' = [call EXCEPT !.lo1 = x, !.errors = @ + 1]
  <2> DEFINE e == call.errors + 1
  <2>e. e \in Nat
    BY <1>1
  <2>c. call' = [call EXCEPT !.lo1 = x, !.errors = e]
    BY <1>3
  <2> HIDE DEF e
  <2>1. /\ call' \in M /\ call'.op = "merge"
        /\ call'.lo = call.lo /\ call'.hi = call.hi /\ call'.hi1 = call.hi1
        /\ call'.before = call.before /\ call'.lo1 = x
    BY <1>1, <2>e, <2>c
  <2> QED
    BY <2>1 DEF GoesOn, Calls, Level
<1>4. CASE x = call.lo1 /\ call' = call
  <2>1. /\ call' \in M /\ call'.op = "merge"
        /\ call'.lo = call.lo /\ call'.hi = call.hi /\ call'.hi1 = call.hi1
        /\ call'.before = call.before /\ call'.lo1 = x
    BY <1>1, <1>4
  <2> QED
    BY <2>1 DEF GoesOn, Calls, Level
<1>5. CASE x = call.lo1 /\ call' = [call EXCEPT !.errors = @ + 1]
  <2>1. /\ call' \in M /\ call'.op = "merge"
        /\ call'.lo = call.lo /\ call'.hi = call.hi /\ call'.hi1 = call.hi1
        /\ call'.before = call.before /\ call'.lo1 = x
    BY <1>1, <1>5
  <2> QED
    BY <2>1 DEF GoesOn, Calls, Level
<1> QED
  BY <1>2, <1>3, <1>4, <1>5

LEMMA MergeGoesOn ==
  ASSUME IInv, call.op = "merge", Good(los', his'), NEW x \in Int, GoesOn(x),
         AtOneInterval', loAt' # Freed, loAt' # Header,
         Aligned(x - Level, Level), call.lo <= x, x < call.hi,
         Behind', NoStraddle', Sofar', Untouched'
  PROVE  IInv'
<1>1. loAt' \in Lows' => los'[loAt'] \in his'
  BY GoodKeys DEF Lows
<1>2. Iterators'
  BY <1>1 DEF Iterators, AtOneInterval, GoesOn
<1>3. LeftToMerge'
  BY DEF IInv, LeftToMerge, GoesOn
<1> QED
  BY <1>2, <1>3 DEF IInv, GoesOn

\* The positions relative to the interval, as inequalities.
LEMMA LiesMeans ==
  ASSUME IInv, NEW lies, AtInterval(lies)
  PROVE  /\ AtTurn
         /\ lies = "notYetThere" <=> hiAt < call.lo1
         /\ lies = "below" => call.lo1 <= hiAt /\ call.hi1 < loAt
         /\ lies = "overlapsLow" =>
              call.lo1 < loAt /\ loAt <= call.hi1 /\ call.hi1 <= hiAt
         /\ lies = "covers" => call.lo1 < loAt /\ hiAt < call.hi1
         /\ lies = "isIn" => loAt <= call.lo1 /\ call.hi1 <= hiAt
         /\ lies = "overlapsHigh" =>
              loAt <= call.lo1 /\ call.lo1 <= hiAt /\ hiAt < call.hi1
<1>1. AtTurn
  BY DEF AtInterval, AtTurn
<1>2. loAt \in Nat /\ hiAt \in Nat /\ call.lo1 \in Nat /\ call.hi1 \in Nat
      /\ loAt < hiAt /\ call.lo1 < call.hi1
  BY <1>1, TurnFacts
<1> QED
  BY <1>1, <1>2 DEF AtInterval, Lies

\* The map after the last turn of a merge that does not throw.
Done ==
  \A p \in Positions :
     MapOf(los')[p] = With(MapOf(los)[p], call.lo1, call.hi1, Level, p)

\* An interval is its own segment.
LEMMA SegmentIs ==
  ASSUME NEW l, NEW h, IsInterval(l, h)
  PROVE  Segment(l, h) = {<<l, h>>}
BY DEF IsInterval, Segment

-----------------------------------------------------------------------------
(***************************************************************************)
(* The last turns of mergeRange.                                           *)
(***************************************************************************)
\* What is left to merge is itself an interval.
LEMMA RestIsInterval ==
  ASSUME AtTurn
  PROVE  IsInterval(call.lo1, call.hi1) /\ LevelById(call.lo1) = Level
<1>1. LevelById(call.lo1) = Level
  BY TurnFacts, LevelOfLow
<1> QED
  BY <1>1, TurnFacts DEF IsInterval

LEMMA BelowTurn ==
  ASSUME IInv, MergeBelow
  PROVE  IInv' /\ Done
<1> DEFINE new == {<<call.lo1, call.hi1>>}
<1>1. AtTurn /\ call.lo1 <= hiAt /\ call.hi1 < loAt
  BY LiesMeans DEF MergeBelow
<1>2. /\ loAt \in Lows /\ hiAt = los[loAt] /\ loAt \in Nat /\ hiAt \in Nat
      /\ call.lo1 \in Nat /\ call.hi1 \in Nat /\ call.lo1 < call.hi1 /\ loAt < hiAt
      /\ Good(los, his)
  BY <1>1, TurnFacts
<1>3. IsInterval(call.lo1, call.hi1) /\ LevelById(call.lo1) = Level
  BY <1>1, RestIsInterval
<1>4. \A l \in Lows : l \in Nat /\ (los[l] < call.lo1 \/ call.hi1 < l)
  <2> TAKE l \in Lows
  <2>1. /\ l \in Nat /\ los[l] \in Nat /\ l < los[l]
        /\ l < loAt => los[l] < call.lo1
    BY <1>1, TurnNeighbours
  <2> QED
    BY <1>1, <1>2, <2>1
<1>5. Fits(1, 0, new)
  BY <1>3, <1>4 DEF Fits
<1>6. Rewrite(<<1, 0>>, new)
  BY DEF MergeBelow, Nowhere
<1>7. Leaves(1, 0, new)
  BY <1>2, <1>5, <1>6, Rewritten
<1>8. loAt \in Lows' /\ los'[loAt] = los[loAt]
  BY <1>2, <1>7 DEF Leaves, Lows
<1>9. IInv'
  BY <1>2, <1>7, <1>8, MergeStops DEF AtOneInterval, MergeBelow, Leaves
<1>10. ASSUME NEW p \in Positions
       PROVE  MapOf(los')[p] = With(MapOf(los)[p], call.lo1, call.hi1, Level, p)
  <2>1. /\ Over(call.lo1, call.hi1, p) => MapOf(los')[p] = Level
        /\ ~Over(call.lo1, call.hi1, p) => MapOf(los')[p] = MapOf(los)[p]
        /\ KeyOf(p) \in Int
    <3>1. LeavesAt(1, 0, new, p)
      BY <1>2, <1>5, <1>6, RewrittenMap
    <3> QED
      BY <1>3, <3>1 DEF LeavesAt
  <2>2. Over(call.lo1, call.hi1, p) => MapOf(los)[p] = Depth + 1
    BY <1>1, <1>2, <2>1, TurnMap DEF Over
  <2>3. Level < Depth + 1
    BY <1>1, TurnMap, TurnApart
  <2> QED
    BY <2>1, <2>2, <2>3 DEF With
<1> QED
  BY <1>9, <1>10 DEF Done

LEMMA LowSameTurn ==
  ASSUME IInv, MergeLowSame
  PROVE  IInv' /\ Done
<1> DEFINE new == {<<call.lo1, hiAt>>}
<1>1. /\ AtTurn /\ call.lo1 < loAt /\ loAt <= call.hi1 /\ call.hi1 <= hiAt
      /\ Level = LLevel
  BY LiesMeans DEF MergeLowSame
<1>2. /\ loAt \in Lows /\ hiAt = los[loAt] /\ loAt \in Nat /\ hiAt \in Nat
      /\ call.lo1 \in Nat /\ call.hi1 \in Nat /\ loAt < hiAt
      /\ Good(los, his)
  BY <1>1, TurnFacts
<1>3. IsInterval(call.lo1, hiAt) /\ LevelById(call.lo1) = Level
  BY <1>1, RestIsInterval, TurnFacts DEF IsInterval
<1>4. \A l \in Lows : /\ l \in Nat /\ los[l] \in Nat
                      /\ \/ los[l] < call.lo1
                         \/ call.lo1 <= l /\ los[l] <= hiAt /\ l <= hiAt
                         \/ hiAt < l
  <2> TAKE l \in Lows
  <2>1. /\ l \in Nat /\ los[l] \in Nat /\ l < los[l]
        /\ l < loAt => los[l] < call.lo1
        /\ loAt < l => hiAt < l
    BY <1>1, TurnNeighbours
  <2> QED
    BY <1>1, <1>2, <2>1
<1>5. Fits(call.lo1, hiAt, new)
  BY <1>3, <1>4 DEF Fits
<1>6. Rewrite(<<call.lo1, hiAt>>, new)
  BY DEF MergeLowSame
<1>7. Leaves(call.lo1, hiAt, new)
  BY <1>2, <1>5, <1>6, Rewritten
<1>8. loAt' = Freed /\ hiAt' = Freed
  BY <1>1, <1>2 DEF MergeLowSame, KeepIterators
<1>9. IInv'
  BY <1>7, <1>8, MergeStops DEF AtOneInterval, MergeLowSame, Leaves
<1>10. ASSUME NEW p \in Positions
       PROVE  MapOf(los')[p] = With(MapOf(los)[p], call.lo1, call.hi1, Level, p)
  <2>1. /\ Over(call.lo1, hiAt, p) => MapOf(los')[p] = Level
        /\ ~Over(call.lo1, hiAt, p) => MapOf(los')[p] = MapOf(los)[p]
        /\ KeyOf(p) \in Int
    <3>1. LeavesAt(call.lo1, hiAt, new, p)
      BY <1>2, <1>5, <1>6, RewrittenMap
    <3> QED
      BY <1>3, <3>1 DEF LeavesAt, Over
  <2>2. /\ Over(loAt, hiAt, p) => MapOf(los)[p] = Level
        /\ call.lo1 <= KeyOf(p) /\ KeyOf(p) < loAt => MapOf(los)[p] = Depth + 1
    BY <1>1, TurnMap
  <2>3. Level < Depth + 1
    BY <1>1, TurnMap, TurnApart
  <2> QED
    BY <1>1, <1>2, <2>1, <2>2, <2>3 DEF With, Over
<1> QED
  BY <1>9, <1>10 DEF Done

\* The part of the rest below a coarser interval it overlaps or covers.
LEMMA BelowCoarser ==
  ASSUME AtTurn, call.lo1 < loAt, Level > LLevel
  PROVE  /\ Predecessor(loAt, Level) = loAt - LLevel - 1
         /\ call.lo1 < loAt - LLevel - 1
         /\ IsInterval(call.lo1, loAt - LLevel - 1)
<1>1. /\ loAt \in Nat /\ call.lo1 \in Nat /\ loAt < EndOfKeys /\ EndOfKeys \in Nat
      /\ Level \in Levels /\ LLevel \in Levels
      /\ Aligned(loAt - LLevel, LLevel) /\ Aligned(call.lo1 - Level, Level)
      /\ Level \in Nat /\ LLevel \in Nat /\ Unit \in Nat /\ Level + 2 <= Unit
  BY TurnFacts, TurnApart
<1>2. Aligned(loAt - LLevel, Level)
  BY <1>1, AlignedFiner
<1>3. Predecessor(loAt, Level) = loAt - LLevel - 1
  <2>1. loAt - LLevel \in Int /\ (loAt - LLevel) + LLevel = loAt
    BY <1>1
  <2> HIDE DEF LLevel
  <2> QED
    BY <1>1, <1>2, <2>1, PredecessorOfLow
<1>4. call.lo1 - Level < loAt - LLevel
  BY <1>1
<1>5. call.lo1 - Level + Unit <= loAt - LLevel
  BY <1>4, TurnApart
<1>6. call.lo1 < loAt - LLevel - 1 /\ loAt - LLevel - 1 \in 0 .. EndOfKeys - 1
  BY <1>1, <1>5
<1>7. Aligned((loAt - LLevel - 1) + 1, Level)
  <2>1. (loAt - LLevel - 1) + 1 = loAt - LLevel
    BY <1>1
  <2> QED
    BY <1>2, <2>1
<1> QED
  BY <1>1, <1>3, <1>6, <1>7, RestIsInterval DEF IsInterval

LEMMA LowFinerTurn ==
  ASSUME IInv, MergeLowFiner
  PROVE  IInv' /\ Done
<1> DEFINE h == loAt - LLevel - 1
           new == {<<call.lo1, h>>}
<1>1. /\ AtTurn /\ call.lo1 < loAt /\ loAt <= call.hi1 /\ call.hi1 <= hiAt
      /\ Level > LLevel
  BY LiesMeans DEF MergeLowFiner
<1>2. /\ loAt \in Lows /\ hiAt = los[loAt] /\ loAt \in Nat /\ hiAt \in Nat
      /\ call.lo1 \in Nat /\ call.hi1 \in Nat /\ loAt < hiAt
      /\ Good(los, his) /\ LLevel \in Nat /\ Unit \in Nat /\ LLevel + 2 <= Unit
  BY <1>1, TurnFacts, TurnApart
<1>3. /\ IsInterval(call.lo1, h) /\ LevelById(call.lo1) = Level
      /\ Predecessor(loAt, Level) = h /\ h \in Int /\ h < loAt
  BY <1>1, <1>2, RestIsInterval, BelowCoarser
<1>4. \A l \in Lows : l \in Nat /\ (los[l] < call.lo1 \/ h < l)
  <2> TAKE l \in Lows
  <2>1. /\ l \in Nat /\ los[l] \in Nat /\ l < los[l]
        /\ l < loAt => los[l] < call.lo1
    BY <1>1, TurnNeighbours
  <2> QED
    BY <1>1, <1>2, <1>3, <2>1
<1>5. Fits(1, 0, new)
  BY <1>3, <1>4 DEF Fits
<1>6. Rewrite(<<1, 0>>, new)
  BY <1>3 DEF MergeLowFiner, Nowhere
<1>7. Leaves(1, 0, new)
  BY <1>2, <1>5, <1>6, Rewritten
<1>8. loAt \in Lows' /\ los'[loAt] = los[loAt]
  BY <1>2, <1>7 DEF Leaves, Lows
<1>9. IInv'
  BY <1>2, <1>7, <1>8, MergeStops DEF AtOneInterval, MergeLowFiner, Leaves
<1>10. ASSUME NEW p \in Positions
       PROVE  MapOf(los')[p] = With(MapOf(los)[p], call.lo1, call.hi1, Level, p)
  <2>1. /\ Over(call.lo1, h, p) => MapOf(los')[p] = Level
        /\ ~Over(call.lo1, h, p) => MapOf(los')[p] = MapOf(los)[p]
        /\ KeyOf(p) \in Int
    <3>1. LeavesAt(1, 0, new, p)
      BY <1>2, <1>5, <1>6, RewrittenMap
    <3> QED
      BY <1>3, <3>1 DEF LeavesAt, Over
  <2>2. /\ Over(loAt, hiAt, p) => MapOf(los)[p] = LLevel
        /\ call.lo1 <= KeyOf(p) /\ KeyOf(p) < loAt => MapOf(los)[p] = Depth + 1
        /\ loAt - LLevel <= KeyOf(p) => loAt - LLevel + Unit <= KeyOf(p) + 1
    BY <1>1, TurnMap
  <2>3. Level < Depth + 1 /\ Level \in Nat
    BY <1>1, TurnMap, TurnApart
  <2> QED
    BY <1>1, <1>2, <1>3, <2>1, <2>2, <2>3 DEF With, Over
<1> QED
  BY <1>9, <1>10 DEF Done

\* The part of a finer interval above what is left to merge.
LEMMA AboveRest ==
  ASSUME AtTurn, Level < LLevel
  PROVE  /\ Successor(call.hi1, LLevel) = call.hi1 + 1 + LLevel
         /\ call.hi1 < hiAt => /\ IsInterval(call.hi1 + 1 + LLevel, hiAt)
                               /\ call.hi1 + 1 + LLevel < hiAt
         /\ LevelById(call.hi1 + 1 + LLevel) = LLevel
<1>1. /\ hiAt \in Nat /\ call.hi1 \in Nat /\ hiAt < EndOfKeys /\ EndOfKeys \in Nat
      /\ call.hi1 + 1 < EndOfKeys
      /\ Level \in Levels /\ LLevel \in Levels
      /\ Aligned(hiAt + 1, LLevel) /\ Aligned(call.hi1 + 1, Level)
      /\ Level \in Nat /\ LLevel \in Nat /\ Unit \in Nat /\ LLevel + 2 <= Unit
  BY TurnFacts, TurnApart
<1>2. Aligned(call.hi1 + 1, LLevel)
  BY <1>1, AlignedFiner
<1>3. Successor(call.hi1, LLevel) = call.hi1 + 1 + LLevel
  BY <1>1, <1>2, SuccessorOfHigh
<1>4. Aligned((call.hi1 + 1 + LLevel) - LLevel, LLevel)
  <2>1. (call.hi1 + 1 + LLevel) - LLevel = call.hi1 + 1
    BY <1>1
  <2> QED
    BY <1>2, <2>1
<1>5. LevelById(call.hi1 + 1 + LLevel) = LLevel
  <2>1. call.hi1 + 1 + LLevel \in Int
    BY <1>1
  <2> QED
    BY <1>1, <1>4, <2>1, LevelOfLow
<1>6. ASSUME call.hi1 < hiAt PROVE call.hi1 + 1 + LLevel < hiAt
  <2>1. call.hi1 + 1 < hiAt + 1
    BY <1>1, <1>6
  <2>2. call.hi1 + 1 + Unit <= hiAt + 1
    BY <2>1, TurnApart
  <2> QED
    BY <1>1, <2>2
<1>7. ASSUME call.hi1 < hiAt PROVE IsInterval(call.hi1 + 1 + LLevel, hiAt)
  <2>1. call.hi1 + 1 + LLevel < hiAt
    BY <1>6, <1>7
  <2>2. call.hi1 + 1 + LLevel \in 0 .. EndOfKeys - 1
    BY <1>1, <2>1
  <2> QED
    BY <1>1, <1>4, <1>5, <2>1, <2>2 DEF IsInterval
<1> QED
  BY <1>3, <1>5, <1>6, <1>7

LEMMA LowCoarserTurn ==
  ASSUME IInv, MergeLowCoarser
  PROVE  IInv' /\ Done
<1> DEFINE top == call.hi1 + 1 + LLevel
           rest == IF call.hi1 < hiAt THEN {<<top, hiAt>>} ELSE {}
           new == {<<call.lo1, call.hi1>>} \cup rest
<1>1. /\ AtTurn /\ call.lo1 < loAt /\ loAt <= call.hi1 /\ call.hi1 <= hiAt
      /\ Level < LLevel
  BY LiesMeans DEF MergeLowCoarser
<1>2. /\ loAt \in Lows /\ hiAt = los[loAt] /\ loAt \in Nat /\ hiAt \in Nat
      /\ call.lo1 \in Nat /\ call.hi1 \in Nat /\ loAt < hiAt
      /\ Good(los, his) /\ LLevel \in Nat /\ Unit \in Nat /\ LLevel + 2 <= Unit
      /\ Level \in Levels /\ LLevel \in Levels /\ Aligned(call.hi1 + 1, Level)
  BY <1>1, TurnFacts, TurnApart
<1>3. /\ IsInterval(call.lo1, call.hi1) /\ LevelById(call.lo1) = Level
      /\ Successor(call.hi1, LLevel) = top
      /\ call.hi1 < hiAt => IsInterval(top, hiAt) /\ top < hiAt
      /\ LevelById(top) = LLevel
  BY <1>1, RestIsInterval, AboveRest
<1>4. Predecessor(top, Level) = call.hi1
  <2>1. call.hi1 + 1 \in Int
    BY <1>2
  <2>2. Predecessor((call.hi1 + 1) + LLevel, Level) = (call.hi1 + 1) - 1
    BY <1>2, <2>1, PredecessorOfLow
  <2> QED
    BY <1>2, <2>2
<1>5. top \in Int /\ call.hi1 < top
  BY <1>2
<1> HIDE DEF top
<1>6. \A l \in Lows : /\ l \in Nat /\ los[l] \in Nat
                      /\ \/ los[l] < call.lo1
                         \/ call.lo1 <= l /\ los[l] <= hiAt /\ l <= hiAt
                         \/ hiAt < l
  <2> TAKE l \in Lows
  <2>1. /\ l \in Nat /\ los[l] \in Nat /\ l < los[l]
        /\ l < loAt => los[l] < call.lo1
        /\ loAt < l => hiAt < l
    BY <1>1, TurnNeighbours
  <2> QED
    BY <1>1, <1>2, <2>1
<1>7. Fits(call.lo1, hiAt, new)
  <2>1. \A i \in new : \/ i = <<call.lo1, call.hi1>>
                       \/ call.hi1 < hiAt /\ i = <<top, hiAt>>
    OBVIOUS
  <2>2. \A i \in new : /\ IsInterval(i[1], i[2]) /\ i[1] \in Int /\ i[2] \in Int
                       /\ call.lo1 <= i[1] /\ i[2] <= hiAt
    BY <1>1, <1>2, <1>3, <1>5, <2>1
  <2>3. \A i, j \in new : i = j \/ i[2] < j[1] \/ j[2] < i[1]
    BY <1>5, <2>1
  <2>4. \A l \in Lows, i \in new :
          (call.lo1 <= l /\ l <= hiAt) \/ los[l] < i[1] \/ i[2] < l
    BY <1>2, <1>6, <2>2
  <2>5. \A l \in Lows : \/ hiAt < call.lo1 \/ los[l] < call.lo1 \/ hiAt < l
                        \/ call.lo1 <= l /\ los[l] <= hiAt
    BY <1>6
  <2> QED
    BY <2>2, <2>3, <2>4, <2>5 DEF Fits
<1>8. Rewrite(<<call.lo1, hiAt>>, new) /\ RewindIterators /\ call' = Idle
  <2>1. ~(call.hi1 < 0)
    BY <1>2
  <2> QED
    BY <1>3, <1>4, <2>1 DEF MergeLowCoarser
<1>9. Leaves(call.lo1, hiAt, new)
  BY <1>2, <1>7, <1>8, Rewritten
<1>10. IInv'
  BY <1>8, <1>9, Rewound, MergeStops DEF Leaves
<1>11. ASSUME NEW p \in Positions
       PROVE  MapOf(los')[p] = With(MapOf(los)[p], call.lo1, call.hi1, Level, p)
  <2>0. LeavesAt(call.lo1, hiAt, new, p)
    BY <1>2, <1>7, <1>8, RewrittenMap
  <2>1. /\ KeyOf(p) \in Int
        /\ Over(call.lo1, call.hi1, p) => MapOf(los')[p] = Level
        /\ call.hi1 < hiAt /\ Over(top, hiAt, p) => MapOf(los')[p] = LLevel
        /\ ~Over(call.lo1, call.hi1, p) /\ ~(call.hi1 < hiAt /\ Over(top, hiAt, p)) =>
              IF call.lo1 <= KeyOf(p) /\ KeyOf(p) <= hiAt
              THEN MapOf(los')[p] = Depth + 1
              ELSE MapOf(los')[p] = MapOf(los)[p]
    <3>1. \A i \in new : \/ i = <<call.lo1, call.hi1>>
                         \/ call.hi1 < hiAt /\ i = <<top, hiAt>>
      OBVIOUS
    <3>2. /\ <<call.lo1, call.hi1>> \in new
          /\ call.hi1 < hiAt => <<top, hiAt>> \in new
      OBVIOUS
    <3> HIDE DEF new
    <3>3. /\ Over(call.lo1, call.hi1, p) => MapOf(los')[p] = Level
          /\ call.hi1 < hiAt /\ Over(top, hiAt, p) => MapOf(los')[p] = LLevel
      BY <1>3, <2>0, <3>2 DEF LeavesAt
    <3> QED
      BY <2>0, <3>1, <3>3 DEF LeavesAt
  <2>2. /\ Over(loAt, hiAt, p) => MapOf(los)[p] = LLevel
        /\ call.lo1 <= KeyOf(p) /\ KeyOf(p) < loAt => MapOf(los)[p] = Depth + 1
        /\ call.hi1 + 1 <= KeyOf(p) => call.hi1 + 1 + Unit <= KeyOf(p) + 1
    BY <1>1, TurnMap
  <2>3. Level < Depth + 1 /\ Level \in Nat
    BY <1>1, TurnMap, TurnApart
  <2> QED
    BY <1>1, <1>2, <1>5, <2>1, <2>2, <2>3 DEF With, Over, top
<1> QED
  BY <1>10, <1>11 DEF Done

LEMMA InCoarserTurn ==
  ASSUME IInv, MergeInCoarser
  PROVE  IInv' /\ Done
<1>1. /\ AtTurn /\ loAt <= call.lo1 /\ call.hi1 <= hiAt /\ Level >= LLevel
  BY LiesMeans DEF MergeInCoarser
<1>2. /\ loAt \in Lows /\ hiAt = los[loAt] /\ Good(los, his)
      /\ loAt \in Nat /\ hiAt \in Nat /\ call.lo1 \in Nat /\ call.hi1 \in Nat
      /\ Level \in Nat /\ LLevel \in Nat
  BY <1>1, TurnFacts, TurnApart
<1>3. /\ los' = los /\ his' = his /\ loAt' = loAt /\ hiAt' = hiAt /\ call' = Idle
  BY DEF MergeInCoarser
<1>4. IInv'
  BY <1>2, <1>3, MergeStops DEF AtOneInterval, Lows
<1>5. ASSUME NEW p \in Positions
      PROVE  MapOf(los')[p] = With(MapOf(los)[p], call.lo1, call.hi1, Level, p)
  <2>1. Over(loAt, hiAt, p) => MapOf(los)[p] = LLevel
    BY <1>1, TurnMap
  <2>2. KeyOf(p) \in Int
    BY <1>1, TurnMap
  <2>3. MapOf(los')[p] = MapOf(los)[p]
    BY <1>3
  <2> QED
    BY <1>1, <1>2, <2>1, <2>2, <2>3 DEF With, Over
<1> QED
  BY <1>4, <1>5 DEF Done

\* The part of a finer interval below what is left to merge.
LEMMA BelowRest ==
  ASSUME AtTurn, Level < LLevel, loAt <= call.lo1
  PROVE  /\ Predecessor(call.lo1, LLevel) = call.lo1 - Level - 1
         /\ loAt < call.lo1 - Level - 1
         /\ loAt - LLevel < call.lo1 - Level
         /\ IsInterval(loAt, call.lo1 - Level - 1)
<1>1. /\ loAt \in Nat /\ call.lo1 \in Nat /\ call.lo1 < EndOfKeys /\ EndOfKeys \in Nat
      /\ loAt < EndOfKeys
      /\ Level \in Levels /\ LLevel \in Levels
      /\ Aligned(loAt - LLevel, LLevel) /\ Aligned(call.lo1 - Level, Level)
      /\ Level \in Nat /\ LLevel \in Nat /\ Unit \in Nat /\ LLevel + 2 <= Unit
  <2>1. /\ call.hi1 + 1 < EndOfKeys /\ call.lo1 < call.hi1 /\ call.hi1 \in Nat
        /\ hiAt < EndOfKeys /\ loAt < hiAt /\ hiAt \in Nat
        /\ loAt \in Nat /\ call.lo1 \in Nat /\ EndOfKeys \in Nat
    BY TurnFacts
  <2> QED
    BY <2>1, TurnFacts, TurnApart
<1>2. Aligned(call.lo1 - Level, LLevel)
  BY <1>1, AlignedFiner
<1>3. Predecessor(call.lo1, LLevel) = call.lo1 - Level - 1
  <2>1. call.lo1 - Level \in Int /\ (call.lo1 - Level) + Level = call.lo1
    BY <1>1
  <2> HIDE DEF Level
  <2> QED
    BY <1>1, <1>2, <2>1, PredecessorOfLow
<1>4. loAt - LLevel < call.lo1 - Level
  <2>1. loAt - LLevel >= call.lo1 - Level =>
          \/ loAt - LLevel = call.lo1 - Level
          \/ call.lo1 - Level + Unit <= loAt - LLevel
    BY <1>1, TurnApart
  <2> QED
    BY <1>1, <2>1, TurnApart
<1>5. loAt - LLevel + Unit <= call.lo1 - Level
  BY <1>4, TurnApart
<1>6. loAt < call.lo1 - Level - 1 /\ call.lo1 - Level - 1 \in 0 .. EndOfKeys - 1
  BY <1>1, <1>5
<1>7. Aligned((call.lo1 - Level - 1) + 1, LLevel)
  <2>1. (call.lo1 - Level - 1) + 1 = call.lo1 - Level
    BY <1>1
  <2> QED
    BY <1>2, <2>1
<1>8. loAt \in 0 .. EndOfKeys - 1
  BY <1>1
<1> QED
  BY <1>1, <1>3, <1>4, <1>6, <1>7, <1>8 DEF IsInterval, LLevel

LEMMA InFinerTurn ==
  ASSUME IInv, MergeInFiner
  PROVE  IInv' /\ Done
<1> DEFINE cut == call.lo1 - Level - 1
           top == call.hi1 + 1 + LLevel
           rest == IF call.hi1 < hiAt THEN {<<top, hiAt>>} ELSE {}
           new == {<<loAt, cut>>} \cup {<<call.lo1, call.hi1>>} \cup rest
<1>1. /\ AtTurn /\ loAt <= call.lo1 /\ call.hi1 <= hiAt /\ Level < LLevel
  BY LiesMeans DEF MergeInFiner
<1>2. /\ loAt \in Lows /\ hiAt = los[loAt] /\ loAt \in Nat /\ hiAt \in Nat
      /\ call.lo1 \in Nat /\ call.hi1 \in Nat /\ loAt < hiAt /\ call.lo1 < call.hi1
      /\ Good(los, his) /\ Level \in Nat /\ LLevel \in Nat
      /\ Unit \in Nat /\ Level + 2 <= Unit /\ LLevel + 2 <= Unit
  BY <1>1, TurnFacts, TurnApart
<1>3. /\ IsInterval(call.lo1, call.hi1) /\ LevelById(call.lo1) = Level
      /\ Successor(call.hi1, LLevel) = top
      /\ call.hi1 < hiAt => IsInterval(top, hiAt) /\ top < hiAt
      /\ LevelById(top) = LLevel
      /\ Predecessor(call.lo1, LLevel) = cut
      /\ IsInterval(loAt, cut) /\ loAt < cut /\ LevelById(loAt) = LLevel
  BY <1>1, RestIsInterval, AboveRest, BelowRest DEF LLevel
<1>4. top \in Int /\ call.hi1 < top /\ cut \in Int /\ cut < call.lo1
  BY <1>2
<1>5. Segment(loAt, cut) = {<<loAt, cut>>} /\ Segment(top, hiAt) = rest
  <2>1. call.hi1 < hiAt => Segment(top, hiAt) = {<<top, hiAt>>}
    BY <1>3, SegmentIs
  <2>2. ~(call.hi1 < hiAt) => ~(top < hiAt)
    BY <1>1, <1>2
  <2> QED
    BY <1>3, <2>1, <2>2 DEF Segment
<1>6. Rewrite(<<loAt, hiAt>>, new)
  BY <1>3, <1>5 DEF MergeInFiner
<1> HIDE DEF top, cut
<1>7. \A l \in Lows : /\ l \in Nat /\ los[l] \in Nat
                      /\ \/ los[l] < loAt
                         \/ loAt <= l /\ los[l] <= hiAt /\ l <= hiAt
                         \/ hiAt < l
  <2> TAKE l \in Lows
  <2>1. /\ l \in Nat /\ los[l] \in Nat /\ l < los[l]
        /\ l < loAt => los[l] < loAt
        /\ loAt < l => hiAt < l
    BY <1>1, TurnNeighbours
  <2> QED
    BY <1>1, <1>2, <2>1
<1>8. \A i \in new : \/ i = <<loAt, cut>>
                     \/ i = <<call.lo1, call.hi1>>
                     \/ call.hi1 < hiAt /\ i = <<top, hiAt>>
  OBVIOUS
<1>9. /\ <<loAt, cut>> \in new /\ <<call.lo1, call.hi1>> \in new
      /\ call.hi1 < hiAt => <<top, hiAt>> \in new
  OBVIOUS
<1> HIDE DEF new
<1>10. Fits(loAt, hiAt, new)
  <2>1. \A i \in new : /\ IsInterval(i[1], i[2]) /\ i[1] \in Int /\ i[2] \in Int
                       /\ loAt <= i[1] /\ i[2] <= hiAt
    BY <1>1, <1>2, <1>3, <1>4, <1>8
  <2>2. \A i, j \in new : i = j \/ i[2] < j[1] \/ j[2] < i[1]
    BY <1>2, <1>4, <1>8
  <2>3. \A l \in Lows, i \in new :
          (loAt <= l /\ l <= hiAt) \/ los[l] < i[1] \/ i[2] < l
    BY <1>2, <1>7, <2>1
  <2>4. \A l \in Lows : \/ hiAt < loAt \/ los[l] < loAt \/ hiAt < l
                        \/ loAt <= l /\ los[l] <= hiAt
    BY <1>7
  <2> QED
    BY <2>1, <2>2, <2>3, <2>4 DEF Fits
<1>11. Leaves(loAt, hiAt, new)
  BY <1>2, <1>6, <1>10, Rewritten
<1>12. loAt' = Freed /\ hiAt' = Freed
  BY <1>1, <1>2 DEF MergeInFiner, KeepIterators
<1>13. IInv'
  BY <1>11, <1>12, MergeStops DEF AtOneInterval, MergeInFiner, Leaves
<1>14. ASSUME NEW p \in Positions
       PROVE  MapOf(los')[p] = With(MapOf(los)[p], call.lo1, call.hi1, Level, p)
  <2>0. LeavesAt(loAt, hiAt, new, p)
    BY <1>2, <1>6, <1>10, RewrittenMap
  <2>1. /\ KeyOf(p) \in Int
        /\ Over(loAt, cut, p) => MapOf(los')[p] = LLevel
        /\ Over(call.lo1, call.hi1, p) => MapOf(los')[p] = Level
        /\ call.hi1 < hiAt /\ Over(top, hiAt, p) => MapOf(los')[p] = LLevel
    BY <1>3, <1>9, <2>0 DEF LeavesAt
  <2>2. ~Over(loAt, cut, p) /\ ~Over(call.lo1, call.hi1, p)
          /\ ~(call.hi1 < hiAt /\ Over(top, hiAt, p)) =>
              IF loAt <= KeyOf(p) /\ KeyOf(p) <= hiAt
              THEN MapOf(los')[p] = Depth + 1
              ELSE MapOf(los')[p] = MapOf(los)[p]
    <3> SUFFICES ASSUME ~Over(loAt, cut, p), ~Over(call.lo1, call.hi1, p),
                        ~(call.hi1 < hiAt /\ Over(top, hiAt, p))
                 PROVE  IF loAt <= KeyOf(p) /\ KeyOf(p) <= hiAt
                        THEN MapOf(los')[p] = Depth + 1
                        ELSE MapOf(los')[p] = MapOf(los)[p]
      OBVIOUS
    <3>1. \A i \in new : ~Over(i[1], i[2], p)
      BY <1>8
    <3> QED
      BY <2>0, <3>1 DEF LeavesAt
  <2>3. /\ Over(loAt, hiAt, p) => MapOf(los)[p] = LLevel
        /\ call.hi1 + 1 <= KeyOf(p) => call.hi1 + 1 + Unit <= KeyOf(p) + 1
        /\ call.lo1 - Level <= KeyOf(p) => call.lo1 - Level + Unit <= KeyOf(p) + 1
    BY <1>1, TurnMap
  <2> QED
    BY <1>1, <1>2, <1>4, <2>1, <2>2, <2>3 DEF With, Over, top, cut
<1> QED
  BY <1>13, <1>14 DEF Done

LEMMA EndTurn ==
  ASSUME IInv, MergeEnd
  PROVE  IInv' /\ Done
<1> DEFINE new == {<<call.lo1, call.hi1>>}
<1>1. call.op = "merge" /\ LeftToMerge /\ Behind /\ call \in Calls /\ Good(los, his)
  BY DEF IInv, MergeEnd
<1>2. loAt \notin Lows /\ loAt = Nil /\ hiAt = Nil
  <2>1. \A l \in Lows : l \in Nat
    BY <1>1, GoodKeys, LevelAtIsMap
  <2>2. loAt # Header /\ loAt # Freed /\ AtOneInterval
    BY <1>1 DEF IInv, Iterators
  <2>3. loAt \notin Lows
    BY <2>1 DEF MergeEnd
  <2> QED
    BY <2>2, <2>3 DEF AtOneInterval
<1>3. /\ Level \in Levels /\ call.lo1 \in Int /\ call.hi1 \in Int /\ call.lo1 < call.hi1
      /\ IsInterval(call.lo, call.hi)
      /\ call.lo \in Nat /\ call.hi \in Nat /\ call.hi < EndOfKeys /\ EndOfKeys \in Nat
      /\ Aligned(call.lo1 - Level, Level) /\ Aligned(call.hi1 + 1, Level)
      /\ call.lo <= call.lo1 /\ call.hi = call.hi1
  BY <1>1, MergeLocals, KeyBounds DEF LeftToMerge, IsInterval, Level
<1>4. LevelById(call.lo1) = Level
  BY <1>3, LevelOfLow
<1>5. IsInterval(call.lo1, call.hi1)
  BY <1>3, <1>4 DEF IsInterval
<1>6. \A l \in Lows : l \in Nat /\ los[l] < call.lo1
  BY <1>1, <1>2, GoodKeys, LevelAtIsMap DEF Behind
<1>7. Fits(1, 0, new)
  BY <1>5, <1>6 DEF Fits
<1>8. Rewrite(<<1, 0>>, new)
  BY DEF MergeEnd, Nowhere
<1>9. Leaves(1, 0, new)
  BY <1>1, <1>7, <1>8, Rewritten
<1>10. IInv'
  BY <1>2, <1>9, MergeStops DEF AtOneInterval, MergeEnd, Leaves
<1>11. ASSUME NEW p \in Positions
       PROVE  MapOf(los')[p] = With(MapOf(los)[p], call.lo1, call.hi1, Level, p)
  <2>1. /\ Over(call.lo1, call.hi1, p) => MapOf(los')[p] = Level
        /\ ~Over(call.lo1, call.hi1, p) => MapOf(los')[p] = MapOf(los)[p]
        /\ KeyOf(p) \in Int
    <3>1. LeavesAt(1, 0, new, p)
      BY <1>1, <1>7, <1>8, RewrittenMap
    <3> QED
      BY <1>4, <3>1 DEF LeavesAt
  <2>2. Over(call.lo1, call.hi1, p) => MapOf(los)[p] = Depth + 1
    <3>1. \A l \in DOMAIN los : l \in Nat /\ los[l] \in Nat /\ los[l] < call.lo1
      BY <1>1, <1>6, GoodKeys, LevelAtIsMap
    <3> QED
      BY <1>1, <1>3, <2>1, <3>1, LevelOfPosition DEF Over
  <2>3. Level < Depth + 1
    BY <1>3, LevelConstants
  <2> QED
    BY <2>1, <2>2, <2>3 DEF With
<1> QED
  BY <1>10, <1>11 DEF Done

-----------------------------------------------------------------------------
(***************************************************************************)
(* The turns of mergeRange that go on.                                     *)
(***************************************************************************)
\* An interval that begins above a bound begins in a triangle above it.
LEMMA BaseAbove ==
  ASSUME NEW l, NEW h, IsInterval(l, h), NEW m \in Levels, NEW x, Aligned(x, m), x <= l
  PROVE  x <= l - LevelById(l) /\ l - LevelById(l) \in Int
<1> DEFINE v == LevelById(l)
<1>1. l \in Int /\ v \in Levels /\ Aligned(l - v, v) /\ x \in Int
  BY AlignedIsInt DEF IsInterval
<1>2. v \in Nat /\ v + 2 <= Unit /\ Unit \in Nat
  BY <1>1, LevelConstants
<1>3. l - v < x => l - v + Unit <= x
  BY <1>1, UnitsApart
<1> QED
  BY <1>1, <1>2, <1>3

\* The positions above an interval the rest reaches are as they were.
LEMMA UntouchedAbove ==
  ASSUME AtTurn, call.lo1 <= hiAt, NEW p \in Positions,
         call.lo1 <= KeyOf(p), loAt <= KeyOf(p)
  PROVE  MapOf(los)[p] = call.before[p]
<1>1. Untouched
  BY DEF AtTurn, IInv
<1>2. loAt \in Lows /\ hiAt = los[loAt] /\ loAt \in Nat /\ hiAt \in Nat /\ call.lo1 \in Nat
  BY TurnFacts
<1>3. KeyOf(p) \in Int
  BY TurnMap
<1> QED
  BY <1>1, <1>2, <1>3 DEF Untouched

\* A turn that goes on, at x, above what it has done.
LEMMA RestAbove ==
  ASSUME AtTurn, hiAt < call.hi1, Level >= LLevel
  PROVE  /\ Successor(hiAt, Level) = hiAt + 1 + Level
         /\ hiAt + 1 + Level \in Int
         /\ Aligned((hiAt + 1 + Level) - Level, Level)
         /\ hiAt + 1 + Level < call.hi1
<1>1. /\ hiAt \in Nat /\ call.hi1 \in Nat /\ EndOfKeys \in Nat
      /\ call.hi1 + 1 < EndOfKeys
      /\ Level \in Levels /\ LLevel \in Levels
      /\ Aligned(hiAt + 1, LLevel)
      /\ Level \in Nat /\ LLevel \in Nat /\ Unit \in Nat /\ Level + 2 <= Unit
  BY TurnFacts, TurnApart
<1>2. Aligned(hiAt + 1, Level)
  BY <1>1, AlignedFiner
<1>3. hiAt + 1 < call.hi1 + 1 /\ hiAt + 1 # EndOfKeys
  BY <1>1
<1>4. Successor(hiAt, Level) = hiAt + 1 + Level
  BY <1>1, <1>2, <1>3, SuccessorOfHigh
<1>5. (hiAt + 1 + Level) - Level = hiAt + 1
  BY <1>1
<1>6. hiAt + 1 + Unit <= call.hi1 + 1
  BY <1>3, TurnApart
<1> QED
  BY <1>1, <1>2, <1>4, <1>5, <1>6

LEMMA NotYetThereTurn ==
  ASSUME IInv, NotYetThere
  PROVE  IInv'
<1>1. AtTurn /\ hiAt < call.lo1
  BY LiesMeans DEF NotYetThere
<1>2. /\ loAt \in Lows /\ hiAt = los[loAt] /\ loAt \in Nat /\ hiAt \in Nat
      /\ call.lo1 \in Int /\ Good(los, his)
  BY <1>1, TurnFacts
<1>3. los' = los /\ his' = his /\ Lows' = Lows
  BY DEF NotYetThere, Lows
<1>4. GoesOn(call.lo1)
  BY <1>2, LocalsGoOn DEF IInv, NotYetThere, AtInterval
<1>5. /\ AtOneInterval' /\ loAt' # Freed /\ loAt' # Header
      /\ \A l \in Lows : (loAt' \in Lows => l < loAt') => l <= loAt
  BY <1>2, <1>3, Stepped DEF NotYetThere
<1>6. Behind'
  <2>1. \A l \in Lows : l <= loAt => los[l] < call.lo1
    <3> TAKE l \in Lows
    <3>1. l \in Nat /\ (l < loAt => los[l] < call.lo1)
      BY <1>1, TurnNeighbours
    <3> QED
      BY <1>1, <1>2, <3>1
  <2> QED
    BY <1>3, <1>4, <1>5, <2>1 DEF Behind, GoesOn
<1>7. NoStraddle' /\ Sofar' /\ Untouched'
  BY <1>1, <1>3, <1>4
     DEF NoStraddle, Sofar, Untouched, GoesOn, AtTurn, IInv, CutsStraddler
<1> QED
  BY <1>1, <1>2, <1>3, <1>4, <1>5, <1>6, <1>7, MergeGoesOn DEF IInv, LeftToMerge, AtTurn

LEMMA HighFinerTurn ==
  ASSUME IInv, MergeHighFiner
  PROVE  IInv'
<1> DEFINE x == hiAt + 1 + Level
<1>1. /\ AtTurn /\ loAt <= call.lo1 /\ call.lo1 <= hiAt /\ hiAt < call.hi1
      /\ Level >= LLevel
  BY LiesMeans DEF MergeHighFiner
<1>2. /\ loAt \in Lows /\ hiAt = los[loAt] /\ loAt \in Nat /\ hiAt \in Nat
      /\ call.lo1 \in Nat /\ call.hi1 \in Nat /\ Good(los, his)
      /\ call.lo \in Nat /\ call.lo <= call.lo1 /\ call.hi = call.hi1
      /\ Level \in Nat /\ LLevel \in Nat /\ Unit \in Nat /\ Level + 2 <= Unit
      /\ LLevel \in Levels /\ Aligned(hiAt + 1, LLevel)
  BY <1>1, TurnFacts, TurnApart
<1>3. los' = los /\ his' = his /\ Lows' = Lows
  BY DEF MergeHighFiner, Lows
<1>4. /\ Successor(hiAt, Level) = x /\ x \in Int /\ Aligned(x - Level, Level)
      /\ x < call.hi1
  BY <1>1, RestAbove
<1>5. GoesOn(x)
  BY <1>4, LocalsGoOn DEF IInv, MergeHighFiner, AtInterval
<1>6. /\ AtOneInterval' /\ loAt' # Freed /\ loAt' # Header
      /\ \A l \in Lows : (loAt' \in Lows => l < loAt') => l <= loAt
  BY <1>2, <1>3, Stepped DEF MergeHighFiner
<1>7. \A l \in Lows : l <= loAt => los[l] < x
  <2> TAKE l \in Lows
  <2>1. l \in Nat /\ los[l] \in Nat /\ (l < loAt => los[l] < loAt)
    BY <1>1, TurnNeighbours
  <2> QED
    BY <1>1, <1>2, <2>1
<1>8. Behind'
  BY <1>3, <1>5, <1>6, <1>7 DEF Behind, GoesOn
<1>9. \A l \in Lows : l - LevelById(l) < x - Level => los[l] < x
  <2> TAKE l \in Lows
  <2>1. l \in Nat /\ IsInterval(l, los[l]) /\ (loAt < l => hiAt < l)
    BY <1>1, TurnNeighbours
  <2>2. x - Level = hiAt + 1
    BY <1>2
  <2>3. loAt < l => hiAt + 1 <= l
    BY <1>2, <2>1
  <2>4. loAt < l => hiAt + 1 <= l - LevelById(l) /\ l - LevelById(l) \in Int
    BY <1>2, <2>1, <2>3, BaseAbove
  <2> QED
    BY <1>2, <1>7, <2>1, <2>2, <2>4
<1>10. NoStraddle'
  BY <1>3, <1>5, <1>9 DEF NoStraddle, GoesOn
<1>11. Untouched'
  <2>1. ASSUME NEW p \in Positions, x <= KeyOf(p) PROVE MapOf(los)[p] = call.before[p]
    <3>1. KeyOf(p) \in Int
      BY <1>1, TurnMap
    <3>2. call.lo1 <= KeyOf(p) /\ loAt <= KeyOf(p)
      BY <1>1, <1>2, <2>1, <3>1
    <3> QED
      BY <1>1, <3>2, UntouchedAbove
  <2> QED
    BY <1>3, <1>5, <2>1 DEF Untouched, GoesOn
<1>12. Sofar'
  <2>1. ASSUME NEW p \in Positions
        PROVE  With(MapOf(los)[p], x, call.hi1, Level, p)
                 = With(MapOf(los)[p], call.lo1, call.hi1, Level, p)
    <3>1. /\ KeyOf(p) \in Int
          /\ Over(loAt, hiAt, p) => MapOf(los)[p] = LLevel
          /\ hiAt + 1 <= KeyOf(p) => hiAt + 1 + Unit <= KeyOf(p) + 1
      BY <1>1, TurnMap
    <3> QED
      BY <1>1, <1>2, <1>4, <3>1 DEF With, Over
  <2>2. Sofar
    BY <1>1 DEF AtTurn, IInv
  <2> QED
    BY <1>3, <1>5, <2>1, <2>2 DEF Sofar, GoesOn
<1> QED
  BY <1>1, <1>2, <1>3, <1>4, <1>5, <1>6, <1>8, <1>10, <1>11, <1>12, MergeGoesOn DEF AtTurn

LEMMA OverTurn ==
  ASSUME IInv, MergeOver
  PROVE  IInv'
<1>1. AtTurn /\ call.lo1 < loAt /\ hiAt < call.hi1 /\ Level <= LLevel
  BY LiesMeans DEF MergeOver
<1>2. /\ loAt \in Lows /\ hiAt = los[loAt] /\ loAt \in Nat /\ hiAt \in Nat
      /\ call.lo1 \in Nat /\ call.lo1 \in Int /\ call.hi1 \in Nat
      /\ Good(los, his) /\ loAt < hiAt
      /\ Level \in Nat /\ LLevel \in Nat
  BY <1>1, TurnFacts, TurnApart
<1>3. \A l \in Lows : /\ l \in Nat /\ los[l] \in Nat /\ l < los[l]
                      /\ l < loAt => los[l] < call.lo1 /\ los[l] < loAt
                      /\ loAt < l => hiAt < l
  BY <1>1, TurnNeighbours
<1>4. Fits(loAt, hiAt, {})
  <2>1. ASSUME NEW l \in Lows
        PROVE  los[l] < loAt \/ hiAt < l \/ (loAt <= l /\ los[l] <= hiAt)
    BY <1>2, <1>3
  <2> QED
    BY <2>1 DEF Fits
<1>5. Rewrite(<<loAt, hiAt>>, {})
  BY DEF MergeOver
<1>6. Leaves(loAt, hiAt, {})
  BY <1>2, <1>4, <1>5, Rewritten
<1>7. /\ Good(los', his')
      /\ Lows' = {l \in Lows : l < loAt \/ hiAt < l}
      /\ \A l \in Lows' : l \in Lows /\ los'[l] = los[l]
  BY <1>6 DEF Leaves, Lows
<1>8. GoesOn(call.lo1)
  BY <1>2, LocalsGoOn DEF IInv, MergeOver, AtInterval
<1>9. /\ AtOneInterval' /\ loAt' # Freed /\ loAt' # Header
      /\ \A l \in Lows' : ~(loAt' \in Lows' => l < loAt')
  BY <1>7, Rewound DEF MergeOver
<1>10. Behind'
  BY <1>9 DEF Behind
<1>11. NoStraddle'
  <2>1. CASE call.lo1 = call.lo /\ ~CutsStraddler(call.lo, call.hi)
    <3>1. ASSUME CutsStraddler(call.lo, call.hi)' PROVE FALSE
      <4>1. PICK a, b \in Lows' :
              LET end == Terminate(los'[a], LevelById(call'.lo))
              IN  /\ LevelById(a) > LevelById(call'.lo)
                  /\ a < call'.lo /\ call'.lo <= los'[a] /\ los'[a] < call'.hi
                  /\ los'[a] < b /\ b <= end /\ end < los'[b]
        BY <3>1 DEF CutsStraddler
      <4>2. a \in Lows /\ b \in Lows /\ los'[a] = los[a] /\ los'[b] = los[b]
        BY <1>7
      <4>3. call'.lo = call.lo /\ call'.hi = call.hi
        BY <1>8 DEF GoesOn
      <4> QED
        BY <2>1, <4>1, <4>2, <4>3 DEF CutsStraddler
    <3> QED
      BY <1>8, <2>1, <3>1 DEF NoStraddle, GoesOn
  <2>2. CASE \A l \in Lows : l - LevelById(l) < call.lo1 - Level => los[l] < call.lo1
    BY <1>7, <1>8, <2>2 DEF NoStraddle, GoesOn
  <2>3. NoStraddle
    BY <1>1 DEF AtTurn, IInv
  <2> QED
    BY <2>1, <2>2, <2>3 DEF NoStraddle
<1>12. ASSUME NEW p \in Positions
       PROVE  /\ KeyOf(p) \in Int
              /\ Over(loAt, hiAt, p) => MapOf(los')[p] = Depth + 1 /\ MapOf(los)[p] = LLevel
              /\ ~Over(loAt, hiAt, p) => MapOf(los')[p] = MapOf(los)[p]
  <2>1. LeavesAt(loAt, hiAt, {}, p)
    BY <1>2, <1>4, <1>5, RewrittenMap
  <2>2. Over(loAt, hiAt, p) => MapOf(los)[p] = LLevel
    BY <1>1, TurnMap
  <2> QED
    BY <2>1, <2>2 DEF LeavesAt, Over
<1>13. Sofar'
  <2>1. ASSUME NEW p \in Positions
        PROVE  With(MapOf(los')[p], call.lo1, call.hi1, Level, p)
                 = With(MapOf(los)[p], call.lo1, call.hi1, Level, p)
    <3>1. Level <= Depth /\ Depth \in Nat
      BY <1>1, TurnMap
    <3>2. Over(loAt, hiAt, p) => Over(call.lo1, call.hi1, p)
      BY <1>1, <1>2, <1>12 DEF Over
    <3> QED
      BY <1>1, <1>2, <1>12, <3>1, <3>2 DEF With
  <2>2. Sofar
    BY <1>1 DEF AtTurn, IInv
  <2> QED
    BY <1>8, <2>1, <2>2 DEF Sofar, GoesOn
<1>14. Untouched'
  <2>1. ASSUME NEW p \in Positions, call.lo1 <= KeyOf(p)
        PROVE  \/ MapOf(los')[p] = call.before[p]
               \/ \A l \in Lows' : los'[l] < call.lo1 \/ KeyOf(p) < l
    <3>1. CASE KeyOf(p) <= hiAt
      <4>1. \A l \in Lows' : los'[l] < call.lo1 \/ KeyOf(p) < l
        BY <1>2, <1>3, <1>7, <1>12, <3>1
      <4> QED
        BY <4>1
    <3>2. CASE hiAt < KeyOf(p)
      <4>1. MapOf(los)[p] = call.before[p]
        BY <1>1, <1>2, <1>12, <2>1, <3>2, UntouchedAbove
      <4>2. MapOf(los')[p] = MapOf(los)[p]
        BY <1>2, <1>12, <3>2 DEF Over
      <4> QED
        BY <4>1, <4>2
    <3> QED
      BY <1>2, <1>12, <3>1, <3>2
  <2> QED
    BY <1>8, <2>1 DEF Untouched, GoesOn
<1>15. LeftToMerge
  BY <1>1 DEF AtTurn, IInv
<1> QED
  BY <1>1, <1>2, <1>7, <1>8, <1>9, <1>10, <1>11, <1>13, <1>14, <1>15, MergeGoesOn
     DEF AtTurn, LeftToMerge

LEMMA AroundTurn ==
  ASSUME IInv, MergeAround
  PROVE  IInv'
<1> DEFINE h == loAt - LLevel - 1
           x == hiAt + 1 + Level
           new == {<<call.lo1, h>>}
<1>1. AtTurn /\ call.lo1 < loAt /\ hiAt < call.hi1 /\ Level > LLevel
  BY LiesMeans DEF MergeAround
<1>2. /\ loAt \in Lows /\ hiAt = los[loAt] /\ loAt \in Nat /\ hiAt \in Nat
      /\ call.lo1 \in Nat /\ call.hi1 \in Nat /\ Good(los, his) /\ loAt < hiAt
      /\ call.lo \in Nat /\ call.lo <= call.lo1 /\ call.hi = call.hi1
      /\ Level \in Nat /\ LLevel \in Nat /\ Unit \in Nat
      /\ Level + 2 <= Unit /\ LLevel + 2 <= Unit
      /\ LLevel \in Levels /\ Aligned(hiAt + 1, LLevel)
  BY <1>1, TurnFacts, TurnApart
<1>3. /\ IsInterval(call.lo1, h) /\ LevelById(call.lo1) = Level
      /\ Predecessor(loAt, Level) = h /\ h \in Int /\ h < loAt /\ call.lo1 < h
  BY <1>1, <1>2, RestIsInterval, BelowCoarser
<1>4. /\ Successor(hiAt, Level) = x /\ x \in Int /\ Aligned(x - Level, Level)
      /\ x < call.hi1 /\ hiAt < x /\ x - Level = hiAt + 1
  BY <1>1, <1>2, RestAbove
<1> HIDE DEF h, x
<1>5. \A l \in Lows : /\ l \in Nat /\ los[l] \in Nat /\ l < los[l]
                      /\ IsInterval(l, los[l])
                      /\ l < loAt => los[l] < call.lo1 /\ los[l] < loAt
                      /\ loAt < l => hiAt < l
  BY <1>1, TurnNeighbours
<1>6. Fits(1, 0, new)
  <2>1. \A l \in Lows : los[l] < call.lo1 \/ h < l
    BY <1>2, <1>3, <1>5
  <2> QED
    BY <1>3, <2>1 DEF Fits
<1>7. Rewrite(<<1, 0>>, new) /\ RewindIterators
  BY <1>3, SegmentIs DEF MergeAround, Nowhere
<1>8. Leaves(1, 0, new)
  BY <1>2, <1>6, <1>7, Rewritten
<1>9. /\ Good(los', his')
      /\ Lows' = Lows \cup {call.lo1}
      /\ \A l \in Lows : los'[l] = los[l]
      /\ los'[call.lo1] = h
  <2>1. {l \in Lows : l < 1 \/ 0 < l} = Lows
    BY <1>5
  <2>2. {i[1] : i \in new} = {call.lo1}
    OBVIOUS
  <2>3. \A l \in Lows : l < 1 \/ 0 < l
    BY <1>5
  <2> QED
    BY <1>8, <2>1, <2>2, <2>3 DEF Leaves, Lows
<1>10. GoesOn(x)
  BY <1>4, LocalsGoOn DEF IInv, MergeAround, AtInterval
<1>11. /\ AtOneInterval' /\ loAt' # Freed /\ loAt' # Header
       /\ \A l \in Lows' : ~(loAt' \in Lows' => l < loAt')
  BY <1>7, <1>9, Rewound
<1>12. Behind'
  BY <1>11 DEF Behind
<1>13. \A l \in Lows' : l - LevelById(l) < hiAt + 1 => los'[l] < x
  <2>1. ASSUME NEW l \in Lows, l - LevelById(l) < hiAt + 1 PROVE los[l] < x
    <3>1. loAt < l => hiAt + 1 <= l
      BY <1>2, <1>5
    <3>2. loAt < l => hiAt + 1 <= l - LevelById(l) /\ l - LevelById(l) \in Int
      BY <1>2, <1>5, <3>1, BaseAbove
    <3>3. ~(loAt < l)
      BY <1>2, <2>1, <3>2
    <3> QED
      BY <1>2, <1>4, <1>5, <3>3
  <2>2. h < x
    BY <1>2, <1>3, <1>4
  <2> QED
    BY <1>9, <2>1, <2>2
<1>14. NoStraddle'
  BY <1>4, <1>10, <1>13 DEF NoStraddle, GoesOn
<1>15. ASSUME NEW p \in Positions
       PROVE  /\ KeyOf(p) \in Int
              /\ Over(call.lo1, h, p) => MapOf(los')[p] = Level
              /\ ~Over(call.lo1, h, p) => MapOf(los')[p] = MapOf(los)[p]
  <2>1. LeavesAt(1, 0, new, p)
    BY <1>2, <1>6, <1>7, RewrittenMap
  <2> QED
    BY <1>3, <2>1 DEF LeavesAt, Over
<1>16. Untouched'
  <2>1. ASSUME NEW p \in Positions, x <= KeyOf(p) PROVE MapOf(los')[p] = call.before[p]
    <3>1. KeyOf(p) \in Int
      BY <1>1, TurnMap
    <3>2. call.lo1 <= KeyOf(p) /\ loAt <= KeyOf(p) /\ call.lo1 <= hiAt
      BY <1>1, <1>2, <1>4, <2>1, <3>1
    <3>3. MapOf(los)[p] = call.before[p]
      BY <1>1, <3>2, UntouchedAbove
    <3>4. ~Over(call.lo1, h, p)
      BY <1>2, <1>3, <3>1, <3>2 DEF Over
    <3> QED
      BY <1>15, <3>3, <3>4
  <2> QED
    BY <1>10, <2>1 DEF Untouched, GoesOn
<1>17. Sofar'
  <2>1. ASSUME NEW p \in Positions
        PROVE  With(MapOf(los')[p], x, call.hi1, Level, p)
                 = With(MapOf(los)[p], call.lo1, call.hi1, Level, p)
    <3>1. /\ KeyOf(p) \in Int /\ Level < Depth + 1
          /\ Over(loAt, hiAt, p) => MapOf(los)[p] = LLevel
          /\ call.lo1 <= KeyOf(p) /\ KeyOf(p) < loAt => MapOf(los)[p] = Depth + 1
          /\ loAt - LLevel <= KeyOf(p) => loAt - LLevel + Unit <= KeyOf(p) + 1
          /\ hiAt + 1 <= KeyOf(p) => hiAt + 1 + Unit <= KeyOf(p) + 1
      BY <1>1, <1>2, TurnMap
    <3> QED
      BY <1>1, <1>2, <1>3, <1>4, <1>15, <3>1 DEF With, Over, h, x
  <2>2. Sofar
    BY <1>1 DEF AtTurn, IInv
  <2> QED
    BY <1>10, <2>1, <2>2 DEF Sofar, GoesOn
<1>18. call.lo <= x /\ x < call.hi
  BY <1>1, <1>2, <1>4
<1> QED
  BY <1>1, <1>4, <1>9, <1>10, <1>11, <1>12, <1>14, <1>16, <1>17, <1>18, MergeGoesOn
     DEF AtTurn

\* Where case 5.2 cuts, and that nothing it frees reaches over the cut.
CutAt(top) ==
  /\ top \in Int /\ Aligned(top, Level)
  /\ hiAt < top /\ top <= call.hi1 + 1
  /\ Successor(hiAt, Level) = top + Level
  /\ Predecessor(top + Level, Level) = top - 1
  /\ IsInterval(call.lo1, top - 1)
  /\ call.hi1 > top + Level \/ (call.hi1 + 1 = top /\ ~(call.hi1 > top + Level))
  /\ \A l \in Lows : loAt < l /\ l < top => los[l] < top /\ LevelById(l) > Level

LEMMA HighCut ==
  ASSUME AtTurn, Level < LLevel,
         loAt <= call.lo1, call.lo1 <= hiAt, hiAt < call.hi1
  PROVE  \E top : CutAt(top)
<1> DEFINE T == Truncate(hiAt, Level)
           top == T + KeySpan(Level)
<1>1. /\ loAt \in Lows /\ hiAt = los[loAt] /\ loAt \in Nat /\ hiAt \in Nat /\ hiAt \in Int
      /\ call.lo1 \in Nat /\ call.hi1 \in Nat /\ Good(los, his)
      /\ call.lo \in Nat /\ call.lo <= call.lo1 /\ call.hi = call.hi1
      /\ Level \in Nat /\ LLevel \in Nat /\ Unit \in Nat /\ Level + 2 <= Unit
      /\ LLevel + 2 <= Unit
      /\ Level \in Levels /\ LLevel \in Levels /\ Aligned(hiAt + 1, LLevel)
      /\ Aligned(call.lo1 - Level, Level) /\ Aligned(call.hi1 + 1, Level)
      /\ call.hi1 + 1 < EndOfKeys /\ EndOfKeys \in Nat
  BY TurnFacts, TurnApart
<1>2. /\ Aligned(T, Level) /\ T \in Int /\ T <= hiAt /\ hiAt < top
      /\ KeySpan(Level) \in Nat /\ Unit <= KeySpan(Level)
  BY <1>1, TruncateResult, KeySpanFacts
<1>3. top \in Int /\ Aligned(top, Level) /\ T = top - KeySpan(Level)
  BY <1>1, <1>2, AlignedSteps
<1>4. Terminate(hiAt, Level) = top - 1
  BY <1>2 DEF Terminate
<1> HIDE DEF top, T
<1>5. top <= call.hi1 + 1
  <2>1. T < call.hi1 + 1
    BY <1>1, <1>2
  <2>2. T + KeySpan(Level) <= call.hi1 + 1
    BY <1>1, <1>2, <2>1, AlignedApart
  <2> QED
    BY <1>2, <1>3, <2>2
<1>6. Successor(hiAt, Level) = top + Level
  <2>1. top - KeySpan(Level) <= hiAt /\ top # EndOfKeys
    BY <1>1, <1>2, <1>3, <1>5
  <2> QED
    BY <1>1, <1>2, <1>3, <2>1, SuccessorIs
<1>7. Predecessor(top + Level, Level) = top - 1
  BY <1>1, <1>3, PredecessorOfLow
<1>8. call.lo1 < top - 1
  <2>1. call.lo1 - Level < top
    BY <1>1, <1>2, <1>3
  <2>2. call.lo1 - Level + Unit <= top
    BY <1>1, <1>3, <2>1, UnitsApart
  <2> QED
    BY <1>1, <1>3, <2>2
<1>9. IsInterval(call.lo1, top - 1)
  <2>1. (top - 1) + 1 = top /\ top - 1 \in 0 .. EndOfKeys - 1 /\ call.lo1 \in 0 .. EndOfKeys - 1
    BY <1>1, <1>3, <1>5, <1>8
  <2> QED
    BY <1>1, <1>3, <1>8, <2>1, RestIsInterval DEF IsInterval
<1>10. call.hi1 > top + Level \/ (call.hi1 + 1 = top /\ ~(call.hi1 > top + Level))
  <2>1. top < call.hi1 + 1 => top + Unit <= call.hi1 + 1
    BY <1>1, <1>3, UnitsApart
  <2> QED
    BY <1>1, <1>3, <1>5, <2>1
<1>11. call.lo1 = call.lo /\ ~CutsStraddler(call.lo, call.hi)
  <2>1. loAt - LLevel < call.lo1 - Level
    BY <1>1, BelowRest
  <2>2. ~(\A l \in Lows : l - LevelById(l) < call.lo1 - Level => los[l] < call.lo1)
    BY <1>1, <2>1 DEF LLevel
  <2> QED
    BY <2>2 DEF AtTurn, IInv, NoStraddle
<1>12. ASSUME NEW l \in Lows, loAt < l, l < top
       PROVE  los[l] < top /\ LevelById(l) > Level
  <2>1. /\ l \in Nat /\ los[l] \in Nat /\ IsInterval(l, los[l]) /\ hiAt < l
    BY <1>12, TurnNeighbours
  <2>2. los[l] < top
    <3>1. loAt - LLevel + Unit <= call.lo1 - Level
      BY <1>1, BelowRest, TurnApart
    <3>2. loAt < call.lo
      BY <1>1, <1>11, <3>1
    <3>3. l <= Terminate(los[loAt], LevelById(call.lo))
      BY <1>1, <1>3, <1>4, <1>12, <2>1 DEF Level
    <3>4. LevelById(loAt) > LevelById(call.lo)
      BY DEF Level, LLevel
    <3>5. ~(Terminate(los[loAt], LevelById(call.lo)) < los[l])
      BY <1>1, <1>11, <2>1, <3>2, <3>3, <3>4 DEF CutsStraddler
    <3>6. Terminate(los[loAt], LevelById(call.lo)) = top - 1
      BY <1>1, <1>4 DEF Level
    <3> QED
      BY <1>3, <2>1, <3>5, <3>6
  <2>3. ASSUME LevelById(l) <= Level PROVE FALSE
    <3>1. /\ LevelById(l) \in Levels /\ Aligned(l - LevelById(l), LevelById(l))
          /\ LevelById(l) \in Nat
      BY <2>1, LevelConstants DEF IsInterval
    <3>2. Aligned(l - LevelById(l), Level)
      BY <1>1, <2>3, <3>1, AlignedFiner
    <3>3. hiAt + 1 <= l - LevelById(l) /\ l - LevelById(l) \in Int
      <4>1. hiAt + 1 <= l
        BY <1>1, <2>1
      <4> QED
        BY <1>1, <2>1, <4>1, BaseAbove
    <3>4. T < l - LevelById(l)
      BY <1>1, <1>2, <3>3
    <3>5. T + KeySpan(Level) <= l - LevelById(l)
      BY <1>1, <1>2, <3>2, <3>4, AlignedApart
    <3> QED
      BY <1>2, <1>3, <1>12, <2>1, <3>1, <3>3, <3>5
  <2>4. LevelById(l) \in Nat
    BY <2>1, LevelConstants DEF IsInterval
  <2> QED
    BY <1>1, <2>2, <2>3, <2>4
<1> QED
  BY <1>2, <1>3, <1>5, <1>6, <1>7, <1>9, <1>10, <1>12 DEF CutAt

LEMMA HighCoarserTurn ==
  ASSUME IInv, MergeHighCoarser
  PROVE  IInv' /\ (call' = Idle => Done)
<1>1. /\ AtTurn /\ loAt <= call.lo1 /\ call.lo1 <= hiAt /\ hiAt < call.hi1
      /\ Level < LLevel
  BY LiesMeans DEF MergeHighCoarser
<1>2. /\ loAt \in Lows /\ hiAt = los[loAt] /\ loAt \in Nat /\ hiAt \in Nat
      /\ call.lo1 \in Nat /\ call.hi1 \in Nat /\ Good(los, his) /\ loAt < hiAt
      /\ call.lo \in Nat /\ call.lo <= call.lo1 /\ call.hi = call.hi1
      /\ Level \in Nat /\ LLevel \in Nat /\ Unit \in Nat
      /\ Level + 2 <= Unit /\ LLevel + 2 <= Unit /\ Level \in Levels
  BY <1>1, TurnFacts, TurnApart
<1>3. PICK top : CutAt(top)
  BY <1>1, HighCut
<1> DEFINE cut == call.lo1 - Level - 1
           h == top - 1
           x == top + Level
           new == {<<loAt, cut>>, <<call.lo1, h>>}
<1>4. /\ top \in Int /\ Aligned(top, Level)
      /\ hiAt < top /\ top <= call.hi1 + 1
      /\ Successor(hiAt, Level) = x /\ Predecessor(x, Level) = h
      /\ IsInterval(call.lo1, h)
      /\ call.hi1 > x \/ (call.hi1 + 1 = top /\ ~(call.hi1 > x))
      /\ \A l \in Lows : loAt < l /\ l < top => los[l] < top /\ LevelById(l) > Level
  BY <1>3 DEF CutAt
<1>5. /\ LevelById(call.lo1) = Level /\ LevelById(loAt) = LLevel
      /\ Predecessor(call.lo1, LLevel) = cut
      /\ IsInterval(loAt, cut) /\ loAt < cut
  BY <1>1, RestIsInterval, BelowRest DEF LLevel
<1>6. /\ cut \in Int /\ cut < call.lo1 /\ h \in Int /\ h < x /\ h < top /\ hiAt <= h
      /\ x \in Int /\ x - Level = top /\ top <= x
  BY <1>2, <1>4
<1>7. Rewrite(<<loAt, h>>, new) /\ RewindIterators
  <2>1. Segment(loAt, cut) = {<<loAt, cut>>}
    BY <1>5, SegmentIs
  <2>2. {<<loAt, cut>>} \cup {<<call.lo1, h>>} = new
    OBVIOUS
  <2> HIDE DEF cut, h, x, new
  <2> QED
    BY <1>4, <1>5, <2>1, <2>2 DEF MergeHighCoarser
<1>8. call' = IF call.hi1 > x THEN [call EXCEPT !.lo1 = x] ELSE Idle
  BY <1>4 DEF MergeHighCoarser
<1> HIDE DEF cut, h, x
<1>9. \A i \in new : i = <<loAt, cut>> \/ i = <<call.lo1, h>>
  OBVIOUS
<1>10. <<loAt, cut>> \in new /\ <<call.lo1, h>> \in new
  OBVIOUS
<1>11. {i[1] : i \in new} = {loAt, call.lo1}
  OBVIOUS
<1> HIDE DEF new
<1>12. \A l \in Lows : /\ l \in Nat /\ los[l] \in Nat /\ l < los[l]
                       /\ IsInterval(l, los[l])
                       /\ l < loAt => los[l] < call.lo1 /\ los[l] < loAt
                       /\ loAt < l => hiAt < l
  BY <1>1, TurnNeighbours
<1>13. Fits(loAt, h, new)
  <2>1. \A i \in new : /\ IsInterval(i[1], i[2]) /\ i[1] \in Int /\ i[2] \in Int
                       /\ loAt <= i[1] /\ i[2] <= h
    BY <1>1, <1>2, <1>4, <1>5, <1>6, <1>9
  <2>2. \A i, j \in new : i = j \/ i[2] < j[1] \/ j[2] < i[1]
    BY <1>2, <1>6, <1>9
  <2>3. ASSUME NEW l \in Lows
        PROVE  los[l] < loAt \/ h < l \/ (loAt <= l /\ los[l] <= h /\ l <= h)
    <3>1. CASE l < loAt
      BY <1>12, <3>1
    <3>2. CASE l = loAt
      BY <1>2, <1>6, <3>2
    <3>3. CASE loAt < l /\ l < top
      BY <1>2, <1>4, <1>6, <1>12, <3>3 DEF h
    <3>4. CASE top <= l
      BY <1>4, <1>6, <1>12, <3>4
    <3> QED
      BY <1>2, <1>4, <1>12, <3>1, <3>2, <3>3, <3>4
  <2>4. \A l \in Lows, i \in new :
          (loAt <= l /\ l <= h) \/ los[l] < i[1] \/ i[2] < l
    BY <1>2, <1>6, <1>12, <2>1, <2>3
  <2>5. \A l \in Lows : \/ h < loAt \/ los[l] < loAt \/ h < l
                        \/ loAt <= l /\ los[l] <= h
    BY <2>3
  <2> QED
    BY <2>1, <2>2, <2>4, <2>5 DEF Fits
<1>14. Leaves(loAt, h, new)
  BY <1>2, <1>6, <1>7, <1>13, Rewritten
<1>15. /\ Good(los', his')
       /\ Lows' = {l \in Lows : l < loAt \/ h < l} \cup {loAt, call.lo1}
       /\ \A l \in Lows : l < loAt \/ h < l => los'[l] = los[l]
       /\ los'[loAt] = cut /\ los'[call.lo1] = h
  BY <1>10, <1>11, <1>14 DEF Leaves, Lows
<1>16. /\ AtOneInterval' /\ loAt' # Freed /\ loAt' # Header
       /\ \A l \in Lows' : ~(loAt' \in Lows' => l < loAt')
  BY <1>7, <1>15, Rewound
<1>17. ASSUME NEW p \in Positions
       PROVE  /\ KeyOf(p) \in Int
              /\ Over(loAt, cut, p) => MapOf(los')[p] = LLevel
              /\ Over(call.lo1, h, p) => MapOf(los')[p] = Level
              /\ ~Over(loAt, h, p) => MapOf(los')[p] = MapOf(los)[p]
  <2>1. LeavesAt(loAt, h, new, p)
    BY <1>2, <1>6, <1>7, <1>13, RewrittenMap
  <2>2. KeyOf(p) \in Int
    BY <2>1 DEF LeavesAt
  <2>3. ASSUME ~Over(loAt, h, p) PROVE \A i \in new : ~Over(i[1], i[2], p)
    BY <1>1, <1>2, <1>6, <1>9, <2>2, <2>3 DEF Over
  <2> QED
    BY <1>5, <1>10, <2>1, <2>3 DEF LeavesAt, Over
<1>18. ASSUME NEW p \in Positions, hiAt < KeyOf(p), KeyOf(p) < top
       PROVE  Level < MapOf(los)[p]
  <2>1. ASSUME NEW l \in DOMAIN los, Over(l, los[l], p) PROVE Level < MapOf(los)[p]
    <3>1. l \in Lows /\ MapOf(los)[p] = LevelById(l)
      BY <1>2, <2>1, LevelOfPosition, LevelAtIsMap
    <3>2. loAt < l /\ l < top
      <4>1. KeyOf(p) \in Int /\ l <= KeyOf(p) /\ KeyOf(p) <= los[l]
        BY <1>17, <2>1 DEF Over
      <4>2. l \in Nat /\ los[l] \in Nat /\ (l < loAt => los[l] < loAt)
        BY <1>12, <3>1
      <4> QED
        BY <1>2, <1>4, <1>18, <4>1, <4>2
    <3> QED
      BY <1>2, <1>4, <1>12, <3>1, <3>2, LevelConstants DEF IsInterval
  <2>2. CASE \A l \in DOMAIN los : ~Over(l, los[l], p)
    BY <1>2, <2>2, LevelOfPosition, LevelConstants
  <2> QED
    BY <2>1, <2>2
\* What the turn does to the levels: the rest up to the cut has been merged.
<1>19. ASSUME NEW p \in Positions
       PROVE  /\ KeyOf(p) < top => MapOf(los')[p]
                   = With(MapOf(los)[p], call.lo1, call.hi1, Level, p)
              /\ top <= KeyOf(p) => MapOf(los')[p] = MapOf(los)[p] /\ x <= KeyOf(p)
  <2>1. /\ KeyOf(p) \in Int
        /\ Over(loAt, hiAt, p) => MapOf(los)[p] = LLevel
        /\ call.lo1 - Level <= KeyOf(p) => call.lo1 - Level + Unit <= KeyOf(p) + 1
    BY <1>1, TurnMap
  <2>2. Aligned(KeyOf(p) + 1, Depth) /\ Depth \in Levels
    BY KeyOfFacts, LevelConstants DEF Positions, Levels
  <2>3. top <= KeyOf(p) => top + Unit <= KeyOf(p) + 1
    <3>1. top <= KeyOf(p) => top < KeyOf(p) + 1
      BY <1>4, <2>1
    <3> QED
      BY <1>2, <1>4, <2>2, <3>1, UnitsApart
  <2>4. top <= KeyOf(p) => x <= KeyOf(p) /\ MapOf(los')[p] = MapOf(los)[p]
    BY <1>2, <1>4, <1>17, <2>1, <2>3 DEF x, Over, h
  <2>5. ASSUME KeyOf(p) < top, call.lo1 <= KeyOf(p)
        PROVE  MapOf(los')[p] = With(MapOf(los)[p], call.lo1, call.hi1, Level, p)
    <3>1. MapOf(los')[p] = Level
      BY <1>4, <1>17, <2>1, <2>5 DEF Over, h
    <3>2. Level < MapOf(los)[p]
      BY <1>1, <1>2, <1>18, <2>1, <2>5 DEF Over
    <3>3. Over(call.lo1, call.hi1, p)
      BY <1>2, <1>4, <2>1, <2>5 DEF Over
    <3> QED
      BY <3>1, <3>2, <3>3 DEF With
  <2>6. ASSUME KeyOf(p) < call.lo1
        PROVE  MapOf(los')[p] = With(MapOf(los)[p], call.lo1, call.hi1, Level, p)
    <3>1. KeyOf(p) < loAt => MapOf(los')[p] = MapOf(los)[p]
      BY <1>2, <1>17, <2>1 DEF Over
    <3>2. loAt <= KeyOf(p) => MapOf(los')[p] = LLevel /\ MapOf(los)[p] = LLevel
      BY <1>1, <1>2, <1>17, <2>1, <2>6 DEF Over, cut
    <3> QED
      BY <1>2, <2>1, <2>6, <3>1, <3>2 DEF With, Over
  <2> QED
    BY <1>2, <2>1, <2>4, <2>5, <2>6
<1>20. CASE ~(call.hi1 > x)
  <2>1. call' = Idle /\ call.hi1 < top
    BY <1>2, <1>4, <1>8, <1>20 DEF x
  <2>2. IInv'
    BY <1>15, <1>16, <2>1, MergeStops
  <2>3. Done
    <3>1. ASSUME NEW p \in Positions, top <= KeyOf(p)
          PROVE  MapOf(los')[p] = With(MapOf(los)[p], call.lo1, call.hi1, Level, p)
      BY <1>2, <1>4, <1>17, <1>19, <2>1, <3>1 DEF With, Over
    <3> QED
      BY <1>4, <1>17, <1>19, <3>1 DEF Done
  <2> QED
    BY <2>2, <2>3
<1>21. CASE call.hi1 > x
  <2>1. call' = [call EXCEPT !.lo1 = x]
    BY <1>8, <1>21
  <2>2. GoesOn(x)
    BY <1>1, <1>6, <2>1, LocalsGoOn DEF IInv, AtTurn
  <2>3. call' # Idle
    <3>1. call'.op = "merge"
      BY <2>2 DEF GoesOn
    <3> QED
      BY <3>1 DEF Idle
  <2>4. Behind'
    BY <1>16 DEF Behind
  <2>5. NoStraddle'
    <3>1. ASSUME NEW l \in Lows', l - LevelById(l) < top PROVE los'[l] < x
      <4>1. CASE l \in Lows /\ (l < loAt \/ h < l)
        <5>1. IsInterval(l, los[l]) /\ l \in Nat /\ los[l] \in Nat /\ los'[l] = los[l]
          BY <1>12, <1>15, <4>1
        <5>2. ~(top <= l)
          BY <1>2, <1>4, <3>1, <5>1, BaseAbove
        <5>3. l < loAt
          BY <1>4, <1>6, <4>1, <5>1, <5>2 DEF h
        <5> QED
          BY <1>2, <1>4, <1>6, <1>12, <4>1, <5>1, <5>3
      <4>2. CASE l = loAt
        BY <1>1, <1>2, <1>4, <1>6, <1>15, <4>2
      <4>3. CASE l = call.lo1
        BY <1>6, <1>15, <4>3
      <4> QED
        BY <1>15, <4>1, <4>2, <4>3
    <3> QED
      BY <1>6, <2>2, <3>1 DEF NoStraddle, GoesOn
  <2>6. Sofar'
    <3>1. ASSUME NEW p \in Positions
          PROVE  With(MapOf(los')[p], x, call.hi1, Level, p)
                   = With(MapOf(los)[p], call.lo1, call.hi1, Level, p)
      <4>1. KeyOf(p) \in Int /\ call.lo1 < x
        BY <1>1, <1>2, <1>4, <1>6, <1>17
      <4>2. CASE KeyOf(p) < top
        <5>1. ~Over(x, call.hi1, p)
          BY <1>4, <1>6, <4>1, <4>2 DEF Over
        <5> QED
          BY <1>19, <4>2, <5>1 DEF With
      <4>3. CASE top <= KeyOf(p)
        <5>1. Over(x, call.hi1, p) <=> Over(call.lo1, call.hi1, p)
          BY <1>2, <1>6, <1>19, <4>1, <4>3 DEF Over
        <5> QED
          BY <1>19, <4>3, <5>1 DEF With
      <4> QED
        BY <1>4, <4>1, <4>2, <4>3
    <3>2. Sofar
      BY <1>1 DEF AtTurn, IInv
    <3> QED
      BY <2>2, <3>1, <3>2 DEF Sofar, GoesOn
  <2>7. Untouched'
    <3>1. ASSUME NEW p \in Positions, x <= KeyOf(p) PROVE MapOf(los')[p] = call.before[p]
      <4>1. /\ top <= KeyOf(p) /\ call.lo1 <= KeyOf(p) /\ loAt <= KeyOf(p)
        BY <1>1, <1>2, <1>4, <1>6, <1>17, <3>1
      <4>2. MapOf(los)[p] = call.before[p]
        BY <1>1, <4>1, UntouchedAbove
      <4> QED
        BY <1>19, <4>1, <4>2
    <3> QED
      BY <2>2, <3>1 DEF Untouched, GoesOn
  <2>8. call.lo <= x /\ x < call.hi /\ Aligned(x - Level, Level)
    BY <1>1, <1>2, <1>4, <1>6, <1>21
  <2> QED
    BY <1>1, <1>6, <1>15, <1>16, <2>2, <2>3, <2>4, <2>5, <2>6, <2>7, <2>8, MergeGoesOn
       DEF AtTurn
<1> QED
  BY <1>20, <1>21

LEMMA ThrowsTurn ==
  ASSUME IInv, MergeThrows
  PROVE  IInv'
<1>1. AtTurn
  BY LiesMeans DEF MergeThrows
<1>2. loAt \in Lows /\ hiAt = los[loAt] /\ Good(los, his)
  BY <1>1, TurnFacts
<1>3. /\ los' = los /\ his' = his /\ loAt' = loAt /\ hiAt' = hiAt /\ call' = Idle
  BY DEF MergeThrows
<1> QED
  BY <1>2, <1>3, MergeStops DEF AtOneInterval, Lows

\* Every turn of mergeRange keeps the invariant, and the last one leaves the
\* map the rest makes of it, unless it throws.
LEMMA MergeTurnIInv ==
  ASSUME IInv, MergeTurn
  PROVE  IInv' /\ (call' = Idle /\ ~MergeThrows => Done)
<1>1. ASSUME NotYetThere \/ MergeOver \/ MergeAround \/ MergeHighFiner
      PROVE  IInv' /\ call' # Idle
  <2>1. IInv'
    BY <1>1, NotYetThereTurn, OverTurn, AroundTurn, HighFinerTurn
  <2>2. call \in Calls /\ call.op = "merge"
    BY <1>1 DEF IInv, NotYetThere, MergeOver, MergeAround, MergeHighFiner, AtInterval
  <2>3. call'.op = "merge"
    <3>1. CASE NotYetThere
      BY <2>2, <3>1, MergeLocals DEF NotYetThere
    <3>2. CASE MergeOver
      BY <2>2, <3>2 DEF MergeOver
    <3>3. CASE MergeAround
      BY <2>2, <3>3, MergeLocals DEF MergeAround
    <3>4. CASE MergeHighFiner
      BY <2>2, <3>4, MergeLocals DEF MergeHighFiner
    <3> QED
      BY <1>1, <3>1, <3>2, <3>3, <3>4
  <2> QED
    BY <2>1, <2>3 DEF Idle
<1> QED
  BY <1>1, BelowTurn, LowSameTurn, LowFinerTurn, LowCoarserTurn, InCoarserTurn, InFinerTurn,
     HighCoarserTurn, EndTurn, ThrowsTurn DEF MergeTurn

-----------------------------------------------------------------------------
(***************************************************************************)
(* The other calls.                                                        *)
(***************************************************************************)
LEMMA IdleIInv ==
  ASSUME Good(los', his'), call' = Idle, AtOneInterval' \/ loAt' = Nil,
         loAt' \in Lows' \cup {Header, Nil, Freed},
         hiAt' \in his' \cup {Header, Nil, Freed}
  PROVE  IInv'
<1>1. call' = [op |-> "idle"]
  BY DEF Idle
<1>2. Iterators'
  BY <1>1 DEF Iterators
<1> QED
  BY <1>1, <1>2 DEF IInv, Calls, Idle

LEMMA IdleFacts ==
  ASSUME IInv, call = Idle
  PROVE  /\ Good(los, his)
         /\ loAt \in Lows \cup {Header, Nil, Freed}
         /\ hiAt \in his \cup {Header, Nil, Freed}
         /\ AtOneInterval \/ loAt = Nil
BY DEF IInv, Iterators, Idle

LEMMA FirstRangeIInv ==
  ASSUME IInv, NEW r \in Ranges, FirstRange(r[1], r[2])
  PROVE  /\ IInv'
         /\ \A p \in Positions :
              MapOf(los')[p]
                = With(MapOf(los)[p], r[1], r[2], LevelById(r[1]), p)
<1> DEFINE new == {<<r[1], r[2]>>}
<1>1. /\ Good(los, his) /\ loAt \in {Header, Nil, Freed} /\ hiAt \in {Header, Nil, Freed}
      /\ AtOneInterval \/ loAt = Nil
      /\ Lows = {} /\ his = {}
  <2>1. Lows = {} /\ call = Idle
    BY DEF FirstRange
  <2>2. his = {}
    BY <2>1, IdleFacts, LevelAtIsMap DEF Good
  <2> QED
    BY <2>1, <2>2, IdleFacts
<1>2. IsInterval(r[1], r[2])
  BY RangesAreIntervals
<1>3. Fits(1, 0, new) /\ Rewrite(<<1, 0>>, new)
  BY <1>1, <1>2 DEF Fits, FirstRange, Nowhere
<1>4. Leaves(1, 0, new)
  BY <1>1, <1>3, Rewritten
<1>5. AtOneInterval' \/ loAt' = Nil
  BY <1>1 DEF AtOneInterval, FirstRange
<1>6. IInv'
  BY <1>1, <1>4, <1>5, IdleIInv DEF FirstRange, Leaves
<1>7. ASSUME NEW p \in Positions
      PROVE  MapOf(los')[p] = With(MapOf(los)[p], r[1], r[2], LevelById(r[1]), p)
  <2>1. /\ Over(r[1], r[2], p) => MapOf(los')[p] = LevelById(r[1])
        /\ ~Over(r[1], r[2], p) => MapOf(los')[p] = MapOf(los)[p]
    <3>1. LeavesAt(1, 0, new, p)
      BY <1>1, <1>3, RewrittenMap
    <3> QED
      BY <3>1 DEF LeavesAt
  <2>2. MapOf(los)[p] = Depth + 1
    BY <1>1, LevelOfPosition, LevelAtIsMap
  <2>3. LevelById(r[1]) < Depth + 1
    BY <1>2, LevelConstants DEF IsInterval
  <2> QED
    BY <2>1, <2>2, <2>3 DEF With
<1> QED
  BY <1>6, <1>7

LEMMA MergeBeginIInv ==
  ASSUME Restricted, IInv, NEW r \in Ranges, MergeRange(r[1], r[2]), MergeBegin(r[1], r[2])
  PROVE  IInv'
<1> DEFINE lo == r[1]
           hi == r[2]
<1>1. /\ IsInterval(lo, hi) /\ hi + 1 < EndOfKeys
      /\ lo \in Int /\ hi \in Int /\ lo < hi
      /\ Aligned(lo - LevelById(lo), LevelById(lo))
  BY RangesAreIntervals DEF Restricted, IsInterval
<1>2. /\ Good(los, his) /\ ~CutsStraddler(lo, hi)
      /\ los' = los /\ his' = his /\ Lows' = Lows
  BY IdleFacts DEF MergeBegin, MergeRange, Restricted, Lows
<1> HIDE DEF lo, hi
<1>3. call' = [op |-> "merge", lo |-> lo, hi |-> hi, lo1 |-> lo, hi1 |-> hi,
               errors |-> 0, before |-> LevelAt]
  BY DEF MergeBegin, lo, hi
<1>4. LevelAt \in [Positions -> 0 .. Depth + 1] /\ LevelAt = MapOf(los)
  BY <1>2, MapIsTyped, LevelAtIsMap
<1>5. call' \in Calls
  BY <1>1, <1>3, <1>4 DEF Calls
<1>6. /\ call'.op = "merge" /\ call'.lo = lo /\ call'.hi = hi
      /\ call'.lo1 = lo /\ call'.hi1 = hi /\ call'.before = LevelAt
      /\ Level' = LevelById(lo)
  BY <1>3 DEF Level
<1>7. RewindIterators
  BY <1>2 DEF RewindIterators, MergeBegin, Lows
<1>8. /\ AtOneInterval' /\ loAt' # Freed /\ loAt' # Header
      /\ loAt' \in Lows' \cup {Nil} /\ hiAt' \in his' \cup {Nil}
      /\ \A l \in Lows' : ~(loAt' \in Lows' => l < loAt')
  BY <1>2, <1>7, Rewound
<1>9. Iterators'
  BY <1>6, <1>8 DEF Iterators
<1>10. LeftToMerge'
  BY <1>1, <1>6 DEF LeftToMerge
<1>11. Behind' /\ NoStraddle'
  BY <1>2, <1>6, <1>8 DEF Behind, NoStraddle, CutsStraddler
<1>12. Sofar' /\ Untouched'
  BY <1>2, <1>4, <1>6 DEF Sofar, Untouched
<1> QED
  BY <1>2, <1>5, <1>9, <1>10, <1>11, <1>12 DEF IInv

LEMMA PurgeIInv ==
  ASSUME IInv, Purge
  PROVE  IInv' /\ DOMAIN los' = {}
<1>1. Good(los, his) /\ call = Idle
  BY IdleFacts DEF Purge
<1>2. /\ KEY_MAX \in Nat
      /\ \A l \in Lows \cup his : l \in Nat /\ l <= KEY_MAX
  BY <1>1, KeyBounds, GoodKeys, LevelAtIsMap
<1>3. DOMAIN los' = {} /\ his' = {}
  <2>1. FreeRange(Lows, -1, KEY_MAX) = {} /\ FreeRange(his, -1, KEY_MAX) = {}
    BY <1>2 DEF FreeRange
  <2> QED
    BY <2>1 DEF Purge, Rewrite
<1>4. Good(los', his')
  BY <1>3 DEF Good
<1>5. /\ loAt' = IF loAt \in 0 .. KEY_MAX THEN Freed ELSE loAt
      /\ hiAt' = IF hiAt \in 0 .. KEY_MAX THEN Freed ELSE hiAt
  BY DEF Purge, KeepIterators
<1>6. Header \notin 0 .. KEY_MAX /\ Nil \notin 0 .. KEY_MAX /\ Freed \notin 0 .. KEY_MAX
  BY <1>2 DEF Header, Nil, Freed
<1>7. /\ loAt \in Lows => loAt' = Freed
      /\ hiAt \in his => hiAt' = Freed
  BY <1>2, <1>5
<1>8. /\ loAt' \in {Header, Nil, Freed} /\ hiAt' \in {Header, Nil, Freed}
      /\ loAt' = hiAt' \/ loAt' = Nil
  <2>1. \A l \in Lows : los[l] \in his
    BY <1>1, GoodKeys, LevelAtIsMap
  <2>2. /\ loAt \in {Header, Nil, Freed} => loAt' = loAt
        /\ hiAt \in {Header, Nil, Freed} => hiAt' = hiAt
    BY <1>5, <1>6
  <2>3. CASE AtOneInterval
    BY <1>7, <2>1, <2>2, <2>3 DEF AtOneInterval
  <2>4. CASE loAt = Nil
    BY <1>1, <1>7, <2>2, <2>4, IdleFacts
  <2> QED
    BY <1>1, <2>3, <2>4, IdleFacts
<1> QED
  BY <1>1, <1>3, <1>4, <1>8, IdleIInv DEF Purge, AtOneInterval

LEMMA WalkIInv ==
  ASSUME IInv, Reset \/ GetNext \/ WalkThrough
  PROVE  IInv' /\ los' = los
<1>1. /\ Good(los, his) /\ call = Idle /\ call' = Idle
      /\ los' = los /\ his' = his /\ Lows' = Lows
      /\ AtOneInterval \/ loAt = Nil
  BY IdleFacts DEF Reset, GetNext, WalkThrough, Lows
<1>2. CASE Reset
  <2>1. RewindIterators
    BY <1>1, <1>2 DEF Reset, RewindIterators, Lows
  <2> QED
    BY <1>1, <2>1, Rewound, IdleIInv
<1>3. CASE GetNext
  <2>1. loAt \in Lows /\ hiAt = los[loAt] /\ StepIterators
    BY <1>1, <1>3, PositionsAreNotKeys, LevelAtIsMap DEF GetNext, AtOneInterval
  <2> QED
    BY <1>1, <2>1, Stepped, IdleIInv
<1>4. CASE WalkThrough
  BY <1>1, <1>4, IdleIInv DEF WalkThrough, AtOneInterval
<1> QED
  BY <1>1, <1>2, <1>3, <1>4

-----------------------------------------------------------------------------
(***************************************************************************)
(* Joining an interval to its neighbour, as defrag and CompressionPass do. *)
(***************************************************************************)
\* b follows a, at the same level, and no triangle lies between.
Adjoining(a, b) ==
  /\ a \in Lows /\ b \in Lows /\ a < b
  /\ \A x \in Lows : a < x => b <= x
  /\ LevelById(a) = LevelById(b)
  /\ los[a] + 1 = b - LevelById(b)

LEMMA AdjoiningIs ==
  ASSUME Good(los, his), NEW a \in Lows, NEW b \in Lows, b = After(Lows, a),
         LevelById(a) = LevelById(b), Predecessor(b, LevelById(b)) <= los[a]
  PROVE  Adjoining(a, b)
<1> DEFINE v == LevelById(b)
<1>1. a < b /\ \A x \in Lows : a < x => b <= x
  BY AfterTogether, PositionsAreNotKeys, LevelAtIsMap
<1>2. /\ IsInterval(b, los[b]) /\ IsInterval(a, los[a]) /\ los[a] < b
      /\ a \in Nat /\ b \in Nat /\ los[a] \in Nat /\ b \in Int
  <2>1. /\ \A l \in Lows : IsInterval(l, los[l]) /\ l \in Nat /\ los[l] \in Nat
        /\ \A l1, l2 \in Lows : l1 < l2 => los[l1] < l2
    BY GoodKeys, LevelAtIsMap DEF Good
  <2> QED
    BY <1>1, <2>1
<1>3. v \in Levels /\ Aligned(b - v, v) /\ Aligned(los[a] + 1, v) /\ v \in Nat
  BY <1>2, LevelConstants DEF IsInterval
<1>4. Predecessor(b, v) = b - v - 1
  <2>1. b - v \in Int /\ (b - v) + v = b
    BY <1>2, <1>3
  <2> HIDE DEF v
  <2> QED
    BY <1>3, <2>1, PredecessorOfLow
<1>5. los[a] + 1 <= b - v
  <2>1. los[a] + 1 <= b
    BY <1>2
  <2> QED
    BY <1>2, <1>3, <2>1, BaseAbove
<1>6. los[a] + 1 = b - v
  BY <1>2, <1>3, <1>4, <1>5
<1> QED
  BY <1>1, <1>6 DEF Adjoining

LEMMA Joined ==
  ASSUME Good(los, his), NEW a, NEW b, Adjoining(a, b), Join(a, los[a], b, los[b])
  PROVE  /\ Good(los', his')
         /\ DOMAIN los' = Lows \ {b} /\ a \in DOMAIN los' /\ los'[a] = los[b]
         /\ \A l \in Lows \ {a, b} : los'[l] = los[l]
         /\ MapOf(los') = MapOf(los)
         /\ After(DOMAIN los', a) = After(Lows, b)
<1> DEFINE v == LevelById(b)
<1>1. /\ a \in Lows /\ b \in Lows /\ a < b /\ LevelById(a) = v /\ los[a] + 1 = b - v
      /\ \A x \in Lows : a < x => b <= x
  BY DEF Adjoining
<1>2. /\ \A l \in Lows : /\ IsInterval(l, los[l])
                         /\ l \in Nat /\ los[l] \in Nat /\ l < los[l]
      /\ \A l1, l2 \in Lows : l1 < l2 => los[l1] < l2
      /\ his = {los[l] : l \in Lows}
  BY GoodKeys, LevelAtIsMap DEF Good
<1>3. /\ DOMAIN los' = Lows \ {b} /\ a \in DOMAIN los' /\ los'[a] = los[b]
      /\ \A l \in Lows \ {a, b} : los'[l] = los[l]
      /\ his' = (his \ {los[a]}) \cup {los[b]}
  BY <1>1, <1>2 DEF Join
<1>4. \A l \in DOMAIN los' : IsInterval(l, los'[l])
  <2>1. IsInterval(a, los[b])
    BY <1>1, <1>2 DEF IsInterval
  <2> QED
    BY <1>2, <1>3, <2>1
<1>5. ASSUME NEW l1 \in DOMAIN los', NEW l2 \in DOMAIN los', l1 < l2
      PROVE  los'[l1] < l2
  <2>1. CASE l1 = a
    <3>1. b < l2
      BY <1>1, <1>2, <1>3, <1>5, <2>1
    <3> QED
      BY <1>1, <1>2, <1>3, <2>1, <3>1
  <2>2. CASE l1 # a
    BY <1>2, <1>3, <1>5, <2>2
  <2> QED
    BY <2>1, <2>2
<1>6. his' = {los'[l] : l \in DOMAIN los'}
  <2>1. ASSUME NEW h \in his' PROVE \E l \in DOMAIN los' : h = los'[l]
    <3>1. CASE h = los[b]
      BY <1>3, <3>1
    <3>2. CASE h \in his /\ h # los[a] /\ h # los[b]
      <4>1. PICK l \in Lows : h = los[l]
        BY <1>2, <3>2
      <4> QED
        BY <1>3, <3>2, <4>1
    <3> QED
      BY <1>3, <3>1, <3>2
  <2>2. ASSUME NEW l \in DOMAIN los' PROVE los'[l] \in his'
    <3>1. CASE l = a
      BY <1>3, <3>1
    <3>2. CASE l # a
      <4>1. los[l] # los[a]
        <5>1. l < a => los[l] < a
          BY <1>1, <1>2, <1>3
        <5>2. a < l => los[a] < l
          BY <1>1, <1>2, <1>3
        <5> QED
          BY <1>1, <1>2, <1>3, <3>2, <5>1, <5>2
      <4> QED
        BY <1>2, <1>3, <3>2, <4>1
    <3> QED
      BY <3>1, <3>2
  <2> QED
    BY <2>1, <2>2
<1>7. Good(los', his')
  BY <1>4, <1>5, <1>6 DEF Good
<1>8. MapOf(los') = MapOf(los)
  <2>1. ASSUME NEW p \in Positions PROVE MapOf(los')[p] = MapOf(los)[p]
    <3>1. KeyOf(p) \in Int /\ Aligned(KeyOf(p) + 1, Depth) /\ Depth \in Levels
      BY KeyOfFacts, LevelConstants DEF Positions, Levels
    <3>2. /\ v \in Levels /\ v \in Nat /\ v + 2 <= Unit /\ Unit \in Nat
          /\ Aligned(los[a] + 1, v)
      BY <1>1, <1>2, LevelConstants DEF IsInterval
    <3>3. los[a] < KeyOf(p) => b <= KeyOf(p)
      <4>1. ASSUME los[a] < KeyOf(p) PROVE los[a] + 1 + Unit <= KeyOf(p) + 1
        <5>1. los[a] + 1 < KeyOf(p) + 1
          BY <1>1, <1>2, <3>1, <4>1
        <5> QED
          BY <3>1, <3>2, <5>1, UnitsApart
      <4> QED
        BY <1>1, <1>2, <3>1, <3>2, <4>1
    <3>4. /\ \A l \in DOMAIN los' : Over(l, los'[l], p) => MapOf(los')[p] = LevelById(l)
          /\ (\A l \in DOMAIN los' : ~Over(l, los'[l], p)) => MapOf(los')[p] = Depth + 1
      BY <1>7, LevelOfPosition
    <3>5. /\ \A l \in Lows : Over(l, los[l], p) => MapOf(los)[p] = LevelById(l)
          /\ (\A l \in Lows : ~Over(l, los[l], p)) => MapOf(los)[p] = Depth + 1
      BY LevelOfPosition, LevelAtIsMap
    <3>6. Over(a, los'[a], p) <=> Over(a, los[a], p) \/ Over(b, los[b], p)
      BY <1>1, <1>2, <1>3, <3>1, <3>3 DEF Over
    <3>7. CASE Over(a, los'[a], p)
      <4>1. MapOf(los')[p] = v
        BY <1>1, <1>3, <3>4, <3>7
      <4>2. MapOf(los)[p] = v
        BY <1>1, <3>5, <3>6, <3>7
      <4> QED
        BY <4>1, <4>2
    <3>8. CASE ~Over(a, los'[a], p)
      <4>1. CASE \E l \in Lows : Over(l, los[l], p)
        <5>1. PICK l \in Lows : Over(l, los[l], p)
          BY <4>1
        <5>2. l # a /\ l # b
          BY <3>6, <3>8, <5>1
        <5>3. l \in DOMAIN los' /\ los'[l] = los[l]
          BY <1>3, <5>2
        <5> QED
          BY <3>4, <3>5, <5>1, <5>3
      <4>2. CASE \A l \in Lows : ~Over(l, los[l], p)
        <5>1. \A l \in DOMAIN los' : ~Over(l, los'[l], p)
          <6> TAKE l \in DOMAIN los'
          <6>1. CASE l = a
            BY <3>8, <6>1
          <6>2. CASE l # a
            BY <1>3, <4>2, <6>2
          <6> QED
            BY <6>1, <6>2
        <5> QED
          BY <3>4, <3>5, <4>2, <5>1
      <4> QED
        BY <4>1, <4>2
    <3> QED
      BY <3>7, <3>8
  <2> QED
    BY <2>1 DEF MapOf
<1>9. After(DOMAIN los', a) = After(Lows, b)
  <2>1. \/ After(Lows, b) = Nil /\ \A x \in Lows : x <= b
        \/ /\ After(Lows, b) \in Lows /\ b < After(Lows, b)
           /\ \A x \in Lows : b < x => After(Lows, b) <= x
    BY <1>1, AfterTogether, LevelAtIsMap
  <2>2. \/ After(DOMAIN los', a) = Nil /\ \A x \in DOMAIN los' : x <= a
        \/ /\ After(DOMAIN los', a) \in DOMAIN los' /\ a < After(DOMAIN los', a)
           /\ \A x \in DOMAIN los' : a < x => After(DOMAIN los', a) <= x
    BY <1>3, <1>7, AfterTogether
  <2> DEFINE n == After(Lows, b)
             m == After(DOMAIN los', a)
  <2>3. \A x \in Lows : x \in DOMAIN los' /\ a < x <=> b < x
    BY <1>1, <1>2, <1>3
  <2> HIDE DEF n, m
  <2>4. \/ n = Nil /\ \A x \in Lows : x <= b
        \/ n \in Lows /\ b < n /\ \A x \in Lows : b < x => n <= x
    BY <2>1 DEF n
  <2>5. \/ m = Nil /\ \A x \in DOMAIN los' : x <= a
        \/ m \in DOMAIN los' /\ a < m /\ \A x \in DOMAIN los' : a < x => m <= x
    BY <2>2 DEF m
  <2>6. m = n
    <3>1. \A x \in DOMAIN los' : x \in Lows
      BY <1>3
    <3>2. CASE n = Nil /\ \A x \in Lows : x <= b
      BY <1>1, <1>2, <2>3, <2>5, <3>1, <3>2
    <3>3. CASE n \in Lows /\ b < n /\ \A x \in Lows : b < x => n <= x
      <4>1. n \in DOMAIN los' /\ a < n
        BY <2>3, <3>3
      <4>2. m \in DOMAIN los' /\ a < m /\ m <= n
        BY <1>1, <1>2, <2>5, <3>1, <4>1
      <4>3. n <= m
        BY <2>3, <3>1, <3>3, <4>2
      <4> QED
        BY <1>2, <3>1, <3>3, <4>2, <4>3
    <3> QED
      BY <2>4, <3>2, <3>3
  <2> QED
    BY <2>6 DEF n, m
<1> QED
  BY <1>3, <1>7, <1>8, <1>9

-----------------------------------------------------------------------------
(***************************************************************************)
(* defrag.                                                                 *)
(***************************************************************************)
DefragCalls == [op : {"defrag"}, lo0 : Int]

LEMMA DefragBeginIInv ==
  ASSUME IInv, DefragBegin
  PROVE  IInv' /\ los' = los
<1> DEFINE l == First(Lows)
<1>1. /\ Good(los, his) /\ los' = los /\ his' = his /\ Lows' = Lows
      /\ After(Lows, l) # Nil
  BY IdleFacts DEF DefragBegin, Lows
<1>2. Lows # {}
  <2>1. ASSUME Lows = {} PROVE After(Lows, l) = Nil
    <3>1. l = Nil /\ KEY_MAX \in Nat /\ Header # Nil
      BY <2>1, KeyBounds, PositionsAreNotKeys, <1>1 DEF First
    <3> QED
      BY <2>1, <3>1 DEF After, First
  <2> QED
    BY <1>1, <2>1
<1>3. l \in Lows /\ First(his) = los[l]
  BY <1>1, <1>2, FirstTogether, LevelAtIsMap
<1>4. call' = [op |-> "defrag", lo0 |-> l] /\ loAt' = After(Lows, l) /\ hiAt' = los[l]
  BY <1>3 DEF DefragBegin
<1>5. After(Lows, l) \in Lows \cup {Nil} /\ l \in Int /\ los[l] \in his
  BY <1>1, <1>3, AfterTogether, GoodKeys, LevelAtIsMap
<1> HIDE DEF l
<1>6. call' \in Calls /\ call'.op = "defrag" /\ call'.lo0 = l
  BY <1>4, <1>5 DEF Calls
<1>7. Iterators'
  BY <1>1, <1>3, <1>4, <1>5, <1>6 DEF Iterators
<1> QED
  BY <1>1, <1>6, <1>7 DEF IInv

LEMMA DefragTurnIInv ==
  ASSUME IInv, DefragTurn
  PROVE  IInv' /\ MapOf(los') = MapOf(los)
<1> DEFINE l == call.lo0
<1>1. /\ Good(los, his) /\ call.op = "defrag" /\ l \in Lows /\ hiAt = los[l]
      /\ loAt = After(Lows, l)
      /\ loAt \in Lows \cup {Header, Nil, Freed} /\ hiAt \in his \cup {Header, Nil, Freed}
  BY DEF IInv, Iterators, DefragTurn, DefragMerge, DefragStep, DefragEnd
<1>2. call \in DefragCalls
  BY <1>1 DEF IInv, Calls, Idle, DefragCalls
<1>3. \/ loAt = Nil /\ After(his, hiAt) = Nil
      \/ loAt \in Lows /\ l < loAt /\ After(his, hiAt) = los[loAt]
  BY <1>1, AfterTogether, LevelAtIsMap
<1>4. \A x \in Lows : x \in Nat /\ los[x] \in his
  BY <1>1, GoodKeys, LevelAtIsMap
<1>5. CASE DefragMerge
  <2>1. loAt \in Lows /\ After(his, hiAt) = los[loAt]
    BY <1>3, <1>5 DEF DefragMerge, Nil
  <2>2. Adjoining(l, loAt)
    BY <1>1, <1>5, <2>1, AdjoiningIs DEF DefragMerge, Connected
  <2>3. /\ Join(l, los[l], loAt, los[loAt])
        /\ loAt' = After(Lows, loAt) /\ hiAt' = los[loAt] /\ call' = call
    BY <1>1, <1>5, <2>1 DEF DefragMerge
  <2>4. /\ Good(los', his')
        /\ l \in DOMAIN los' /\ los'[l] = los[loAt] /\ MapOf(los') = MapOf(los)
        /\ After(DOMAIN los', l) = After(Lows, loAt)
    BY <1>1, <2>2, <2>3, Joined
  <2>5. After(DOMAIN los', l) \in DOMAIN los' \cup {Nil} /\ los'[l] \in his'
    BY <2>4, AfterTogether, GoodKeys
  <2>6. Iterators'
    BY <1>1, <2>3, <2>4, <2>5 DEF Iterators, Lows
  <2> QED
    BY <1>1, <2>3, <2>4, <2>6 DEF IInv
<1>6. CASE DefragStep
  <2>1. loAt \in Lows /\ After(his, hiAt) = los[loAt]
    BY <1>3, <1>6 DEF DefragStep, Nil
  <2>2. los' = los /\ his' = his /\ Lows' = Lows /\ call' = [call EXCEPT !.lo0 = loAt]
    BY <1>6 DEF DefragStep, Lows
  <2>3. loAt' = After(Lows, loAt) /\ hiAt' = los[loAt]
    BY <1>6, <2>1 DEF DefragStep, StepIterators
  <2>4. After(Lows, loAt) \in Lows \cup {Nil}
    BY <1>1, <2>1, AfterTogether, LevelAtIsMap
  <2>5. loAt \in Int
    BY <1>4, <2>1
  <2>6. call' \in DefragCalls /\ call'.op = "defrag" /\ call'.lo0 = loAt
    BY <1>2, <2>2, <2>5 DEF DefragCalls
  <2>7. Iterators'
    BY <1>4, <2>1, <2>2, <2>3, <2>4, <2>6 DEF Iterators
  <2> QED
    BY <1>1, <2>2, <2>6, <2>7 DEF IInv, Calls, DefragCalls
<1>7. CASE DefragEnd
  <2>1. loAt = Nil
    BY <1>3, <1>4, <1>7 DEF DefragEnd
  <2> QED
    BY <1>1, <1>7, <2>1, IdleIInv DEF DefragEnd, Lows
<1> QED
  BY <1>5, <1>6, <1>7 DEF DefragTurn

-----------------------------------------------------------------------------
(***************************************************************************)
(* CompressionPass, but for the turn that replaces families.               *)
(***************************************************************************)
CompressCalls ==
  [op : {"compress"}, onepass : BOOLEAN, changed : BOOLEAN, lo0 : Int, hi0 : Int]

LEMMA CompressFacts ==
  ASSUME IInv, call.op = "compress"
  PROVE  /\ Good(los, his) /\ call \in CompressCalls
         /\ AtOneInterval /\ loAt # Freed /\ loAt # Header
         /\ loAt \in Lows \cup {Nil} /\ hiAt \in his \cup {Nil}
         /\ loAt >= 0 => loAt \in Lows /\ hiAt = los[loAt]
         /\ call.lo0 # Nil => /\ call.lo0 \in Lows /\ call.hi0 = los[call.lo0]
                              /\ loAt = After(Lows, call.lo0)
<1>1. /\ Good(los, his) /\ AtOneInterval /\ loAt # Freed /\ loAt # Header
      /\ call.lo0 # Nil => /\ call.lo0 \in Lows /\ call.hi0 = los[call.lo0]
                           /\ loAt = After(Lows, call.lo0)
  BY DEF IInv, Iterators
<1>2. call \in CompressCalls
  BY DEF IInv, Calls, Idle, CompressCalls
<1>3. \A x \in Lows : los[x] \in his
  BY <1>1, GoodKeys, LevelAtIsMap
<1>4. Nil < 0 /\ Nil \in Int
  BY DEF Nil
<1> QED
  BY <1>1, <1>2, <1>3, <1>4 DEF AtOneInterval

LEMMA CompressIInv ==
  ASSUME Good(los', his'), call' \in CompressCalls,
         AtOneInterval', loAt' # Freed, loAt' # Header,
         call'.lo0 # Nil => /\ call'.lo0 \in Lows' /\ call'.hi0 = los'[call'.lo0]
                            /\ loAt' = After(Lows', call'.lo0)
  PROVE  IInv'
<1>1. \A x \in Lows' : los'[x] \in his'
  BY GoodKeys DEF Lows
<1>2. call'.op = "compress"
  BY DEF CompressCalls
<1>3. Iterators'
  BY <1>1, <1>2 DEF Iterators, AtOneInterval
<1> QED
  BY <1>2, <1>3 DEF IInv, Calls, CompressCalls

LEMMA CompressBeginIInv ==
  ASSUME IInv, NEW onepass \in BOOLEAN, CompressBegin(onepass)
  PROVE  IInv' /\ los' = los
<1>1. /\ Good(los, his) /\ los' = los /\ his' = his /\ Lows' = Lows
  BY IdleFacts DEF CompressBegin, Lows
<1>2. RewindIterators
  BY <1>1 DEF RewindIterators, CompressBegin, Lows
<1>3. /\ call' = [op |-> "compress", onepass |-> onepass, changed |-> FALSE,
                  lo0 |-> Nil, hi0 |-> Nil]
      /\ Nil \in Int
  BY DEF CompressBegin, Nil
<1>4. call' \in CompressCalls /\ call'.lo0 = Nil
  BY <1>3 DEF CompressCalls
<1> QED
  BY <1>1, <1>2, <1>4, Rewound, CompressIInv

LEMMA CompressTakeIInv ==
  ASSUME IInv, CompressTake
  PROVE  IInv' /\ los' = los
<1>1. /\ Good(los, his) /\ call \in CompressCalls
      /\ loAt \in Lows /\ hiAt = los[loAt]
  BY CompressFacts DEF CompressTake
<1>2. los' = los /\ his' = his /\ Lows' = Lows /\ StepIterators
  BY DEF CompressTake, Lows
<1>3. loAt \in Int /\ hiAt \in Int
  BY <1>1, GoodKeys, LevelAtIsMap
<1>4. call' = [call EXCEPT !.lo0 = loAt, !.hi0 = hiAt]
  BY DEF CompressTake
<1>5. call' \in CompressCalls /\ call'.lo0 = loAt /\ call'.hi0 = hiAt
  BY <1>1, <1>3, <1>4 DEF CompressCalls
<1> QED
  BY <1>1, <1>2, <1>5, Stepped, CompressIInv

LEMMA CompressStitchIInv ==
  ASSUME IInv, CompressStitch
  PROVE  IInv' /\ MapOf(los') = MapOf(los)
<1> DEFINE l == call.lo0
<1>1. /\ Good(los, his) /\ call \in CompressCalls
      /\ loAt \in Lows /\ hiAt = los[loAt]
      /\ l \in Lows /\ call.hi0 = los[l] /\ loAt = After(Lows, l)
      /\ LevelById(loAt) = LevelById(l)
      /\ Predecessor(loAt, LevelById(loAt)) = los[l]
  BY CompressFacts DEF CompressStitch, Stitchable
<1>2. los[l] \in Int /\ hiAt \in Int /\ l \in Int
  BY <1>1, GoodKeys, LevelAtIsMap
<1>3. Adjoining(l, loAt)
  BY <1>1, <1>2, AdjoiningIs
<1>4. Join(l, los[l], loAt, los[loAt]) /\ StepIterators
  BY <1>1 DEF CompressStitch
<1>5. /\ Good(los', his') /\ DOMAIN los' = Lows \ {loAt}
      /\ l \in DOMAIN los' /\ los'[l] = los[loAt] /\ MapOf(los') = MapOf(los)
      /\ \A x \in Lows \ {l, loAt} : los'[x] = los[x]
      /\ After(DOMAIN los', l) = After(Lows, loAt)
  BY <1>1, <1>3, <1>4, Joined
<1>6. call' = [call EXCEPT !.hi0 = hiAt]
  BY DEF CompressStitch
<1>7. call' \in CompressCalls /\ call'.lo0 = l /\ call'.hi0 = hiAt
  BY <1>1, <1>2, <1>6 DEF CompressCalls
<1>8. \/ loAt' = Nil /\ hiAt' = Nil
      \/ loAt' \in Lows /\ hiAt' = los[loAt'] /\ loAt < loAt'
  BY <1>1, <1>4, AfterTogether, LevelAtIsMap DEF StepIterators
<1>9. l < loAt /\ loAt \in Nat /\ loAt # l
  BY <1>1, <1>2, <1>3, GoodKeys, LevelAtIsMap DEF Adjoining
<1>10. AtOneInterval' /\ loAt' # Freed /\ loAt' # Header
  <2>1. CASE loAt' = Nil /\ hiAt' = Nil
    BY <1>5, <2>1, PositionsAreNotKeys DEF AtOneInterval
  <2>2. CASE loAt' \in Lows /\ hiAt' = los[loAt'] /\ loAt < loAt'
    <3>1. loAt' # l /\ loAt' # loAt
      BY <1>2, <1>9, <2>2
    <3>2. loAt' \in Lows' /\ los'[loAt'] = los[loAt']
      BY <1>5, <2>2, <3>1 DEF Lows
    <3> QED
      BY <1>1, <2>2, <3>2, PositionsAreNotKeys, LevelAtIsMap DEF AtOneInterval
  <2> QED
    BY <1>8, <2>1, <2>2
<1>11. loAt' = After(Lows', l)
  BY <1>4, <1>5 DEF StepIterators, Lows
<1> QED
  BY <1>1, <1>5, <1>7, <1>10, <1>11, CompressIInv DEF Lows

LEMMA CompressAgainIInv ==
  ASSUME IInv, CompressAgain \/ CompressEnd
  PROVE  IInv' /\ los' = los
<1>1. /\ Good(los, his) /\ call \in CompressCalls /\ AtOneInterval
      /\ los' = los /\ his' = his /\ Lows' = Lows
  BY CompressFacts DEF CompressAgain, CompressEnd, Lows
<1>2. CASE CompressAgain
  <2>1. RewindIterators
    BY <1>1, <1>2 DEF RewindIterators, CompressAgain, Lows
  <2>2. call' = [call EXCEPT !.changed = FALSE] /\ call.lo0 = Nil
    BY <1>2 DEF CompressAgain
  <2>3. call' \in CompressCalls /\ call'.lo0 = Nil
    BY <1>1, <2>2 DEF CompressCalls
  <2> QED
    BY <1>1, <2>1, <2>3, Rewound, CompressIInv
<1>3. CASE CompressEnd
  BY <1>1, <1>3, MergeStops DEF CompressEnd, AtOneInterval
<1> QED
  BY <1>2, <1>3

-----------------------------------------------------------------------------
(***************************************************************************)
(* The turn of CompressionPass that replaces families by their parents.    *)
(***************************************************************************)
\* One coarsening step of LevelMap.
Coarsened(old, new) ==
  \E l \in Levels \ {0} :
     \E parents \in SUBSET Map!FullFamilies(old, l) :
        new = Map!Coalesced(old, parents, l)

\* LevelMap counts positions as the range does.
LEMMA MapCounts ==
  /\ Map!Positions = Positions /\ Map!Levels = Levels /\ Map!Power = Power
  /\ \A l : Map!Span(l) = Span(l)
<1>1. Map!Power = Power
  BY DEF Map!Power, Power
<1> QED
  BY <1>1 DEF Map!Span, Span, Map!Positions, Positions, Map!Levels, Levels

LEMMA ParentsCoarsen ==
  ASSUME Good(los, his), NEW lo \in Lows, NEW c \in Int, NEW d \in Int,
         AreParents(lo, los[lo], c, d),
         Rewrite(<<lo, los[lo]>>, Pieces(lo, los[lo]))
  PROVE  Coarsened(MapOf(los), MapOf(los'))
<1> DEFINE hi == los[lo]
           l == LevelById(lo)
           s == KeySpan(l - 1)
           first == c * s
           last == d * s
<1>1. ParentsLie(lo, hi, l, first, last)
  BY ParentsAreApart, LevelAtIsMap DEF Good
<1>2. Pieces(lo, hi) = ParentPieces(lo, hi, l, first, last)
  BY DEF AreParents, ParentPieces
<1>3. /\ l \in Levels /\ l - 1 \in Levels /\ l \in Nat /\ first \in Int /\ last \in Int
      /\ 0 <= first /\ last <= EndOfKeys /\ EndOfKeys \in Nat
  BY <1>1 DEF ParentsLie
<1>4. l # 0
  BY <1>3, LevelConstants
<1>5. s \in Nat /\ s > 0
  BY <1>3, KeySpanFacts, LevelConstants
<1>6. \A p \in Positions :
         IF first <= KeyOf(p) /\ KeyOf(p) < last
         THEN MapOf(los)[p] = l /\ MapOf(los')[p] = l - 1
         ELSE MapOf(los')[p] = MapOf(los)[p]
  <2>1. Rewrite(<<lo, los[lo]>>, ParentPieces(lo, los[lo], l, first, last))
    BY <1>2
  <2> HIDE DEF l, first, last
  <2> QED
    BY <1>1, <2>1, ParentsMap
<1> DEFINE n(p) == p \div Span(l - 1)
<1>7. \A p \in Positions : /\ n(p) \in Int /\ KeyOf(p) \in Int
                           /\ c <= n(p) <=> first <= KeyOf(p)
                           /\ d <= n(p) <=> last <= KeyOf(p)
  <2> TAKE p \in Positions
  <2>1. p \in Int
    BY DEF Positions
  <2>2. Span(l - 1) \in Nat /\ Span(l - 1) > 0
    BY <1>3, SpanPositive
  <2>3. n(p) \in Int
    BY <2>1, <2>2, DivisionLaw
  <2> QED
    BY <1>3, <2>1, <2>3, FamilyBound, KeyOfFacts
<1> HIDE DEF n
<1>8. \A p \in Positions : n(p) \in c .. d - 1 <=> first <= KeyOf(p) /\ KeyOf(p) < last
  BY <1>3, <1>7
<1>9. c .. d - 1 \subseteq 0 .. Roots * Power[l - 1] - 1
  <2>1. /\ Power[l - 1] \in Nat /\ EndOfKeys = (Roots * Power[l - 1]) * s
        /\ Roots \in Nat
    BY <1>3, PowerProduct, LevelConstants
  <2> DEFINE w == Roots * Power[l - 1]
  <2>2. w \in Nat /\ EndOfKeys = w * s
    BY <2>1
  <2> HIDE DEF w, s
  <2>3. 0 <= c
    <3>1. c < 0 => c * s < 0
      BY <1>5
    <3> QED
      BY <1>3, <3>1
  <2>4. d <= w
    <3>1. w < d => w * s < d * s
      BY <1>5, <2>2
    <3> QED
      BY <1>3, <2>2, <3>1
  <2>5. c .. d - 1 \subseteq 0 .. w - 1
    BY <2>2, <2>3, <2>4
  <2> QED
    BY <2>5 DEF w
<1>10. c .. d - 1 \subseteq Map!FullFamilies(MapOf(los), l)
  <2> SUFFICES ASSUME NEW m \in c .. d - 1
               PROVE  m \in Map!FullFamilies(MapOf(los), l)
    OBVIOUS
  <2>1. m \in 0 .. Roots * Power[l - 1] - 1
    BY <1>9
  <2>2. \A p \in Map!Family(m, l) : MapOf(los)[p] = l
    <3> TAKE p \in Map!Family(m, l)
    <3>1. p \in Positions /\ n(p) = m
      BY MapCounts DEF Map!Family, n
    <3> QED
      BY <1>6, <1>8, <3>1
  <2> QED
    BY <2>1, <2>2, MapCounts DEF Map!FullFamilies
<1>11. MapOf(los') = Map!Coalesced(MapOf(los), c .. d - 1, l)
  <2>1. \A p \in Positions :
           MapOf(los')[p] = IF n(p) \in c .. d - 1 THEN l - 1 ELSE MapOf(los)[p]
    BY <1>6, <1>8
  <2>2. MapOf(los') = [p \in Positions |-> MapOf(los')[p]]
    BY DEF MapOf
  <2> HIDE DEF l
  <2> QED
    BY <2>1, <2>2, MapCounts DEF Map!Coalesced, n
<1> QED
  BY <1>3, <1>4, <1>10, <1>11 DEF Coarsened

\* Whatever the pieces are, they take the place of the interval.
LEMMA PiecesReplace ==
  ASSUME Good(los, his), NEW lo \in Lows,
         Rewrite(<<lo, lo>>, Pieces(lo, los[lo]))
  PROVE  /\ Good(los', his')
         /\ \A x \in Lows : lo < x => x \in Lows' /\ los'[x] = los[x]
         /\ MapOf(los') = MapOf(los) \/ Coarsened(MapOf(los), MapOf(los'))
<1> DEFINE hi == los[lo]
           new == Pieces(lo, hi)
<1>1. IsInterval(lo, hi)
  BY LevelAtIsMap DEF Good
<1>2. \A x \in Lows : /\ x \in Nat /\ los[x] \in Nat /\ x < los[x]
                      /\ x < lo => los[x] < lo
                      /\ lo < x => hi < x
  BY GoodKeys, LevelAtIsMap DEF Good
<1>3. lo \in Nat /\ hi \in Nat /\ lo < hi
  BY <1>2
<1>4. CASE new = {<<lo, hi>>}
  <2>1. \E i \in new : i[2] = hi
    BY <1>4
  <2>2. Rewrite(<<lo, hi>>, new)
    BY <2>1, RewriteWhole
  <2>3. Fits(lo, hi, new)
    BY <1>1, <1>2, <1>3, <1>4 DEF Fits
  <2>4. Leaves(lo, hi, new)
    BY <1>3, <2>2, <2>3, Rewritten
  <2>5. \A x \in Lows : lo < x => x \in Lows' /\ los'[x] = los[x]
    BY <1>2, <2>4 DEF Leaves, Lows
  <2>6. ASSUME NEW p \in Positions PROVE MapOf(los')[p] = MapOf(los)[p]
    <3>1. LeavesAt(lo, hi, new, p)
      BY <1>3, <2>2, <2>3, RewrittenMap
    <3>2. /\ Over(lo, hi, p) => MapOf(los')[p] = LevelById(lo)
          /\ ~Over(lo, hi, p) => MapOf(los')[p] = MapOf(los)[p]
      BY <1>4, <3>1 DEF LeavesAt, Over
    <3>3. Over(lo, hi, p) => MapOf(los)[p] = LevelById(lo)
      BY LevelOfPosition, LevelAtIsMap
    <3> QED
      BY <3>2, <3>3
  <2>7. MapOf(los') = MapOf(los)
    BY <2>6 DEF MapOf
  <2> QED
    BY <2>4, <2>5, <2>7 DEF Leaves
<1>5. CASE \E c, d \in Int : AreParents(lo, hi, c, d)
  <2>1. PICK c \in Int, d \in Int : AreParents(lo, hi, c, d)
    BY <1>5
  <2> DEFINE l == LevelById(lo)
             first == c * KeySpan(l - 1)
             last == d * KeySpan(l - 1)
  <2>2. ParentsLie(lo, hi, l, first, last)
    BY <1>1, <2>1, ParentsAreApart
  <2>3. new = ParentPieces(lo, hi, l, first, last)
    BY <2>1 DEF AreParents, ParentPieces
  <2> HIDE DEF new, l, first, last
  <2>4. \E i \in new : i[2] = hi
    <3>1. CASE last = hi + 1
      <4>1. <<first + (l - 1), last - 1>> \in new /\ last - 1 = hi
        BY <1>3, <2>3, <3>1 DEF ParentPieces
      <4> QED
        BY <4>1
    <3>2. CASE last < hi + 1
      <4>1. <<last + l, hi>> \in new
        BY <2>2, <2>3, <3>2, PiecesAreIntervals DEF ParentPieces
      <4> QED
        BY <4>1
    <3> QED
      BY <2>2, <3>1, <3>2 DEF ParentsLie
  <2>5. Rewrite(<<lo, hi>>, new)
    BY <2>4, RewriteWhole DEF new
  <2>6. Fits(lo, hi, new)
    BY <2>2, <2>3, PiecesFit
  <2>7. Leaves(lo, hi, new)
    BY <1>3, <2>5, <2>6, Rewritten
  <2>8. \A x \in Lows : lo < x => x \in Lows' /\ los'[x] = los[x]
    BY <1>2, <2>7 DEF Leaves, Lows
  <2>9. Coarsened(MapOf(los), MapOf(los'))
    BY <2>1, <2>5, ParentsCoarsen DEF new
  <2> QED
    BY <2>7, <2>8, <2>9 DEF Leaves
<1> QED
  BY <1>1, <1>4, <1>5, PiecesAre

LEMMA CompressCoalesceIInv ==
  ASSUME IInv, CompressCoalesce
  PROVE  IInv' /\ (MapOf(los') = MapOf(los) \/ Coarsened(MapOf(los), MapOf(los')))
<1> DEFINE l == call.lo0
<1>1. /\ Good(los, his) /\ call \in CompressCalls /\ AtOneInterval
      /\ loAt # Freed /\ loAt # Header /\ loAt \in Lows \cup {Nil}
      /\ l \in Lows /\ call.hi0 = los[l] /\ loAt = After(Lows, l)
      /\ loAt' = loAt /\ hiAt' = hiAt
  BY CompressFacts DEF CompressCoalesce
<1>2. Rewrite(<<l, l>>, Pieces(l, los[l]))
  BY <1>1 DEF CompressCoalesce
<1>3. /\ Good(los', his')
      /\ \A x \in Lows : l < x => x \in Lows' /\ los'[x] = los[x]
      /\ MapOf(los') = MapOf(los) \/ Coarsened(MapOf(los), MapOf(los'))
  BY <1>1, <1>2, PiecesReplace
<1>4. loAt = Nil \/ (loAt \in Lows /\ l < loAt)
  BY <1>1, AfterTogether, LevelAtIsMap
<1>5. AtOneInterval'
  BY <1>1, <1>3, <1>4, PositionsAreNotKeys, LevelAtIsMap DEF AtOneInterval
<1> DEFINE ch == call.changed \/ Pieces(l, call.hi0) # {<<l, call.hi0>>}
<1>6. call' = [call EXCEPT !.lo0 = Nil, !.hi0 = Nil, !.changed = ch]
  BY DEF CompressCoalesce
<1>7. ch \in BOOLEAN /\ Nil \in Int
  BY DEF Nil
<1> HIDE DEF ch
<1>8. call' \in CompressCalls /\ call'.lo0 = Nil
  BY <1>1, <1>6, <1>7 DEF CompressCalls
<1> QED
  BY <1>1, <1>3, <1>5, <1>8, CompressIInv

-----------------------------------------------------------------------------
(***************************************************************************)
(* The invariant.                                                          *)
(***************************************************************************)
LEMMA CompressTurnIInv ==
  ASSUME IInv, CompressTurn
  PROVE  IInv' /\ (MapOf(los') = MapOf(los) \/ Coarsened(MapOf(los), MapOf(los')))
BY CompressTakeIInv, CompressStitchIInv, CompressCoalesceIInv, CompressAgainIInv
   DEF CompressTurn

LEMMA StutterIInv ==
  ASSUME IInv, UNCHANGED vars
  PROVE  IInv' /\ los' = los
<1>1. /\ los' = los /\ his' = his /\ loAt' = loAt /\ hiAt' = hiAt /\ call' = call
      /\ Lows' = Lows /\ Level' = Level
  BY DEF vars, Lows, Level
<1>2. Iterators'
  BY <1>1 DEF IInv, Iterators, AtOneInterval
<1>3. call.op = "merge" => (LeftToMerge /\ Behind /\ NoStraddle /\ Sofar /\ Untouched)'
  BY <1>1 DEF IInv, LeftToMerge, Behind, NoStraddle, CutsStraddler, Sofar, Untouched
<1> QED
  BY <1>1, <1>2, <1>3 DEF IInv

LEMMA NextIInv ==
  ASSUME Restricted, IInv, [Next]_vars
  PROVE  IInv'
<1>1. ASSUME NEW r \in Ranges, MergeRange(r[1], r[2]) PROVE IInv'
  <2>1. FirstRange(r[1], r[2]) \/ MergeBegin(r[1], r[2])
    BY <1>1 DEF MergeRange
  <2> QED
    BY <1>1, <2>1, FirstRangeIInv, MergeBeginIInv
<1>2. ASSUME NEW onepass \in BOOLEAN, CompressBegin(onepass) PROVE IInv'
  BY <1>2, CompressBeginIInv
<1>3. CASE UNCHANGED vars
  BY <1>3, StutterIInv
<1> QED
  BY <1>1, <1>2, <1>3, PurgeIInv, WalkIInv, DefragBeginIInv, MergeTurnIInv, DefragTurnIInv,
     CompressTurnIInv DEF Next, Turn

\* The invariant holds in every reachable state of HtmRangeMultiLevel.
THEOREM Invariance ==
  ASSUME Restricted
  PROVE  Spec => []IInv
<1>1. IInv /\ [Next]_vars => IInv'
  BY NextIInv
<1> QED
  BY <1>1, InitIInv, PTL DEF Spec

-----------------------------------------------------------------------------
(***************************************************************************)
(* What the invariant implies.                                             *)
(***************************************************************************)
LEMMA PositionsOver ==
  ASSUME NEW lo \in Int, NEW hi \in Int, NEW i \in Levels, Aligned(hi + 1, i),
         NEW p \in Positions
  PROVE  p \in Position(lo) .. Position(hi) <=> Over(lo, hi, p)
<1>1. p \in Int
  BY DEF Positions
<1>2. Position(lo) \in Int /\ Position(hi) \in Int
  BY <1>1, PositionBelow
<1>3. Position(lo) <= p <=> lo <= KeyOf(p)
  BY <1>1, PositionBelow
<1>4. p <= Position(hi) <=> KeyOf(p) <= hi
  BY <1>1, PositionAbove
<1> QED
  BY <1>1, <1>2, <1>3, <1>4 DEF Over

LEMMA WithRangeIs ==
  ASSUME NEW map, NEW lo \in Int, NEW hi \in Int, NEW i \in Levels, Aligned(hi + 1, i)
  PROVE  WithRange(map, lo, hi) = [p \in Positions |-> With(map[p], lo, hi, Level, p)]
<1>1. \A p \in Positions : p \in Position(lo) .. Position(hi) <=> Over(lo, hi, p)
  BY PositionsOver
<1>2. WithRange(map, lo, hi)
        = [p \in Positions |-> IF p \in Position(lo) .. Position(hi) /\ Level < map[p]
                               THEN Level ELSE map[p]]
  BY MapCounts DEF WithRange, Map!Merged
<1> QED
  BY <1>1, <1>2 DEF With

LEMMA WellFormed == IInv => RangeIsWellFormed
<1> SUFFICES ASSUME IInv PROVE RangeIsWellFormed
  OBVIOUS
<1>1. Good(los, his) /\ Iterators /\ Lows = DOMAIN los
  BY LevelAtIsMap DEF IInv
<1>2. TypeOK
  BY <1>1, GoodKeys DEF TypeOK, Iterators, IInv
<1>3. EndsPaired
  BY <1>1, GoodKeys DEF EndsPaired, Good
<1>4. WholeTriangles
  <2> SUFFICES ASSUME NEW l \in Lows
               PROVE  /\ LevelById(l) \in Levels
                      /\ l = Truncate(l, LevelById(l)) + LevelById(l)
                      /\ los[l] = Terminate(los[l], LevelById(l))
    BY DEF WholeTriangles
  <2>1. IsInterval(l, los[l])
    BY <1>1 DEF Good
  <2>2. l \in Int /\ los[l] \in Int /\ LevelById(l) \in Levels
        /\ Aligned(l - LevelById(l), LevelById(l)) /\ Aligned(los[l] + 1, LevelById(l))
    BY <2>1, KeyBounds DEF IsInterval
  <2> QED
    BY <2>2, LowEndMeans, HighEndMeans
<1>5. InStep
  BY <1>1 DEF InStep, Iterators
<1>6. MergeProgress
  <2> SUFFICES ASSUME call.op = "merge"
               PROVE  /\ WithRange(LevelAt, call.lo1, call.hi1)
                           = WithRange(call.before, call.lo, call.hi)
                      /\ AtInterval("overlapsHigh") /\ Level >= LLevel
                           => Successor(hiAt, Level) <= call.hi1
    BY DEF MergeProgress
  <2>1. LeftToMerge /\ Sofar /\ call \in Calls
    BY DEF IInv
  <2>2. /\ call.lo \in Int /\ call.hi \in Int /\ call.lo1 \in Int /\ call.hi1 \in Int
        /\ call.hi1 = call.hi
    BY <2>1, MergeLocals DEF LeftToMerge
  <2>3. Level \in Levels /\ Aligned(call.hi + 1, Level)
    BY <2>1 DEF LeftToMerge, IsInterval, Level
  <2>4. WithRange(LevelAt, call.lo1, call.hi1) = WithRange(call.before, call.lo, call.hi)
    BY <2>1, <2>2, <2>3, WithRangeIs, LevelAtIsMap DEF Sofar
  <2>5. ASSUME AtInterval("overlapsHigh"), Level >= LLevel
        PROVE  Successor(hiAt, Level) <= call.hi1
    <3>1. AtTurn /\ hiAt < call.hi1
      BY <2>5, LiesMeans DEF AtInterval
    <3> QED
      BY <2>5, <3>1, RestAbove, TurnFacts, TurnApart
  <2> QED
    BY <2>4, <2>5
<1> QED
  BY <1>2, <1>3, <1>4, <1>5, <1>6 DEF RangeIsWellFormed

\* After every turn of every loop the lists pair up to whole triangles, the
\* iterators keep in step with them, and a merge has still to do what is
\* missing.
THEOREM RangeIsWellFormedAlways ==
  ASSUME Restricted
  PROVE  Spec => []RangeIsWellFormed
BY Invariance, WellFormed, PTL

-----------------------------------------------------------------------------
(***************************************************************************)
(* What a merge has done when it ends.                                     *)
(***************************************************************************)
\* Only a turn of mergeRange ends a merge.
LEMMA MergeEndsInATurn ==
  ASSUME IInv, [Next]_vars, call.op = "merge", call' = Idle
  PROVE  MergeTurn
<1>1. call # Idle
  BY DEF Idle
<1>2. ~DefragTurn /\ ~CompressTurn
  BY DEF DefragTurn, DefragMerge, DefragStep, DefragEnd, CompressTurn, CompressTake,
         CompressStitch, CompressCoalesce, CompressAgain, CompressEnd
<1> QED
  BY <1>1, <1>2 DEF Next, vars, Turn, MergeRange, FirstRange, MergeBegin, Purge, Reset, GetNext,
     WalkThrough, DefragBegin, CompressBegin

LEMMA DoneIsWhole ==
  ASSUME IInv, call.op = "merge", Done
  PROVE  LevelAt' = WithRange(call.before, call.lo, call.hi)
<1>1. LeftToMerge /\ Sofar /\ call \in Calls
  BY DEF IInv
<1>2. /\ call.lo \in Int /\ call.hi \in Int /\ Level \in Levels
      /\ Aligned(call.hi + 1, Level)
  BY <1>1, MergeLocals DEF LeftToMerge, IsInterval, Level
<1>3. LevelAt' = MapOf(los')
  BY DEF LevelAt, MapOf, Lows
<1>4. MapOf(los') = [p \in Positions |-> MapOf(los')[p]]
  BY DEF MapOf
<1>5. \A p \in Positions : MapOf(los')[p] = With(call.before[p], call.lo, call.hi, Level, p)
  BY <1>1 DEF Done, Sofar
<1>6. WithRange(call.before, call.lo, call.hi)
        = [p \in Positions |-> With(call.before[p], call.lo, call.hi, Level, p)]
  BY <1>2, WithRangeIs
<1> QED
  BY <1>3, <1>4, <1>5, <1>6

\* The merge that is given up has done the part below what is left.
LEMMA ThrowsHalfway ==
  ASSUME IInv, MergeThrows
  PROVE  LevelAt' = WithRange(call.before, call.lo, call.lo1 - Unit)
<1>1. AtTurn /\ loAt <= call.lo1 /\ call.lo1 <= hiAt
  BY LiesMeans DEF MergeThrows
<1>2. /\ LeftToMerge /\ Sofar /\ Untouched /\ call \in Calls /\ call.op = "merge"
  BY <1>1 DEF AtTurn, IInv
<1>3. /\ call.lo \in Int /\ call.hi \in Int /\ call.lo1 \in Int /\ call.hi1 = call.hi
      /\ call.lo <= call.lo1 /\ call.lo1 < call.hi
  BY <1>2, MergeLocals DEF LeftToMerge
<1>4. loAt \in Lows /\ hiAt = los[loAt] /\ loAt \in Int /\ hiAt \in Int
  BY <1>1, TurnFacts
<1>5. LevelAt' = MapOf(los)
  BY LevelAtIsMap DEF MergeThrows, LevelAt, MapOf, Lows
<1> DEFINE below == call.lo1 - Unit
           Upto(p) == p \in Position(call.lo) .. Position(below)
<1>6. Unit \in Int /\ below \in Int
  BY <1>3, LevelConstants
<1>7. ASSUME NEW p \in Positions
      PROVE  /\ KeyOf(p) \in Int
             /\ Upto(p) <=> call.lo <= KeyOf(p) /\ KeyOf(p) < call.lo1
  <2>1. p \in Int /\ p - 1 \in Int
    BY DEF Positions
  <2>2. KeyOf(p) \in Int /\ KeyOf(p - 1) = KeyOf(p) - Unit
    BY <2>1, LevelConstants DEF KeyOf
  <2>3. /\ Position(call.lo) \in Int /\ Position(below) \in Int
        /\ Position(call.lo) <= p <=> call.lo <= KeyOf(p)
        /\ Position(below) <= p - 1 <=> below <= KeyOf(p - 1)
    BY <1>3, <1>6, <2>1, PositionBelow
  <2> QED
    BY <1>3, <1>6, <2>1, <2>2, <2>3
<1> HIDE DEF Upto
<1>8. ASSUME NEW p \in Positions
      PROVE  MapOf(los)[p] = IF Upto(p) /\ Level < call.before[p]
                             THEN Level ELSE call.before[p]
  <2>1. /\ KeyOf(p) \in Int
        /\ Upto(p) <=> call.lo <= KeyOf(p) /\ KeyOf(p) < call.lo1
    BY <1>7
  <2>2. CASE KeyOf(p) < call.lo1
    <3>1. With(MapOf(los)[p], call.lo1, call.hi1, Level, p)
            = With(call.before[p], call.lo, call.hi, Level, p)
      BY <1>2 DEF Sofar
    <3>2. /\ ~Over(call.lo1, call.hi1, p)
          /\ Over(call.lo, call.hi, p) <=> call.lo <= KeyOf(p)
      BY <1>3, <2>1, <2>2 DEF Over
    <3> QED
      BY <2>1, <2>2, <3>1, <3>2 DEF With
  <2>3. CASE call.lo1 <= KeyOf(p)
    <3>1. ~(los[loAt] < call.lo1 \/ KeyOf(p) < loAt)
      BY <1>1, <1>3, <1>4, <2>1, <2>3
    <3>2. MapOf(los)[p] = call.before[p]
      BY <1>2, <1>4, <2>3, <3>1 DEF Untouched
    <3> QED
      BY <1>3, <2>1, <2>3, <3>2
  <2> QED
    BY <1>3, <2>1, <2>2, <2>3
<1>9. MapOf(los) = [p \in Positions |-> MapOf(los)[p]]
  BY DEF MapOf
<1>10. WithRange(call.before, call.lo, below)
         = [p \in Positions |-> IF Upto(p) /\ Level < call.before[p]
                                THEN Level ELSE call.before[p]]
  BY MapCounts DEF WithRange, Map!Merged, Upto
<1> QED
  BY <1>5, <1>8, <1>9, <1>10

\* A merge that ends has merged its whole range, and one that throws exactly
\* the part below the interval it gave up at.
THEOREM MergeIsWholeAlways ==
  ASSUME Restricted
  PROVE  Spec => MergeIsWhole
<1> DEFINE Whole == call.op = "merge" /\ call' = Idle =>
                      LevelAt' = IF Lies = "overlapsHigh" /\ Level >= LLevel
                                 THEN WithRange(call.before, call.lo, call.lo1 - Unit)
                                 ELSE WithRange(call.before, call.lo, call.hi)
<1>1. IInv /\ [Next]_vars => Whole
  <2> SUFFICES ASSUME IInv, [Next]_vars, call.op = "merge", call' = Idle
               PROVE  LevelAt' = IF Lies = "overlapsHigh" /\ Level >= LLevel
                                 THEN WithRange(call.before, call.lo, call.lo1 - Unit)
                                 ELSE WithRange(call.before, call.lo, call.hi)
    OBVIOUS
  <2>1. MergeTurn
    BY MergeEndsInATurn
  <2>2. CASE MergeThrows
    BY <2>2, ThrowsHalfway DEF MergeThrows, AtInterval
  <2>3. CASE ~MergeThrows
    <3>1. LevelAt' = WithRange(call.before, call.lo, call.hi)
      BY <2>1, <2>3, MergeTurnIInv, DoneIsWhole
    <3>2. ~(Lies = "overlapsHigh" /\ Level >= LLevel)
      <4> SUFFICES ASSUME Lies = "overlapsHigh", Level >= LLevel PROVE FALSE
        OBVIOUS
      <4>1. call \in Calls
        BY DEF IInv
      <4>2. CASE loAt < 0
        <5>1. loAt = Nil /\ hiAt = Nil
          BY <4>2, GoodKeys, LevelAtIsMap DEF IInv, Iterators, AtOneInterval, Header, Freed
        <5>2. hiAt < call.lo1
          <6>1. LeftToMerge
            BY DEF IInv
          <6> QED
            BY <4>1, <5>1, <6>1, MergeLocals DEF LeftToMerge, IsInterval, Nil
        <5> QED
          BY <5>2 DEF Lies
      <4>3. CASE MergeHighFiner
        BY <4>1, <4>3, MergeLocals DEF MergeHighFiner, Idle
      <4>4. ASSUME loAt >= 0 PROVE ~(Level < LLevel)
        <5>1. Level \in Nat /\ LLevel \in Nat
          BY <4>4, TurnApart DEF AtTurn
        <5> QED
          BY <5>1
      <4> QED
        BY <2>1, <2>3, <4>2, <4>3, <4>4 DEF MergeTurn, NotYetThere, MergeBelow, MergeLowSame,
           MergeLowFiner, MergeLowCoarser, MergeOver, MergeAround, MergeInCoarser,
           MergeInFiner, MergeHighCoarser, MergeEnd, AtInterval
    <3> QED
      BY <3>1, <3>2
  <2> QED
    BY <2>2, <2>3
<1> QED
  BY <1>1, Invariance, PTL DEF Spec, MergeIsWhole

-----------------------------------------------------------------------------
(***************************************************************************)
(* What defrag and CompressionPass do to the map of levels.                *)
(***************************************************************************)
LEMMA CompressStaysCompress ==
  ASSUME IInv, CompressTurn, call.op = "compress"
  PROVE  call'.op # "merge"
<1>1. call \in CompressCalls
  BY CompressFacts
<1>2. CASE CompressEnd
  BY <1>2 DEF CompressEnd, Idle
<1>3. CASE CompressTake
  BY <1>1, <1>3 DEF CompressTake, CompressCalls
<1>4. CASE CompressStitch
  BY <1>1, <1>4 DEF CompressStitch, CompressCalls
<1>5. CASE CompressCoalesce
  BY <1>1, <1>5 DEF CompressCoalesce, CompressCalls
<1>6. CASE CompressAgain
  BY <1>1, <1>6 DEF CompressAgain, CompressCalls
<1> QED
  BY <1>2, <1>3, <1>4, <1>5, <1>6 DEF CompressTurn

LEMMA CoarsenedMeans ==
  ASSUME IInv, [Next]_vars, call.op = "compress"
  PROVE  UNCHANGED LevelAt \/ Map!Coalesce
<1>1. call # Idle
  BY DEF Idle
<1>2. CompressTurn \/ UNCHANGED vars
  BY <1>1 DEF Next, Turn, MergeRange, FirstRange, MergeBegin, Purge, Reset, GetNext,
     WalkThrough, DefragBegin, CompressBegin, DefragTurn, DefragMerge, DefragStep, DefragEnd,
     MergeTurn, NotYetThere, MergeBelow, MergeLowSame, MergeLowFiner, MergeLowCoarser, MergeOver,
     MergeAround, MergeInCoarser, MergeInFiner, MergeHighFiner, MergeThrows, MergeHighCoarser,
     MergeEnd, AtInterval
<1>3. LevelAt = MapOf(los) /\ LevelAt' = MapOf(los')
  BY DEF LevelAt, MapOf, Lows
<1>4. CASE UNCHANGED vars
  BY <1>3, <1>4 DEF vars
<1>5. CASE CompressTurn
  <2>1. MapOf(los') = MapOf(los) \/ Coarsened(MapOf(los), MapOf(los'))
    BY <1>5, CompressTurnIInv
  <2>2. call'.op # "merge"
    BY <1>5, CompressStaysCompress
  <2>3. Coarsened(MapOf(los), MapOf(los')) => Map!Coalesce
    <3> DEFINE now == IF call.op = "merge" THEN call.before ELSE LevelAt
    <3>1. now = MapOf(los) /\ now' = MapOf(los')
      BY <1>3, <2>2
    <3>2. Map!Coalesce <=> Coarsened(now, now')
      BY MapCounts DEF Coarsened, Map!Coalesce
    <3> HIDE DEF now
    <3> QED
      BY <3>1, <3>2
  <2> QED
    BY <1>3, <2>1, <2>3
<1> QED
  BY <1>2, <1>4, <1>5

LEMMA DefragKeepsMap ==
  ASSUME IInv, [Next]_vars, call.op = "defrag"
  PROVE  UNCHANGED LevelAt
<1>1. call # Idle
  BY DEF Idle
<1>2. DefragTurn \/ UNCHANGED vars
  BY <1>1 DEF Next, Turn, MergeRange, FirstRange, MergeBegin, Purge, Reset, GetNext,
     WalkThrough, DefragBegin, CompressBegin, CompressTurn, CompressTake, CompressStitch,
     CompressCoalesce, CompressAgain, CompressEnd,
     MergeTurn, NotYetThere, MergeBelow, MergeLowSame, MergeLowFiner, MergeLowCoarser, MergeOver,
     MergeAround, MergeInCoarser, MergeInFiner, MergeHighFiner, MergeThrows, MergeHighCoarser,
     MergeEnd, AtInterval
<1>3. LevelAt = MapOf(los) /\ LevelAt' = MapOf(los')
  BY DEF LevelAt, MapOf, Lows
<1> QED
  BY <1>2, <1>3, DefragTurnIInv DEF vars

\* defrag changes no level of any position, and CompressionPass only where the
\* children of a triangle are all covered at their own level.
THEOREM OnlyCoalescingCoarsensAlways ==
  ASSUME Restricted
  PROVE  Spec => OnlyCoalescingCoarsens
<1>1. IInv /\ [Next]_vars => /\ call.op = "defrag" => UNCHANGED LevelAt
                             /\ call.op = "compress" => UNCHANGED LevelAt \/ Map!Coalesce
  BY CoarsenedMeans, DefragKeepsMap
<1> QED
  BY <1>1, Invariance, PTL DEF Spec, OnlyCoalescingCoarsens

-----------------------------------------------------------------------------
(***************************************************************************)
(* The refinement of LevelMap.  During a merge the map is still the one    *)
(* the call began with; the last turn of the loop is LevelMap's Merge.     *)
(***************************************************************************)
Now == IF call.op = "merge" THEN call.before ELSE LevelAt

\* A merge in the sense of LevelMap, which reaches from the first to the last
\* position that changes.
Extended(old, new) ==
  \E changed \in {{p \in Positions : new[p] # old[p]}} :
    /\ changed # {}
    /\ \E l \in Levels : new = Map!Merged(old, Map!Min(changed), Map!Max(changed), l)

LEMMA LeastOf ==
  ASSUME NEW S \in SUBSET Nat, S # {}
  PROVE  Map!Min(S) \in S /\ \A x \in S : Map!Min(S) <= x
<1>1. \E m \in S : \A k \in S : m <= k
  BY LeastExists
<1> QED
  BY <1>1 DEF Map!Min

LEMMA GreatestOf ==
  ASSUME NEW n \in Nat, NEW S \in SUBSET (0 .. n), S # {}
  PROVE  Map!Max(S) \in S /\ \A x \in S : x <= Map!Max(S)
<1> DEFINE T == {n - x : x \in S}
<1>1. T \in SUBSET Nat /\ T # {}
  <2>1. \A x \in S : n - x \in Nat
    OBVIOUS
  <2>2. \E x \in S : n - x \in T
    OBVIOUS
  <2> QED
    BY <2>1, <2>2
<1>2. PICK m \in T : \A k \in T : m <= k
  BY <1>1, LeastExists
<1>3. PICK y \in S : m = n - y
  BY <1>2
<1>4. \A x \in S : y >= x
  <2> TAKE x \in S
  <2>1. n - x \in T /\ x \in Int /\ y \in Int
    OBVIOUS
  <2>2. n - y <= n - x
    BY <1>2, <1>3, <2>1
  <2> QED
    BY <2>1, <2>2
<1>5. Map!Max(S) \in S /\ \A x \in S : Map!Max(S) >= x
  BY <1>3, <1>4 DEF Map!Max
<1> QED
  BY <1>5

LEMMA MergedExtends ==
  ASSUME NEW old \in [Positions -> Int], NEW a \in Int, NEW b \in Int, NEW l \in Levels,
         NEW new, new = Map!Merged(old, a, b, l)
  PROVE  new = old \/ Extended(old, new)
<1> DEFINE changed == {p \in Positions : new[p] # old[p]}
           In(p) == p \in a .. b /\ l < old[p]
<1>1. new = [p \in Positions |-> IF In(p) THEN l ELSE old[p]]
  BY MapCounts DEF Map!Merged
<1>2. l \in Int
  BY LevelConstants
<1>3. \A p \in Positions : p \in changed <=> In(p)
  BY <1>1, <1>2
<1>4. CASE changed = {}
  <2>1. \A p \in Positions : new[p] = old[p]
    BY <1>4
  <2> QED
    BY <1>1, <2>1
<1>5. CASE changed # {}
  <2> DEFINE first == Map!Min(changed)
             last == Map!Max(changed)
             n == Roots * Span(0) - 1
  <2>1. n \in Nat
    <3>1. 0 \in Levels
      BY LevelConstants DEF Levels
    <3>2. Span(0) \in Nat /\ Span(0) > 0 /\ Roots \in Nat /\ Roots > 0
      BY <3>1, SpanPositive, LevelConstants
    <3> QED
      BY <3>2
  <2>2. Positions = 0 .. n
    BY DEF Positions
  <2> HIDE DEF n
  <2>3. changed \in SUBSET Nat /\ changed \in SUBSET (0 .. n)
    BY <2>1, <2>2
  <2> HIDE DEF changed
  <2>4. /\ first \in changed /\ \A x \in changed : first <= x
        /\ last \in changed /\ \A x \in changed : x <= last
    BY <1>5, <2>1, <2>3, LeastOf, GreatestOf
  <2> HIDE DEF first, last
  <2>5. first \in Positions /\ last \in Positions /\ In(first) /\ In(last)
    BY <1>3, <2>4 DEF changed
  <2>6. \A p \in Positions : In(p) <=> p \in first .. last /\ l < old[p]
    <3> TAKE p \in Positions
    <3>1. p \in Int /\ first \in Int /\ last \in Int
      BY <2>5 DEF Positions
    <3>2. In(p) => first <= p /\ p <= last
      BY <1>3, <2>4
    <3> QED
      BY <2>5, <3>1, <3>2
  <2>7. new = [p \in Positions |-> IF p \in first .. last /\ l < old[p] THEN l ELSE old[p]]
    BY <1>1, <2>6
  <2>8. new = Map!Merged(old, first, last, l)
    BY <2>7, MapCounts DEF Map!Merged
  <2> QED
    BY <1>5, <2>8 DEF Extended, changed, first, last
<1> QED
  BY <1>4, <1>5

LEMMA ExtendedIsMerge ==
  ASSUME Extended(Now, Now')
  PROVE  Map!Merge
<1> DEFINE now == Now
<1>1. Map!Merge <=> Extended(now, now')
  BY MapCounts DEF Map!Merge, Extended, Now
<1> QED
  BY <1>1

LEMMA NowIs ==
  /\ call.op = "merge" => Now = call.before
  /\ call.op # "merge" => Now = MapOf(los)
  /\ call'.op = "merge" => Now' = call'.before
  /\ call'.op # "merge" => Now' = MapOf(los')
BY DEF Now, LevelAt, MapOf, Lows

\* A turn that goes on remembers the map the call began with.
LEMMA BeforeIsKept ==
  ASSUME IInv, MergeTurn, call' # Idle
  PROVE  call'.op = "merge" /\ call'.before = call.before
<1>1. call \in Calls /\ call.op = "merge"
  BY DEF IInv, MergeTurn, NotYetThere, MergeBelow, MergeLowSame, MergeLowFiner,
     MergeLowCoarser, MergeOver, MergeAround, MergeInCoarser, MergeInFiner, MergeHighFiner,
     MergeThrows, MergeHighCoarser, MergeEnd, AtInterval
<1>2. CASE NotYetThere
  BY <1>1, <1>2, MergeLocals DEF NotYetThere
<1>3. CASE MergeOver
  BY <1>1, <1>3 DEF MergeOver
<1>4. CASE MergeAround
  BY <1>1, <1>4, MergeLocals DEF MergeAround
<1>5. CASE MergeHighFiner
  BY <1>1, <1>5, MergeLocals DEF MergeHighFiner
<1>6. CASE MergeHighCoarser
  <2>1. call' = [call EXCEPT !.lo1 = Successor(hiAt, Level)]
    BY <1>6 DEF MergeHighCoarser
  <2> QED
    BY <1>1, <2>1, MergeLocals
<1> QED
  BY <1>2, <1>3, <1>4, <1>5, <1>6 DEF MergeTurn, MergeBelow, MergeLowSame, MergeLowFiner,
     MergeLowCoarser, MergeInCoarser, MergeInFiner, MergeThrows, MergeEnd

\* The last turn is the merge of the abstract map.
LEMMA EndIsMerge ==
  ASSUME IInv, MergeTurn, call' = Idle, call.op = "merge"
  PROVE  UNCHANGED Now \/ Map!Merge
<1>1. call \in Calls /\ LeftToMerge
  BY DEF IInv
<1>2. /\ call.before \in [Positions -> Int]
      /\ call.lo \in Int /\ call.hi \in Int /\ call.lo1 \in Int /\ Unit \in Int
      /\ Level \in Levels
  BY <1>1, MergeLocals, LevelConstants DEF LeftToMerge, IsInterval, Level
<1>3. Now = call.before /\ Now' = LevelAt'
  BY DEF Now, Idle
<1>4. \E b \in Int : Now' = WithRange(call.before, call.lo, b)
  <2>1. CASE MergeThrows
    <3>1. call.lo1 - Unit \in Int
      BY <1>2
    <3> QED
      BY <1>3, <2>1, <3>1, ThrowsHalfway
  <2>2. CASE ~MergeThrows
    BY <1>2, <1>3, <2>2, MergeTurnIInv, DoneIsWhole
  <2> QED
    BY <2>1, <2>2
<1>5. PICK b \in Int : Now' = WithRange(call.before, call.lo, b)
  BY <1>4
<1>6. Now' = Map!Merged(Now, Position(call.lo), Position(b), Level)
  BY <1>3, <1>5 DEF WithRange
<1>7. Position(call.lo) \in Int /\ Position(b) \in Int
  BY <1>2, PositionBelow
<1>8. Now' = Now \/ Extended(Now, Now')
  <2> DEFINE old == Now
             new == Now'
  <2>1. old \in [Positions -> Int]
    BY <1>2, <1>3
  <2>2. new = Map!Merged(old, Position(call.lo), Position(b), Level)
    BY <1>6
  <2> HIDE DEF old, new
  <2>3. new = old \/ Extended(old, new)
    BY <1>2, <1>7, <2>1, <2>2, MergedExtends
  <2> QED
    BY <2>3 DEF old, new
<1> QED
  BY <1>8, ExtendedIsMerge

\* The first range of an empty list.
LEMMA FirstIsMerge ==
  ASSUME IInv, NEW r \in Ranges, FirstRange(r[1], r[2])
  PROVE  UNCHANGED Now \/ Map!Merge
<1> DEFINE l == LevelById(r[1])
<1>1. IsInterval(r[1], r[2])
  BY RangesAreIntervals
<1>2. r[1] \in Int /\ r[2] \in Int /\ l \in Levels /\ Aligned(r[2] + 1, l)
  BY <1>1 DEF IsInterval
<1>3. call = Idle /\ call' = Idle
  BY DEF FirstRange
<1>4. Now = MapOf(los) /\ Now' = MapOf(los')
  BY <1>3, NowIs DEF Idle
<1>5. MapOf(los) \in [Positions -> Int]
  <2>1. MapOf(los) \in [Positions -> 0 .. Depth + 1]
    BY <1>3, IdleFacts, MapIsTyped
  <2> QED
    BY <2>1
<1>6. \A p \in Positions : MapOf(los')[p] = With(MapOf(los)[p], r[1], r[2], l, p)
  BY FirstRangeIInv
<1> HIDE DEF l
<1>7. \A p \in Positions : p \in Position(r[1]) .. Position(r[2]) <=> Over(r[1], r[2], p)
  BY <1>2, PositionsOver
<1>8. MapOf(los') = Map!Merged(MapOf(los), Position(r[1]), Position(r[2]), l)
  <2>1. MapOf(los') = [p \in Positions |-> MapOf(los')[p]]
    BY DEF MapOf
  <2> QED
    BY <1>6, <1>7, <2>1, MapCounts DEF Map!Merged, With
<1>9. Position(r[1]) \in Int /\ Position(r[2]) \in Int
  BY <1>2, PositionBelow
<1>10. MapOf(los') = MapOf(los) \/ Extended(MapOf(los), MapOf(los'))
  <2> DEFINE old == MapOf(los)
             new == MapOf(los')
  <2> HIDE DEF old, new
  <2>1. old \in [Positions -> Int] /\
        new = Map!Merged(old, Position(r[1]), Position(r[2]), l)
    BY <1>5, <1>8 DEF old, new
  <2>2. new = old \/ Extended(old, new)
    BY <1>2, <1>9, <2>1, MergedExtends
  <2> QED
    BY <2>2 DEF old, new
<1> QED
  BY <1>4, <1>10, ExtendedIsMerge

LEMMA PurgeIsClear ==
  ASSUME IInv, Purge
  PROVE  Map!Clear
<1>1. DOMAIN los' = {} /\ Good(los', his') /\ call' = Idle
  BY PurgeIInv DEF Purge, Idle, IInv
<1>2. \A p \in Positions : MapOf(los')[p] = Depth + 1
  BY <1>1, LevelOfPosition
<1>3. MapOf(los') = [p \in Positions |-> MapOf(los')[p]]
  BY DEF MapOf
<1>4. Now' = MapOf(los')
  BY <1>1, NowIs DEF Idle
<1>5. Now' = [p \in Positions |-> Depth + 1]
  BY <1>2, <1>3, <1>4
<1> QED
  BY <1>5, MapCounts DEF Map!Clear, Map!Uncovered, Now

LEMMA StepImplements ==
  ASSUME Restricted, IInv, [Next]_vars
  PROVE  UNCHANGED Now \/ Map!Next
<1>1. ASSUME NEW r \in Ranges, MergeRange(r[1], r[2])
      PROVE  UNCHANGED Now \/ Map!Merge
  <2>1. CASE FirstRange(r[1], r[2])
    BY <2>1, FirstIsMerge
  <2>2. CASE MergeBegin(r[1], r[2])
    <3>1. call = Idle /\ call'.op = "merge" /\ call'.before = LevelAt
      BY <2>2 DEF MergeBegin
    <3> QED
      BY <3>1 DEF Now, Idle
  <2> QED
    BY <1>1, <2>1, <2>2 DEF MergeRange
<1>2. ASSUME Purge PROVE Map!Clear
  BY <1>2, PurgeIsClear
<1>3. ASSUME call = Idle, call'.op # "merge", los' = los PROVE UNCHANGED Now
  BY <1>3, NowIs DEF Idle
<1>4. ASSUME Reset \/ GetNext \/ WalkThrough PROVE UNCHANGED Now
  <2>1. call = Idle /\ call' = Idle /\ los' = los
    BY <1>4 DEF Reset, GetNext, WalkThrough
  <2> QED
    BY <1>3, <2>1 DEF Idle
<1>5. ASSUME DefragBegin PROVE UNCHANGED Now
  <2>1. call = Idle /\ call'.op = "defrag" /\ los' = los
    BY <1>5 DEF DefragBegin
  <2> QED
    BY <1>3, <2>1
<1>6. ASSUME NEW onepass \in BOOLEAN, CompressBegin(onepass) PROVE UNCHANGED Now
  <2>1. call = Idle /\ call'.op = "compress" /\ los' = los
    BY <1>6 DEF CompressBegin
  <2> QED
    BY <1>3, <2>1
<1>7. ASSUME MergeTurn PROVE UNCHANGED Now \/ Map!Merge
  <2>1. call.op = "merge"
    BY <1>7 DEF MergeTurn, NotYetThere, MergeBelow, MergeLowSame,
       MergeLowFiner, MergeLowCoarser, MergeOver, MergeAround, MergeInCoarser, MergeInFiner,
       MergeHighFiner, MergeThrows, MergeHighCoarser, MergeEnd, AtInterval
  <2>2. CASE call' = Idle
    BY <1>7, <2>1, <2>2, EndIsMerge
  <2>3. CASE call' # Idle
    BY <1>7, <2>1, <2>3, BeforeIsKept, NowIs
  <2> QED
    BY <2>2, <2>3
<1>8. ASSUME DefragTurn PROVE UNCHANGED Now
  <2>1. MapOf(los') = MapOf(los)
    BY <1>8, DefragTurnIInv
  <2>2. call.op = "defrag"
    BY <1>8 DEF DefragTurn, DefragMerge, DefragStep, DefragEnd
  <2>3. call'.op # "merge"
    <3>1. call \in DefragCalls
      BY <2>2 DEF IInv, Calls, Idle, DefragCalls
    <3>2. CASE DefragMerge
      BY <2>2, <3>2 DEF DefragMerge
    <3>3. CASE DefragStep
      BY <3>1, <3>3 DEF DefragStep, DefragCalls
    <3>4. CASE DefragEnd
      BY <3>4 DEF DefragEnd, Idle
    <3> QED
      BY <1>8, <3>2, <3>3, <3>4 DEF DefragTurn
  <2> QED
    BY <2>1, <2>2, <2>3, NowIs
<1>9. ASSUME CompressTurn PROVE UNCHANGED Now \/ Map!Coalesce
  <2>1. call.op = "compress"
    BY <1>9 DEF CompressTurn, CompressTake, CompressStitch, CompressCoalesce, CompressAgain,
       CompressEnd
  <2>2. UNCHANGED LevelAt \/ Map!Coalesce
    BY <1>9, <2>1, CoarsenedMeans DEF Next, Turn
  <2>3. call'.op # "merge"
    BY <1>9, <2>1, CompressStaysCompress
  <2>4. UNCHANGED LevelAt => UNCHANGED Now
    BY <2>1, <2>3 DEF Now
  <2> QED
    BY <2>2, <2>4
<1>10. ASSUME UNCHANGED vars PROVE UNCHANGED Now
  BY <1>10 DEF vars, Now, LevelAt, Lows
<1> QED
  BY <1>1, <1>2, <1>4, <1>5, <1>6, <1>7, <1>8, <1>9, <1>10 DEF Next, Turn, Map!Next

\* The two lists implement the map of levels: what mergeRange adds, purge
\* removes and CompressionPass replaces is exactly what LevelMap allows.
THEOREM Implementation ==
  ASSUME Restricted
  PROVE  Spec => ImplementsLevelMap
<1>1. Init => Map!Init
  <2> SUFFICES ASSUME Init PROVE Map!Init
    OBVIOUS
  <2>1. IInv /\ los = << >> /\ call = Idle
    BY InitIInv DEF Init
  <2>2. Good(los, his) /\ DOMAIN los = {}
    BY <2>1 DEF IInv
  <2>3. \A p \in Positions : MapOf(los)[p] = Depth + 1
    BY <2>2, LevelOfPosition
  <2>4. MapOf(los) = [p \in Positions |-> MapOf(los)[p]] /\ Now = MapOf(los)
    BY <2>1, NowIs DEF MapOf, Idle
  <2>5. Now = [p \in Positions |-> Depth + 1]
    BY <2>3, <2>4
  <2> QED
    BY <2>5, MapCounts DEF Map!Init, Map!Uncovered, Now
<1>2. IInv /\ [Next]_vars => UNCHANGED Now \/ Map!Next
  BY StepImplements
<1> QED
  BY <1>1, <1>2, Invariance, PTL DEF Spec, ImplementsLevelMap, Map!Spec, Now
=============================================================================
