--------------------------- MODULE HtmRangeProofs ---------------------------
(***************************************************************************)
(* Theorems about HtmRange for every KEY_MAX and every set of gaps: the    *)
(* ends of the two lists alternate, a walk hands out intervals, defrag     *)
(* never touches a freed element, a merge is a union, the two lists        *)
(* implement the abstract set of keys, and queries are right but for the   *)
(* deviations QueriesAreNearlyRight describes.                             *)
(*                                                                         *)
(* EndsAlternate is inductive together with TypeOK and with what is known  *)
(* of the iterators: a merge by defrag keeps the ends alternating only     *)
(* because the iterators are at neighbouring ends (LoopInv).  Lemmas about *)
(* two alternating sets of ends come first: what tinside's comparisons     *)
(* mean, what a merge and a join of two intervals leave, and where the     *)
(* iterators go.                                                           *)
(***************************************************************************)
EXTENDS HtmRange, OrderedKeysProofs

-----------------------------------------------------------------------------
(***************************************************************************)
(* tinside's two comparisons, in terms of the ends themselves.             *)
(***************************************************************************)
OpenBefore(L, H, k) == \E l \in L : l < k /\ \A h \in H : h < k => h < l
OpenAfter(L, H, k)  == \E h \in H : k < h /\ \A l \in L : k < l => h < l

LEMMA InsideFromLeftMeans ==
  ASSUME TypeOK, NEW k \in Ids
  PROVE  InsideFromLeft(k) <=> OpenBefore(los, his, k)
<1> DEFINE GL == FindMAX(los, k)
           GH == FindMAX(his, k)
<1> USE IdsAreInts
<1>1. \/ GL = KEY_MIN /\ \A x \in los : k <= x
      \/ GL \in los /\ GL < k /\ \A x \in los : x < k => x <= GL
  BY FindMAXOfIds DEF TypeOK
<1>2. \/ GH = KEY_MIN /\ \A x \in his : k <= x
      \/ GH \in his /\ GH < k /\ \A x \in his : x < k => x <= GH
  BY FindMAXOfIds DEF TypeOK
<1>3. \A x \in los \cup his : x \in Int /\ KEY_MIN < x
  BY DEF TypeOK, KEY_MIN
<1>4. KEY_MIN \in Int /\ k \in Int
  BY DEF KEY_MIN
<1> HIDE DEF GL, GH
<1>5. GH < GL <=> OpenBefore(los, his, k)
  BY <1>1, <1>2, <1>3, <1>4 DEF OpenBefore
<1> QED
  BY <1>5 DEF InsideFromLeft, GL, GH

LEMMA InsideFromRightMeans ==
  ASSUME TypeOK, NEW k \in Ids
  PROVE  InsideFromRight(k) <=> OpenAfter(los, his, k)
<1> DEFINE SL == FindMIN(los, k)
           SH == FindMIN(his, k)
<1> USE IdsAreInts
<1>1. \/ SL = KEY_MAX /\ \A x \in los : x <= k
      \/ SL \in los /\ k < SL /\ \A x \in los : k < x => SL <= x
  BY FindMINOfIds DEF TypeOK
<1>2. \/ SH = KEY_MAX /\ \A x \in his : x <= k
      \/ SH \in his /\ k < SH /\ \A x \in his : k < x => SH <= x
  BY FindMINOfIds DEF TypeOK
<1>3. \A x \in los \cup his : x \in Int /\ x < KEY_MAX
  BY DEF TypeOK
<1>4. KEY_MAX \in Int /\ k \in Int
  OBVIOUS
<1> HIDE DEF SL, SH
<1>5. SH < SL <=> OpenAfter(los, his, k)
  BY <1>1, <1>2, <1>3, <1>4 DEF OpenAfter
<1> QED
  BY <1>5 DEF InsideFromRight, SL, SH

(***************************************************************************)
(* What mergeRange leaves in the two lists.                                *)
(***************************************************************************)
LEMMA MergedEnds ==
  ASSUME TypeOK, NEW lo \in Ids, NEW hi \in Ids, MergeRange(lo, hi)
  PROVE  /\ lo <= hi
         /\ los' = {x \in los : x < lo \/ hi < x} \cup
                     (IF OpenBefore(los, his, lo) THEN {} ELSE {lo})
         /\ his' = {x \in his : x < lo \/ hi < x} \cup
                     (IF OpenAfter(los, his, hi) THEN {} ELSE {hi})
<1>1. TInside(lo) \in {"InclLo", "InclOutside"} <=> ~OpenBefore(los, his, lo)
  BY InsideFromLeftMeans DEF TInside
<1>2. TInside(hi) \in {"InclOutside", "InclHi"} <=> ~OpenAfter(los, his, hi)
  BY InsideFromRightMeans DEF TInside
<1> QED
  BY <1>1, <1>2 DEF MergeRange, FreeRange

-----------------------------------------------------------------------------
(***************************************************************************)
(* The pure part of a merge, on two alternating sets of ends.              *)
(***************************************************************************)
MergedLos(L, H, a, b) ==
  {x \in L : x < a \/ b < x} \cup (IF OpenBefore(L, H, a) THEN {} ELSE {a})

MergedHis(L, H, a, b) ==
  {x \in H : x < a \/ b < x} \cup (IF OpenAfter(L, H, b) THEN {} ELSE {b})

\* After a merge some high end at or above b comes before every low end that
\* is left above b: b itself, or the one OpenAfter promises.
LEMMA ClosedAbove ==
  ASSUME NEW L \in SUBSET Ids, NEW H \in SUBSET Ids,
         NEW a \in Ids, NEW b \in Ids, a <= b
  PROVE  \E h \in MergedHis(L, H, a, b) :
            b <= h /\ \A l \in MergedLos(L, H, a, b) : b < l => h < l
<1> USE IdsAreInts
<1>1. CASE OpenAfter(L, H, b)
  <2>1. PICK h \in H : b < h /\ \A l \in L : b < l => h < l
    BY <1>1 DEF OpenAfter
  <2> QED
    BY <1>1, <2>1 DEF MergedHis, MergedLos
<1>2. CASE ~OpenAfter(L, H, b)
  BY <1>2 DEF MergedHis, MergedLos
<1> QED
  BY <1>1, <1>2

\* And some low end at or below a comes after every high end left below a.
LEMMA OpenedBelow ==
  ASSUME NEW L \in SUBSET Ids, NEW H \in SUBSET Ids,
         NEW a \in Ids, NEW b \in Ids, a <= b
  PROVE  \E l \in MergedLos(L, H, a, b) :
            l <= a /\ \A h \in MergedHis(L, H, a, b) : h < a => h < l
<1> USE IdsAreInts
<1>1. CASE OpenBefore(L, H, a)
  <2>1. PICK l \in L : l < a /\ \A h \in H : h < a => h < l
    BY <1>1 DEF OpenBefore
  <2> QED
    BY <1>1, <2>1 DEF MergedHis, MergedLos
<1>2. CASE ~OpenBefore(L, H, a)
  BY <1>2 DEF MergedHis, MergedLos
<1> QED
  BY <1>1, <1>2

LEMMA MergeAlternates ==
  ASSUME NEW L \in SUBSET Ids, NEW H \in SUBSET Ids, Alternate(L, H),
         NEW a \in Ids, NEW b \in Ids, a <= b
  PROVE  Alternate(MergedLos(L, H, a, b), MergedHis(L, H, a, b))
<1> DEFINE LL == MergedLos(L, H, a, b)
           HH == MergedHis(L, H, a, b)
<1> USE IdsAreInts
<1>1. PICK hb \in HH : b <= hb /\ \A l \in LL : b < l => hb < l
  BY ClosedAbove
<1>2. PICK la \in LL : la <= a /\ \A h \in HH : h < a => h < la
  BY OpenedBelow
<1>3. /\ \A l \in LL : (l \in L /\ (l < a \/ b < l)) \/ (l = a /\ ~OpenBefore(L, H, a))
      /\ \A h \in HH : (h \in H /\ (h < a \/ b < h)) \/ (h = b /\ ~OpenAfter(L, H, b))
      /\ \A h \in H : h < a \/ b < h => h \in HH
      /\ \A l \in L : l < a \/ b < l => l \in LL
      /\ LL \subseteq Ids /\ HH \subseteq Ids
  BY DEF MergedLos, MergedHis
<1> HIDE DEF LL, HH
<1>4. ASSUME NEW l \in LL PROVE \E h \in HH : l <= h
  <2>1. CASE l <= b
    BY <2>1, <1>1, <1>3
  <2>2. CASE b < l
    BY <2>2, <1>3 DEF Alternate
  <2> QED
    BY <2>1, <2>2, <1>3
<1>5. ASSUME NEW h \in HH PROVE \E l \in LL : l <= h
  <2>1. CASE a <= h
    BY <2>1, <1>2, <1>3
  <2>2. CASE h < a
    BY <2>2, <1>3 DEF Alternate
  <2> QED
    BY <2>1, <2>2, <1>3
<1>6. ASSUME NEW l1 \in LL, NEW l2 \in LL, l1 < l2
      PROVE  \E h \in HH : l1 <= h /\ h < l2
  <2>1. CASE l1 <= b /\ b < l2
    BY <2>1, <1>1, <1>3
  <2>2. CASE b < l1
    <3>1. PICK h \in H : l1 <= h /\ h < l2
      BY <2>2, <1>3, <1>6 DEF Alternate
    <3> QED
      BY <2>2, <3>1, <1>3
  <2>3. CASE l2 <= b /\ l2 < a
    <3>1. PICK h \in H : l1 <= h /\ h < l2
      BY <2>3, <1>3, <1>6 DEF Alternate
    <3> QED
      BY <2>3, <3>1, <1>3
  <2>4. CASE l2 = a
    <3>1. ~OpenBefore(L, H, a) /\ l1 \in L /\ l1 < a
      BY <2>4, <1>3, <1>6
    <3>2. PICK h \in H : h < a /\ l1 <= h
      BY <3>1 DEF OpenBefore
    <3> QED
      BY <2>4, <3>2, <1>3
  <2> QED
    BY <2>1, <2>2, <2>3, <2>4, <1>3, <1>6
<1>7. ASSUME NEW h1 \in HH, NEW h2 \in HH, h1 < h2
      PROVE  \E l \in LL : h1 < l /\ l <= h2
  <2>1. CASE h1 < a /\ a <= h2
    BY <2>1, <1>2, <1>3
  <2>2. CASE h2 < a
    <3>1. PICK l \in L : h1 < l /\ l <= h2
      BY <2>2, <1>3, <1>7 DEF Alternate
    <3> QED
      BY <2>2, <3>1, <1>3
  <2>3. CASE b < h1
    <3>1. PICK l \in L : h1 < l /\ l <= h2
      BY <2>3, <1>3, <1>7 DEF Alternate
    <3> QED
      BY <2>3, <3>1, <1>3
  <2>4. CASE h1 = b
    <3>1. ~OpenAfter(L, H, b) /\ h2 \in H /\ b < h2
      BY <2>4, <1>3, <1>7
    <3>2. PICK l \in L : b < l /\ l <= h2
      BY <3>1 DEF OpenAfter
    <3> QED
      BY <2>4, <3>2, <1>3
  <2> QED
    BY <2>1, <2>2, <2>3, <2>4, <1>3, <1>7
<1> QED
  BY <1>4, <1>5, <1>6, <1>7 DEF Alternate, LL, HH

\* A high end that closes l: the least one at or above it.
LEMMA CloserExists ==
  ASSUME NEW H \in SUBSET Ids, NEW l \in Ids, \E h \in H : l <= h
  PROVE  \E h \in H : l <= h /\ \A h2 \in H : ~(l <= h2 /\ h2 < h)
<1> DEFINE above == {h \in H : l <= h}
<1>1. above \in SUBSET Nat /\ above # {}
  BY IdsAreInts
<1>2. PICK h \in above : \A x \in above : h <= x
  BY <1>1, LeastExists
<1> QED
  BY <1>2, IdsAreInts

\* tinside's two looks together find every covered key but that of [k, k].
LEMMA OpenBeforeOrAfter ==
  ASSUME NEW L \in SUBSET Ids, NEW H \in SUBSET Ids, Alternate(L, H), NEW k \in Ids
  PROVE  OpenBefore(L, H, k) \/ OpenAfter(L, H, k)
           <=> Opened(L, H, k) /\ ~(k \in L /\ k \in H)
<1>1. (\A x \in L \cup H : x \in Int) /\ k \in Int
  BY IdsAreInts
<1>2. ASSUME OpenBefore(L, H, k) PROVE Opened(L, H, k)
  BY <1>1, <1>2 DEF OpenBefore, Opened
<1>3. ASSUME OpenAfter(L, H, k) PROVE Opened(L, H, k)
  <2>1. PICK h \in H : k < h /\ \A l \in L : k < l => h < l
    BY <1>3 DEF OpenAfter
  <2>2. ASSUME NEW g \in H, g < k PROVE \E l \in L : g < l /\ l <= k
    <3>1. PICK l \in L : g < l /\ l <= h
      BY <1>1, <2>1, <2>2 DEF Alternate
    <3> QED
      BY <1>1, <2>1, <3>1
  <2>3. PICK l0 \in L : l0 <= k
    <3>1. PICK l \in L : l <= h
      BY <1>1 DEF Alternate
    <3> QED
      BY <1>1, <2>1, <3>1
  <2>4. CASE \E g \in H : g < k
    <3> DEFINE below == {g \in H : g < k}
    <3>1. below # {}
      BY <2>4
    <3>2. below \in SUBSET Int /\ \A g \in below : g < k
      BY <1>1
    <3>3. PICK m \in below : \A g \in below : g <= m
      BY <1>1, <3>1, <3>2, GreatestExists
    <3>4. PICK l \in L : m < l /\ l <= k
      BY <2>2, <3>3
    <3>5. \A g \in H : ~(l <= g /\ g < k)
      BY <1>1, <3>3, <3>4
    <3> QED
      BY <3>4, <3>5 DEF Opened
  <2>5. CASE \A g \in H : ~(g < k)
    BY <2>3, <2>5 DEF Opened
  <2> QED
    BY <2>4, <2>5
<1>4. ASSUME k \in L, k \in H PROVE ~OpenBefore(L, H, k)
  <2> SUFFICES ASSUME NEW l \in L, l < k, \A h \in H : h < k => h < l PROVE FALSE
    BY DEF OpenBefore
  <2>1. PICK h \in H : l <= h /\ h < k
    BY <1>1, <1>4 DEF Alternate
  <2> QED
    BY <1>1, <2>1
<1>5. ASSUME k \in L, k \in H PROVE ~OpenAfter(L, H, k)
  <2> SUFFICES ASSUME NEW h \in H, k < h, \A l \in L : k < l => h < l PROVE FALSE
    BY DEF OpenAfter
  <2>1. PICK l \in L : k < l /\ l <= h
    BY <1>1, <1>5 DEF Alternate
  <2> QED
    BY <1>1, <2>1
<1>6. ASSUME Opened(L, H, k), ~OpenBefore(L, H, k), ~OpenAfter(L, H, k)
      PROVE  k \in L /\ k \in H
  <2>1. PICK l \in L : l <= k /\ \A h \in H : ~(l <= h /\ h < k)
    BY <1>6 DEF Opened
  <2>2. l = k
    <3>1. CASE l < k
      <4>1. \A h \in H : h < k => h < l
        BY <1>1, <2>1
      <4> QED
        BY <3>1, <4>1, <1>6 DEF OpenBefore
    <3> QED
      BY <3>1, <1>1, <2>1
  <2>3. PICK h \in H : k <= h /\ \A h2 \in H : ~(k <= h2 /\ h2 < h)
    BY <2>2, CloserExists DEF Alternate
  <2>4. ASSUME k < h PROVE FALSE
    <3>1. ASSUME NEW l2 \in L, k < l2 PROVE h < l2
      <4>1. PICK h2 \in H : k <= h2 /\ h2 < l2
        BY <1>1, <2>2, <3>1 DEF Alternate
      <4> QED
        BY <4>1, <1>1, <2>3
    <3> QED
      BY <2>4, <3>1, <1>6 DEF OpenAfter
  <2> QED
    BY <1>1, <2>2, <2>3, <2>4
<1> QED
  BY <1>2, <1>3, <1>4, <1>5, <1>6

\* mergeRange is a union.
LEMMA MergeOpens ==
  ASSUME NEW L \in SUBSET Ids, NEW H \in SUBSET Ids, Alternate(L, H),
         NEW a \in Ids, NEW b \in Ids, a <= b, NEW k \in Ids
  PROVE  Opened(MergedLos(L, H, a, b), MergedHis(L, H, a, b), k)
           <=> Opened(L, H, k) \/ k \in a .. b
<1> DEFINE LL == MergedLos(L, H, a, b)
           HH == MergedHis(L, H, a, b)
<1> USE IdsAreInts
<1>1. PICK hb \in HH : b <= hb /\ \A l \in LL : b < l => hb < l
  BY ClosedAbove
<1>2. PICK la \in LL : la <= a /\ \A h \in HH : h < a => h < la
  BY OpenedBelow
<1>3. /\ \A l \in LL : (l \in L /\ (l < a \/ b < l)) \/ (l = a /\ ~OpenBefore(L, H, a))
      /\ \A h \in HH : (h \in H /\ (h < a \/ b < h)) \/ (h = b /\ ~OpenAfter(L, H, b))
      /\ \A h \in H : h < a \/ b < h => h \in HH
      /\ \A l \in L : l < a \/ b < l => l \in LL
      /\ LL \subseteq Ids /\ HH \subseteq Ids
      /\ ~OpenBefore(L, H, a) => a \in LL
      /\ ~OpenAfter(L, H, b) => b \in HH
  BY DEF MergedLos, MergedHis
<1> HIDE DEF LL, HH
<1>4. CASE k \in a .. b
  <2>1. la \in Int /\ a \in Int /\ k \in Int /\ a <= k /\ k <= b
    BY <1>3, <1>4
  <2>2. \A h \in HH : ~(la <= h /\ h < k)
    BY <1>2, <1>3, <2>1
  <2>3. la <= k
    BY <1>2, <2>1
  <2>4. Opened(LL, HH, k)
    BY <2>2, <2>3 DEF Opened
  <2> QED
    BY <1>4, <2>4 DEF LL, HH
<1>5. CASE k < a
  <2>1. Opened(L, H, k) => Opened(LL, HH, k)
    BY <1>5, <1>3 DEF Opened
  <2>2. Opened(LL, HH, k) => Opened(L, H, k)
    BY <1>5, <1>3 DEF Opened
  <2> QED
    BY <1>5, <2>1, <2>2 DEF LL, HH
<1>6. CASE b < k
  <2>1. ASSUME Opened(L, H, k) PROVE Opened(LL, HH, k)
    <3>1. PICK l \in L : l <= k /\ \A h \in H : ~(l <= h /\ h < k)
      BY <2>1 DEF Opened
    <3>2. CASE b < l
      BY <3>1, <3>2, <1>3, <1>6 DEF Opened
    <3>3. CASE l <= b
      <4>1. OpenAfter(L, H, b)
        <5>1. PICK h \in H : l <= h /\ \A h2 \in H : ~(l <= h2 /\ h2 < h)
          BY CloserExists DEF Alternate
        <5>2. b < h
          BY <5>1, <3>1, <1>6
        <5>3. ASSUME NEW l2 \in L, b < l2, l2 <= h PROVE FALSE
          <6>1. PICK h3 \in H : l <= h3 /\ h3 < l2
            BY <5>3, <3>3 DEF Alternate
          <6> QED
            BY <6>1, <5>1, <5>3
        <5> QED
          BY <5>1, <5>2, <5>3 DEF OpenAfter
      <4>2. \A h \in HH : h \in H /\ (h < a \/ b < h)
        BY <4>1, <1>3
      <4>3. CASE l < a
        BY <4>2, <4>3, <3>1, <1>3, <1>6 DEF Opened
      <4>4. CASE a <= l
        <5>1. \A h \in HH : ~(la <= h /\ h < k)
          BY <4>2, <4>4, <3>1, <3>3, <1>2, <1>3, <1>6
        <5> QED
          BY <5>1, <1>2, <1>3, <1>6 DEF Opened
      <4> QED
        BY <4>3, <4>4
    <3> QED
      BY <3>2, <3>3
  <2>2. ASSUME Opened(LL, HH, k) PROVE Opened(L, H, k)
    <3>1. PICK l \in LL : l <= k /\ \A h \in HH : ~(l <= h /\ h < k)
      BY <2>2 DEF Opened
    <3>2. CASE b < l
      BY <3>1, <3>2, <1>3 DEF Opened
    <3>3. CASE l <= b
      <4>1. b \notin HH
        BY <3>1, <3>3, <1>3, <1>6
      <4>2. PICK h \in H : b < h /\ \A l2 \in L : b < l2 => h < l2
        BY <4>1, <1>3 DEF OpenAfter
      <4>3. k <= h
        BY <4>2, <3>1, <3>3, <1>3
      <4>4. PICK l3 \in L : l3 <= b /\ l3 <= h /\ \A h2 \in H : ~(l3 <= h2 /\ h2 < k)
        <5>1. \A h2 \in H : b < h2 => k <= h2
          BY <3>1, <3>3, <1>3
        <5>2. CASE \E h2 \in H : h2 <= b
          <6> DEFINE below == {h2 \in H : h2 <= b}
          <6>1. /\ below \in SUBSET Int
                /\ below # {}
                /\ KEY_MAX \in Int
                /\ \A x \in below : x < KEY_MAX
            <7>1. below # {}
              BY <5>2
            <7>2. \A x \in H : x \in Int /\ x < KEY_MAX
              OBVIOUS
            <7> QED
              BY <7>1, <7>2
          <6>2. PICK m \in below : \A x \in below : x <= m
            BY <6>1, GreatestExists
          <6>3. PICK l4 \in L : m < l4 /\ l4 <= h
            BY <6>2, <4>2 DEF Alternate
          <6> QED
            BY <6>2, <6>3, <5>1, <4>2
        <5>3. CASE \A h2 \in H : b < h2
          <6>1. PICK l4 \in L : l4 <= h
            BY <4>2 DEF Alternate
          <6> QED
            BY <6>1, <5>1, <5>3, <4>2
        <5> QED
          BY <5>2, <5>3
      <4> QED
        BY <4>4, <1>6 DEF Opened
    <3> QED
      BY <3>2, <3>3, <1>3
  <2> QED
    BY <1>6, <2>1, <2>2 DEF LL, HH
<1> QED
  BY <1>4, <1>5, <1>6

-----------------------------------------------------------------------------
(***************************************************************************)
(* Joining two neighbours, as defrag does: l and the high end h before it  *)
(* are removed.                                                            *)
(***************************************************************************)
Neighbours(L, H, h, l) ==
  /\ l \in L /\ h \in H /\ h < l
  /\ \A e \in L \cup H : ~(h < e /\ e < l)

LEMMA JoinAlternates ==
  ASSUME NEW L \in SUBSET Ids, NEW H \in SUBSET Ids, Alternate(L, H),
         NEW h \in H, NEW l \in L, Neighbours(L, H, h, l)
  PROVE  Alternate(L \ {l}, H \ {h})
<1> USE IdsAreInts
<1>0. /\ \A x \in L \cup H : x \in Int
      /\ h < l
      /\ \A e \in L \cup H : ~(h < e /\ e < l)
  BY DEF Neighbours
<1>1. ASSUME NEW x \in L \ {l} PROVE \E y \in H \ {h} : x <= y
  <2>1. PICK y \in H : l <= y
    BY DEF Alternate
  <2>2. PICK z \in H : x <= z
    BY DEF Alternate
  <2> QED
    BY <2>1, <2>2, <1>0
<1>2. ASSUME NEW y \in H \ {h} PROVE \E x \in L \ {l} : x <= y
  <2>1. PICK x \in L : x <= h
    BY DEF Alternate
  <2>2. PICK z \in L : z <= y
    BY DEF Alternate
  <2> QED
    BY <2>1, <2>2, <1>0
<1>3. ASSUME NEW x1 \in L \ {l}, NEW x2 \in L \ {l}, x1 < x2
      PROVE  \E y \in H \ {h} : x1 <= y /\ y < x2
  <2>1. PICK y \in H : x1 <= y /\ y < x2
    BY <1>3 DEF Alternate
  <2>2. CASE y = h
    <3>1. l < x2
      BY <2>1, <2>2, <1>0
    <3>2. PICK z \in H : l <= z /\ z < x2
      BY <3>1 DEF Alternate
    <3> QED
      BY <2>1, <2>2, <3>2, <1>0
  <2> QED
    BY <2>1, <2>2
<1>4. ASSUME NEW y1 \in H \ {h}, NEW y2 \in H \ {h}, y1 < y2
      PROVE  \E x \in L \ {l} : y1 < x /\ x <= y2
  <2>1. PICK x \in L : y1 < x /\ x <= y2
    BY <1>4 DEF Alternate
  <2>2. CASE x = l
    <3>1. y1 < h
      BY <2>1, <2>2, <1>0
    <3>2. PICK z \in L : y1 < z /\ z <= h
      BY <3>1 DEF Alternate
    <3> QED
      BY <2>1, <2>2, <3>2, <1>0
  <2> QED
    BY <2>1, <2>2
<1> QED
  BY <1>1, <1>2, <1>3, <1>4 DEF Alternate

\* Joining covers the keys from one neighbour to the other, and no others.
LEMMA JoinOpens ==
  ASSUME NEW L \in SUBSET Ids, NEW H \in SUBSET Ids, Alternate(L, H),
         NEW h \in H, NEW l \in L, Neighbours(L, H, h, l), NEW k \in Ids
  PROVE  Opened(L \ {l}, H \ {h}, k) <=> Opened(L, H, k) \/ k \in h .. l
<1> USE IdsAreInts
<1>0. /\ \A x \in L \cup H : x \in Int
      /\ k \in Int
      /\ h < l
      /\ \A e \in L \cup H : ~(h < e /\ e < l)
  BY DEF Neighbours
<1>1. PICK m \in L : m <= h /\ \A y \in H : y < h => y < m
  <2>1. CASE \E y \in H : y < h
    <3> DEFINE below == {y \in H : y < h}
    <3>1. below # {}
      BY <2>1
    <3>2. below \in SUBSET Int /\ h \in Int /\ \A y \in below : y < h
      BY <1>0
    <3>3. PICK g \in below : \A y \in below : y <= g
      BY <3>1, <3>2, GreatestExists
    <3>4. PICK x \in L : g < x /\ x <= h
      BY <3>3 DEF Alternate
    <3>5. \A y \in H : y < h => y < x
      BY <3>3, <3>4, <1>0
    <3> QED
      BY <3>4, <3>5
  <2>2. CASE \A y \in H : ~(y < h)
    BY <2>2 DEF Alternate
  <2> QED
    BY <2>1, <2>2
<1>2. ASSUME Opened(L \ {l}, H \ {h}, k) PROVE Opened(L, H, k) \/ k \in h .. l
  <2>1. PICK x \in L \ {l} : x <= k /\ \A y \in H \ {h} : ~(x <= y /\ y < k)
    BY <1>2 DEF Opened
  <2>2. CASE x <= h /\ h < k
    <3>1. CASE k <= l
      BY <2>2, <3>1, <1>0
    <3>2. CASE l < k
      <4>1. \A y \in H : ~(l <= y /\ y < k)
        BY <2>1, <2>2, <1>0
      <4> QED
        BY <3>2, <4>1, <1>0 DEF Opened
    <3> QED
      BY <3>1, <3>2, <1>0
  <2>3. CASE ~(x <= h /\ h < k)
    BY <2>1, <2>3 DEF Opened
  <2> QED
    BY <2>2, <2>3
<1>3. ASSUME k \in h .. l PROVE Opened(L \ {l}, H \ {h}, k)
  <2>1. h <= k /\ k <= l
    BY <1>3, <1>0
  <2>2. m # l /\ m <= k
    BY <1>1, <2>1, <1>0
  <2>3. \A y \in H \ {h} : ~(m <= y /\ y < k)
    BY <1>1, <2>1, <1>0
  <2> QED
    BY <2>2, <2>3 DEF Opened
<1>4. ASSUME Opened(L, H, k), k \notin h .. l PROVE Opened(L \ {l}, H \ {h}, k)
  <2>1. PICK x \in L : x <= k /\ \A y \in H : ~(x <= y /\ y < k)
    BY <1>4 DEF Opened
  <2>2. CASE x # l
    BY <2>1, <2>2 DEF Opened
  <2>3. CASE x = l
    <3>1. m # l /\ m <= k
      BY <2>1, <2>3, <1>1, <1>0
    <3>2. \A y \in H \ {h} : ~(m <= y /\ y < k)
      BY <1>1, <2>1, <2>3, <1>0
    <3> QED
      BY <3>1, <3>2 DEF Opened
  <2> QED
    BY <2>2, <2>3
<1> QED
  BY <1>2, <1>3, <1>4

-----------------------------------------------------------------------------
(***************************************************************************)
(* Where the two iterators go when both are stepped.                       *)
(***************************************************************************)
\* h closes l: the walk's pairing, on arbitrary ends.
ClosesIn(L, H, h, l) ==
  /\ l \in L /\ h \in H /\ l <= h
  /\ \A h2 \in H : ~(l <= h2 /\ h2 < h)

LEMMA FirstPair ==
  ASSUME NEW L \in SUBSET Ids, NEW H \in SUBSET Ids, Alternate(L, H)
  PROVE  \/ First(L) = Nil /\ First(H) = Nil
         \/ ClosesIn(L, H, First(H), First(L))
<1> USE IdsAreInts
<1>1. \/ First(L) = Nil /\ L = {}
      \/ First(L) \in L /\ \A x \in L : First(L) <= x
  BY FirstOfIds
<1>2. \/ First(H) = Nil /\ H = {}
      \/ First(H) \in H /\ \A x \in H : First(H) <= x
  BY FirstOfIds
<1>3. L = {} <=> H = {}
  BY DEF Alternate
<1>4. \A x \in L \cup H : x \in Int
  OBVIOUS
<1> DEFINE l == First(L)
           h == First(H)
<1> HIDE DEF l, h
<1>5. ASSUME L # {} PROVE ClosesIn(L, H, h, l)
  <2>1. l \in L /\ \A x \in L : l <= x
    BY <1>1, <1>5 DEF l
  <2>2. h \in H /\ \A x \in H : h <= x
    BY <1>2, <1>3, <1>5 DEF h
  <2>3. PICK z \in L : z <= h
    BY <2>2 DEF Alternate
  <2>4. l <= h /\ \A x \in H : ~(x < h)
    BY <2>1, <2>2, <2>3, <1>4
  <2> QED
    BY <2>1, <2>2, <2>4 DEF ClosesIn
<1> QED
  BY <1>1, <1>2, <1>3, <1>5 DEF l, h

LEMMA NextPair ==
  ASSUME NEW L \in SUBSET Ids, NEW H \in SUBSET Ids, Alternate(L, H),
         NEW h \in H, NEW l \in L, ClosesIn(L, H, h, l)
  PROVE  \/ After(L, l) = Nil /\ After(H, h) = Nil
         \/ ClosesIn(L, H, After(H, h), After(L, l))
<1> USE IdsAreInts
<1> DEFINE l2 == After(L, l)
           h2 == After(H, h)
<1>1. \/ l2 = Nil /\ \A x \in L : x <= l
      \/ l2 \in L /\ l < l2 /\ \A x \in L : l < x => l2 <= x
  BY AfterOfIds
<1>2. \/ h2 = Nil /\ \A x \in H : x <= h
      \/ h2 \in H /\ h < h2 /\ \A x \in H : h < x => h2 <= x
  BY AfterOfIds
<1>3. /\ \A x \in L \cup H : x \in Int
      /\ l <= h
      /\ \A x \in H : ~(l <= x /\ x < h)
  BY DEF ClosesIn
<1> HIDE DEF l2, h2
<1>4. CASE l2 \in L /\ l < l2 /\ \A x \in L : l < x => l2 <= x
  <2>1. h < l2
    <3>1. PICK x \in H : l <= x /\ x < l2
      BY <1>4 DEF Alternate
    <3> QED
      BY <3>1, <1>3, <1>4
  <2>2. PICK y \in H : l2 <= y
    BY <1>4 DEF Alternate
  <2>3. h2 \in H /\ h < h2 /\ \A x \in H : h < x => h2 <= x
    BY <1>2, <1>3, <1>4, <2>1, <2>2
  <2>4. l2 <= h2
    <3>1. PICK x \in L : h < x /\ x <= h2
      BY <2>3 DEF Alternate
    <3>2. l < x
      BY <3>1, <1>3
    <3> QED
      BY <3>1, <3>2, <1>3, <1>4, <2>3
  <2>5. ClosesIn(L, H, h2, l2)
    BY <1>3, <1>4, <2>1, <2>3, <2>4 DEF ClosesIn
  <2> QED
    BY <2>5 DEF l2, h2
<1>5. CASE l2 = Nil /\ \A x \in L : x <= l
  <2>1. ASSUME NEW x \in H, h < x PROVE FALSE
    <3>1. PICK z \in L : h < z /\ z <= x
      BY <2>1 DEF Alternate
    <3> QED
      BY <3>1, <1>3, <1>5
  <2>2. h2 = Nil
    BY <2>1, <1>2
  <2> QED
    BY <1>5, <2>2 DEF l2, h2
<1> QED
  BY <1>1, <1>4, <1>5

\* The look-ahead of defrag: the high end and the low end after it.
Ahead(L, H, hAt, lAt) ==
  /\ hAt \in H
  /\ \/ lAt = Nil /\ \A x \in H : x <= hAt
     \/ lAt \in L /\ Neighbours(L, H, hAt, lAt)

LEMMA PairIsAhead ==
  ASSUME NEW L \in SUBSET Ids, NEW H \in SUBSET Ids, Alternate(L, H),
         NEW h \in H, NEW l \in L, ClosesIn(L, H, h, l)
  PROVE  Ahead(L, H, h, After(L, l))
<1> USE IdsAreInts
<1> DEFINE l2 == After(L, l)
<1>1. \/ l2 = Nil /\ \A x \in L : x <= l
      \/ l2 \in L /\ l < l2 /\ \A x \in L : l < x => l2 <= x
  BY AfterOfIds
<1>2. /\ \A x \in L \cup H : x \in Int
      /\ l <= h
      /\ \A x \in H : ~(l <= x /\ x < h)
  BY DEF ClosesIn
<1> HIDE DEF l2
<1>3. CASE l2 = Nil /\ \A x \in L : x <= l
  <2>1. ASSUME NEW x \in H PROVE x <= h
    <3>1. CASE h < x
      <4>1. PICK z \in L : h < z /\ z <= x
        BY <3>1 DEF Alternate
      <4> QED
        BY <4>1, <1>2, <1>3
    <3> QED
      BY <3>1, <1>2
  <2> QED
    BY <2>1, <1>3 DEF Ahead, l2
<1>4. CASE l2 \in L /\ l < l2 /\ \A x \in L : l < x => l2 <= x
  <2>1. h < l2
    <3>1. PICK x \in H : l <= x /\ x < l2
      BY <1>4 DEF Alternate
    <3> QED
      BY <3>1, <1>2, <1>4
  <2>2. ASSUME NEW e \in L, h < e, e < l2 PROVE FALSE
    BY <2>2, <1>2, <1>4
  <2>3. ASSUME NEW e \in H, h < e, e < l2 PROVE FALSE
    <3>1. PICK z \in L : h < z /\ z <= e
      BY <2>3 DEF Alternate
    <3> QED
      BY <3>1, <2>2, <2>3, <1>2, <1>4
  <2>4. Neighbours(L, H, h, l2)
    BY <1>4, <2>1, <2>2, <2>3 DEF Neighbours
  <2> QED
    BY <1>4, <2>4 DEF Ahead, l2
<1> QED
  BY <1>1, <1>3, <1>4

\* One turn later the high iterator closes what the low one began.
LEMMA NextAhead ==
  ASSUME NEW L \in SUBSET Ids, NEW H \in SUBSET Ids, Alternate(L, H),
         NEW h \in H, NEW l \in L, Neighbours(L, H, h, l)
  PROVE  /\ ClosesIn(L, H, After(H, h), l)
         /\ Ahead(L, H, After(H, h), After(L, l))
<1> USE IdsAreInts
<1> DEFINE h2 == After(H, h)
<1>1. \/ h2 = Nil /\ \A x \in H : x <= h
      \/ h2 \in H /\ h < h2 /\ \A x \in H : h < x => h2 <= x
  BY AfterOfIds
<1>2. /\ \A x \in L \cup H : x \in Int
      /\ h < l
      /\ \A e \in L \cup H : ~(h < e /\ e < l)
  BY DEF Neighbours
<1> HIDE DEF h2
<1>3. PICK y \in H : l <= y
  BY DEF Alternate
<1>4. h2 \in H /\ h < h2 /\ \A x \in H : h < x => h2 <= x
  BY <1>1, <1>2, <1>3
<1>5. l <= h2
  BY <1>2, <1>4
<1>6. ClosesIn(L, H, h2, l)
  BY <1>2, <1>4, <1>5 DEF ClosesIn
<1>7. Ahead(L, H, h2, After(L, l))
  BY <1>4, <1>6, PairIsAhead
<1> QED
  BY <1>6, <1>7 DEF h2

-----------------------------------------------------------------------------
(***************************************************************************)
(* The inductive invariant of a defrag and of the walks.                   *)
(***************************************************************************)
\* DefragLookAhead, with the high iterator at an element in every turn.
LoopInv ==
  gap # NotDefragging =>
    /\ Ahead(los, his, hiAt, loAt)
    /\ \A h \in his, l \in los : h < l /\ l <= hiAt => ~Mergeable(h, l)

IInv == TypeOK /\ EndsAlternate /\ WalkIsPaired /\ LoopInv

LEMMA GapIsInt ==
  ASSUME TypeOK
  PROVE  gap \in Int /\ (gap # NotDefragging => gap \in Gaps \cup {NoGap})
BY HtmRangeAssumption DEF TypeOK, NoGap, NotDefragging

LEMMA PositionsAreNotKeys ==
  /\ Nil \notin Ids /\ Freed \notin Ids /\ Header \notin Ids
  /\ Nil \in Int /\ Freed \in Int /\ Header \in Int
BY IdsAreInts DEF Nil, Freed, Header

\* An iterator that is not freed under it stays at an element.
LEMMA AfterFreeTyped ==
  ASSUME NEW S \in SUBSET Ids, NEW a \in Ids, NEW b \in Ids,
         NEW at \in S \cup {Header, Nil, Freed}
  PROVE  AfterFree(at, a, b) \in {x \in S : x < a \/ b < x} \cup {Header, Nil, Freed}
BY IdsAreInts DEF AfterFree

LEMMA StepTyped ==
  ASSUME NEW S \in SUBSET Ids, NEW e \in S
  PROVE  After(S, e) \in S \cup {Nil}
BY AfterOfIds

LEMMA InitIInv == Init => IInv
BY DEF Init, IInv, TypeOK, EndsAlternate, Alternate, WalkIsPaired, LoopInv,
       NotDefragging

-----------------------------------------------------------------------------
(***************************************************************************)
(* Every action keeps IInv.                                                *)
(***************************************************************************)
LEMMA MergeRangeIInv ==
  ASSUME IInv, NEW lo \in Ids, NEW hi \in Ids, MergeRange(lo, hi)
  PROVE  IInv'
<1> USE DEF IInv
<1>1. /\ lo <= hi
      /\ los' = MergedLos(los, his, lo, hi)
      /\ his' = MergedHis(los, his, lo, hi)
  BY MergedEnds DEF MergedLos, MergedHis
<1>2. TypeOK'
  <2>1. los' \in SUBSET Ids /\ his' \in SUBSET Ids
    BY <1>1 DEF MergedLos, MergedHis, TypeOK
  <2>2. loAt' \in los' \cup {Header, Nil, Freed}
    BY <1>1, AfterFreeTyped DEF MergeRange, MergedLos, TypeOK
  <2>3. hiAt' \in his' \cup {Header, Nil, Freed}
    BY <1>1, AfterFreeTyped DEF MergeRange, MergedHis, TypeOK
  <2> QED
    BY <2>1, <2>2, <2>3 DEF TypeOK, MergeRange
<1>3. EndsAlternate'
  BY <1>1, MergeAlternates DEF EndsAlternate, TypeOK
<1>4. WalkIsPaired' /\ LoopInv'
  BY DEF MergeRange, WalkIsPaired, LoopInv
<1> QED
  BY <1>2, <1>3, <1>4

LEMMA PurgeEmpties ==
  ASSUME TypeOK, Purge
  PROVE  los' = {} /\ his' = {}
<1>1. \A x \in Ids : ~(x < -1 \/ KEY_MAX < x)
  BY IdsAreInts
<1> QED
  BY <1>1 DEF TypeOK, Purge, FreeRange

LEMMA PurgeIInv ==
  ASSUME IInv, Purge
  PROVE  IInv'
<1> USE DEF IInv
<1>1. los' = {} /\ his' = {}
  BY PurgeEmpties
<1>2. \A at \in Ids \cup {Header, Nil, Freed} :
        AfterFree(at, 1, KEY_MAX - 1) \in {Header, Nil, Freed}
  BY IdsAreInts DEF AfterFree, Ids
<1>3. TypeOK'
  BY <1>1, <1>2 DEF TypeOK, Purge
<1>4. EndsAlternate'
  BY <1>1 DEF EndsAlternate, Alternate
<1>5. WalkIsPaired' /\ LoopInv'
  BY DEF Purge, WalkIsPaired, LoopInv
<1> QED
  BY <1>3, <1>4, <1>5

LEMMA ResetIInv ==
  ASSUME IInv, Reset
  PROVE  IInv'
<1> USE DEF IInv
<1>1. \/ First(los) = Nil /\ First(his) = Nil
      \/ ClosesIn(los, his, First(his), First(los))
  BY FirstPair DEF TypeOK, EndsAlternate
<1>2. TypeOK'
  BY <1>1 DEF TypeOK, Reset, ClosesIn
<1>3. EndsAlternate' /\ LoopInv'
  BY DEF Reset, EndsAlternate, LoopInv
<1>4. WalkIsPaired'
  BY <1>1 DEF Reset, WalkIsPaired, Closes, ClosesIn
<1> QED
  BY <1>2, <1>3, <1>4

LEMMA GetNextIInv ==
  ASSUME IInv, GetNext
  PROVE  IInv'
<1> USE DEF IInv
<1>1. After(los, loAt) \in los \cup {Nil} /\ After(his, hiAt) \in his \cup {Nil}
  BY StepTyped DEF GetNext, TypeOK
<1>2. TypeOK'
  BY <1>1 DEF TypeOK, GetNext
<1>3. EndsAlternate' /\ LoopInv'
  BY DEF GetNext, EndsAlternate, LoopInv
<1>4. ASSUME walking PROVE WalkIsPaired'
  <2>1. loAt \in los /\ hiAt \in his /\ los \subseteq Ids
    BY DEF GetNext, TypeOK
  <2>2. ClosesIn(los, his, hiAt, loAt)
    BY <1>4, <2>1, PositionsAreNotKeys DEF WalkIsPaired, Closes, ClosesIn
  <2>3. \/ After(los, loAt) = Nil /\ After(his, hiAt) = Nil
        \/ ClosesIn(los, his, After(his, hiAt), After(los, loAt))
    BY <2>1, <2>2, NextPair DEF TypeOK, EndsAlternate
  <2> QED
    BY <2>3 DEF GetNext, WalkIsPaired, Closes, ClosesIn
<1>5. ASSUME ~walking PROVE WalkIsPaired'
  BY <1>5 DEF GetNext, WalkIsPaired
<1> QED
  BY <1>2, <1>3, <1>4, <1>5

LEMMA WalkThroughIInv ==
  ASSUME IInv, WalkThrough
  PROVE  IInv'
BY DEF IInv, WalkThrough, TypeOK, EndsAlternate, WalkIsPaired, LoopInv

LEMMA DefragBeginIInv ==
  ASSUME IInv, NEW g \in Gaps \cup {NoGap}, DefragBegin(g)
  PROVE  IInv'
<1> USE DEF IInv
<1>1. First(los) \in los
  <2>1. CASE los = {}
    <3>1. First(los) = Nil
      BY <2>1 DEF First
    <3>2. After(los, Nil) = Nil
      BY <2>1, IdsAreInts DEF After, First, Nil, Header
    <3> QED
      BY <3>1, <3>2 DEF DefragBegin
  <2> QED
    BY <2>1, FirstOfIds DEF TypeOK
<1>2. ClosesIn(los, his, First(his), First(los))
  BY <1>1, FirstPair, PositionsAreNotKeys DEF TypeOK, EndsAlternate
<1>3. Ahead(los, his, First(his), After(los, First(los)))
  BY <1>2, PairIsAhead DEF TypeOK, EndsAlternate, ClosesIn
<1>4. First(his) \in his /\ \A h \in his : First(his) <= h
  BY <1>2, FirstOfIds DEF TypeOK, ClosesIn
<1>5. \A h \in his, l \in los : ~(h < l /\ l <= First(his))
  <2> DEFINE first == First(his)
  <2>1. \A x \in los \cup his : x \in Int
    BY IdsAreInts DEF TypeOK
  <2>2. first \in his /\ \A h \in his : first <= h
    BY <1>4
  <2> HIDE DEF first
  <2>3. \A h \in his, l \in los : ~(h < l /\ l <= first)
    BY <2>1, <2>2
  <2> QED
    BY <2>3 DEF first
<1>6. TypeOK'
  BY <1>3 DEF TypeOK, DefragBegin, Ahead
<1>7. EndsAlternate' /\ WalkIsPaired'
  BY DEF DefragBegin, EndsAlternate, WalkIsPaired
<1>8. LoopInv'
  BY <1>3, <1>5 DEF DefragBegin, LoopInv
<1> QED
  BY <1>6, <1>7, <1>8

\* In a turn the iterators are at neighbouring ends, and at a pair after it.
LEMMA TurnIsAhead ==
  ASSUME IInv, gap # NotDefragging, loAt \in los
  PROVE  /\ hiAt \in his /\ Neighbours(los, his, hiAt, loAt)
         /\ ClosesIn(los, his, After(his, hiAt), loAt)
         /\ Ahead(los, his, After(his, hiAt), After(los, loAt))
<1>1. hiAt \in his /\ Neighbours(los, his, hiAt, loAt)
  BY PositionsAreNotKeys DEF IInv, LoopInv, Ahead, TypeOK
<1> QED
  BY <1>1, NextAhead DEF IInv, TypeOK, EndsAlternate

\* The gaps behind the iterators stay too wide when nothing was merged.
LEMMA DefragStepIInv ==
  ASSUME IInv, DefragStep
  PROVE  IInv'
<1> USE DEF IInv
<1> DEFINE h2 == After(his, hiAt)
           l2 == After(los, loAt)
<1>1. /\ gap # NotDefragging /\ loAt \in los /\ ~Mergeable(hiAt, loAt)
      /\ loAt' = l2 /\ hiAt' = h2
      /\ UNCHANGED <<los, his, walking, gap>>
  BY DEF DefragStep
<1>2. /\ hiAt \in his /\ Neighbours(los, his, hiAt, loAt)
      /\ ClosesIn(los, his, h2, loAt)
      /\ Ahead(los, his, h2, l2)
  BY <1>1, TurnIsAhead
<1> HIDE DEF h2, l2
<1>3. TypeOK'
  BY <1>1, <1>2 DEF TypeOK, Ahead
<1>4. EndsAlternate'
  BY <1>1 DEF EndsAlternate
<1>5. ~walking
  <2>1. ASSUME walking PROVE Closes(hiAt, loAt)
    BY <1>1, <2>1, PositionsAreNotKeys DEF WalkIsPaired, TypeOK
  <2> QED
    BY <2>1, <1>2, IdsAreInts DEF Closes, Neighbours, TypeOK
<1>6. WalkIsPaired'
  BY <1>1, <1>5 DEF WalkIsPaired
<1>7. ASSUME NEW h \in his, NEW l \in los, h < l, l <= h2
      PROVE  ~Mergeable(h, l)
  <2>1. /\ \A x \in los \cup his : x \in Int
        /\ hiAt < loAt /\ \A e \in los \cup his : ~(hiAt < e /\ e < loAt)
        /\ gap \in Int
        /\ h2 \in his
    BY <1>2, GapIsInt, IdsAreInts DEF TypeOK, Neighbours, ClosesIn
  <2>2. CASE l <= hiAt
    BY <2>2, <1>1, <1>7 DEF LoopInv
  <2>3. CASE hiAt < l
    <3>1. l = loAt
      <4>1. CASE loAt < l
        <5>1. PICK x \in his : loAt <= x /\ x < l
          BY <4>1, <1>1 DEF EndsAlternate, Alternate
        <5> QED
          BY <5>1, <1>2, <1>7, <2>1 DEF ClosesIn
      <4> QED
        BY <4>1, <2>1, <2>3, <1>1
    <3>2. h <= hiAt
      BY <3>1, <2>1, <1>2, <1>7
    <3>3. ~(hiAt + 1 + gap >= loAt)
      BY <1>1 DEF Mergeable
    <3> QED
      BY <3>1, <3>2, <3>3, <2>1, <1>2 DEF Mergeable
  <2> QED
    BY <2>1, <2>2, <2>3, <1>2
<1>8. LoopInv'
  BY <1>1, <1>2, <1>7 DEF LoopInv, Mergeable
<1> QED
  BY <1>3, <1>4, <1>6, <1>8

LEMMA DefragMergeIInv ==
  ASSUME IInv, DefragMerge
  PROVE  IInv'
<1> USE DEF IInv
<1> DEFINE h2 == After(his, hiAt)
           l2 == After(los, loAt)
<1>1. /\ gap # NotDefragging /\ loAt \in los
      /\ los' = los \ {loAt} /\ his' = his \ {hiAt}
      /\ loAt' = l2 /\ hiAt' = h2
      /\ UNCHANGED <<walking, gap>>
  BY DEF DefragMerge
<1>2. /\ hiAt \in his /\ Neighbours(los, his, hiAt, loAt)
      /\ ClosesIn(los, his, h2, loAt)
      /\ Ahead(los, his, h2, l2)
  BY <1>1, TurnIsAhead
<1>3. h2 # hiAt /\ l2 # loAt
  <2>1. /\ \A x \in los \cup his : x \in Int
        /\ hiAt < loAt /\ loAt <= h2 /\ h2 \in his
    BY <1>2, IdsAreInts DEF TypeOK, Neighbours, ClosesIn
  <2>2. l2 = Nil \/ loAt < l2
    BY <1>1, AfterOfIds DEF TypeOK
  <2> QED
    BY <1>1, <1>2, <2>1, <2>2, PositionsAreNotKeys DEF TypeOK
<1> HIDE DEF h2, l2
<1>4. Ahead(los', his', h2, l2)
  BY <1>1, <1>2, <1>3 DEF Ahead, Neighbours
<1>5. TypeOK'
  BY <1>1, <1>4 DEF TypeOK, Ahead
<1>6. EndsAlternate'
  BY <1>1, <1>2, JoinAlternates DEF EndsAlternate, TypeOK
<1>7. WalkIsPaired'
  <2>1. ASSUME walking PROVE FALSE
    <3>1. Closes(hiAt, loAt)
      BY <1>1, <2>1, PositionsAreNotKeys DEF WalkIsPaired, TypeOK
    <3> QED
      BY <3>1, <1>2, IdsAreInts DEF Closes, Neighbours, TypeOK
  <2> QED
    BY <1>1, <2>1 DEF WalkIsPaired
<1>8. ASSUME NEW h \in his', NEW l \in los', h < l, l <= h2
      PROVE  ~Mergeable(h, l)
  <2>1. /\ \A x \in los \cup his : x \in Int
        /\ hiAt < loAt /\ \A e \in los \cup his : ~(hiAt < e /\ e < loAt)
        /\ h2 \in his
    BY <1>2, IdsAreInts DEF TypeOK, Neighbours, ClosesIn
  <2>2. CASE l <= hiAt
    BY <2>2, <1>1, <1>8 DEF LoopInv
  <2>3. CASE hiAt < l
    <3>1. loAt < l
      BY <2>1, <2>3, <1>1, <1>8
    <3>2. PICK x \in his : loAt <= x /\ x < l
      BY <3>1, <1>1, <1>8 DEF EndsAlternate, Alternate
    <3> QED
      BY <3>2, <1>1, <1>2, <1>8, <2>1 DEF ClosesIn
  <2> QED
    BY <2>1, <2>2, <2>3, <1>1, <1>2, <1>8
<1>9. LoopInv'
  BY <1>1, <1>4, <1>8 DEF LoopInv, Mergeable
<1> QED
  BY <1>5, <1>6, <1>7, <1>9

LEMMA DefragEndIInv ==
  ASSUME IInv, DefragEnd
  PROVE  IInv'
BY DEF IInv, DefragEnd, TypeOK, EndsAlternate, WalkIsPaired, Closes, LoopInv

LEMMA NextIInv == IInv /\ [Next]_vars => IInv'
<1> SUFFICES ASSUME IInv, [Next]_vars PROVE IInv'
  OBVIOUS
<1>1. CASE \E lo, hi \in Ids : MergeRange(lo, hi)
  BY <1>1, MergeRangeIInv
<1>2. CASE Purge
  BY <1>2, PurgeIInv
<1>3. CASE Reset
  BY <1>3, ResetIInv
<1>4. CASE GetNext
  BY <1>4, GetNextIInv
<1>5. CASE WalkThrough
  BY <1>5, WalkThroughIInv
<1>6. CASE \E g \in Gaps \cup {NoGap} : DefragBegin(g)
  BY <1>6, DefragBeginIInv
<1>7. CASE DefragMerge
  BY <1>7, DefragMergeIInv
<1>8. CASE DefragStep
  BY <1>8, DefragStepIInv
<1>9. CASE DefragEnd
  BY <1>9, DefragEndIInv
<1>10. CASE UNCHANGED vars
  BY <1>10 DEF vars, IInv, TypeOK, EndsAlternate, WalkIsPaired, Closes, LoopInv,
               Mergeable
<1> QED
  BY <1>1, <1>2, <1>3, <1>4, <1>5, <1>6, <1>7, <1>8, <1>9, <1>10
     DEF Next, DefragTurn

LEMMA Invariance == Spec => []IInv
BY InitIInv, NextIInv, PTL DEF Spec

-----------------------------------------------------------------------------
(***************************************************************************)
(* Theorems: the invariants and the action properties.                     *)
(***************************************************************************)

\* The iterators never are at an element freed and taken for live.
THEOREM TypeCorrect == Spec => []TypeOK
BY Invariance, PTL DEF IInv

\* The low and the high ends alternate after every mergeRange, purge and turn
\* of defrag: neither list ever holds an end the other does not match.
THEOREM EndsAlternateAlways == Spec => []EndsAlternate
BY Invariance, PTL DEF IInv

\* A walk with reset and getNext that no change interrupts hands out nothing
\* but intervals of the range.
THEOREM WalkIsPairedAlways == Spec => []WalkIsPaired
BY Invariance, PTL DEF IInv

\* defrag's loop keeps its two iterators at neighbouring intervals, whatever it
\* frees behind them.
THEOREM DefragLookAheadAlways == Spec => []DefragLookAhead
<1>1. IInv => DefragLookAhead
  <2> SUFFICES ASSUME IInv, gap # NotDefragging PROVE DefragLookAhead
    BY DEF DefragLookAhead
  <2>1. /\ Ahead(los, his, hiAt, loAt)
        /\ \A h \in his, l \in los : h < l /\ l <= hiAt => ~Mergeable(h, l)
    BY DEF IInv, LoopInv
  <2> QED
    BY <2>1 DEF Ahead, Neighbours, DefragLookAhead
<1> QED
  BY Invariance, <1>1, PTL

\* isIn(key) misses, of the covered keys, exactly the intervals of one key.
THEOREM KeysFoundAlways == Spec => []KeysFound
<1>1. ASSUME IInv, NEW k \in Ids
      PROVE  IsInKey(k) <=> k \in Covered /\ ~(k \in los /\ k \in his)
  <2>1. TypeOK /\ Alternate(los, his) /\ los \in SUBSET Ids /\ his \in SUBSET Ids
    BY <1>1 DEF IInv, TypeOK, EndsAlternate
  <2>2. IsInKey(k) <=> OpenBefore(los, his, k) \/ OpenAfter(los, his, k)
    BY <2>1, InsideFromLeftMeans, InsideFromRightMeans DEF IsInKey, TInside
  <2>3. k \in Covered <=> Opened(los, his, k)
    BY DEF Covered
  <2> QED
    BY <2>1, <2>2, <2>3, OpenBeforeOrAfter
<1>2. IInv => KeysFound
  BY <1>1 DEF KeysFound
<1> QED
  BY Invariance, <1>2, PTL

-----------------------------------------------------------------------------
LEMMA IntervalOfKeys ==
  ASSUME NEW a \in Ids, NEW b \in Ids
  PROVE  a .. b \subseteq Ids
<1>1. KEY_MAX \in Int /\ a \in Int /\ b \in Int /\ 1 <= a /\ b <= KEY_MAX - 1
  BY KeyMaxAssumption DEF Ids
<1>2. \A x \in a .. b : x \in Int /\ 1 <= x /\ x <= KEY_MAX - 1
  BY <1>1
<1> QED
  BY <1>1, <1>2 DEF Ids

LEMMA MergeRangeCovers ==
  ASSUME IInv, NEW lo \in Ids, NEW hi \in Ids, MergeRange(lo, hi)
  PROVE  Covered' = Covered \cup lo .. hi
<1>1. /\ lo <= hi
      /\ los' = MergedLos(los, his, lo, hi)
      /\ his' = MergedHis(los, his, lo, hi)
  BY MergedEnds DEF MergedLos, MergedHis, IInv
<1>2. los \in SUBSET Ids /\ his \in SUBSET Ids /\ Alternate(los, his)
  BY DEF IInv, TypeOK, EndsAlternate
<1>3. \A k \in Ids : Opened(los', his', k) <=> Opened(los, his, k) \/ k \in lo .. hi
  BY <1>1, <1>2, MergeOpens
<1>4. lo .. hi \subseteq Ids
  BY IntervalOfKeys
<1> QED
  BY <1>3, <1>4 DEF Covered

LEMMA PurgeCovers ==
  ASSUME IInv, Purge
  PROVE  Covered' = {}
BY PurgeEmpties DEF IInv, Covered, Opened

LEMMA DefragMergeCovers ==
  ASSUME IInv, DefragMerge
  PROVE  Covered' = Covered \cup hiAt .. loAt
<1>1. /\ gap # NotDefragging /\ loAt \in los
      /\ los' = los \ {loAt} /\ his' = his \ {hiAt}
  BY DEF DefragMerge
<1>2. hiAt \in his /\ Neighbours(los, his, hiAt, loAt)
  BY <1>1, TurnIsAhead
<1>3. los \in SUBSET Ids /\ his \in SUBSET Ids /\ Alternate(los, his)
  BY DEF IInv, TypeOK, EndsAlternate
<1>4. \A k \in Ids : Opened(los', his', k) <=> Opened(los, his, k) \/ k \in hiAt .. loAt
  BY <1>1, <1>2, <1>3, JoinOpens
<1>5. hiAt .. loAt \subseteq Ids
  BY <1>1, <1>2, <1>3, IntervalOfKeys
<1> QED
  BY <1>4, <1>5 DEF Covered

\* mergeRange adds the keys of its interval and no others.
THEOREM MergeIsUnionAlways == Spec => MergeIsUnion
<1>1. IInv => /\ \A lo, hi \in Ids : MergeRange(lo, hi) => Covered' = Covered \cup lo .. hi
              /\ Purge => Covered' = {}
  BY MergeRangeCovers, PurgeCovers
<1> QED
  BY Invariance, <1>1, PTL DEF MergeIsUnion

\* defrag() without a gap leaves the range as it is.
THEOREM PlainDefragChangesNothingAlways == Spec => PlainDefragChangesNothing
<1>1. ASSUME IInv, [Next]_vars, gap = NoGap PROVE UNCHANGED <<los, his>>
  <2>1. gap # NotDefragging
    BY <1>1 DEF NoGap, NotDefragging
  <2>2. ~DefragMerge
    <3> SUFFICES ASSUME DefragMerge PROVE FALSE
      OBVIOUS
    <3>1. hiAt \in his /\ Neighbours(los, his, hiAt, loAt) /\ loAt \in los
      BY <1>1, <2>1, TurnIsAhead DEF DefragMerge
    <3>2. hiAt + 1 + (-1) >= loAt
      BY <1>1 DEF DefragMerge, Mergeable, NoGap
    <3>3. hiAt \in Int /\ loAt \in Int /\ hiAt < loAt
      BY <1>1, <3>1, IdsAreInts DEF IInv, TypeOK, Neighbours
    <3> QED
      BY <3>2, <3>3
  <2>3. DefragStep \/ DefragEnd \/ UNCHANGED vars
    BY <1>1, <2>1, <2>2
       DEF Next, DefragTurn, MergeRange, Purge, Reset, GetNext, WalkThrough, DefragBegin
  <2> QED
    BY <2>3 DEF DefragStep, DefragEnd, vars
<1>2. IInv /\ [Next]_vars => (gap = NoGap => UNCHANGED <<los, his>>)
  BY <1>1
<1> QED
  BY Invariance, <1>2, PTL DEF Spec, PlainDefragChangesNothing

-----------------------------------------------------------------------------
(***************************************************************************)
(* The two lists implement the set of keys.                                *)
(***************************************************************************)
LEMMA LowEndCovered ==
  ASSUME IInv, NEW l \in los
  PROVE  l \in Covered
<1>1. l \in Ids /\ l \in Int /\ \A y \in his : y \in Int
  BY IdsAreInts DEF IInv, TypeOK
<1>2. Opened(los, his, l)
  BY <1>1 DEF Opened
<1> QED
  BY <1>1, <1>2 DEF Covered

LEMMA HighEndCovered ==
  ASSUME IInv, NEW h \in his
  PROVE  h \in Covered
<1>1. /\ h \in Ids /\ Alternate(los, his)
      /\ los \in SUBSET Ids /\ his \in SUBSET Ids
      /\ \A x \in los \cup his : x \in Int
  BY IdsAreInts DEF IInv, TypeOK, EndsAlternate
<1>2. CASE \E y \in his : y < h
  <2> DEFINE below == {y \in his : y < h}
  <2>1. below # {}
    BY <1>2
  <2>2. below \in SUBSET Int /\ h \in Int /\ \A y \in below : y < h
    BY <1>1
  <2>3. PICK m \in below : \A y \in below : y <= m
    BY <2>1, <2>2, GreatestExists
  <2>4. PICK x \in los : m < x /\ x <= h
    BY <1>1, <2>3 DEF Alternate
  <2>5. \A y \in his : ~(x <= y /\ y < h)
    BY <1>1, <2>3, <2>4
  <2> QED
    BY <1>1, <2>4, <2>5 DEF Opened, Covered
<1>3. CASE \A y \in his : ~(y < h)
  <2>1. PICK x \in los : x <= h
    BY <1>1 DEF Alternate
  <2> QED
    BY <1>1, <1>3, <2>1 DEF Opened, Covered
<1> QED
  BY <1>2, <1>3

LEMMA AbsGap ==
  ASSUME IInv, NEW h \in his, NEW l \in los, Neighbours(los, his, h, l), h + 1 < l
  PROVE  Abs!IsGap(h, l)
<1>1. /\ \A x \in los \cup his : x \in Int
      /\ h < l /\ \A e \in los \cup his : ~(h < e /\ e < l)
  BY IdsAreInts DEF IInv, TypeOK, Neighbours
<1>2. ASSUME NEW k \in h + 1 .. l - 1 PROVE k \notin Covered
  <2>1. k \in Int /\ h < k /\ k < l
    BY <1>1
  <2> SUFFICES ASSUME NEW x \in los, x <= k, \A y \in his : ~(x <= y /\ y < k)
               PROVE  FALSE
    BY DEF Opened, Covered
  <2> QED
    BY <1>1, <2>1
<1> QED
  BY <1>2, LowEndCovered, HighEndCovered DEF Abs!IsGap

\* A gap of the covered keys lies between a high end and a low end.
LEMMA GapsAreBetweenEnds ==
  ASSUME IInv, NEW h \in Ids, NEW l \in Ids, Abs!IsGap(h, l)
  PROVE  h \in his /\ l \in los /\ h < l
<1>1. /\ los \in SUBSET Ids /\ his \in SUBSET Ids
      /\ \A x \in los \cup his : x \in Int
      /\ h \in Int /\ l \in Int
  BY IdsAreInts DEF IInv, TypeOK
<1>2. /\ Opened(los, his, h) /\ Opened(los, his, l)
      /\ h + 1 < l
      /\ \A k \in h + 1 .. l - 1 : k \notin Covered
  BY DEF Abs!IsGap, Covered
<1>3. /\ h + 1 \in Ids /\ h + 1 \in h + 1 .. l - 1
      /\ l - 1 \in Ids /\ l - 1 \in h + 1 .. l - 1
  BY <1>1, <1>2, IdsAreInts DEF Ids
<1>4. ~Opened(los, his, h + 1) /\ ~Opened(los, his, l - 1)
  BY <1>2, <1>3 DEF Covered
<1>5. h \in his
  <2>1. PICK x \in los : x <= h /\ \A y \in his : ~(x <= y /\ y < h)
    BY <1>2 DEF Opened
  <2>2. PICK y \in his : x <= y /\ y < h + 1
    BY <1>1, <1>4, <2>1 DEF Opened
  <2> QED
    BY <1>1, <2>1, <2>2
<1>6. l \in los
  <2>1. PICK x \in los : x <= l /\ \A y \in his : ~(x <= y /\ y < l)
    BY <1>2 DEF Opened
  <2>2. CASE x <= l - 1
    BY <1>1, <1>4, <2>1, <2>2 DEF Opened
  <2> QED
    BY <1>1, <2>1, <2>2
<1> QED
  BY <1>1, <1>2, <1>5, <1>6

LEMMA StepImplements ==
  ASSUME IInv, [Next]_vars
  PROVE  [Abs!Next]_<<Covered, gap>>
<1>1. ASSUME NEW lo \in Ids, NEW hi \in Ids, MergeRange(lo, hi)
      PROVE  Abs!Add(lo, hi)
  BY <1>1, MergeRangeCovers DEF MergeRange, Abs!Add, NotDefragging, Abs!NotDefragging
<1>2. ASSUME Purge PROVE Abs!Clear
  BY <1>2, PurgeCovers DEF Purge, Abs!Clear, NotDefragging, Abs!NotDefragging
<1>3. ASSUME Reset \/ GetNext \/ WalkThrough \/ DefragStep \/ UNCHANGED vars
      PROVE  UNCHANGED <<Covered, gap>>
  BY <1>3 DEF Reset, GetNext, WalkThrough, DefragStep, vars, Covered
<1>4. ASSUME NEW g \in Gaps \cup {NoGap}, DefragBegin(g) PROVE Abs!StartClosing(g)
  BY <1>4 DEF DefragBegin, Abs!StartClosing, NotDefragging, Abs!NotDefragging, Covered
<1>5. ASSUME DefragMerge
      PROVE  UNCHANGED <<Covered, gap>> \/ \E h, l \in Ids : Abs!CloseGap(h, l)
  <2>1. /\ gap # NotDefragging /\ loAt \in los /\ gap' = gap
        /\ hiAt + 1 + gap >= loAt
    BY <1>5 DEF DefragMerge, Mergeable
  <2>2. hiAt \in his /\ Neighbours(los, his, hiAt, loAt)
    BY <2>1, TurnIsAhead
  <2>3. Covered' = Covered \cup hiAt .. loAt
    BY <1>5, DefragMergeCovers
  <2>4. /\ hiAt \in Ids /\ loAt \in Ids /\ hiAt \in Int /\ loAt \in Int
        /\ gap \in Int /\ hiAt < loAt
    BY <2>1, <2>2, IdsAreInts, GapIsInt DEF IInv, TypeOK, Neighbours
  <2>5. CASE hiAt + 1 < loAt
    <3>1. Abs!IsGap(hiAt, loAt)
      BY <2>1, <2>2, <2>5, AbsGap
    <3>2. loAt - hiAt - 1 <= gap
      BY <2>1, <2>4
    <3> QED
      BY <2>1, <2>3, <2>4, <3>1, <3>2 DEF Abs!CloseGap
  <2>6. CASE hiAt + 1 = loAt
    <3>1. hiAt \in Covered
      BY <2>4, <2>2, HighEndCovered
    <3>2. loAt \in Covered
      BY <2>1, <2>4, LowEndCovered
    <3>3. hiAt .. loAt = {hiAt, loAt}
      BY <2>4, <2>6
    <3> QED
      BY <2>1, <2>3, <3>1, <3>2, <3>3
  <2> QED
    BY <2>4, <2>5, <2>6
<1>6. ASSUME DefragEnd PROVE Abs!EndClosing
  <2>1. gap # NotDefragging /\ loAt = Nil /\ gap' = NotDefragging /\ Covered' = Covered
    BY <1>6 DEF DefragEnd, Covered
  <2>2. /\ \A x \in los \cup his : x \in Int
        /\ gap \in Int
        /\ Alternate(los, his)
        /\ loAt \notin los
    BY <2>1, IdsAreInts, GapIsInt, PositionsAreNotKeys DEF IInv, TypeOK, EndsAlternate
  <2>3. /\ hiAt \in his /\ \A x \in his : x <= hiAt
        /\ \A h \in his, l \in los : h < l /\ l <= hiAt => ~(h + 1 + gap >= l)
    BY <2>1, <2>2 DEF IInv, LoopInv, Ahead, Mergeable
  <2>4. \A l \in los : l <= hiAt
    BY <2>2, <2>3 DEF Alternate
  <2>5. ASSUME NEW h \in Ids, NEW l \in Ids, Abs!IsGap(h, l)
        PROVE  l - h - 1 > gap
    <3>1. h \in his /\ l \in los /\ h < l
      BY <2>5, GapsAreBetweenEnds
    <3> QED
      BY <2>2, <2>3, <2>4, <3>1
  <2> QED
    BY <2>1, <2>5 DEF Abs!EndClosing, NotDefragging, Abs!NotDefragging, Abs!Ids, Ids
<1> QED
  BY <1>1, <1>2, <1>3, <1>4, <1>5, <1>6
     DEF Next, DefragTurn, Abs!Next, NoGap, Abs!NoGap, Abs!Ids, Ids

\* The two lists implement the set of keys: what mergeRange adds, purge
\* removes and defrag closes is exactly what IntervalSet allows.
THEOREM Implementation == Spec => ImplementsIntervalSet
<1>1. Init => Abs!Init
  BY DEF Init, Abs!Init, Covered, Opened, NotDefragging, Abs!NotDefragging
<1> QED
  BY <1>1, StepImplements, Invariance, PTL DEF Spec, ImplementsIntervalSet, Abs!Spec

-----------------------------------------------------------------------------
(***************************************************************************)
(* What isIn(a, b), contains and intersection answer.  Nothing but the     *)
(* alternation of the ends is needed: the covered keys fall into intervals *)
(* l .. h with no end inside, and the greatest and least ends next to a    *)
(* key tell which one it is in.                                            *)
(***************************************************************************)
\* The ends are integers strictly between KEY_MIN and KEY_MAX.
LEMMA EndsAreInts ==
  ASSUME IInv
  PROVE  /\ los \in SUBSET Ids /\ his \in SUBSET Ids
         /\ KEY_MAX \in Int /\ KEY_MIN \in Int
         /\ \A x \in Ids : x \in Int /\ KEY_MIN < x /\ 0 < x /\ x < KEY_MAX
         /\ \A x \in los \cup his : x \in Int /\ KEY_MIN < x /\ x < KEY_MAX
BY IdsAreInts DEF IInv, TypeOK, KEY_MIN

\* No end lies inside an interval.
LEMMA NothingInside ==
  ASSUME IInv, NEW l, NEW h, Closes(h, l)
  PROVE  /\ l \in los /\ h \in his /\ l <= h /\ l \in Ids /\ h \in Ids
         /\ \A x \in los : ~(l < x /\ x <= h)
         /\ \A y \in his : ~(l <= y /\ y < h)
<1> USE EndsAreInts
<1>1. l \in los /\ h \in his /\ l <= h /\ \A y \in his : ~(l <= y /\ y < h)
  BY DEF Closes
<1>2. ASSUME NEW x \in los, l < x, x <= h PROVE FALSE
  <2>1. PICK y \in his : l <= y /\ y < x
    BY <1>1, <1>2 DEF IInv, EndsAlternate, Alternate
  <2> QED
    BY <1>1, <1>2, <2>1
<1> QED
  BY <1>1, <1>2

\* The covered keys are those of the intervals.
LEMMA CoveredMeans ==
  ASSUME IInv, NEW k \in Ids
  PROVE  k \in Covered <=> \E l \in los, h \in his : Closes(h, l) /\ l <= k /\ k <= h
<1> USE EndsAreInts
<1>1. ASSUME k \in Covered
      PROVE  \E l \in los, h \in his : Closes(h, l) /\ l <= k /\ k <= h
  <2>1. PICK l \in los : l <= k /\ \A y \in his : ~(l <= y /\ y < k)
    BY <1>1 DEF Covered, Opened
  <2>2. PICK h \in his : l <= h /\ \A y \in his : ~(l <= y /\ y < h)
    BY CloserExists DEF IInv, EndsAlternate, Alternate
  <2> QED
    BY <2>1, <2>2 DEF Closes
<1>2. ASSUME NEW l \in los, NEW h \in his, Closes(h, l), l <= k, k <= h
      PROVE  k \in Covered
  <2>1. \A y \in his : ~(l <= y /\ y < k)
    BY <1>2 DEF Closes
  <2> QED
    BY <1>2, <2>1 DEF Covered, Opened
<1> QED
  BY <1>1, <1>2

\* tinside's two looks, in terms of the interval a key is in.
LEMMA LooksMean ==
  ASSUME IInv, NEW k \in Ids
  PROVE  /\ InsideFromLeft(k) <=> \E l \in los, h \in his : Closes(h, l) /\ l < k /\ k <= h
         /\ InsideFromRight(k) <=> \E l \in los, h \in his : Closes(h, l) /\ l <= k /\ k < h
<1> USE EndsAreInts
<1>1. ASSUME OpenBefore(los, his, k)
      PROVE  \E l \in los, h \in his : Closes(h, l) /\ l < k /\ k <= h
  <2>1. PICK l \in los : l < k /\ \A y \in his : y < k => y < l
    BY <1>1 DEF OpenBefore
  <2>2. PICK h \in his : l <= h /\ \A y \in his : ~(l <= y /\ y < h)
    BY CloserExists DEF IInv, EndsAlternate, Alternate
  <2> QED
    BY <2>1, <2>2 DEF Closes
<1>2. ASSUME NEW l \in los, NEW h \in his, Closes(h, l), l < k, k <= h
      PROVE  OpenBefore(los, his, k)
  BY <1>2 DEF OpenBefore, Closes
<1>3. ASSUME OpenAfter(los, his, k)
      PROVE  \E l \in los, h \in his : Closes(h, l) /\ l <= k /\ k < h
  <2>1. PICK y \in his : k < y /\ \A l \in los : k < l => y < l
    BY <1>3 DEF OpenAfter
  <2>2. y \in Covered
    BY HighEndCovered
  <2>3. PICK l \in los, h \in his : Closes(h, l) /\ l <= y /\ y <= h
    BY <2>2, CoveredMeans
  <2> QED
    BY <2>1, <2>3
<1>4. ASSUME NEW l \in los, NEW h \in his, Closes(h, l), l <= k, k < h
      PROVE  OpenAfter(los, his, k)
  <2>1. \A x \in los : ~(l < x /\ x <= h)
    BY <1>4, NothingInside
  <2> QED
    BY <1>4, <2>1 DEF OpenAfter
<1> QED
  BY <1>1, <1>2, <1>3, <1>4, InsideFromLeftMeans, InsideFromRightMeans DEF IInv

\* Two intervals that share a key are one.
LEMMA IntervalsAreApart ==
  ASSUME IInv, NEW l, NEW h, NEW l2, NEW h2, Closes(h, l), Closes(h2, l2),
         l <= h2, l2 <= h
  PROVE  l = l2 /\ h = h2
<1> USE EndsAreInts
<1>1. /\ l \in los /\ h \in his /\ l <= h
      /\ \A x \in los : ~(l < x /\ x <= h)
      /\ \A y \in his : ~(l <= y /\ y < h)
  BY NothingInside
<1>2. /\ l2 \in los /\ h2 \in his /\ l2 <= h2
      /\ \A x \in los : ~(l2 < x /\ x <= h2)
      /\ \A y \in his : ~(l2 <= y /\ y < h2)
  BY NothingInside
<1> QED
  BY <1>1, <1>2

-----------------------------------------------------------------------------
(***************************************************************************)
(* isIn(a, b) and contains.                                                *)
(***************************************************************************)
\* An end next to k from below or above, and where there is none.
LEMMA NextEnds ==
  ASSUME IInv, NEW k \in Ids
  PROVE  /\ \/ FindMAX(los, k) = KEY_MIN /\ \A x \in los : k <= x
            \/ FindMAX(los, k) \in los /\ FindMAX(los, k) < k
               /\ \A x \in los : x < k => x <= FindMAX(los, k)
         /\ \/ FindMAX(his, k) = KEY_MIN /\ \A x \in his : k <= x
            \/ FindMAX(his, k) \in his /\ FindMAX(his, k) < k
               /\ \A x \in his : x < k => x <= FindMAX(his, k)
         /\ \/ FindMIN(los, k) = KEY_MAX /\ \A x \in los : x <= k
            \/ FindMIN(los, k) \in los /\ k < FindMIN(los, k)
               /\ \A x \in los : k < x => FindMIN(los, k) <= x
         /\ \/ FindMIN(his, k) = KEY_MAX /\ \A x \in his : x <= k
            \/ FindMIN(his, k) \in his /\ k < FindMIN(his, k)
               /\ \A x \in his : k < x => FindMIN(his, k) <= x
BY EndsAreInts, FindMAXOfIds, FindMINOfIds

\* isIn answers 1, 0 or -1, and contains translates it.
LEMMA ContainsMeans ==
  ASSUME NEW a \in Ids, NEW b \in Ids
  PROVE  /\ IsIn(a, b) \in {1, 0, -1}
         /\ Contains(a, b) = 0 <=> IsIn(a, b) = -1
         /\ Contains(a, b) = 1 <=> IsIn(a, b) = 1
<1>1. IsIn(a, b) \in {1, 0, -1}
  BY DEF IsIn
<1>2. 0 # 1 /\ 0 # -1 /\ 1 # -1
  OBVIOUS
<1>3. IsIn(a, b) = 0 => Contains(a, b) = -1
  BY Zenon, <1>2 DEF Contains
<1>4. IsIn(a, b) = -1 => Contains(a, b) = 0
  BY Zenon, <1>2 DEF Contains
<1>5. IsIn(a, b) = 1 => Contains(a, b) = 1
  BY Zenon, <1>2 DEF Contains
<1> QED
  BY <1>1, <1>2, <1>3, <1>4, <1>5

\* a..b is free of the range just when isIn says so.
LEMMA OutsideIsOutside ==
  ASSUME IInv, NEW a \in Ids, NEW b \in Ids, a <= b
  PROVE  IsIn(a, b) = -1 <=> a .. b \cap Covered = {}
<1> USE EndsAreInts
<1> DEFINE GLa == FindMAX(los, a)
           GLb == FindMAX(los, b)
           GHb == FindMAX(his, b)
           SHa == FindMIN(his, a)
           SLa == FindMIN(los, a)
<1>1. /\ \/ GLa = KEY_MIN /\ \A x \in los : a <= x
         \/ GLa \in los /\ GLa < a /\ \A x \in los : x < a => x <= GLa
      /\ \/ GLb = KEY_MIN /\ \A x \in los : b <= x
         \/ GLb \in los /\ GLb < b /\ \A x \in los : x < b => x <= GLb
      /\ \/ SLa = KEY_MAX /\ \A x \in los : x <= a
         \/ SLa \in los /\ a < SLa /\ \A x \in los : a < x => SLa <= x
  BY NextEnds
<1>2. IsIn(a, b) = -1 <=>
        /\ ~(a \in los /\ (b \in his \/ b \in los))
        /\ ~(InsideFromLeft(a) /\ GLb < GHb)
        /\ ~(GLb = a /\ SHa = b)
        /\ ~(GLb > GLa)
        /\ ~InsideFromLeft(a)
        /\ SLa # b
  BY DEF IsIn
<1> HIDE DEF GLa, GLb, GHb, SHa, SLa
<1>3. InsideFromLeft(a) <=> \E l \in los, h \in his : Closes(h, l) /\ l < a /\ a <= h
  BY LooksMean
<1>4. ASSUME a .. b \cap Covered = {} PROVE IsIn(a, b) = -1
  <2>1. \A x \in los : ~(a <= x /\ x <= b)
    BY <1>4, LowEndCovered
  <2>2. a \notin los /\ b \notin los
    BY <2>1
  <2>3. ~InsideFromLeft(a)
    BY <1>3, <1>4, CoveredMeans
  <2>4. GLb # a /\ ~(GLb > GLa) /\ SLa # b
    BY <1>1, <2>1, <2>2
  <2> QED
    BY <1>2, <2>2, <2>3, <2>4
<1>5. ASSUME IsIn(a, b) = -1, NEW k \in a .. b, k \in Covered PROVE FALSE
  <2>1. k \in Ids /\ k \in Int /\ a <= k /\ k <= b
    BY <1>5 DEF Covered
  <2>2. PICK l \in los, h \in his : Closes(h, l) /\ l <= k /\ k <= h
    BY <1>5, <2>1, CoveredMeans
  <2>3. CASE l < a
    BY <2>1, <2>2, <2>3, <1>2, <1>3, <1>5
  <2>4. CASE a <= l /\ l < b
    BY <2>4, <1>1, <1>2, <1>5
  <2>5. CASE a < l /\ l = b
    <3>1. SLa \in los /\ a < SLa /\ SLa <= b
      BY <2>5, <1>1
    <3>2. GLb > GLa \/ SLa = b
      BY <3>1, <1>1
    <3> QED
      BY <3>2, <1>2, <1>5
  <2>6. CASE a = l /\ l = b
    BY <2>6, <1>2, <1>5
  <2> QED
    BY <2>1, <2>2, <2>3, <2>4, <2>5, <2>6
<1> QED
  BY <1>4, <1>5

\* isIn says 1 of every a..b that one interval holds.
LEMMA InsideIsInside ==
  ASSUME IInv, NEW a \in Ids, NEW b \in Ids, a <= b,
         NEW l, NEW h, Closes(h, l), l <= a, b <= h
  PROVE  IsIn(a, b) = 1
<1> USE EndsAreInts
<1> DEFINE GLa == FindMAX(los, a)
           GLb == FindMAX(los, b)
           GHb == FindMAX(his, b)
           SHa == FindMIN(his, a)
           SLa == FindMIN(los, a)
<1>1. /\ \/ GLa = KEY_MIN /\ \A x \in los : a <= x
         \/ GLa \in los /\ GLa < a /\ \A x \in los : x < a => x <= GLa
      /\ \/ GLb = KEY_MIN /\ \A x \in los : b <= x
         \/ GLb \in los /\ GLb < b /\ \A x \in los : x < b => x <= GLb
      /\ \/ GHb = KEY_MIN /\ \A x \in his : b <= x
         \/ GHb \in his /\ GHb < b /\ \A x \in his : x < b => x <= GHb
      /\ \/ SHa = KEY_MAX /\ \A x \in his : x <= a
         \/ SHa \in his /\ a < SHa /\ \A x \in his : a < x => SHa <= x
  BY NextEnds
<1>2. IsIn(a, b) =
        IF a \in los /\ (b \in his \/ b \in los) THEN 1
        ELSE IF InsideFromLeft(a) /\ GLb < GHb THEN 0
        ELSE IF GLb = a /\ SHa = b THEN 1
        ELSE IF GLb > GLa THEN IF GLb = a /\ SHa >= b THEN 1 ELSE 0
        ELSE IF InsideFromLeft(a) THEN 1
        ELSE IF SLa = b THEN 0
        ELSE -1
  BY DEF IsIn
<1> HIDE DEF GLa, GLb, GHb, SHa, SLa
<1>3. InsideFromLeft(a) <=> \E x \in los, y \in his : Closes(y, x) /\ x < a /\ a <= y
  BY LooksMean
<1>4. /\ l \in los /\ h \in his /\ l <= h
      /\ \A x \in los : ~(l < x /\ x <= h)
      /\ \A y \in his : ~(l <= y /\ y < h)
  BY NothingInside
<1>5. CASE l = a
  <2>1. ~InsideFromLeft(a)
    <3>1. ASSUME NEW x \in los, NEW y \in his, Closes(y, x), x < a, a <= y PROVE FALSE
      <4>1. \A z \in los : ~(x < z /\ z <= y)
        BY <3>1, NothingInside
      <4> QED
        BY <3>1, <4>1, <1>4, <1>5
    <3> QED
      BY <3>1, <1>3
  <2>2. CASE a < b
    <3>1. GLb = a /\ GLb > GLa
      BY <2>2, <1>1, <1>4, <1>5
    <3>2. SHa >= b
      BY <2>2, <1>1, <1>4, <1>5
    <3> QED
      BY <2>1, <3>1, <3>2, <1>2
  <2>3. CASE a = b
    BY <2>3, <1>2, <1>4, <1>5
  <2> QED
    BY <2>2, <2>3
<1>6. CASE l < a
  <2>1. InsideFromLeft(a)
    BY <1>3, <1>4, <1>6
  <2>2. GLa = l /\ GLb = l
    BY <1>1, <1>4, <1>6
  <2>3. ~(GLb < GHb)
    BY <1>1, <1>4, <1>6, <2>2
  <2> QED
    BY <2>1, <2>2, <2>3, <1>2, <1>4
<1> QED
  BY <1>4, <1>5, <1>6

\* isIn says 1 of no other a..b unless an interval begins at a.
LEMMA SaidInsideIsInside ==
  ASSUME IInv, NEW a \in Ids, NEW b \in Ids, a <= b, IsIn(a, b) = 1
  PROVE  a .. b \subseteq Covered \/ a \in los
<1> USE EndsAreInts
<1> DEFINE GLa == FindMAX(los, a)
           GLb == FindMAX(los, b)
           GHb == FindMAX(his, b)
           SHa == FindMIN(his, a)
           SLa == FindMIN(los, a)
<1>1. /\ \/ GLa = KEY_MIN /\ \A x \in los : a <= x
         \/ GLa \in los /\ GLa < a /\ \A x \in los : x < a => x <= GLa
      /\ \/ GLb = KEY_MIN /\ \A x \in los : b <= x
         \/ GLb \in los /\ GLb < b /\ \A x \in los : x < b => x <= GLb
      /\ \/ GHb = KEY_MIN /\ \A x \in his : b <= x
         \/ GHb \in his /\ GHb < b /\ \A x \in his : x < b => x <= GHb
  BY NextEnds
<1>2. IsIn(a, b) =
        IF a \in los /\ (b \in his \/ b \in los) THEN 1
        ELSE IF InsideFromLeft(a) /\ GLb < GHb THEN 0
        ELSE IF GLb = a /\ SHa = b THEN 1
        ELSE IF GLb > GLa THEN IF GLb = a /\ SHa >= b THEN 1 ELSE 0
        ELSE IF InsideFromLeft(a) THEN 1
        ELSE IF SLa = b THEN 0
        ELSE -1
  BY DEF IsIn
<1> HIDE DEF GLa, GLb, GHb, SHa, SLa
<1>3. InsideFromLeft(a) <=> \E x \in los, y \in his : Closes(y, x) /\ x < a /\ a <= y
  BY LooksMean
<1> SUFFICES ASSUME a \notin los, NEW k \in a .. b PROVE k \in Covered
  OBVIOUS
<1>4. GLb # a
  BY <1>1
<1>5. InsideFromLeft(a) /\ ~(GLb < GHb) /\ ~(GLb > GLa)
  BY <1>2, <1>4
<1>6. PICK l \in los, h \in his : Closes(h, l) /\ l < a /\ a <= h
  BY <1>3, <1>5
<1>7. /\ l <= h
      /\ \A x \in los : ~(l < x /\ x <= h)
      /\ \A y \in his : ~(l <= y /\ y < h)
  BY <1>6, NothingInside
<1>8. b <= h
  <2>1. GLa = l /\ GLb = l
    BY <1>1, <1>5, <1>6, <1>7
  <2> QED
    BY <2>1, <1>1, <1>5, <1>6, <1>7
<1>9. k \in Ids /\ l <= k /\ k <= h
  BY <1>6, <1>8, IntervalOfKeys
<1> QED
  BY <1>6, <1>9, CoveredMeans

LEMMA ContainsRight == IInv => ContainsIsNearlyRight
<1> SUFFICES ASSUME IInv, NEW a \in Ids, NEW b \in a .. KEY_MAX - 1
             PROVE  /\ Contains(a, b) = 0 <=> a .. b \cap Covered = {}
                    /\ (\E l, h \in Ids : Closes(h, l) /\ l <= a /\ b <= h)
                         => Contains(a, b) = 1
                    /\ Contains(a, b) = 1 => a .. b \subseteq Covered \/ a \in los
  BY DEF ContainsIsNearlyRight
<1>1. b \in Ids /\ a <= b
  BY KeyMaxAssumption DEF Ids
<1> QED
  BY <1>1, ContainsMeans, OutsideIsOutside, InsideIsInside, SaidInsideIsInside

-----------------------------------------------------------------------------
(***************************************************************************)
(* intersection.                                                           *)
(***************************************************************************)
LEMMA MaxOfTwo ==
  ASSUME NEW x \in Int, NEW y \in Int
  PROVE  Max({x, y}) = IF x >= y THEN x ELSE y
<1> DEFINE m == IF x >= y THEN x ELSE y
<1>1. m \in {x, y} /\ \A z \in {x, y} : m >= z
  OBVIOUS
<1>2. \A n \in {x, y} : (\A z \in {x, y} : n >= z) => n = m
  OBVIOUS
<1> HIDE DEF m
<1>3. Max({x, y}) = m
  BY <1>1, <1>2 DEF Max
<1> QED
  BY <1>3 DEF m

LEMMA MinOfTwo ==
  ASSUME NEW x \in Int, NEW y \in Int
  PROVE  Min({x, y}) = IF x <= y THEN x ELSE y
<1> DEFINE m == IF x <= y THEN x ELSE y
<1>1. m \in {x, y} /\ \A z \in {x, y} : m <= z
  OBVIOUS
<1>2. \A n \in {x, y} : (\A z \in {x, y} : n <= z) => n = m
  OBVIOUS
<1> HIDE DEF m
<1>3. Min({x, y}) = m
  BY <1>1, <1>2 DEF Min
<1> QED
  BY <1>3 DEF m

\* The pair intersection hands back, and whether it is set.
Pair(x, y) == [lo |-> x, hi |-> y, set |-> x <= y]

LEMMA PairSet ==
  ASSUME NEW x \in Int, NEW y \in Int
  PROVE  /\ x <= y => Pair(x, y) = [lo |-> x, hi |-> y, set |-> TRUE]
         /\ ~(x <= y) => ~Pair(x, y).set
<1>1. ASSUME x <= y PROVE Pair(x, y) = [lo |-> x, hi |-> y, set |-> TRUE]
  <2>1. (x <= y) = TRUE
    BY <1>1
  <2> QED
    BY <2>1, Zenon DEF Pair
<1>2. ASSUME ~(x <= y) PROVE ~Pair(x, y).set
  <2>1. (x <= y) = FALSE
    BY <1>2
  <2>2. Pair(x, y) = [lo |-> x, hi |-> y, set |-> FALSE]
    BY <2>1, Zenon DEF Pair
  <2>3. Pair(x, y).set = FALSE
    BY <2>2
  <2> QED
    BY <2>3
<1> QED
  BY <1>1, <1>2

\* What tinside says of a key outside the range, and of one in l .. h.
LEMMA OutsideFlag ==
  ASSUME IInv, NEW k \in Ids, k \notin Covered
  PROVE  TInside(k) = "InclOutside"
<1>1. ~InsideFromLeft(k) /\ ~InsideFromRight(k)
  BY LooksMean, CoveredMeans, EndsAreInts
<1> QED
  BY <1>1 DEF TInside

LEMMA IntervalFlag ==
  ASSUME IInv, NEW k \in Ids, NEW l, NEW h, Closes(h, l), l <= k, k <= h
  PROVE  TInside(k) = IF l < k THEN IF k < h THEN "InclInside" ELSE "InclHi"
                      ELSE IF k < h THEN "InclLo" ELSE "InclOutside"
<1>1. l \in los /\ h \in his /\ l \in Int /\ h \in Int /\ k \in Int
  BY NothingInside, EndsAreInts
<1>2. InsideFromLeft(k) <=> l < k
  <2>1. ASSUME NEW x \in los, NEW y \in his, Closes(y, x), x < k, k <= y
        PROVE  l < k
    <3>1. l <= y /\ x <= h
      BY <1>1, <2>1, EndsAreInts
    <3> QED
      BY <3>1, <2>1, IntervalsAreApart
  <2> QED
    BY <1>1, <2>1, LooksMean
<1>3. InsideFromRight(k) <=> k < h
  <2>1. ASSUME NEW x \in los, NEW y \in his, Closes(y, x), x <= k, k < y
        PROVE  k < h
    <3>1. l <= y /\ x <= h
      BY <1>1, <2>1, EndsAreInts
    <3> QED
      BY <3>1, <2>1, IntervalsAreApart
  <2> QED
    BY <1>1, <2>1, LooksMean
<1> QED
  BY <1>2, <1>3 DEF TInside

\* Where a..b meets nothing, both ends stay unset.
LEMMA NothingShared ==
  ASSUME IInv, NEW a \in Ids, NEW b \in Ids, a <= b, a .. b \cap Covered = {}
  PROVE  ~Intersection(a, b).set
<1> USE EndsAreInts
<1>1. a \notin Covered /\ b \notin Covered
  OBVIOUS
<1>2. TInside(a) = "InclOutside" /\ TInside(b) = "InclOutside"
  BY <1>1, OutsideFlag
<1>3. ~(FindMIN(los, a) < b)
  <2>1. \A x \in los : ~(a <= x /\ x <= b)
    BY LowEndCovered
  <2> QED
    BY <2>1, NextEnds
<1>4. ~(a < FindMAX(his, b))
  <2>1. \A y \in his : ~(a <= y /\ y <= b)
    BY HighEndCovered
  <2> QED
    BY <2>1, NextEnds
<1>5. Intersection(a, b) = Pair(-998, -999)
  BY <1>2, <1>3, <1>4 DEF Intersection, Pair
<1> QED
  BY <1>5, PairSet

\* Where a..b meets the one interval l .. h.
LEMMA OneShared ==
  ASSUME IInv, NEW a \in Ids, NEW b \in Ids, a <= b,
         NEW l \in Ids, NEW h \in Ids, Closes(h, l), l <= b, a <= h,
         a .. b \cap Covered \subseteq l .. h
  PROVE  IF (a < l /\ b = h) \/ (l = h /\ l \in {a, b})
         THEN ~Intersection(a, b).set
         ELSE Intersection(a, b) = [lo |-> IF a >= l THEN a ELSE l,
                                    hi |-> IF b <= h THEN b ELSE h, set |-> TRUE]
<1> USE EndsAreInts
<1> DEFINE GH == FindMAX(his, b)
           GL == FindMAX(los, b)
           SL == FindMIN(los, a)
           SH == FindMIN(his, b)
<1>1. /\ l \in los /\ h \in his /\ l <= h
      /\ \A x \in los : ~(l < x /\ x <= h)
      /\ \A y \in his : ~(l <= y /\ y < h)
  BY NothingInside
<1>2. /\ \A x \in los : a <= x /\ x <= b => x = l
      /\ \A y \in his : a <= y /\ y <= b => y = h
  <2>1. ASSUME NEW x \in los, a <= x, x <= b PROVE x = l
    <3>1. x \in l .. h
      BY <2>1, LowEndCovered
    <3> QED
      BY <3>1, <1>1
  <2>2. ASSUME NEW y \in his, a <= y, y <= b PROVE y = h
    <3>1. y \in l .. h
      BY <2>2, HighEndCovered
    <3> QED
      BY <3>1, <1>1
  <2> QED
    BY <2>1, <2>2
<1>3. /\ \/ GL = KEY_MIN /\ \A x \in los : b <= x
         \/ GL \in los /\ GL < b /\ \A x \in los : x < b => x <= GL
      /\ \/ GH = KEY_MIN /\ \A x \in his : b <= x
         \/ GH \in his /\ GH < b /\ \A x \in his : x < b => x <= GH
      /\ \/ SL = KEY_MAX /\ \A x \in los : x <= a
         \/ SL \in los /\ a < SL /\ \A x \in los : a < x => SL <= x
  BY NextEnds
<1>4. /\ a < l => TInside(a) = "InclOutside"
      /\ a = l => TInside(a) = IF l < h THEN "InclLo" ELSE "InclOutside"
      /\ l < a => TInside(a) = IF a < h THEN "InclInside" ELSE "InclHi"
  <2>1. a < l => a \notin Covered
    BY <1>1
  <2> QED
    BY <2>1, OutsideFlag, IntervalFlag
<1>5. /\ h < b => TInside(b) = "InclOutside"
      /\ b = l => TInside(b) = IF l < h THEN "InclLo" ELSE "InclOutside"
      /\ l < b /\ b <= h => TInside(b) = IF b < h THEN "InclInside" ELSE "InclHi"
  <2>1. h < b => b \notin Covered
    BY <1>1
  <2> QED
    BY <2>1, OutsideFlag, IntervalFlag
<1>6. /\ TInside(a) = "InclHi" => Intersection(a, b) = Pair(a, a)
      /\ TInside(a) \in {"InclLo", "InclInside"} =>
           /\ TInside(b) = "InclOutside" => Intersection(a, b) = Pair(a, GH)
           /\ TInside(b) = "InclLo" /\ TInside(a) = "InclLo" => Intersection(a, b) = Pair(a, b)
           /\ TInside(b) \in {"InclInside", "InclHi"} => Intersection(a, b) = Pair(a, b)
      /\ TInside(a) = "InclOutside" =>
           /\ TInside(b) = "InclInside" => Intersection(a, b) = Pair(GL, b)
           /\ TInside(b) = "InclOutside" => 
                Intersection(a, b) =
                  Pair(IF SL < b THEN SL ELSE -998, IF a < GH THEN GH ELSE -999)
           /\ TInside(b) = "InclLo" => Intersection(a, b) = Pair(b, b)
           /\ TInside(b) = "InclHi" => Intersection(a, b) = Pair(-998, -999)
  BY DEF Intersection, Pair
<1> HIDE DEF GH, GL, SL, SH
<1>7. a < l \/ l = h => (SL < b <=> l < b /\ l # a) /\ (l < b /\ l # a => SL = l)
  BY <1>1, <1>2, <1>3
<1>8. h < b => GH = h
  BY <1>1, <1>2, <1>3
<1>9. b <= h /\ a <= l => ~(a < GH)
  BY <1>1, <1>2, <1>3
<1>10. l < b /\ b <= h => GL = l
  BY <1>1, <1>3
<1>11. CASE a < l
  <2>1. TInside(a) = "InclOutside"
    BY <1>4, <1>11
  <2>2. CASE b = l /\ l = h
    <3>1. Intersection(a, b) = Pair(-998, -999)
      BY <1>5, <1>6, <1>7, <1>9, <1>11, <2>1, <2>2
    <3> QED
      BY <3>1, <2>2, PairSet
  <2>3. CASE b = l /\ l < h
    <3>1. Intersection(a, b) = Pair(b, b)
      BY <1>5, <1>6, <2>1, <2>3
    <3> QED
      BY <3>1, <2>3, <1>11, PairSet
  <2>4. CASE l < b /\ b < h
    <3>1. Intersection(a, b) = Pair(l, b)
      BY <1>5, <1>6, <1>10, <2>1, <2>4
    <3> QED
      BY <3>1, <2>4, <1>11, PairSet
  <2>5. CASE l < b /\ b = h
    <3>1. Intersection(a, b) = Pair(-998, -999)
      BY <1>5, <1>6, <2>1, <2>5
    <3> QED
      BY <3>1, <2>5, <1>11, PairSet
  <2>6. CASE h < b
    <3>1. Intersection(a, b) = Pair(l, h)
      BY <1>1, <1>5, <1>6, <1>7, <1>8, <1>11, <2>1, <2>6
    <3> QED
      BY <3>1, <2>6, <1>11, <1>1, PairSet
  <2> QED
    BY <2>2, <2>3, <2>4, <2>5, <2>6, <1>1
<1>12. CASE a = l /\ l = h
  <2>1. Intersection(a, b) = Pair(-998, -999)
    <3>1. ~(SL < b)
      BY <1>7, <1>12
    <3>2. ~(a < GH)
      BY <1>8, <1>9, <1>12
    <3>3. TInside(a) = "InclOutside" /\ TInside(b) = "InclOutside"
      BY <1>4, <1>5, <1>12
    <3> QED
      BY <3>1, <3>2, <3>3, <1>6
  <2> QED
    BY <2>1, <1>12, PairSet
<1>13. CASE a = l /\ l < h
  <2>1. TInside(a) = "InclLo"
    BY <1>4, <1>13
  <2>2. CASE b <= h
    <3>1. TInside(b) \in {"InclLo", "InclInside", "InclHi"}
      BY <1>5, <1>13, <2>2
    <3>2. Intersection(a, b) = Pair(a, b)
      BY <1>6, <2>1, <3>1
    <3> QED
      BY <3>2, <2>2, <1>13, PairSet
  <2>3. CASE h < b
    <3>1. Intersection(a, b) = Pair(a, h)
      BY <1>5, <1>6, <1>8, <2>1, <2>3
    <3> QED
      BY <3>1, <2>3, <1>13, PairSet
  <2> QED
    BY <2>2, <2>3
<1>14. CASE l < a /\ a < h
  <2>1. TInside(a) = "InclInside"
    BY <1>4, <1>14
  <2>2. CASE b <= h
    <3>1. TInside(b) \in {"InclInside", "InclHi"}
      BY <1>5, <1>14, <2>2
    <3>2. Intersection(a, b) = Pair(a, b)
      BY <1>6, <2>1, <3>1
    <3> QED
      BY <3>2, <2>2, <1>14, PairSet
  <2>3. CASE h < b
    <3>1. Intersection(a, b) = Pair(a, h)
      BY <1>5, <1>6, <1>8, <2>1, <2>3
    <3> QED
      BY <3>1, <2>3, <1>14, PairSet
  <2> QED
    BY <2>2, <2>3
<1>15. CASE l < a /\ a = h
  <2>1. Intersection(a, b) = Pair(a, a)
    BY <1>4, <1>6, <1>15
  <2> QED
    BY <2>1, <1>15, PairSet
<1> QED
  BY <1>1, <1>11, <1>12, <1>13, <1>14, <1>15

LEMMA IntersectionRight == IInv => IntersectionIsNearlyRight
<1> SUFFICES ASSUME IInv, NEW a \in Ids, NEW b \in a .. KEY_MAX - 1
             PROVE  /\ a .. b \cap Covered = {} => ~Intersection(a, b).set
                    /\ \A l, h \in Ids : Closes(h, l) /\ l <= b /\ a <= h
                         /\ a .. b \cap Covered \subseteq l .. h =>
                         LET missed == (a < l /\ b = h) \/ (l = h /\ l \in {a, b})
                             shared == [lo |-> Max({a, l}), hi |-> Min({b, h}), set |-> TRUE]
                         IN  IF missed THEN ~Intersection(a, b).set ELSE Intersection(a, b) = shared
  BY DEF IntersectionIsNearlyRight
<1>1. b \in Ids /\ a <= b /\ b \in Int /\ a \in Int
  BY KeyMaxAssumption DEF Ids
<1>2. a .. b \cap Covered = {} => ~Intersection(a, b).set
  BY <1>1, NothingShared
<1>3. ASSUME NEW l \in Ids, NEW h \in Ids, Closes(h, l), l <= b, a <= h,
             a .. b \cap Covered \subseteq l .. h
      PROVE  LET missed == (a < l /\ b = h) \/ (l = h /\ l \in {a, b})
                 shared == [lo |-> Max({a, l}), hi |-> Min({b, h}), set |-> TRUE]
             IN  IF missed THEN ~Intersection(a, b).set ELSE Intersection(a, b) = shared
  <2>1. Max({a, l}) = (IF a >= l THEN a ELSE l) /\ Min({b, h}) = (IF b <= h THEN b ELSE h)
    BY <1>1, MaxOfTwo, MinOfTwo, EndsAreInts
  <2>2. IF (a < l /\ b = h) \/ (l = h /\ l \in {a, b})
        THEN ~Intersection(a, b).set
        ELSE Intersection(a, b) = [lo |-> IF a >= l THEN a ELSE l,
                                   hi |-> IF b <= h THEN b ELSE h, set |-> TRUE]
    BY <1>1, <1>3, OneShared
  <2> QED
    BY <2>1, <2>2
<1> QED
  BY <1>2, <1>3

\* What contains and intersection answer is right but for the cases the two
\* invariants name: of every range, for all a and b.
THEOREM QueriesAreNearlyRightAlways == Spec => []QueriesAreNearlyRight
<1>1. IInv => QueriesAreNearlyRight
  BY ContainsRight, IntersectionRight DEF QueriesAreNearlyRight
<1> QED
  BY Invariance, <1>1, PTL
=============================================================================
