------------------------------ MODULE HtmRange ------------------------------
(***************************************************************************)
(* HtmRange of src/src/HtmRange.cpp: a set of key intervals kept as two    *)
(* skip lists, the low ends and the high ends, which nothing but their     *)
(* order pairs up.  Both lists are read through their one iterator each,   *)
(* so a walk over the intervals is shared by every client of the range.    *)
(*                                                                         *)
(* The lists are the key sets OrderedKeys describes; mergeRange stores the *)
(* same value with every key and no reader tells the values apart.         *)
(* defrag's loop is one action per turn.                                   *)
(***************************************************************************)
EXTENDS OrderedKeys, FiniteSets

CONSTANT Gaps   \* the gaps defrag(gap) is called with

NoGap == -1     \* defrag() without a gap

ASSUME HtmRangeAssumption == Gaps \subseteq Nat

NotDefragging == -2

VARIABLES
  los, his,     \* the keys of my_los and my_his
  loAt, hiAt,   \* the positions of their iterators
  walking,      \* no change of the range since the last reset
  gap           \* the gap of the defrag under way, or NotDefragging

vars == <<los, his, loAt, hiAt, walking, gap>>

\* An iterator is at an element of its list, at the header, at the end, or at
\* an element freed under it; never at one that was freed and is taken for
\* live (the look-ahead of HtmRange.cpp:630-635).
TypeOK ==
  /\ los \in SUBSET Ids /\ his \in SUBSET Ids
  /\ loAt \in los \cup {Header, Nil, Freed}
  /\ hiAt \in his \cup {Header, Nil, Freed}
  /\ walking \in BOOLEAN
  /\ gap \in Gaps \cup {NoGap, NotDefragging}

Init ==
  /\ los = {} /\ his = {}
  /\ loAt = Header /\ hiAt = Header
  /\ walking = FALSE
  /\ gap = NotDefragging

-----------------------------------------------------------------------------
(***************************************************************************)
(* tinside: where a key lies, judged from the ends next to it.             *)
(***************************************************************************)
InsideFromLeft(key)  == FindMAX(his, key) < FindMAX(los, key)
InsideFromRight(key) == FindMIN(his, key) < FindMIN(los, key)

\* Slips: the low and the high verdict swapped; a key at an end is outside.
Slip_TInsideSwapped(key) ==
  IF InsideFromLeft(key)
  THEN IF InsideFromRight(key) THEN "InclInside" ELSE "InclLo"
  ELSE IF InsideFromRight(key) THEN "InclHi" ELSE "InclOutside"

Slip_TInsideStrict(key) ==
  IF InsideFromLeft(key) /\ InsideFromRight(key) THEN "InclInside"
  ELSE "InclOutside"

TInside(key) ==
  IF InsideFromLeft(key)
  THEN IF InsideFromRight(key) THEN "InclInside" ELSE "InclHi"
  ELSE IF InsideFromRight(key) THEN "InclLo" ELSE "InclOutside"

\* An iterator on a freed element, though its key may be put back.
AfterFree(at, lo, hi) == IF at \in lo .. hi THEN Freed ELSE at

(***************************************************************************)
(* mergeRange, which addRange(lo, hi) calls: free the ends inside lo..hi,  *)
(* then put in the ends that do not fall inside an older interval.         *)
(***************************************************************************)
\* Slip: the ends are put in whatever tinside said.
Slip_MergeRange(lo, hi) ==
  /\ gap = NotDefragging
  /\ lo <= hi
  /\ los' = FreeRange(los, lo, hi) \cup {lo}
  /\ his' = FreeRange(his, lo, hi) \cup {hi}
  /\ loAt' = AfterFree(loAt, lo, hi)
  /\ hiAt' = AfterFree(hiAt, lo, hi)
  /\ walking' = FALSE
  /\ UNCHANGED gap

MergeRange(lo, hi) ==
  /\ gap = NotDefragging
  /\ lo <= hi
  /\ los' = FreeRange(los, lo, hi) \cup
              (IF TInside(lo) \in {"InclLo", "InclOutside"} THEN {lo} ELSE {})
  /\ his' = FreeRange(his, lo, hi) \cup
              (IF TInside(hi) \in {"InclOutside", "InclHi"} THEN {hi} ELSE {})
  /\ loAt' = AfterFree(loAt, lo, hi)
  /\ hiAt' = AfterFree(hiAt, lo, hi)
  /\ walking' = FALSE
  /\ UNCHANGED gap

Purge ==
  /\ gap = NotDefragging
  /\ los' = FreeRange(los, -1, KEY_MAX)
  /\ his' = FreeRange(his, -1, KEY_MAX)
  /\ loAt' = AfterFree(loAt, 1, KEY_MAX - 1)
  /\ hiAt' = AfterFree(hiAt, 1, KEY_MAX - 1)
  /\ walking' = FALSE
  /\ UNCHANGED gap

-----------------------------------------------------------------------------
(***************************************************************************)
(* Walks.  getNext hands out the pair the two iterators are at.            *)
(***************************************************************************)
Reset ==
  /\ gap = NotDefragging
  /\ loAt' = First(los)
  /\ hiAt' = First(his)
  /\ walking' = TRUE
  /\ UNCHANGED <<los, his, gap>>

\* Slip: only the low iterator is moved on.
Slip_GetNext ==
  /\ gap = NotDefragging
  /\ loAt \in los
  /\ hiAt \in his
  /\ loAt' = After(los, loAt)
  /\ UNCHANGED <<los, his, hiAt, walking, gap>>

GetNext ==
  /\ gap = NotDefragging
  /\ loAt \in los
  /\ hiAt \in his
  /\ loAt' = After(los, loAt)
  /\ hiAt' = After(his, hiAt)
  /\ UNCHANGED <<los, his, walking, gap>>

\* nranges, bestgap, stats, getSpan and print, and a defrag that has nothing
\* to do, reset the shared iterators and step them to the end in pairs.
WalkThrough ==
  /\ gap = NotDefragging
  /\ loAt' = Nil
  /\ hiAt' = Nil
  /\ walking' = TRUE
  /\ UNCHANGED <<los, his, gap>>

-----------------------------------------------------------------------------
(***************************************************************************)
(* defrag(g) and defrag().  With fewer than two ranges the call ends after *)
(* its nranges() (a WalkThrough); otherwise the low iterator runs one      *)
(* interval ahead of the high one.  A turn that merges steps both          *)
(* iterators before it frees the ends they were at.                        *)
(***************************************************************************)
DefragBegin(g) ==
  /\ gap = NotDefragging
  /\ After(los, First(los)) # Nil
  /\ gap' = g
  /\ loAt' = After(los, First(los))
  /\ hiAt' = First(his)
  /\ walking' = FALSE
  /\ UNCHANGED <<los, his>>

\* Slip: the missing "+ 1".
Slip_MergeableNarrow(hi, lo) == hi + gap >= lo

Mergeable(hi, lo) == hi + 1 + gap >= lo

DefragMerge ==
  /\ gap # NotDefragging
  /\ loAt \in los
  /\ Mergeable(hiAt, loAt)
  /\ los' = los \ {loAt}
  /\ his' = his \ {hiAt}
  /\ loAt' = After(los, loAt)
  /\ hiAt' = After(his, hiAt)
  /\ UNCHANGED <<walking, gap>>

\* Slip: a turn that does not merge leaves both iterators where they are.
Slip_DefragStays ==
  /\ gap # NotDefragging
  /\ loAt \in los
  /\ ~Mergeable(hiAt, loAt)
  /\ UNCHANGED vars

DefragStep ==
  /\ gap # NotDefragging
  /\ loAt \in los
  /\ ~Mergeable(hiAt, loAt)
  /\ loAt' = After(los, loAt)
  /\ hiAt' = After(his, hiAt)
  /\ UNCHANGED <<los, his, walking, gap>>

DefragEnd ==
  /\ gap # NotDefragging
  /\ loAt = Nil
  /\ gap' = NotDefragging
  /\ UNCHANGED <<los, his, loAt, hiAt, walking>>

DefragTurn == DefragMerge \/ DefragStep \/ DefragEnd

Next ==
  \/ \E lo, hi \in Ids : MergeRange(lo, hi)
  \/ Purge
  \/ Reset
  \/ GetNext
  \/ WalkThrough
  \/ \E g \in Gaps \cup {NoGap} : DefragBegin(g)
  \/ DefragTurn

\* defrag runs to its end once called; the client owes no call.
Spec == Init /\ [][Next]_vars /\ WF_vars(DefragTurn)

-----------------------------------------------------------------------------
(***************************************************************************)
(* Queries about the range.                                                *)
(***************************************************************************)
IsInKey(key) == TInside(key) # "InclOutside"

\* Slip: without the look at whether the ends of a..b are ends of the range.
Slip_IsIn(a, b) ==
  IF FindMAX(los, b) > FindMAX(los, a) THEN 0
  ELSE IF InsideFromLeft(a) THEN 1
  ELSE -1

\* isIn(a, b): 1 inside, 0 intersecting, -1 outside.
IsIn(a, b) ==
  LET GL_a == FindMAX(los, a)
      GL_b == FindMAX(los, b)
      SH_a == FindMIN(his, a)
  IN  IF a \in los /\ (b \in his \/ b \in los) THEN 1
      ELSE IF InsideFromLeft(a) /\ GL_b < FindMAX(his, b) THEN 0
      ELSE IF GL_b = a /\ SH_a = b THEN 1
      ELSE IF GL_b > GL_a THEN IF GL_b = a /\ SH_a >= b THEN 1 ELSE 0
      ELSE IF InsideFromLeft(a) THEN 1
      ELSE IF FindMIN(los, a) = b THEN 0
      ELSE -1

\* contains(a, b): 0 no intersection, -1 partial, 1 full.
Contains(a, b) ==
  CASE IsIn(a, b) = 0  -> -1
    [] IsIn(a, b) = -1 -> 0
    [] IsIn(a, b) = 1  -> 1

\* intersection(kp): the ends it leaves at -998 and -999 are not set.
Intersection(lo, hi) ==
  LET lo_flag == TInside(lo)
      hi_flag == TInside(hi)
      GH == FindMAX(his, hi)
      SL == FindMIN(los, lo)
      Pair(l, h) == [lo |-> l, hi |-> h, set |-> l <= h]
  IN  CASE lo_flag = "InclHi" -> Pair(lo, lo)
        [] lo_flag \in {"InclLo", "InclInside"} ->
             Pair(lo, CASE hi_flag = "InclOutside" -> GH
                        [] hi_flag = "InclLo" /\ lo_flag = "InclInside" -> FindMIN(his, hi)
                        [] OTHER -> hi)
        [] lo_flag = "InclOutside" ->
             CASE hi_flag = "InclInside"  -> Pair(FindMAX(los, hi), hi)
               [] hi_flag = "InclOutside" ->
                    Pair(IF SL < hi THEN SL ELSE -998, IF lo < GH THEN GH ELSE -999)
               [] hi_flag = "InclLo"      -> Pair(hi, hi)
               [] hi_flag = "InclHi"      -> Pair(-998, -999)

-----------------------------------------------------------------------------
(***************************************************************************)
(* Properties.                                                             *)
(***************************************************************************)

\* k lies behind a low end with no high end in between.
Opened(L, H, k) == \E l \in L : l <= k /\ \A h \in H : ~(l <= h /\ h < k)

\* The keys the range stands for.
Covered == {k \in Ids : Opened(los, his, k)}

\* The two lists pair up, although they are changed separately: every low end
\* is closed by a high end before the next low end, and every high end is
\* opened by a low end after the previous high end.
Alternate(L, H) ==
  /\ \A l \in L : \E h \in H : l <= h
  /\ \A h \in H : \E l \in L : l <= h
  /\ \A l1, l2 \in L : l1 < l2 => \E h \in H : l1 <= h /\ h < l2
  /\ \A h1, h2 \in H : h1 < h2 => \E l \in L : h1 < l /\ l <= h2

EndsAlternate == Alternate(los, his)

\* h is the high end of the interval that l begins.
Closes(h, l) ==
  /\ l \in los /\ h \in his /\ l <= h
  /\ \A h2 \in his : ~(l <= h2 /\ h2 < h)

\* While the range is not changed, the two iterators are at the two ends of
\* one interval or both at the end of their lists: what getNext hands out are
\* intervals of the range (HtmRange.cpp:1129-1152).  A walk that print or
\* nranges has moved to the end hands out no more of them.
WalkIsPaired ==
  walking => \/ loAt = Nil /\ hiAt = Nil
             \/ Closes(hiAt, loAt)

\* In defrag's loop the high iterator is at the end of the interval before
\* the one the low iterator begins; neither is ever at a freed element, and
\* all gaps behind them are too wide to merge (HtmRange.cpp:614-653).
DefragLookAhead ==
  gap # NotDefragging =>
    /\ \/ loAt = Nil /\ \A h \in his : h <= hiAt
       \/ /\ loAt \in los /\ hiAt \in his /\ hiAt < loAt
          /\ \A e \in los \cup his : ~(hiAt < e /\ e < loAt)
    /\ \A h \in his, l \in los : h < l /\ l <= hiAt => ~Mergeable(h, l)

\* isIn(key) finds every key of the range but the single key of an interval
\* [k, k], and no other key (HtmRange.cpp:269).
KeysFound ==
  \A k \in Ids : IsInKey(k) <=> k \in Covered /\ ~(k \in los /\ k \in his)

\* contains(a, b) answers 0 exactly when no key of a..b is in the range, 1
\* whenever one interval of the range holds all of them, and where it answers
\* 1 wrongly, a is a low end (HtmRange.cpp:323).
ContainsIsNearlyRight ==
  \A a \in Ids : \A b \in a .. KEY_MAX - 1 :
     /\ Contains(a, b) = 0 <=> a .. b \cap Covered = {}
     /\ (\E l, h \in Ids : Closes(h, l) /\ l <= a /\ b <= h)
          => Contains(a, b) = 1
     /\ Contains(a, b) = 1 => a .. b \subseteq Covered \/ a \in los

\* Where a..b meets one interval l..h, intersection answers what the two share; but nothing if
\* b is the end of an interval that begins above a, or an end of a..b is the single key of
\* [k, k].  Where it meets none, the answer is not set (HtmRange.cpp:335).
IntersectionIsNearlyRight ==
  \A a \in Ids : \A b \in a .. KEY_MAX - 1 :
     /\ a .. b \cap Covered = {} => ~Intersection(a, b).set
     /\ \A l, h \in Ids : Closes(h, l) /\ l <= b /\ a <= h /\ a .. b \cap Covered \subseteq l .. h =>
          LET missed == (a < l /\ b = h) \/ (l = h /\ l \in {a, b})
              shared == [lo |-> Max({a, l}), hi |-> Min({b, h}), set |-> TRUE]
          IN  IF missed THEN ~Intersection(a, b).set ELSE Intersection(a, b) = shared

\* What is asked of a range is answered as far as the code gets it right.
QueriesAreNearlyRight == ContainsIsNearlyRight /\ IntersectionIsNearlyRight

Abs == INSTANCE IntervalSet WITH covered <- Covered

\* mergeRange adds the keys of its interval and no others, whichever intervals
\* it overlaps, touches, swallows or falls into; purge removes all; walking and
\* beginning or ending a defrag change nothing.
MergeIsUnion ==
  [][/\ \A lo, hi \in Ids : MergeRange(lo, hi) => Covered' = Covered \cup lo .. hi
     /\ Purge => Covered' = {}]_vars

\* defrag() without a gap never has anything to merge: two intervals of the
\* range always leave a positive distance (HtmRange.cpp:675).
PlainDefragChangesNothing ==
  [][gap = NoGap => UNCHANGED <<los, his>>]_vars

\* The two lists implement the abstract set; in particular a defrag closes
\* only gaps of the given width and has closed all of them when it ends.
ImplementsIntervalSet == Abs!Spec

\* defrag always comes to an end.
DefragEnds == [](gap # NotDefragging => <>(gap = NotDefragging))
=============================================================================
