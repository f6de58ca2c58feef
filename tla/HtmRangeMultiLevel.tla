------------------------- MODULE HtmRangeMultiLevel -------------------------
(***************************************************************************)
(* HtmRangeMultiLevel of src/src/HtmRangeMultiLevel.cpp: intervals of      *)
(* index values, each at the level its low end carries, in two skip lists. *)
(* The list of low ends also stores the high end of each interval as the   *)
(* value of its low end.  mergeRange, defrag and CompressionPass loop over *)
(* the intervals with the one iterator each list has; every turn of such a *)
(* loop is an action, and call holds the loop's locals.                    *)
(***************************************************************************)
EXTENDS EmbeddedLevel, OrderedKeys, Functions

CONSTANTS
  Ranges,          \* the intervals <<lo, hi>> clients merge
  errorCountMax,   \* 100 in the program
  AnyRange         \* FALSE: clients leave out what case 5.2 cuts wrongly

ASSUME HtmRangeMultiLevelAssumption ==
  /\ KEY_MAX >= EndOfKeys - 1     \* the last terminator, in the program KEY_MAX itself
  /\ errorCountMax \in Nat
  /\ AnyRange \in BOOLEAN
  /\ Ranges \subseteq Nat \X Nat
  /\ \A r \in Ranges :
       /\ LevelById(r[1]) \in Levels
       /\ r[1] = Truncate(r[1], LevelById(r[1])) + LevelById(r[1])
       /\ r[2] = Terminate(r[2], LevelById(r[1]))
       /\ r[1] < r[2] /\ r[2] < EndOfKeys

VARIABLES
  los,          \* my_los: a function from the low ends to their high ends
  his,          \* the keys of my_his
  loAt, hiAt,   \* the positions of the two iterators
  call          \* the locals of the loop under way, or Idle

vars == <<los, his, loAt, hiAt, call>>

Idle == [op |-> "idle"]

Init ==
  /\ los = << >> /\ his = {}
  /\ loAt = Header /\ hiAt = Header
  /\ call = Idle

-----------------------------------------------------------------------------
(***************************************************************************)
(* What the intervals stand for.                                           *)
(***************************************************************************)
Lows == DOMAIN los

\* The level each position is covered at; a position's intervals are those
\* that reach over it.
LevelAt ==
  LET levels(p) == {LevelById(l) : l \in {x \in Lows : /\ Position(x) <= p
                                                       /\ p <= Position(los[x])}}
  IN  [p \in Positions |-> Min(levels(p) \cup {Depth + 1})]

\* The lists are changed by freeing both of them over from..to and putting in
\* new intervals, pairs <<lo, hi>>.
Nowhere == <<1, 0>>

Rewrite(freed, intervals) ==
  LET kept == FreeRange(Lows, freed[1], freed[2])
      Value(l) == IF \E i \in intervals : i[1] = l
                  THEN (CHOOSE i \in intervals : i[1] = l)[2]
                  ELSE los[l]
  IN  /\ los' = [l \in kept \cup {i[1] : i \in intervals} |-> Value(l)]
      /\ his' = FreeRange(his, freed[1], freed[2]) \cup {i[2] : i \in intervals}

\* Where the iterators are left: at the first interval, or where they were
\* (on a deleted element if that is what they were at).
RewindIterators == loAt' = First(DOMAIN los') /\ hiAt' = First(his')

KeepIterators(freed) ==
  LET left(at) == IF at \in freed[1] .. freed[2] THEN Freed ELSE at
  IN  loAt' = left(loAt) /\ hiAt' = left(hiAt)

StepIterators == loAt' = After(Lows, loAt) /\ hiAt' = After(his, hiAt)

-----------------------------------------------------------------------------
(***************************************************************************)
(* mergeRange(lo, hi).  lo1..hi1 is what is left to merge, and loAt..hiAt  *)
(* the interval the loop is at, l..h in the program.  before is no local   *)
(* of the program but remembers the levels when the call began.            *)
(***************************************************************************)
FirstRange(lo, hi) ==
  /\ call = Idle
  /\ Lows = {}
  /\ Rewrite(Nowhere, {<<lo, hi>>})
  /\ UNCHANGED <<loAt, hiAt, call>>

MergeBegin(lo, hi) ==
  /\ call = Idle
  /\ Lows # {}
  /\ call' = [op |-> "merge", lo |-> lo, hi |-> hi, lo1 |-> lo, hi1 |-> hi,
              errors |-> 0, before |-> LevelAt]
  /\ loAt' = First(Lows) /\ hiAt' = First(his)
  /\ UNCHANGED <<los, his>>

Level   == LevelById(call.lo)   \* level
LLevel  == LevelById(loAt)      \* l_level

\* How what is left to merge lies to the interval the loop is at.
Lies ==
  IF hiAt < call.lo1 THEN "notYetThere"
  ELSE IF call.hi1 < loAt THEN "below"
  ELSE IF call.lo1 < loAt
       THEN IF call.hi1 <= hiAt THEN "overlapsLow" ELSE "covers"
       ELSE IF call.hi1 <= hiAt THEN "isIn" ELSE "overlapsHigh"

AtInterval(lies) ==
  /\ call.op = "merge"
  /\ loAt >= 0
  /\ Lies = lies

Segment(lo, hi) == IF lo < hi THEN {<<lo, hi>>} ELSE {}

NotYetThere ==
  /\ AtInterval("notYetThere")
  /\ StepIterators
  /\ call' = [call EXCEPT !.errors = @ + 1]
  /\ UNCHANGED <<los, his>>

\* Case 1: A is below B.
MergeBelow ==
  /\ AtInterval("below")
  /\ Rewrite(Nowhere, {<<call.lo1, call.hi1>>})
  /\ call' = Idle
  /\ UNCHANGED <<loAt, hiAt>>

\* Case 2.1: at the same level, merge the two.
MergeLowSame ==
  /\ AtInterval("overlapsLow")
  /\ Level = LLevel
  /\ Rewrite(<<call.lo1, hiAt>>, {<<call.lo1, hiAt>>})
  /\ KeepIterators(<<call.lo1, hiAt>>)
  /\ call' = Idle

\* Case 2.2: the current interval is coarser and stays.
MergeLowFiner ==
  /\ AtInterval("overlapsLow")
  /\ Level > LLevel
  /\ Rewrite(Nowhere, {<<call.lo1, Predecessor(loAt, Level)>>})
  /\ call' = Idle
  /\ UNCHANGED <<loAt, hiAt>>

\* Case 2.3: the new interval is coarser, the current one is trimmed.
MergeLowCoarser ==
  LET l_p == Successor(call.hi1, LLevel)
      cut == Predecessor(l_p, Level)
      h_0 == IF cut < 0 THEN hiAt ELSE cut
  IN  /\ AtInterval("overlapsLow")
      /\ Level < LLevel
      /\ Rewrite(<<call.lo1, hiAt>>,
                 {<<call.lo1, h_0>>} \cup
                   (IF h_0 < hiAt THEN {<<l_p, hiAt>>} ELSE {}))
      /\ RewindIterators
      /\ call' = Idle

\* Slip: go on above the finer interval.
Slip_MergeOver ==
  /\ AtInterval("covers")
  /\ Level <= LLevel
  /\ Rewrite(<<loAt, hiAt>>, {})
  /\ RewindIterators
  /\ call' = [call EXCEPT !.lo1 = Successor(hiAt, Level)]

\* Case 4.2.2: the new interval covers a finer one; try again without it.
MergeOver ==
  /\ AtInterval("covers")
  /\ Level <= LLevel
  /\ Rewrite(<<loAt, hiAt>>, {})
  /\ RewindIterators
  /\ UNCHANGED call

\* Case 4.2.1: the new interval covers a coarser one; go on above it.
MergeAround ==
  /\ AtInterval("covers")
  /\ Level > LLevel
  /\ Rewrite(Nowhere, Segment(call.lo1, Predecessor(loAt, Level)))
  /\ RewindIterators
  /\ call' = [call EXCEPT !.lo1 = Successor(hiAt, Level)]

\* Case 4: A is in B, which is as coarse or coarser.
MergeInCoarser ==
  /\ AtInterval("isIn")
  /\ Level >= LLevel
  /\ call' = Idle
  /\ UNCHANGED <<los, his, loAt, hiAt>>

\* Slip: the part of B above A is not put back.
Slip_MergeInFiner ==
  /\ AtInterval("isIn")
  /\ Level < LLevel
  /\ Rewrite(<<loAt, hiAt>>,
             Segment(loAt, Predecessor(call.lo1, LLevel)) \cup
             {<<call.lo1, call.hi1>>})
  /\ KeepIterators(<<loAt, hiAt>>)
  /\ call' = Idle

\* Case 4: A is in B, which is finer and is cut in three.
MergeInFiner ==
  /\ AtInterval("isIn")
  /\ Level < LLevel
  /\ Rewrite(<<loAt, hiAt>>,
             Segment(loAt, Predecessor(call.lo1, LLevel)) \cup
             {<<call.lo1, call.hi1>>} \cup
             Segment(Successor(call.hi1, LLevel), hiAt))
  /\ KeepIterators(<<loAt, hiAt>>)
  /\ call' = Idle

\* Case 5.1: the current interval is as coarse or coarser; go on above it.
\* A merge that has stepped over too many intervals is given up here.
MergeHighFiner ==
  /\ AtInterval("overlapsHigh")
  /\ Level >= LLevel
  /\ call.errors < errorCountMax
  /\ call' = [call EXCEPT !.lo1 = Successor(hiAt, Level),
                          !.errors = @ + 1]
  /\ StepIterators
  /\ UNCHANGED <<los, his>>

MergeThrows ==
  /\ AtInterval("overlapsHigh")
  /\ Level >= LLevel
  /\ call.errors >= errorCountMax
  /\ call' = Idle
  /\ UNCHANGED <<los, his, loAt, hiAt>>

\* Slip: the part of the current interval below the new one is not put back.
Slip_MergeHighCoarser ==
  LET l_p == Successor(hiAt, Level)
      h_0 == Predecessor(l_p, Level)
  IN  /\ AtInterval("overlapsHigh")
      /\ Level < LLevel
      /\ Rewrite(<<loAt, h_0>>, {<<call.lo1, h_0>>})
      /\ RewindIterators
      /\ call' = IF call.hi1 > l_p THEN [call EXCEPT !.lo1 = l_p] ELSE Idle

\* Case 5.2: the new interval is coarser and takes the end of the current one,
\* up to the end of the coarse triangle it ends in.
MergeHighCoarser ==
  LET l_p == Successor(hiAt, Level)
      h_0 == Predecessor(l_p, Level)
  IN  /\ AtInterval("overlapsHigh")
      /\ Level < LLevel
      /\ Rewrite(<<loAt, h_0>>,
                 Segment(loAt, Predecessor(call.lo1, LLevel)) \cup
                 {<<call.lo1, h_0>>})
      /\ RewindIterators
      /\ call' = IF call.hi1 > l_p THEN [call EXCEPT !.lo1 = l_p] ELSE Idle

\* Case 6: past the last interval.
MergeEnd ==
  /\ call.op = "merge"
  /\ loAt < 0
  /\ Rewrite(Nowhere, {<<call.lo1, call.hi1>>})
  /\ call' = Idle
  /\ UNCHANGED <<loAt, hiAt>>

MergeTurn ==
  \/ NotYetThere \/ MergeBelow
  \/ MergeLowSame \/ MergeLowFiner \/ MergeLowCoarser
  \/ MergeOver \/ MergeAround
  \/ MergeInCoarser \/ MergeInFiner
  \/ MergeHighFiner \/ MergeThrows \/ MergeHighCoarser
  \/ MergeEnd

-----------------------------------------------------------------------------
(***************************************************************************)
(* The other calls.                                                        *)
(***************************************************************************)
Purge ==
  /\ call = Idle
  /\ Rewrite(<<-1, KEY_MAX>>, {})
  /\ KeepIterators(<<0, KEY_MAX>>)
  /\ UNCHANGED call

Reset ==
  /\ call = Idle
  /\ loAt' = First(Lows) /\ hiAt' = First(his)
  /\ UNCHANGED <<los, his, call>>

GetNext ==
  /\ call = Idle
  /\ loAt \in Lows /\ hiAt \in his
  /\ StepIterators
  /\ UNCHANGED <<los, his, call>>

\* nranges, verify, print and a defrag that has nothing to do.
WalkThrough ==
  /\ call = Idle
  /\ loAt' = Nil /\ hiAt' = Nil
  /\ UNCHANGED <<los, his, call>>

(***************************************************************************)
(* defrag() merges an interval with the one before it, lo0.., when both    *)
(* have the same level and no triangle lies between them.                  *)
(***************************************************************************)
DefragBegin ==
  /\ call = Idle
  /\ After(Lows, First(Lows)) # Nil
  /\ call' = [op |-> "defrag", lo0 |-> First(Lows)]
  /\ loAt' = After(Lows, First(Lows)) /\ hiAt' = First(his)
  /\ UNCHANGED <<los, his>>

\* Slip: whatever the levels are.
Slip_Connected(lo0, hi0, lo1) == Predecessor(lo1, LevelById(lo0)) <= hi0

Connected(lo0, hi0, lo1) ==
  /\ LevelById(lo0) = LevelById(lo1)
  /\ Predecessor(lo1, LevelById(lo0)) <= hi0

\* The low end lo1 and the high end hi0 go, and lo0 takes the high end hi1.
Join(lo0, hi0, lo1, hi1) ==
  /\ los' = [l \in Lows \ {lo1} |-> IF l = lo0 THEN hi1 ELSE los[l]]
  /\ his' = (his \ {hi0}) \cup {hi1}

DefragMerge ==
  LET hi1 == After(his, hiAt)
  IN  /\ call.op = "defrag"
      /\ loAt >= 0
      /\ Connected(call.lo0, hiAt, loAt)
      /\ Join(call.lo0, hiAt, loAt, hi1)
      /\ loAt' = After(Lows, loAt)
      /\ hiAt' = hi1
      /\ UNCHANGED call

DefragStep ==
  /\ call.op = "defrag"
  /\ loAt >= 0
  /\ ~Connected(call.lo0, hiAt, loAt)
  /\ StepIterators
  /\ call' = [call EXCEPT !.lo0 = loAt]
  /\ UNCHANGED <<los, his>>

DefragEnd ==
  /\ call.op = "defrag"
  /\ loAt < 0
  /\ call' = Idle
  /\ UNCHANGED <<los, his, loAt, hiAt>>

DefragTurn == DefragMerge \/ DefragStep \/ DefragEnd

(***************************************************************************)
(* CompressionPass stitches connected intervals of one level together and  *)
(* replaces full families of siblings by their parents, from the first     *)
(* interval to the last, until a pass changes nothing (or once).           *)
(***************************************************************************)
CompressBegin(onepass) ==
  /\ call = Idle
  /\ call' = [op |-> "compress", onepass |-> onepass, changed |-> FALSE,
              lo0 |-> Nil, hi0 |-> Nil]
  /\ loAt' = First(Lows) /\ hiAt' = First(his)
  /\ UNCHANGED <<los, his>>

CompressTake ==
  /\ call.op = "compress"
  /\ call.lo0 = Nil
  /\ loAt >= 0
  /\ call' = [call EXCEPT !.lo0 = loAt, !.hi0 = hiAt]
  /\ StepIterators
  /\ UNCHANGED <<los, his>>

Stitchable ==
  /\ loAt >= 0 /\ hiAt # -1
  /\ LevelById(loAt) = LevelById(call.lo0)
  /\ Predecessor(loAt, LevelById(loAt)) = call.hi0

CompressStitch ==
  /\ call.op = "compress"
  /\ call.lo0 # Nil
  /\ Stitchable
  /\ Join(call.lo0, call.hi0, loAt, hiAt)
  /\ StepIterators
  /\ call' = [call EXCEPT !.hi0 = hiAt]

\* Slip: one triangle more is asked for.
Slip_TooFew(delta, number0) == delta <= Fanout - 1 + number0

\* The test whether there can be a full family in delta + 1 triangles.
TooFew(delta, number0) == delta < Fanout - 1 + number0

\* The pieces of lo0..hi0: up to the first parent, the parents, what is left;
\* one piece when no family is full.
Pieces(lo0, hi0) ==
  LET level0  == LevelById(lo0)
      number0 == LocalTriangleNumber(lo0)
      delta   == BareId(IdFromTerminator(hi0, level0)) - BareId(lo0)
      toFirst == (Fanout - number0) % Fanout
      parents == (1 + delta - toFirst) \div Fanout
      lo_cut  == Increment(lo0, level0, toFirst)
      lo_last == Increment(lo_cut, level0, Fanout * parents)
  IN  IF level0 = 0 \/ TooFew(delta, number0) \/ parents = 0
      THEN {<<lo0, hi0>>}
      ELSE Segment(lo0, Predecessor(lo_cut, level0)) \cup
           {<<lo_cut - 1, Predecessor(lo_last, level0)>>} \cup
           Segment(lo_last, hi0)

CompressCoalesce ==
  LET pieces == Pieces(call.lo0, call.hi0)
  IN  /\ call.op = "compress"
      /\ call.lo0 # Nil
      /\ ~Stitchable
      /\ Rewrite(<<call.lo0, call.lo0>>, pieces)
      /\ call' = [call EXCEPT !.lo0 = Nil, !.hi0 = Nil,
                    !.changed = @ \/ pieces # {<<call.lo0, call.hi0>>}]
      /\ UNCHANGED <<loAt, hiAt>>

\* Slip: changed is not reset for the next pass.
Slip_CompressAgain ==
  /\ call.op = "compress"
  /\ call.lo0 = Nil
  /\ loAt < 0
  /\ call.changed /\ ~call.onepass
  /\ loAt' = First(Lows) /\ hiAt' = First(his)
  /\ UNCHANGED <<los, his, call>>

CompressAgain ==
  /\ call.op = "compress"
  /\ call.lo0 = Nil
  /\ loAt < 0
  /\ call.changed /\ ~call.onepass
  /\ call' = [call EXCEPT !.changed = FALSE]
  /\ loAt' = First(Lows) /\ hiAt' = First(his)
  /\ UNCHANGED <<los, his>>

CompressEnd ==
  /\ call.op = "compress"
  /\ call.lo0 = Nil
  /\ loAt < 0
  /\ ~call.changed \/ call.onepass
  /\ call' = Idle
  /\ UNCHANGED <<los, his, loAt, hiAt>>

CompressTurn ==
  CompressTake \/ CompressStitch \/ CompressCoalesce \/ CompressAgain \/ CompressEnd

-----------------------------------------------------------------------------
(***************************************************************************)
(* What clients do.  A merge of a coarse range into finer intervals goes   *)
(* wrong in case 5.2 when one interval a ends inside a triangle of the new *)
(* range and another, b, begins in it and reaches past it: freeRange takes *)
(* b's low end and leaves its high end.                                    *)
(***************************************************************************)
CutsStraddler(lo, hi) ==
  \E a, b \in Lows :
     LET end == Terminate(los[a], LevelById(lo))
     IN  /\ LevelById(a) > LevelById(lo)
         /\ a < lo /\ lo <= los[a] /\ los[a] < hi
         /\ los[a] < b /\ b <= end /\ end < los[b]

MergeRange(lo, hi) ==
  /\ AnyRange \/ ~CutsStraddler(lo, hi)
  /\ FirstRange(lo, hi) \/ MergeBegin(lo, hi)

Turn == MergeTurn \/ DefragTurn \/ CompressTurn

Next ==
  \/ \E r \in Ranges : MergeRange(r[1], r[2])
  \/ Purge
  \/ Reset
  \/ GetNext
  \/ WalkThrough
  \/ DefragBegin
  \/ \E onepass \in BOOLEAN : CompressBegin(onepass)
  \/ Turn

\* A loop runs to its end once called; clients owe no call.
Spec == Init /\ [][Next]_vars /\ WF_vars(Turn)

-----------------------------------------------------------------------------
(***************************************************************************)
(* Properties.                                                             *)
(***************************************************************************)
Calls ==
  {Idle}
    \cup [op : {"merge"}, lo : Int, hi : Int, lo1 : Int, hi1 : Int,
          errors : Nat, before : [Positions -> 0 .. Depth + 1]]
    \cup [op : {"defrag"}, lo0 : Int]
    \cup [op : {"compress"}, onepass : BOOLEAN, changed : BOOLEAN,
          lo0 : Int, hi0 : Int]

TypeOK ==
  /\ Lows \subseteq 0 .. EndOfKeys - 1
  /\ his \subseteq 0 .. EndOfKeys - 1
  /\ loAt \in Lows \cup {Header, Nil, Freed}
  /\ hiAt \in his \cup {Header, Nil, Freed}
  /\ call \in Calls

\* After every turn of every loop the two lists pair up and the value stored
\* with a low end is its high end: verify() would answer 0
\* (HtmRangeMultiLevel.cpp:2065), which RangeFromIntersection relies on.
EndsPaired ==
  /\ his = {los[l] : l \in Lows}
  /\ \A l \in Lows : l < los[l]
  /\ \A l1, l2 \in Lows : l1 < l2 => los[l1] < l2

\* Every interval is a run of whole triangles of the level its low end carries,
\* however it was trimmed by merges of other levels (the "verify no gaps" and
\* "verify edge case" of HtmRangeMultiLevel.cpp:829, :832, :887, :1007).
WholeTriangles ==
  \A l \in Lows :
     /\ LevelById(l) \in Levels
     /\ l = Truncate(l, LevelById(l)) + LevelById(l)
     /\ los[l] = Terminate(los[l], LevelById(l))

\* The iterators are at the two ends of one interval, or neither is at any.
AtOneInterval ==
  \/ loAt = hiAt /\ loAt \in {Header, Nil, Freed}
  \/ loAt \in Lows /\ hiAt = los[loAt]

\* The iterators stay in step: getNext never hands out the ends of different
\* intervals, and the loops, whose look-ahead frees elements around the
\* iterators, always compare neighbouring intervals.
InStep ==
  /\ call.op = "idle" => AtOneInterval \/ loAt = Nil
  /\ call.op = "merge" => AtOneInterval /\ loAt # Freed
  /\ call.op = "defrag" => /\ call.lo0 \in Lows /\ hiAt = los[call.lo0]
                           /\ loAt = After(Lows, call.lo0)
  /\ call.op = "compress" => /\ AtOneInterval /\ loAt # Freed
                             /\ call.lo0 # Nil =>
                                  /\ call.lo0 \in Lows
                                  /\ call.hi0 = los[call.lo0]
                                  /\ loAt = After(Lows, call.lo0)

Map == INSTANCE LevelMap
         WITH levelAt <- IF call.op = "merge" THEN call.before ELSE LevelAt

WithRange(map, lo, hi) == Map!Merged(map, Position(lo), Position(hi), Level)

\* Between two turns of mergeRange the intervals together with what is left to
\* merge are the map the call began with together with the whole range; and
\* case 5.1 never finds the rest empty, where it would return without adding
\* it (HtmRangeMultiLevel.cpp:906-915).
MergeProgress ==
  call.op = "merge" =>
    /\ WithRange(LevelAt, call.lo1, call.hi1)
         = WithRange(call.before, call.lo, call.hi)
    /\ AtInterval("overlapsHigh") /\ Level >= LLevel
         => Successor(hiAt, Level) <= call.hi1

\* After every turn of every loop the lists pair up to whole triangles, the iterators keep in
\* step with them, and a merge has still to do what is missing.
RangeIsWellFormed == TypeOK /\ EndsPaired /\ WholeTriangles /\ InStep /\ MergeProgress

\* A merge that ends has merged its whole range, and one that throws exactly
\* the part below the interval it gave up at.
MergeIsWhole ==
  [][call.op = "merge" /\ call' = Idle =>
       LevelAt' = IF Lies = "overlapsHigh" /\ Level >= LLevel
                  THEN WithRange(call.before, call.lo, call.lo1 - Unit)
                  ELSE WithRange(call.before, call.lo, call.hi)]_vars

\* defrag changes no level of any position, and CompressionPass only where the
\* children of a triangle are all covered at their own level.
OnlyCoalescingCoarsens ==
  [][/\ call.op = "defrag" => UNCHANGED LevelAt
     /\ call.op = "compress" => UNCHANGED LevelAt \/ Map!Coalesce]_vars

CompressionEnds == call.op = "compress" /\ ~call.onepass /\ call' = Idle

\* A CompressionPass that has run until nothing changes coarsens "where possible"
\* (SpatialRange.h:67), with one exception: a family of four is left at its own level inside
\* an interval of five or six triangles that begins with a last child, for the test whether
\* there can be a family counts on one triangle too many (delta < 3 + triangleNumber0,
\* HtmRangeMultiLevel.cpp:2272).  However the intervals were put together, over all levels,
\* every other family has become its parent.
OnlyShortIntervalsKeepFamilies ==
  [][CompressionEnds =>
       \A l \in Levels \ {0} : \A n \in Map!FullFamilies(LevelAt, l) :
         \E lo \in Lows :
           /\ LevelById(lo) = l /\ LocalTriangleNumber(lo) = Fanout - 1
           /\ BareId(IdFromTerminator(los[lo], l)) - BareId(lo) < Fanout - 1 + (Fanout - 1)
           /\ Map!Family(n, l) \subseteq Position(lo) .. Position(los[lo])]_vars

\* The two lists implement the map of levels.
ImplementsLevelMap == Map!Spec

\* Every call comes to an end.
CallsEnd == [](call # Idle => <>(call = Idle))
=============================================================================
