---------------------------- MODULE SpatialRange ----------------------------
(***************************************************************************)
(* SpatialRange (src/src/SpatialRange.cpp, src/include/SpatialRange.h):    *)
(* what it asks of the intervals that an HtmRangeMultiLevel holds, as sets *)
(* of pairs <<low end, high end>>.  That the lists hold such intervals is  *)
(* what module HtmRangeMultiLevel is about.                                *)
(***************************************************************************)
EXTENDS EmbeddedLevel, OrderedKeys, SequencesExt

\* HstmRange::addRange of a value and the value or terminator it ends with.
IntervalOf(a, b) ==
  <<a, IF LevelById(b) = LevelMask THEN b ELSE Terminate(b, LevelById(b))>>

\* addSpatialIntervals, for intervals that do not overlap: a value, whose location bits below
\* its level are cleared, is paired with the terminator behind it or ends with its own.
AddSpatialIntervals(intervals) ==
  LET IsTerm(k) == LevelById(intervals[k]) = LevelMask
      Cleared(k) == ClearDeeperThanLevel(intervals[k], LevelById(intervals[k]))
      Ending(k) == IF k < Len(intervals) /\ IsTerm(k + 1) THEN intervals[k + 1] ELSE intervals[k]
  IN  {IntervalOf(Cleared(k), Ending(k)) : k \in {n \in DOMAIN intervals : ~IsTerm(n)}}

\* getNextSpatialInterval: a single triangle comes back as its value alone.
SpatialInterval(i) ==
  IF i[1] = i[2] \/ i[2] = Terminate(i[1], LevelById(i[1])) THEN <<i[1]>> ELSE i

\* toSpatialIntervals, in the order of the lists.
ToSpatialIntervals(range) ==
  FlattenSeq([k \in 1 .. Cardinality(range) |->
    SpatialInterval(SetToSortSeq(range, LAMBDA i, j : i[1] < j[1])[k])])

\* contains(siv), HtmRangeMultiLevel::isIn(key), tinside: the key of a value is not outside.
\* A range that ends with the last trixel has KEY_MAX among its high ends, for which findMIN
\* answers KEY_MIN: below all low ends, so that whatever comes after the other intervals is
\* contained.
ContainsValue(range, siv) ==
  LET los == {i[1] : i \in range}
      his == {i[2] : i \in range}
  IN  FindMAX(his, siv) < FindMAX(los, siv) \/ FindMIN(his, siv) < FindMIN(los, siv)

\* HRML_AtLevelFromMultiLevel: coarser intervals are taken to the level, finer ones stay.
AtLevelFromMultiLevel(level, i) ==
  IF LevelById(i[1]) < level THEN <<i[1] - LevelById(i[1]) + level, i[2]>> ELSE i

\* RangeFromIntersection, before it is tidied up: every interval of range1, from the last
\* one of range2 that begins below it on.  Null when one of the ranges is empty.
Null == "null"

RangeFromIntersection(range1, range2) ==
  LET level == LevelById(First({i[1] : i \in range1}))
      At(r) == {AtLevelFromMultiLevel(level, i) : i \in r}
      From(lo) == {j \in range2 : ~\E k \in range2 : j[1] < k[1] /\ k[1] < lo}
      Common(i, j) == <<Max({i[1], j[1]}), Min({i[2], j[2]})>>
  IN  IF range1 = {} \/ range2 = {} THEN Null
      ELSE UNION {{Common(i, j) : j \in {k \in At(From(i[1])) : k[1] <= i[2] /\ k[2] >= i[1]}} :
                    i \in At(range1)}

\* sr_intersect, reset and getNext: at_least_one.
AtLeastOne(range1, range2) == RangeFromIntersection(range1, range2) # {}
=============================================================================
