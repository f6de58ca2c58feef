---------------------------- MODULE SpatialValues ----------------------------
(***************************************************************************)
(* What src/src/STARE.cpp does to arrays of spatial index values: intervals*)
(* expanded into the values of their triangles, plainly or with the        *)
(* families of four taken together (expandIntervals,                       *)
(* expandIntervalsMultiRes), and the resolution of every value adapted to  *)
(* the nearest of the others (adaptSpatialResolutionEstimates).            *)
(***************************************************************************)
EXTENDS SpatialRange, Bitwise

CONSTANTS
  Expansions,       \* what is asked of expandIntervalsMultiRes
  Adaptations,      \* what is asked of adaptSpatialResolutionEstimates
  Estimate(_, _)    \* of two positions: the level whose triangles are as wide as they are apart

VARIABLES
  task,
  intervals,                  \* what is left of the intervals
  expanded_values,            \* a sorted vector without repetitions: a set
  remaining_interval, working_interval,
  s_indices, lvl_maxes, i

expansion  == <<intervals, expanded_values, remaining_interval, working_interval>>
adaptation == <<s_indices, lvl_maxes, i>>
vars == <<task, expansion, adaptation>>

IsTerminator(siv) == LevelById(siv) = LevelMask

Init ==
  /\ \/ task \in Expansions /\ intervals = task.intervals /\ s_indices = <<>>
     \/ task \in Adaptations /\ intervals = <<>> /\ s_indices = task.s_indices
  /\ expanded_values = {} /\ remaining_interval = <<>> /\ working_interval = <<>>
  /\ lvl_maxes = [k \in DOMAIN s_indices |-> 0] /\ i = 1

-----------------------------------------------------------------------------
\* sTerminator
STerminator(siv) == IF IsTerminator(siv) THEN siv ELSE Terminate(siv, LevelById(siv))

\* Slip: a terminator that ends the interval is not looked at.
Slip_ExpandInterval(interval, force_resolution) ==
  LET level == IF force_resolution > -1 THEN force_resolution ELSE LevelById(interval[1])
      siv0  == Truncate(interval[1], level) + level
  IN  {siv0 + n * KeySpan(level) :
         n \in 0 .. (STerminator(interval[1]) - siv0 - 1) \div KeySpan(level)}

\* From the value, at the level forced, up to the terminator of the value or the interval.
ExpandInterval(interval, force_resolution) ==
  LET level == IF force_resolution > -1 THEN force_resolution ELSE LevelById(interval[1])
      term  == IF Len(interval) > 1 THEN interval[2] ELSE STerminator(interval[1])
      siv0  == Truncate(interval[1], level) + level
  IN  {siv0 + n * KeySpan(level) : n \in 0 .. (term - siv0 - 1) \div KeySpan(level)}

Remaining == remaining_interval # <<>> /\ remaining_interval[1] < remaining_interval[2]

IntervalDone == working_interval = <<>> /\ ~Remaining

\* A turn of expandIntervalsMultiRes: a value, and the terminator after it.
TakeInterval ==
  LET paired   == Len(intervals) > 1 /\ IsTerminator(intervals[2])
      interval == IF paired THEN SubSeq(intervals, 1, 2) ELSE <<Head(intervals)>>
  IN
  /\ intervals # <<>> /\ IntervalDone
  /\ intervals' = SubSeq(intervals, Len(interval) + 1, Len(intervals))
  /\ IF paired /\ task.multi_resolution
     THEN remaining_interval' = interval /\ UNCHANGED expanded_values
     ELSE /\ expanded_values' =
               expanded_values \cup ExpandInterval(interval, task.force_resolution)
          /\ remaining_interval' = <<>>
  /\ UNCHANGED <<task, working_interval, adaptation>>

StartWorking ==
  /\ working_interval = <<>> /\ Remaining
  /\ working_interval' = remaining_interval
  /\ UNCHANGED <<task, intervals, expanded_values, remaining_interval, adaptation>>

Level == LevelById(working_interval[1])

\* delta_to_first
ToFirstSibling == (Fanout - LocalTriangleNumber(working_interval[1])) % Fanout

\* number_of_full_parents
FullParents ==
  LET bareLo == BareId(working_interval[1])
      bareHi == Position(working_interval[2]) \div Span(Level)
  IN  IF Level = 0 THEN 0 ELSE (2 + bareHi - bareLo - ToFirstSibling) \div Fanout

\* Slip: what remains begins where it began.
Slip_Advanced(lo, hi, step) == lo

\* lo, advanced in steps until it is above hi.
Advanced(lo, hi, step) == IF lo > hi THEN lo ELSE lo + ((hi - lo) \div step + 1) * step

\* No full parent: the working interval is expanded as it is.
ExpandWorking ==
  /\ working_interval # <<>> /\ FullParents < 1
  /\ expanded_values' =
       expanded_values \cup ExpandInterval(working_interval, task.force_resolution)
  /\ remaining_interval' =
       [remaining_interval EXCEPT ![1] = Advanced(@, working_interval[2], KeySpan(Level))]
  /\ working_interval' = <<>>
  /\ UNCHANGED <<task, intervals, adaptation>>

\* atLevel(nextLo, level0): nextLo is taken for the level, and joins the position.
AtLevelOfItself(siv) ==
  LET position == Position(siv)
  IN  (position | (position \div 2)) * Unit + LevelById(siv)

\* The values before the first full parent are put in, and the parents are looked at in
\* their turn, one level coarser.
Coalesce ==
  LET lo     == working_interval[1]
      first  == lo + ToFirstSibling * KeySpan(Level)
      nextLo == first + Fanout * FullParents * KeySpan(Level)
  IN
  /\ working_interval # <<>> /\ FullParents >= 1
  /\ expanded_values' =
       expanded_values \cup {lo + n * KeySpan(Level) : n \in 0 .. ToFirstSibling - 1}
  /\ working_interval' = <<first - 1, Predecessor(nextLo - 1, Level - 1)>>
  /\ remaining_interval' = [remaining_interval EXCEPT ![1] = AtLevelOfItself(nextLo)]
  /\ UNCHANGED <<task, intervals, adaptation>>

-----------------------------------------------------------------------------
\* Slip: location bits below the levels are compared too.
Slip_CmpSpatial(a, b) ==
  IF a <= b /\ STerminator(b) <= STerminator(a) THEN 1
  ELSE IF b <= a /\ STerminator(a) <= STerminator(b) THEN -1 ELSE 0

\* cmpSpatial: 1 when b_ is in a_, -1 when a_ is in b_.
CmpSpatial(a_, b_) ==
  LET a == ClearDeeperThanLevel(a_, LevelById(a_))
      b == ClearDeeperThanLevel(b_, LevelById(b_))
  IN  IF a <= b /\ STerminator(b) <= STerminator(a) THEN 1
      ELSE IF b <= a /\ STerminator(a) <= STerminator(b) THEN -1 ELSE 0

-----------------------------------------------------------------------------
AtLevel(siv, level) == Position(siv) * Unit + level

EstimateI(k, j) == Estimate(Position(s_indices[k]), Position(s_indices[j]))

Most(levels) == CHOOSE l \in levels : \A m \in levels : m <= l

\* Slip: a later value that is near is not told of it.
Slip_Raised(j) == IF j = i THEN Most({lvl_maxes[i]} \cup {EstimateI(i, k) : k \in i + 1 .. Len(s_indices)})
                  ELSE lvl_maxes[j]

\* lvl_maxes after the i-th value was compared with those behind it.
Raised(j) ==
  IF j = i THEN Most({lvl_maxes[i]} \cup {EstimateI(i, k) : k \in i + 1 .. Len(s_indices)})
  ELSE IF j > i THEN Most({lvl_maxes[j], EstimateI(i, j)}) ELSE lvl_maxes[j]

\* The value is changed while later turns still compare.
Adapted(level) == [s_indices EXCEPT ![i] = AtLevel(@, level)]

\* A turn of adaptSpatialResolutionEstimates and of both adaptSpatialResolutionEstimatesInPlace,
\* which are the same loop over a copy, a vector and an array.
Adapt ==
  /\ i <= Len(s_indices)
  /\ lvl_maxes' = [j \in DOMAIN lvl_maxes |-> Raised(j)]
  /\ s_indices' = Adapted(Raised(i))
  /\ i' = i + 1
  /\ UNCHANGED <<task, expansion>>

Next == TakeInterval \/ StartWorking \/ ExpandWorking \/ Coalesce \/ Adapt

\* The caller waits for the call.
Spec == Init /\ [][Next]_vars /\ WF_vars(Next)

-----------------------------------------------------------------------------
Done == intervals = <<>> /\ IntervalDone /\ i > Len(s_indices)

Cells(siv) ==
  LET level == LevelById(siv) IN Position(Truncate(siv, level)) .. Position(STerminator(siv))

\* The positions of an array of intervals.
CellsOf(all) ==
  LET hi(k) == IF k < Len(all) /\ IsTerminator(all[k + 1]) THEN all[k + 1] ELSE STerminator(all[k])
      lo(k) == Truncate(all[k], LevelById(all[k]))
  IN  UNION {Position(lo(k)) .. Position(hi(k)) : k \in {n \in DOMAIN all : ~IsTerminator(all[n])}}

CellsAsked == CellsOf(task.intervals)

ValuesAsked == {v \in {task.intervals[k] : k \in DOMAIN task.intervals} : ~IsTerminator(v)}
LevelsAsked == {LevelById(v) : v \in ValuesAsked}

\* Location bits below the level, as ValueFromSpatialVector leaves them.
ExactPlace(v) == v # ClearDeeperThanLevel(v, LevelById(v))

\* The values of a plain expansion cover the intervals, none lies off them, and when the level
\* forced is not coarser they cover nothing else.  A value with an exact place that is forced
\* to a finer level is expanded from that place on only (expandInterval).
PlainIsRight ==
  Done /\ task.call = "expand" /\ ~task.multi_resolution =>
    /\ (\A v \in ValuesAsked : ExactPlace(v) => task.force_resolution <= LevelById(v))
          => CellsAsked \subseteq UNION {Cells(v) : v \in expanded_values}
    /\ \A v \in expanded_values :
         /\ Cells(v) \cap CellsAsked # {}
         /\ (\A l \in LevelsAsked : task.force_resolution = -1 \/ l <= task.force_resolution)
               => Cells(v) \subseteq CellsAsked

\* An array of intervals that went through a range covers what it covered, and goes through
\* another unchanged (addSpatialIntervals, toSpatialIntervals).
IntervalsSurvive ==
  Done /\ task.call = "expand" =>
    LET range == AddSpatialIntervals(task.intervals)
        back  == ToSpatialIntervals(range)
    IN  (\A a, b \in range : a # b => a[2] < b[1] \/ b[2] < a[1]) =>
          /\ CellsOf(back) = CellsAsked
          /\ AddSpatialIntervals(back) = range

\* What is expanded is right, before and after it went through a range.
ExpansionIsRight == PlainIsRight /\ IntervalsSurvive

\* Whether a value is in another is read off their ends, levels and location bits below the
\* level included, and agrees with what the two cover (cmpSpatial).
CompareIsContainment ==
  \A b \in expanded_values :
    LET a == Head(task.intervals)
    IN  /\ (CmpSpatial(a, b) = 1)  <=> Cells(b) \subseteq Cells(a)
        /\ (CmpSpatial(a, b) = -1) <=> (Cells(a) \subseteq Cells(b) /\ Cells(a) # Cells(b))

\* Every value gets the level of the nearest of all others, before and behind it, although
\* values are changed while others are still compared (adaptSpatialResolutionEstimatesInPlace).
AdaptedToNearest ==
  Done /\ task.call = "adapt" => \A k \in DOMAIN s_indices :
    s_indices[k] = AtLevel(task.s_indices[k],
      Most({0} \cup {Estimate(Position(task.s_indices[k]), Position(task.s_indices[j])) :
                       j \in DOMAIN s_indices \ {k}}))

\* Every expansion ends, also where what remains is not what follows (expandIntervalsMultiRes).
ExpansionEnds == <>Done

\* "Note this should have the original level untouched, also successor to
\* working_interval[1]": what remains follows what is looked at (expandIntervalsMultiRes).
RemainingFollows ==
  working_interval # <<>> /\ working_interval # remaining_interval =>
    Position(remaining_interval[1]) = Position(working_interval[2]) + 1
=============================================================================
