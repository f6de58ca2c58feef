--------------------------- MODULE TemporalSeries ---------------------------
(***************************************************************************)
(* What is computed from packed temporal values (the free functions of     *)
(* src/TemporalIndex.cpp): whether they overlap, what covers two of them,  *)
(* and set_temporal_resolutions_from_sorted_inplace, which gives every     *)
(* value of a sorted array the resolution that reaches to its neighbours.  *)
(* The array is changed in place: a turn reads what earlier turns wrote,   *)
(* and a turn that throws leaves the array half done.                      *)
(***************************************************************************)
EXTENDS TemporalFormat

CONSTANTS
  Instants,          \* milliseconds after the start that values are set to
  GivenResolutions,  \* the resolutions values have before the call
  MaxLength          \* bound: values in the array

ASSUME TemporalSeriesAssumption ==
  /\ Instants \subseteq Scale(1) .. LastMillisecond
  /\ GivenResolutions \subseteq 0 .. ResolutionMask
  /\ MaxLength \in Nat
  /\ MaxResolution < ResolutionMask                        \* a terminator's is its own
  /\ \A i \in Ids : Two[Width(i)] <= 2 * MaxValue(i)       \* no bit is to spare

VARIABLES
  series,            \* ti_sorted
  turns,             \* the loop's counter i, 0 before it
  include_bounds,
  threw,
  given              \* history: the array as it was passed

seriesVars == <<series, turns, include_bounds, threw, given>>

-----------------------------------------------------------------------------
(***************************************************************************)
(* Overlap.  temporal_mask is ~((2ll^12)-1ll), where ^ is exclusive or: it *)
(* clears bits 0, 2 and 3, and leaves the rest of the resolutions in the   *)
(* comparison.                                                             *)
(***************************************************************************)
\* Slip: the mask clears the finest bit of the time, too.
Slip_Masked(x) == x - (x % Two[Offset[Len(Fields)] + 1])

Masked(x) == x - Bits(x, 0, 1) - 4 * Bits(x, 2, 2)

HasBounds(x) ==
  ~ NoSuchYear(Decode(x)) /\ Representable(Lower(x)) /\ Representable(Upper(x))

\* scidbOverlap throws for other types, and where a bound can not be written.
CanOverlap(x, y) == x % 4 = 1 /\ HasBounds(x) /\ HasBounds(y)

Overlap(x, y) ==
  /\ Masked(LowerBound(x)) <= Masked(UpperBound(y))
  /\ Masked(UpperBound(x)) >= Masked(LowerBound(y))

\* scidbContainsInstant: the instant is as wide as the finest resolution.
AsInstant(x) == SetForward(SetReverse(x, MaxResolution), MaxResolution)

CanContain(x, y)      == CanOverlap(x, AsInstant(y))
ContainsInstant(x, y) == Overlap(x, AsInstant(y))

-----------------------------------------------------------------------------
(***************************************************************************)
(* scidbNewTemporalValue: a value at t that reaches down to lower and up   *)
(* to upper, or the middle of the two; -1 stands for what is not given,    *)
(* as does every other negative integer.                                   *)
(***************************************************************************)
MaxOf(x, y) == IF x > y THEN x ELSE y

Throws == 0        \* no value is packed into 0: its type would be 0

Resolve(ms) == MaxOf(CoarsestFiner(ms), 0)

Between(lower, upper) ==
  LET l == Milliseconds(Decode(lower))
      u == Milliseconds(Decode(upper))
      r == Resolve(Half(u - l))
  IN  Encode([FromMilliseconds(ZeroWord, Half(l + u)) EXCEPT
                !.forward = r, !.reverse = r])

Around(lower, t, upper) ==
  LET ms == Milliseconds(Decode(t))
  IN  Encode([Decode(t) EXCEPT
        !.reverse = IF lower < 0 THEN MaxResolution
                    ELSE Resolve(ms - Milliseconds(Decode(lower))),
        !.forward = IF upper < 0 THEN MaxResolution
                    ELSE Resolve(Milliseconds(Decode(upper)) - ms)])

\* Slip: the resolution is stepped the wrong way.
Slip_ReachLower(x, lower) ==
  IF lower < 0 THEN x
  ELSE IF ~ CanContain(x, lower) THEN Throws
  ELSE IF ContainsInstant(x, lower) THEN x
  ELSE SetReverse(x, ReverseResolution(x) + 1)

\* One resolution coarser when the bound is not reached.
ReachLower(x, lower) ==
  IF lower < 0 THEN x
  ELSE IF ~ CanContain(x, lower) THEN Throws
  ELSE IF ContainsInstant(x, lower) THEN x
  ELSE SetReverse(x, MaxOf(ReverseResolution(x) - 1, 0))

ReachUpper(x, upper) ==
  IF x = Throws \/ upper < 0 THEN x
  ELSE IF ~ CanContain(x, upper) THEN Throws
  ELSE IF ContainsInstant(x, upper) THEN x
  ELSE SetForward(x, MaxOf(ForwardResolution(x) - 1, 0))

NewTemporalValue(lower, t, upper, bounds) ==
  LET x == IF t < 0 THEN Between(lower, upper) ELSE Around(lower, t, upper)
      reachingLower[y \in Int] == ReachLower(y, lower)
      reachingUpper[y \in Int] == ReachUpper(y, upper)
  IN  IF bounds THEN reachingUpper[reachingLower[x]] ELSE x

\* scidbTemporalValueUnionIfOverlap, for values that overlap
Union(x, y) ==
  NewTemporalValue(Min({Masked(LowerBound(x)), Masked(LowerBound(y))}), -1,
                   Max({Masked(UpperBound(x)), Masked(UpperBound(y))}), TRUE)

\* scidbTemporalValueIntersectionIfOverlap, for values that overlap
Intersection(x, y) ==
  NewTemporalValue(Max({Masked(LowerBound(x)), Masked(LowerBound(y))}), -1,
                   Min({Masked(UpperBound(x)), Masked(UpperBound(y))}), TRUE)

-----------------------------------------------------------------------------
Packed(ms, r) ==
  Encode([FromMilliseconds(ZeroWord, ms) EXCEPT !.forward = r, !.reverse = r])

Millis(x) == Milliseconds(Decode(x))

SeriesInit ==
  \E n \in 0 .. MaxLength, r \in GivenResolutions :
    \E ms \in [1 .. n -> Instants] :
      /\ \A j \in 1 .. n - 1 : ms[j] <= ms[j + 1]
      /\ series = [j \in 1 .. n |-> Packed(ms[j], r)]
      /\ given = series
      /\ turns = 0
      /\ include_bounds \in BOOLEAN
      /\ threw = FALSE

Neighbour(j) == IF j \in DOMAIN series THEN series[j] ELSE -1

Store(x) == series' = [series EXCEPT ![turns + 1] = x] /\ turns' = turns + 1

\* One turn of the loop of set_temporal_resolutions_from_sorted_inplace.
Turn ==
  /\ turns < Len(series)
  /\ ~ threw
  /\ \E x \in {NewTemporalValue(Neighbour(turns), series[turns + 1],
                              Neighbour(turns + 2), include_bounds)} :
       IF x = Throws
       THEN threw' = TRUE /\ UNCHANGED <<series, turns>>
       ELSE Store(x) /\ UNCHANGED threw
  /\ UNCHANGED <<include_bounds, given>>

SeriesSpec == SeriesInit /\ [][Turn]_seriesVars

-----------------------------------------------------------------------------
\* The array keeps its length, and the values beyond the counter are as given.
SeriesTypeOK ==
  /\ series \in Seq(Int) /\ Len(series) = Len(given)
  /\ turns \in 0 .. Len(series)
  /\ \A j \in turns + 1 .. Len(series) : series[j] = given[j]
  /\ include_bounds \in BOOLEAN
  /\ threw \in BOOLEAN

\* A resolution that reaches a neighbour ms away: without bounds it stops
\* short of it or just there, but the next coarser one goes beyond it; with
\* bounds it is the finest that leaves out at most one millisecond.
Reaches(r, ms) ==
  IF include_bounds
  THEN /\ r > 0 => MillisecondsAt[r] + 1 >= ms
       /\ r < MaxResolution => MillisecondsAt[r + 1] < ms
  ELSE /\ MillisecondsAt[r] <= ms
       /\ r > 0 => MillisecondsAt[r - 1] > ms

\* Every turn leaves the time of its value alone and gives it resolutions that
\* fit its neighbours, however many turns have already rewritten the array.
ReachesNeighbours ==
  \A j \in 1 .. turns :
    /\ Millis(series[j]) = Millis(given[j])
    /\ IF j = 1 THEN ReverseResolution(series[j]) = MaxResolution
       ELSE Reaches(ReverseResolution(series[j]), Millis(given[j]) - Millis(given[j - 1]))
    /\ IF j = Len(series) THEN ForwardResolution(series[j]) = MaxResolution
       ELSE Reaches(ForwardResolution(series[j]), Millis(given[j + 1]) - Millis(given[j]))

\* Turn by turn the array is rewritten from the front, and what is rewritten fits.
SeriesIsSound == SeriesTypeOK /\ ReachesNeighbours

Meet(x, y) == Lower(x) <= Upper(y) /\ Lower(y) <= Upper(x)

\* scidbOverlap, which compares two packed integers under a mask that is not
\* the intended one, answers whether the two stretches of time meet.
OverlapIsMeeting ==
  \A j, k \in 1 .. turns :
    LET x == series[j]
        y == series[k]
    IN  CanOverlap(x, y) => (Overlap(x, y) <=> Meet(x, y))

\* The value z, when it could be made, covers the time from l to u but for a
\* millisecond at its ends, or is as coarse as values get; an l before the
\* start is not looked at, being packed into a negative integer.
NearlyCovers(z, l, u) ==
  z # Throws =>
    /\ (l >= Scale(1) /\ ReverseResolution(z) > 0) => Lower(z) <= l + 1
    /\ ForwardResolution(z) > 0 => Upper(z) >= u - 1

\* A union covers both values and an intersection what is common to them; each
\* value of the array is taken with the one the last turn made.
HullsNearlyCover ==
  \A j \in 1 .. turns :
    LET x == series[j]
        y == series[turns]
    IN  (CanOverlap(x, y) /\ Overlap(x, y)) =>
          /\ \A z \in {Union(x, y)} :
               NearlyCovers(z, Min({Lower(x), Lower(y)}), Max({Upper(x), Upper(y)}))
          /\ \A z \in {Intersection(x, y)} :
               NearlyCovers(z, Max({Lower(x), Lower(y)}), Min({Upper(x), Upper(y)}))
=============================================================================
