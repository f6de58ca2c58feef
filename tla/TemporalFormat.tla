--------------------------- MODULE TemporalFormat ---------------------------
(***************************************************************************)
(* The word a temporal index value is packed into, and the arithmetic on   *)
(* it (include/TemporalIndex.h, src/TemporalIndex.cpp).  A word holds      *)
(* calendar fields, the year first, then how far the value reaches into    *)
(* the future and the past, each as a bit position counted from the top    *)
(* of the year, and a type.  Native calendars know no leap time: every     *)
(* year is Scale(1) units long and its last month is short.                *)
(*                                                                         *)
(* The program has the eight fields year .. millisecond with the widths    *)
(* 13, 4, 2, 3, 5, 6, 6, 10 and ResolutionWidth = 6.                       *)
(***************************************************************************)
EXTENDS Integers, Sequences, FiniteSetsExt

CONSTANTS
  Fields,            \* a sequence of [width, maxValue, scale], year first
  ResolutionWidth

Ids == 1 .. Len(Fields)      \* pos_CoarsestResolutionLevel .. pos_Finest...

Width(i)    == Fields[i].width
MaxValue(i) == Fields[i].maxValue
Scale(i)    == Fields[i].scale

TypeWidth     == 2
ReverseOffset == TypeWidth
ForwardOffset == TypeWidth + ResolutionWidth

\* What the parts of field k and of the finer ones add up to, for every k.
Sums(part) ==
  LET from[k \in 1 .. Len(Fields) + 1] ==
        IF k > Len(Fields) THEN 0 ELSE part[k] + from[k + 1]
  IN  from

Offset[i \in {0} \cup Ids] ==
  TypeWidth + 2 * ResolutionWidth + Sums([j \in Ids |-> Width(j)])[i + 1]

WordBits == Offset[0]        \* 63 in the program, below the sign

\* 2^n, as a function on the bit positions there are.
Two[n \in 0 .. WordBits] == IF n = 0 THEN 1 ELSE 2 * Two[n - 1]

ASSUME TemporalFormatAssumption ==
  /\ ResolutionWidth \in Nat \ {0}
  /\ Fields \in Seq([width : Nat, maxValue : Nat, scale : Nat])
  /\ Len(Fields) > 1
  /\ \A i \in Ids : 0 < MaxValue(i) /\ MaxValue(i) < Two[Width(i)]
  /\ Scale(Len(Fields)) = 1
  /\ \A i \in Ids \ {1, Len(Fields)} :
       Scale(i) = (MaxValue(i + 1) + 1) * Scale(i + 1)
  /\ MaxValue(2) * Scale(2) < Scale(1)
  /\ Scale(1) <= (MaxValue(2) + 1) * Scale(2)

\* maxResolutionLevel, and the resolution that marks a terminator.
MaxResolution  == WordBits - Offset[Len(Fields)] - 1
ResolutionMask == Two[ResolutionWidth] - 1

\* Bits of an integer in two's complement.
Bits(x, offset, width)        == (x \div Two[offset]) % Two[width]
WithBits(x, offset, width, y) == x + (y - Bits(x, offset, width)) * Two[offset]

\* C++ integers are divided towards zero.
Half(x) == IF x < 0 THEN -((-x) \div 2) ELSE x \div 2

-----------------------------------------------------------------------------
(***************************************************************************)
(* Words and the integers they are packed into.  Before the first year the *)
(* integer is negative, with the fields below the year reversed.           *)
(***************************************************************************)
Words ==
  [ba : 0 .. 1, field : [Ids -> Int], forward : 0 .. ResolutionMask,
   reverse : 0 .. ResolutionMask, type : 0 .. 3]

ZeroWord ==
  [ba |-> 0, field |-> [i \in Ids |-> 0], forward |-> 0, reverse |-> 0, type |-> 1]

\* Slip: the year is reversed, too.
Slip_Reversed(i, value) == MaxValue(i) - value

Reversed(i, value) == IF i = 1 THEN value ELSE MaxValue(i) - value

\* scidbTemporalIndex
Encode(w) ==
  LET Stored(i) == IF w.ba = 1 THEN w.field[i] ELSE Reversed(i, w.field[i])
      placed    == [i \in Ids |-> (Stored(i) % Two[Width(i)]) * Two[Offset[i]]]
      index     == Sums(placed)[1] + w.forward * Two[ForwardOffset]
                     + w.reverse * Two[ReverseOffset] + w.type
  IN  IF w.ba = 0 THEN -index ELSE index

\* TemporalIndex(scidbTemporalIndex)
Decode(x) ==
  LET index  == IF x < 0 THEN -x ELSE x
      raw(i) == Bits(index, Offset[i], Width(i))
  IN  [ba      |-> IF x > 0 THEN 1 ELSE 0,
       field   |-> [i \in Ids |-> IF x < 0 THEN Reversed(i, raw(i)) ELSE raw(i)],
       forward |-> Bits(index, ForwardOffset, ResolutionWidth),
       reverse |-> Bits(index, ReverseOffset, ResolutionWidth),
       type    |-> index % Two[TypeWidth]]

\* There is no year 0 after the start: Decode throws InvalidIndexYearZeroCE.
NoSuchYear(w) == w.ba = 1 /\ w.field[1] = 0

-----------------------------------------------------------------------------
(***************************************************************************)
(* Words and milliseconds.                                                 *)
(***************************************************************************)
FractionOfYear(w) ==
  Sums([i \in Ids |-> w.field[i] * Scale(i)])[2]

\* toInt64Milliseconds
Milliseconds(w) ==
  (IF w.ba = 1 THEN 1 ELSE -1) * w.field[1] * Scale(1) + FractionOfYear(w)

FirstMillisecond == -MaxValue(1) * Scale(1)
LastMillisecond  == (MaxValue(1) + 1) * Scale(1) - 1
Representable(ms) == FirstMillisecond <= ms /\ ms <= LastMillisecond

\* The year and the fields below it, rest milliseconds into the year.
Dated(w, ba, year, rest) ==
  [w EXCEPT !.ba = ba,
            !.field = [i \in Ids |->
                         IF i = 1 THEN year
                         ELSE (rest \div Scale(i)) % (MaxValue(i) + 1)]]

\* fromInt64Milliseconds, for representable ms; it throws for others.
FromMilliseconds(w, ms) ==
  LET years == ms \div Scale(1)      \* rounded down
      rest  == ms - years * Scale(1)
  IN  IF ms < Scale(1) THEN Dated(w, 0, -years, rest)
      ELSE Dated(w, 1, years % (MaxValue(1) + 1), rest)

-----------------------------------------------------------------------------
(***************************************************************************)
(* Resolutions.                                                            *)
(***************************************************************************)
\* bitOffsetResolution
BitOfResolution(r) == WordBits - 1 - r

\* millisecondsAtResolution: the scale of one bit of a field.
MillisecondsAt[r \in 0 .. ResolutionMask] ==
  LET bit     == BitOfResolution(r)
      holding == {i \in Ids : Offset[i] <= bit /\ bit < Offset[i] + Width(i)}
  IN  Max({0} \cup
          {Min({Two[bit - Offset[i]], MaxValue(i)}) * Scale(i) : i \in holding})

\* Slip: one resolution coarser than asked.
Slip_CoarsestFiner(ms) ==
  LET coarse == {r \in 0 .. MaxResolution : MillisecondsAt[r] >= ms}
  IN  IF coarse = {} THEN -1 ELSE Max(coarse)

\* coarsestResolutionFinerOrEqualMilliseconds: -1 when even resolution 0 is
\* too fine, MaxResolution + 1 when no resolution is fine enough.
CoarsestFiner(ms) ==
  LET coarse == {r \in 0 .. MaxResolution : MillisecondsAt[r] >= ms}
      r      == Max(coarse)
  IN  IF coarse = {} THEN -1
      ELSE IF MillisecondsAt[r] > ms THEN r + 1 ELSE r

ForwardResolution(x) == Bits(x, ForwardOffset, ResolutionWidth)
ReverseResolution(x) == Bits(x, ReverseOffset, ResolutionWidth)
SetForward(x, r) == WithBits(x, ForwardOffset, ResolutionWidth, r)
SetReverse(x, r) == WithBits(x, ReverseOffset, ResolutionWidth, r)

\* What a value reaches to, and the values packed from it; both throw when
\* the millisecond is not representable.
Upper(x) == Milliseconds(Decode(x)) + MillisecondsAt[Decode(x).forward]
Lower(x) == Milliseconds(Decode(x)) - MillisecondsAt[Decode(x).reverse]

UpperBound(x) ==      \* scidbUpperBoundMS, a terminator
  Encode([FromMilliseconds(Decode(x), Upper(x)) EXCEPT
            !.forward = ResolutionMask, !.reverse = ResolutionMask])

LowerBound(x) ==      \* scidbLowerBoundMS
  Encode([FromMilliseconds(Decode(x), Lower(x)) EXCEPT
            !.forward = 0, !.reverse = ResolutionMask])
=============================================================================
