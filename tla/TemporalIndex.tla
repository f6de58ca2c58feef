---------------------------- MODULE TemporalIndex ----------------------------
(***************************************************************************)
(* Objects that hold a temporal index value field by field                 *)
(* (TemporalIndex, TemporalWordFormat1, BitField).  An object points to    *)
(* its fields: copying it makes new ones, assigning it makes both objects  *)
(* point to the same.  A setter stores its value before it looks at it.    *)
(* The type is always 1, the only one the program implements.              *)
(***************************************************************************)
EXTENDS TemporalFormat

CONSTANTS
  Objects,
  Resolutions        \* the resolutions callers set

ASSUME TemporalIndexAssumption ==
  /\ IsFiniteSet(Objects)
  /\ Resolutions \subseteq 0 .. ResolutionMask

VARIABLES
  held,              \* the fields each object points to
  data,              \* the word in each set of fields
  assigned           \* history: the objects assigned to each other

vars == <<held, data, assigned>>

Value(o) == data[held[o]]

Canonical(w) ==
  /\ \A i \in Ids : w.field[i] \in 0 .. MaxValue(i)
  /\ ~ NoSuchYear(w)

-----------------------------------------------------------------------------
(***************************************************************************)
(* Carries.  What field j is changed by when field i is changed by delta:  *)
(* a field that runs over is set back and changes the next coarser one by  *)
(* 1.  The call throws when the carry reaches id 0, the bit before the     *)
(* year; as the coarser fields are changed first, nothing is changed then. *)
(***************************************************************************)
\* Slip: a field that becomes exactly full is carried, too.
Slip_RunsOver(field, j, delta) == delta > 0 /\ field[j] + delta >= MaxValue(j)

RunsOver(field, j, delta)  == delta > 0 /\ field[j] + delta > MaxValue(j)
RunsUnder(field, j, delta) == delta > 0 /\ field[j] - delta < 0

\* incrementAtId
Carry(field, i, delta) ==
  LET into[j \in 0 .. i] ==
        IF j = i THEN delta
        ELSE IF RunsOver(field, j + 1, into[j + 1]) THEN 1 ELSE 0
  IN  into

Incremented(field, i, delta) ==
  LET into == Carry(field, i, delta)
  IN  [j \in Ids |->
         IF j > i THEN field[j]
         ELSE field[j] + into[j]
                - (IF RunsOver(field, j, into[j]) THEN MaxValue(j) + 1 ELSE 0)]

\* decrementAtId
Borrow(field, i, delta) ==
  LET from[j \in 0 .. i] ==
        IF j = i THEN delta
        ELSE IF RunsUnder(field, j + 1, from[j + 1]) THEN 1 ELSE 0
  IN  from

Decremented(field, i, delta) ==
  LET from == Borrow(field, i, delta)
  IN  [j \in Ids |->
         IF j > i THEN field[j]
         ELSE field[j] - from[j]
                + (IF RunsUnder(field, j, from[j]) THEN MaxValue(j) + 1 ELSE 0)]

-----------------------------------------------------------------------------
(***************************************************************************)
(* Calls.  A call that throws is a step that changes what it had stored    *)
(* before it threw, often nothing.                                         *)
(***************************************************************************)
Init ==
  /\ held = [o \in Objects |-> o]
  /\ data = [o \in Objects |-> ZeroWord]
  /\ assigned = [o \in Objects |-> {o}]

\* A call on o that leaves w in its fields.
Writes(o, w) ==
  /\ data' = [data EXCEPT ![held[o]] = w]
  /\ UNCHANGED <<held, assigned>>

\* What nobody points to any more is freed.
Reaching(pointed) ==
  [f \in Objects |-> IF \E o \in Objects : pointed[o] = f THEN data[f] ELSE ZeroWord]

\* o gets fields of its own that hold w; whoever shared its old ones keeps them.
Fresh(o, w) ==
  \E f \in Objects \ {held[p] : p \in Objects \ {o}} :
    /\ held' = [held EXCEPT ![o] = f]
    /\ data' = [Reaching(held') EXCEPT ![f] = w]
    /\ assigned' = [p \in Objects |-> IF p = o THEN {o} ELSE assigned[p] \ {o}]

\* TemporalIndex(): it sets the resolutions of a local that hides data.
Construct(o) == Fresh(o, ZeroWord)

\* Slip: the new object points to the fields of the old one.
Slip_CopyConstruct(o, p) ==
  /\ o # p
  /\ held' = [held EXCEPT ![o] = held[p]]
  /\ data' = Reaching(held')
  /\ assigned' = [q \in Objects |-> IF q = o THEN {o} ELSE assigned[q] \ {o}]

\* TemporalIndex(const TemporalIndex&): a new object for o, field by field.
CopyConstruct(o, p) == o # p /\ Fresh(o, Value(p))

\* The assignment the compiler writes: every member, so the pointers.
Assign(o, p) ==
  /\ o # p
  /\ held' = [held EXCEPT ![o] = held[p]]
  /\ data' = Reaching(held')
  /\ assigned' = [q \in Objects |-> IF q \in assigned[p] \cup {o}
                                    THEN assigned[p] \cup {o}
                                    ELSE assigned[q] \ {o}]

\* set_year .. set_millisecond: stored even when it is out of range and throws.
SetField(o, i, x) == Writes(o, [Value(o) EXCEPT !.field[i] = x])

SetBeforeAfterStartBit(o, b) == Writes(o, [Value(o) EXCEPT !.ba = b])

\* set_reverse_resolution(r).set_forward_resolution(f), as callers chain them.
SetResolutions(o, r, f) == Writes(o, [Value(o) EXCEPT !.reverse = r, !.forward = f])

\* set_zero, setZero: everything but the type.
SetZero(o) == Writes(o, ZeroWord)

\* fromInt64Milliseconds, which throws for what is not representable.
FromInt64Milliseconds(o, ms) ==
  IF Representable(ms) THEN Writes(o, FromMilliseconds(Value(o), ms))
  ELSE UNCHANGED vars

\* fromNativeCEYearAndMilliseconds: the year is set before it is checked.
FromNative(o, CE, year, ms) ==
  LET w == Value(o)
  IN  IF (year < 1 /\ CE = 1) \/ ms < 0 THEN UNCHANGED vars
      ELSE IF year > MaxValue(1)
      THEN Writes(o, [w EXCEPT !.ba = CE, !.field[1] = year])
      ELSE Writes(o, Dated(w, CE, year, ms))

\* fromTemporalIndexValue, which throws for NoSuchYear when all is set.
FromValue(o, x) == Writes(o, Decode(x))

\* A carry into id 0 throws.
IncrementAtId(o, i, delta) ==
  LET field == Value(o).field
  IN  IF Carry(field, i, delta)[0] > 0 THEN UNCHANGED vars
      ELSE Writes(o, [Value(o) EXCEPT !.field = Incremented(field, i, delta)])

DecrementAtId(o, i, delta) ==
  LET field == Value(o).field
  IN  IF Borrow(field, i, delta)[0] > 0 THEN UNCHANGED vars
      ELSE Writes(o, [Value(o) EXCEPT !.field = Decremented(field, i, delta)])

\* add: the sum of the milliseconds and the coarser of the resolutions.
Sum(w, v) ==
  [FromMilliseconds(ZeroWord, Milliseconds(w) + Milliseconds(v)) EXCEPT
     !.forward = Min({w.forward, v.forward}),
     !.reverse = Min({w.reverse, v.reverse})]

\* TemporalIndex o = add(p, q), when the sum is representable.
Add(o, p, q) ==
  /\ Representable(Milliseconds(Value(p)) + Milliseconds(Value(q)))
  /\ Fresh(o, Sum(Value(p), Value(q)))

\* What callers give: a little out of range at both ends, too.
MillisecondsGiven == FirstMillisecond - 1 .. LastMillisecond + 1
YearsGiven        == 0 .. MaxValue(1) + 1
FractionsGiven    == {-1, 0, Scale(1) - 1, Scale(1)}
ValuesGiven       == {1} \cup {Encode(FromMilliseconds(ZeroWord, ms)) :
                                 ms \in FirstMillisecond .. LastMillisecond}
DeltasGiven(i)    == {1} \cup {MaxValue(j) + 1 : j \in Ids \cap {i}}

Next ==
  \E o \in Objects :
    \/ Construct(o)
    \/ \E p \in Objects : CopyConstruct(o, p) \/ Assign(o, p)
    \/ \E i \in Ids : \E x \in 0 .. MaxValue(i) + 1 : SetField(o, i, x)
    \/ \E b \in 0 .. 1 : SetBeforeAfterStartBit(o, b)
    \/ \E r, f \in Resolutions : SetResolutions(o, r, f)
    \/ SetZero(o)
    \/ \E ms \in MillisecondsGiven : FromInt64Milliseconds(o, ms)
    \/ \E CE \in 0 .. 1, year \in YearsGiven, ms \in FractionsGiven :
         FromNative(o, CE, year, ms)
    \/ \E x \in ValuesGiven : FromValue(o, x)
    \/ \E i \in {0} \cup Ids : \E delta \in DeltasGiven(i) :
         IncrementAtId(o, i, delta) \/ DecrementAtId(o, i, delta)
    \/ \E p, q \in Objects : Add(o, p, q)

Spec == Init /\ [][Next]_vars

-----------------------------------------------------------------------------
\* Fields exceed their maximum by what a setter stored before it threw, but
\* no carry or borrow makes one negative.
TypeOK ==
  /\ held \in [Objects -> Objects]
  /\ assigned \in [Objects -> SUBSET Objects]
  /\ data \in [Objects -> Words]
  /\ \A f \in Objects, i \in Ids : data[f].field[i] \in 0 .. MaxValue(i) + 1

\* The fields as one number in mixed radix, and what one of field i weighs.
Place[i \in Ids] ==
  IF i = Len(Fields) THEN 1 ELSE (MaxValue(i + 1) + 1) * Place[i + 1]

Number(w) == Sums([i \in Ids |-> w.field[i] * Place[i]])[1]

Counts == 0 .. (MaxValue(1) + 1) * Place[1] - 1

\* From values in range, incrementAtId and decrementAtId add or take exactly
\* what they are asked to, over however many fields the carry runs, and throw
\* when the result has no representation and only then.
CarriesAdd ==
  \A o \in Objects, i \in Ids : \A delta \in DeltasGiven(i) :
    LET w     == Value(o)
        n     == Number(w)
        plus  == [w EXCEPT !.field = Incremented(w.field, i, delta)]
        minus == [w EXCEPT !.field = Decremented(w.field, i, delta)]
    IN  Canonical(w) =>
          /\ IF n + delta * Place[i] \in Counts
             THEN Carry(w.field, i, delta)[0] = 0 /\ Number(plus) = n + delta * Place[i]
             ELSE Carry(w.field, i, delta)[0] > 0
          /\ IF n - delta * Place[i] \in Counts
             THEN Borrow(w.field, i, delta)[0] = 0 /\ Number(minus) = n - delta * Place[i]
             ELSE Borrow(w.field, i, delta)[0] > 0

\* A call changes one object and those it was assigned to or from; copies made
\* by the constructor and sums never change with their originals.
ChangesStayTogether ==
  [][\A o, p \in Objects :
       (Value(o)' # Value(o) /\ Value(p)' # Value(p)) => p \in assigned'[o]]_vars

SignedYear(w) == IF w.ba = 1 THEN w.field[1] ELSE -w.field[1]

Earlier(w, v) ==
  \/ SignedYear(w) < SignedYear(v)
  \/ SignedYear(w) = SignedYear(v) /\ w.ba = v.ba /\ FractionOfYear(w) < FractionOfYear(v)

\* scidbTemporalIndex loses nothing, and sorting the integers sorts the
\* values by time, before and after the start and across it; and a value whose
\* year is not overfull survives its conversion to milliseconds and back.
ConversionsAreFaithful ==
  \A o, p \in Objects :
    LET w == Value(o)
        v == Value(p)
    IN  (Canonical(w) /\ Canonical(v)) =>
          /\ Decode(Encode(w)) = w
          /\ Earlier(w, v) => Encode(w) < Encode(v)
          /\ FractionOfYear(w) < Scale(1) => FromMilliseconds(w, Milliseconds(w)) = w

\* Whatever setters, carries and assignments made of the fields, the words convert faithfully.
WordsAreSound == TypeOK /\ ConversionsAreFaithful
=============================================================================
