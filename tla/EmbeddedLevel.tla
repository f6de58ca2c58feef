--------------------------- MODULE EmbeddedLevel ---------------------------
(***************************************************************************)
(* The left-justified index values of src/src/EmbeddedLevelNameEncoding.cpp*)
(* without their depth bit.  Above the level field stand the hemisphere    *)
(* bit, the root triangle and one digit per level, which together number   *)
(* the finest triangles in order; a value is that position times Unit,     *)
(* plus its level.  Every triangle of level l is a run of Span(l)          *)
(* positions, and its terminator is the last value of the run, with all    *)
(* level bits set.                                                         *)
(*                                                                         *)
(* The program has Roots = 8, Fanout = 4, Depth = 27 and LevelMask = 63.   *)
(***************************************************************************)
EXTENDS Integers

CONSTANTS Roots, Fanout, Depth, LevelMask

ASSUME EmbeddedLevelAssumption ==
  /\ Roots \in Nat \ {0}
  /\ Fanout \in Nat /\ Fanout > 1
  /\ Depth \in Nat
  /\ LevelMask \in Nat /\ LevelMask > Depth

Unit   == LevelMask + 1
Levels == 0 .. Depth

\* Fanout^n, as a function on the exponents there are.
Power[n \in 0 .. Depth] == IF n = 0 THEN 1 ELSE Fanout * Power[n - 1]

Span(l)    == Power[Depth - l]
KeySpan(l) == Span(l) * Unit          \* one_at_level

Positions == 0 .. Roots * Span(0) - 1

\* TopBit: the first value that is no index value.
EndOfKeys == Roots * KeySpan(0)

LevelById(k) == k % Unit
Position(k)  == k \div Unit

\* k & ~one_mask_to_level, and k | one_mask_to_level.
Truncate(k, l)  == (k \div KeySpan(l)) * KeySpan(l)
Terminate(k, l) == Truncate(k, l) + KeySpan(l) - 1

\* Location bits below the level are cleared.
ClearDeeperThanLevel(k, l) == Truncate(k, l) + l

\* idFromTerminatorAndLevel_NoDepthBit
IdFromTerminator(t, l) == Truncate(t, l) + l

\* successorToTerminator_NoDepthBit: 0 is the answer for "invalid".
Successor(t, l) ==
  LET following == Truncate(t, l) + KeySpan(l)
  IN  IF following = EndOfKeys THEN 0 ELSE following + l

\* predecessorToLowerBound_NoDepthBit: -1 before the first triangle.
Predecessor(k, l) == Terminate(k - KeySpan(l), l)

\* increment(k, l, n) where it does not overflow.
Increment(k, l, n) == Truncate(k, l) + n * KeySpan(l) + l

\* bareId, and the number of a triangle among its siblings.
BareId(k)              == Position(k) \div Span(LevelById(k))
LocalTriangleNumber(k) == BareId(k) % Fanout
=============================================================================
