---------------------------- MODULE IntervalSet ----------------------------
(***************************************************************************)
(* The abstract set of keys an HtmRange maintains: "Maintain a set of htm  *)
(* intervals" (include/HtmRange.h:78).  Adding an interval adds its keys   *)
(* and nothing else; purging removes every key; a defragmentation with a   *)
(* given gap closes gaps of at most that many missing keys, one at a time  *)
(* and each of them before it ends.                                        *)
(***************************************************************************)
EXTENDS OrderedKeys

CONSTANT Gaps     \* the gaps a defragmentation may be asked to close

VARIABLES
  covered,   \* the keys in the set
  gap        \* the gap of the defragmentation under way, or NotDefragging

NotDefragging == -2
NoGap         == -1   \* close nothing: stretches of covered keys are apart

\* hi ends a stretch of covered keys and lo begins the next one.
IsGap(hi, lo) ==
  /\ hi \in covered /\ lo \in covered
  /\ hi + 1 < lo
  /\ \A k \in hi + 1 .. lo - 1 : k \notin covered

Init == covered = {} /\ gap = NotDefragging

Add(lo, hi) ==
  /\ gap = NotDefragging
  /\ covered' = covered \cup lo .. hi
  /\ UNCHANGED gap

Clear ==
  /\ gap = NotDefragging
  /\ covered' = {}
  /\ UNCHANGED gap

StartClosing(g) ==
  /\ gap = NotDefragging
  /\ gap' = g
  /\ UNCHANGED covered

CloseGap(hi, lo) ==
  /\ IsGap(hi, lo)
  /\ lo - hi - 1 <= gap
  /\ covered' = covered \cup hi .. lo
  /\ UNCHANGED gap

EndClosing ==
  /\ gap # NotDefragging
  /\ \A hi, lo \in Ids : IsGap(hi, lo) => lo - hi - 1 > gap
  /\ gap' = NotDefragging
  /\ UNCHANGED covered

Next ==
  \/ \E lo, hi \in Ids : Add(lo, hi) \/ CloseGap(lo, hi)
  \/ Clear
  \/ \E g \in Gaps \cup {NoGap} : StartClosing(g)
  \/ EndClosing

Spec == Init /\ [][Next]_<<covered, gap>>
=============================================================================
