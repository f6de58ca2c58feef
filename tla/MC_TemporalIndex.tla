-------------------------- MODULE MC_TemporalIndex --------------------------
(***************************************************************************)
(* Two objects of a year and two fields below it.  The year is 5 long: two *)
(* whole middle fields of 2 and a short last one.  Only the middle field   *)
(* can hold more than its maximum.                                         *)
(***************************************************************************)
EXTENDS TemporalIndex, TLC

MCFields ==
  <<[width |-> 2, maxValue |-> 3, scale |-> 5],
    [width |-> 2, maxValue |-> 2, scale |-> 2],
    [width |-> 1, maxValue |-> 1, scale |-> 1]>>

Symmetry == Permutations(Objects)
=============================================================================
