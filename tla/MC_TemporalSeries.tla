-------------------------- MODULE MC_TemporalSeries --------------------------
(***************************************************************************)
(* Years 0 to 3 of 10 milliseconds: two whole months of 4 and a short one. *)
(* The resolutions 0 to 5 stand for 20, 10, 8, 4, 2 and 1 milliseconds.    *)
(***************************************************************************)
EXTENDS TemporalSeries

MCFields ==
  <<[width |-> 2, maxValue |-> 3, scale |-> 10],
    [width |-> 2, maxValue |-> 2, scale |-> 4],
    [width |-> 1, maxValue |-> 1, scale |-> 2],
    [width |-> 1, maxValue |-> 1, scale |-> 1]>>

\* Every distance up to 13, some beyond the coarsest resolution, the very last.
MCInstants == (10 .. 23) \cup {31, 38, 39}
=============================================================================
