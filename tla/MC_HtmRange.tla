---------------------------- MODULE MC_HtmRange ----------------------------
(***************************************************************************)
(* Six keys hold three intervals at once, so that a merge can swallow one, *)
(* join its neighbours and leave others alone, and gaps of 0 (adjacent     *)
(* intervals), 1, 2 and more keys.                                         *)
(***************************************************************************)
EXTENDS HtmRange

MCGaps == 0 .. 2
=============================================================================
