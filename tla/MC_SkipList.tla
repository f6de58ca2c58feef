---------------------------- MODULE MC_SkipList ----------------------------
(***************************************************************************)
(* A list of three levels over three keys, the last of them the header's:  *)
(* every key can be at the head, in the middle and at the end, and taller  *)
(* or shorter than its neighbours.  The value 0 is the one HtmRange's      *)
(* comments single out (being in the list is what counts), 1 tells an      *)
(* overwrite apart.                                                        *)
(***************************************************************************)
EXTENDS SkipList

MCValues == {0, 1}
=============================================================================
