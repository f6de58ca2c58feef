-------------------------- MODULE MC_SpatialLookup --------------------------
(***************************************************************************)
(* Indexes of up to three levels, all stored or finished on the fly, built *)
(* and then asked for corners, edges and insides of trixels, and for the   *)
(* neighbours of all trixels of one face.  With three stored levels the    *)
(* first vertices fill their six slots.                                    *)
(***************************************************************************)
EXTENDS SpatialLookup

MCLevels == {<<3, 3>>, <<2, 1>>, <<1, 0>>, <<1, 2>>, <<2, 2>>, <<3, 2>>}
MCPoints ==
  {<<8, 0, 0>>, <<0, 0, -8>>, <<4, -4, 0>>, <<-4, 2, 2>>, <<3, 3, 2>>, <<-1, -6, 1>>, <<5, 2, -1>>,
   <<-7, 0, 1>>}
MCTrixels == UNION {8 * 4^level .. 9 * 4^level - 1 : level \in 1 .. 3}
MCStrays == {{}, {1, 3}, {4}, {3, 6, 9}}
=============================================================================
