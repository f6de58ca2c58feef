-------------------------- MODULE MC_NonConvexCover --------------------------
(***************************************************************************)
(* Polygons on corners and edges of trixels and across them, convex and    *)
(* not, in both directions, at every forced level.                         *)
(***************************************************************************)
EXTENDS NonConvexCover

Triangle == <<<<3, 1, 1>>, <<1, 3, 1>>, <<1, 1, 3>>>>
OnCorners == <<<<1, 0, 1>>, <<1, 1, 0>>, <<0, 1, 1>>>>
Arrow == <<<<3, -1, 0>>, <<2, 2, 0>>, <<3, 0, 1>>, <<2, -1, 2>>>>
AroundPole == <<<<2, 1, 3>>, <<-1, 2, 3>>, <<-2, -1, 3>>, <<1, -2, 3>>>>
Needle == <<<<5, 1, 1>>, <<5, 2, 1>>, <<1, 1, 5>>>>
Notched == <<<<2, 1, 3>>, <<-1, 2, 3>>, <<-1, -3, 3>>, <<0, 0, 1>>>>
InLast == <<<<4, 3, 3>>, <<3, 4, 3>>, <<3, 3, 4>>>>

Shapes == {Triangle, OnCorners, Arrow, AroundPole, Needle, Notched, InLast}

MCPolygons ==
  {[points |-> IF turned THEN Backwards(shape) ELSE shape, force_resolution_level |-> level] :
     shape \in Shapes, turned \in BOOLEAN, level \in 0 .. 3}
=============================================================================
