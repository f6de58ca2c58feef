---------------------------- MODULE PolygonHull ----------------------------
(***************************************************************************)
(* The convex hull of htmInterface (src/SpatialInterface.cpp): convexHull  *)
(* gives the points one by one to setPolyCorner, which keeps the corners   *)
(* of the hull of the points so far, counterclockwise.                     *)
(***************************************************************************)
EXTENDS SphericalCap, SequencesExt

VARIABLES
  polyCorners,    \* polyCorners_
  points          \* the points given so far

hullVars == <<polyCorners, points>>

HullInit == polyCorners = <<>> /\ points = {}

\* The third point makes a triangle; one on the line of the first two replaces the middle one.
ThirdCorner(p, v) ==
  LET side == Triple(p[1], p[2], v)
      ab   == Cross(p[1], p[2])
      av   == Dot(ab, Cross(p[1], v))
      vb   == Dot(ab, Cross(v, p[2]))
  IN  IF side > 0 THEN <<p[1], p[2], v>>
      ELSE IF side < 0 THEN <<p[1], v, p[2]>>
      ELSE IF av * vb >= 0 THEN p
      ELSE IF av > 0 THEN <<p[1], v>> ELSE <<v, p[2]>>

\* inside_: left of the side that begins at corner i, or on that side.
InsideSide(p, i, v) ==
  LET a == p[i]
      b == p[(i % Len(p)) + 1]
      delta == Triple(a, b, v)
  IN  delta > 0 \/ (delta = 0 /\ Dot(Cross(a, v), Cross(v, b)) > 0)

\* Slip: the first corner is never replaced.
Slip_Replaced(p, i, v) ==
  i > 1 /\ ~InsideSide(p, i, v) /\ ~InsideSide(p, i - 1, v)

\* replace_: the point is outside this corner's side and outside the one before.
Replaced(p, i, v) ==
  ~InsideSide(p, i, v) /\ ~InsideSide(p, IF i = 1 THEN Len(p) ELSE i - 1, v)

\* The point goes after the first corner left whose side it is outside of; if it is inside
\* of all, or no corner is left, it is dropped.
NextCorner(p, v) ==
  LET kept == SelectSeq([i \in DOMAIN p |-> i], LAMBDA i : ~Replaced(p, i, v))
      k    == SelectInSeq(kept, LAMBDA i : ~InsideSide(p, i, v))
      rest == [i \in DOMAIN kept |-> p[kept[i]]]
  IN  IF k = 0 THEN rest ELSE InsertAt(rest, k + 1, v)

SetPolyCorner(v) ==
  /\ polyCorners' = IF v \in Range(polyCorners) THEN polyCorners
                    ELSE IF Len(polyCorners) < 2 THEN Append(polyCorners, v)
                    ELSE IF Len(polyCorners) = 2 THEN ThirdCorner(polyCorners, v)
                    ELSE NextCorner(polyCorners, v)
  /\ points' = points \cup {v}

-----------------------------------------------------------------------------
\* However the points come, the corners are always points of the list, in the order of a
\* counterclockwise walk with a turn at every corner, and no point lies outside of the hull
\* (setPolyCorner, for points of one half of the sphere).
HullIsRight ==
  /\ Range(polyCorners) \subseteq points
  /\ Len(polyCorners) >= 3 => \A i \in DOMAIN polyCorners :
       LET a == polyCorners[i]
           b == polyCorners[(i % Len(polyCorners)) + 1]
       IN  /\ \A v \in points : Triple(a, b, v) >= 0
           /\ \A v \in Range(polyCorners) \ {a, b} : Triple(a, b, v) > 0
=============================================================================
