---------------------------- MODULE SphericalCap ----------------------------
(***************************************************************************)
(* Constraints of convexes (src/SpatialConstraint.cpp) and where they lie  *)
(* to vertices, edges and triangles (the tests at the end of               *)
(* src/RangeConvex.cpp).  A constraint is a cap around a of the angle with *)
(* cosine d/5 and sine s/5; a has the integer length r (1 where only       *)
(* half-spheres meet, which have d = 0).  All tests are exact: cosines are *)
(* compared by their squares, and a vector stands for its direction.       *)
(***************************************************************************)
EXTENDS TrixelTree, FiniteSetsExt

SignOf(c) == IF c.d < 0 THEN "nEG" ELSE IF c.d > 0 THEN "pOS" ELSE "zERO"

\* The half-sphere to the left of the way from v to w, its axis as short as it can be.
Gcd[n \in Nat, m \in Nat] == IF m = 0 THEN n ELSE Gcd[m, n % m]
Abs(x) == IF x < 0 THEN -x ELSE x
Shorter[v \in Vectors] ==
  LET g == Gcd[Gcd[Abs(v[1]), Abs(v[2])], Abs(v[3])]
  IN  IF g = 0 THEN v ELSE <<v[1] \div g, v[2] \div g, v[3] \div g>>

HalfSphere(a) == [a |-> Shorter[a], r |-> 1, d |-> 0, s |-> 5]

\* The sign of cos(v, a) - d.
Beyond(v, c) ==
  LET x == 5 * Dot(c.a, v)
      y == c.d * c.r
      Square(n) == n * n
  IN  IF c.d = 0 THEN x
      ELSE IF c.d > 0
      THEN IF x > 0 THEN Square(x) - Square(y) * Dot(v, v) ELSE -1
      ELSE IF x < 0 THEN Square(y) * Dot(v, v) - Square(x) ELSE 1

\* testVertex
Within(v, constraints) == \A i \in DOMAIN constraints : Beyond(v, constraints[i]) >= 0

\* contains(v)
HoldsInside(c, v) == Beyond(v, c) > 0

\* The great circle around n has a point on both sides of the border.
Reaches(n, c) ==
  c.s * c.s * c.r * c.r * Dot(n, n) >= 25 * Dot(c.a, n) * Dot(c.a, n)

\* What of the great circle through an edge is nearest to the axis of a cap (or farthest
\* from it) lies between the ends of the edge, and on the other side of the cap's border.
Bulges(v, w, c) ==
  LET side == IF Beyond(v, c) < 0 THEN 1 ELSE -1
  IN  /\ side * (Dot(c.a, w) * Dot(v, v) - Dot(v, w) * Dot(c.a, v)) > 0
      /\ side * (Dot(c.a, v) * Dot(w, w) - Dot(v, w) * Dot(c.a, w)) > 0
      /\ side * c.d <= 0 \/ Reaches(Shorter[Cross(v, w)], c)

\* The border of a cap meets an edge.
Crosses(v, w, c) ==
  \/ Beyond(v, c) = 0 \/ Beyond(w, c) = 0
  \/ (Beyond(v, c) > 0) # (Beyond(w, c) > 0)
  \/ Bulges(v, w, c)

\* eSolve solves a quadratic equation for the border on the edge.  With no quadratic part it
\* finds no root, and with no linear part it takes 0 for one.
ESolve(v, w, c) ==
  LET flat  == Beyond(v, [c EXCEPT !.d = -c.d]) = 0
      level == Dot(c.a, w) * Dot(v, v) = Dot(v, w) * Dot(c.a, v)
      onTop == Beyond(v, [c EXCEPT !.d = Abs(c.d)]) * Beyond(v, [c EXCEPT !.d = -Abs(c.d)]) >= 0
  IN  /\ ~flat
      /\ (level /\ onTop) \/ (~level /\ Crosses(v, w, c))

TestEdgeConstraint(t, c) == ESolve(t[1], t[2], c) \/ ESolve(t[2], t[3], c) \/ ESolve(t[3], t[1], c)

\* testVectorInside is IsInside; testHole finds a hole whose middle, opposite to a, is inside.
TestHole(t, constraints) ==
  \E i \in DOMAIN constraints :
    SignOf(constraints[i]) = "nEG" /\ IsInside(Times(-1, constraints[i].a), t)

TestEdge(t, constraints) ==
  \E i \in DOMAIN constraints :
    SignOf(constraints[i]) = "nEG" /\ TestEdgeConstraint(t, constraints[i])

\* Whether a triangle has nothing in common with a cap; its bounding circle has even less
\* often.
Apart(t, c) ==
  /\ \A i \in 1 .. 3 : Beyond(t[i], c) < 0
  /\ ~Crosses(t[1], t[2], c) /\ ~Crosses(t[2], t[3], c) /\ ~Crosses(t[3], t[1], c)
  /\ ~IsInside(c.a, t)

\* Whether p, a direction on the great circle through v and w, is between them.
OnArc(p, v, w) ==
  LET n == Shorter[Cross(v, w)] IN Dot(Cross(v, p), n) >= 0 /\ Dot(Cross(p, w), n) >= 0

\* testEdge0: the edges of a polygon meet those of a triangle, or the first corner is inside.
TestEdge0(t, corners) ==
  \/ \E i \in DOMAIN corners, k \in 1 .. 3, side \in {-1, 1} :
       LET c1 == corners[i]
           c2 == corners[(i % Len(corners)) + 1]
           e1 == t[k]
           e2 == t[(k % 3) + 1]
           p  == Shorter[Times(side, Cross(Shorter[Cross(e1, e2)], Shorter[Cross(c1, c2)]))]
       IN  p # <<0, 0, 0>> /\ OnArc(p, c1, c2) /\ OnArc(p, e1, e2)
  \/ IsInside(corners[1], t)

\* testConstraints: -1 for disjoint, 1 for b in a, 2 for a in b, 0 for caps that overlap,
\* where a hole is taken for the cap it cuts out.
TestConstraints(a, b) ==
  LET Cut(c) == IF c.d < 0 THEN Times(-1, c.a) ELSE c.a
      Cos(c) == IF c.d > 0 THEN c.d ELSE -c.d
      dot    == 25 * Dot(Cut(a), Cut(b))
      rr     == a.r * b.r
      sum    == Cos(a) * Cos(b) - a.s * b.s
      diff   == Cos(a) * Cos(b) + a.s * b.s
  IN  IF a.s * Cos(b) + Cos(a) * b.s > 0 /\ dot < sum * rr THEN -1
      ELSE IF Cos(a) < Cos(b) /\ dot > diff * rr THEN 1
      ELSE IF Cos(b) < Cos(a) /\ dot > diff * rr THEN 2
      ELSE 0
=============================================================================
