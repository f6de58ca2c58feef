--------------------------- MODULE MC_ConvexCover ---------------------------
(***************************************************************************)
(* Hulls of points in every order, and convexes of up to three caps, holes *)
(* and half-spheres, covered with indexes of up to three levels, stored or *)
(* divided on the fly.  testPartial looks one level deeper than the index, *)
(* which is the finest level with corners on the grid.                     *)
(***************************************************************************)
EXTENDS ConvexCover

Hull(ps, levels, own) ==
  [points |-> ps, caps |-> <<>>, levels |-> levels, varlen |-> own, tight |-> FALSE]
Convex(caps, levels, own, tight) ==
  [points |-> {}, caps |-> caps, levels |-> levels, varlen |-> own, tight |-> tight]

\* Caps of 37, 53, 90, 127 and 143 degrees.
Cap(a, r, d) == [a |-> a, r |-> r, d |-> d, s |-> IF d = 0 THEN 5 ELSE IF d \in {4, -4} THEN 3 ELSE 4]
X == <<1, 0, 0>>
Z == <<0, 0, 1>>
D == <<1, 2, 2>>
E == <<2, -1, 2>>
CapLists == {
  <<Cap(D, 3, 4)>>, <<Cap(Z, 1, -4)>>, <<Cap(X, 1, 0), Cap(E, 3, 0)>>,
  <<Cap(X, 1, 3), Cap(D, 3, -4)>>, <<Cap(D, 3, -4), Cap(E, 3, -3)>>,
  <<Cap(D, 3, 4), Cap(D, 3, 3)>>, <<Cap(X, 1, 0), Cap(D, 3, 3)>>,
  <<Cap(Z, 1, 4), Cap(X, 1, 4)>>, <<Cap(Z, 1, 4), Cap(Z, 1, -3), Cap(D, 3, 3)>>}

\* Half-spheres: a triangle, with one too many, a quadrangle with opposite sides in a row, two
\* empty convexes, and some of which three meet in a corner.
Y == <<0, 1, 0>>
Sides == {
  <<X, Z, Y>>, <<X, <<1, 1, 1>>, Z, Y>>, <<<<1, 0, 2>>, <<-1, 0, 2>>, <<0, 1, 2>>, <<0, -1, 2>>>>,
  <<X, Y, Z, <<-1, -1, -1>>>>, <<X, Z, <<-1, 0, 0>>>>,
  <<X, Y, Z, <<1, 1, 0>>>>, <<X, Z, Y, <<0, -1, 1>>>>, <<X, Z, Y, <<-1, 1, 0>>>>}
HalfSpheres == {[i \in DOMAIN sides |-> HalfSphere(sides[i])] : sides \in Sides}

MCTasks ==
  {Hull({<<0, 0, 1>>, <<2, 0, 1>>, <<1, 0, 1>>, <<1, 2, 1>>, <<1, 1, 1>>, <<2, 2, 1>>}, <<2, 2>>, FALSE),
   Hull({<<0, -1, 2>>, <<1, 1, 2>>, <<-1, 1, 2>>, <<0, 2, 1>>}, <<2, 1>>, TRUE),
   Hull({<<1, 0, 1>>, <<2, 0, 1>>, <<3, 0, 1>>}, <<1, 1>>, FALSE)}
  \cup {Convex(caps, <<2, 1>>, FALSE, FALSE) : caps \in HalfSpheres}
  \cup {Convex(caps, <<2, 1>>, own, tight) :
          caps \in CapLists, own \in BOOLEAN, tight \in BOOLEAN}
  \cup {Convex(caps, levels, both, both) :
          caps \in CapLists, levels \in {<<2, 2>>, <<3, 1>>}, both \in BOOLEAN}
=============================================================================
