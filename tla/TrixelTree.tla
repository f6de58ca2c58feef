----------------------------- MODULE TrixelTree -----------------------------
(***************************************************************************)
(* The hierarchical triangular mesh as a tree of trixels: a trixel's id is *)
(* 8 .. 15 for the faces of the octahedron, and its children append two    *)
(* bits.  Directions are integer vectors; a midpoint is left on the flat   *)
(* octahedron instead of being pushed out to the sphere (normalize()),     *)
(* which moves the trixels and leaves their order, their corners and their *)
(* neighbours as they are.                                                 *)
(***************************************************************************)
EXTENDS Integers, Sequences, FiniteSets

CONSTANT Fineness      \* the corners of the octahedron are 2^Fineness away

ASSUME TrixelTreeAssumption == Fineness \in Nat \ {0}

\* Functions, not operators: TLC evaluates an argument of a function once.
Vectors == [1 .. 3 -> Int]
Adding[a \in Vectors, b \in Vectors] == <<a[1] + b[1], a[2] + b[2], a[3] + b[3]>>
Scaling[n \in Int, a \in Vectors]   == <<n * a[1], n * a[2], n * a[3]>>
Inner[a \in Vectors, b \in Vectors]  == a[1] * b[1] + a[2] * b[2] + a[3] * b[3]
Outer[a \in Vectors, b \in Vectors]  == <<a[2] * b[3] - a[3] * b[2],
                                        a[3] * b[1] - a[1] * b[3],
                                        a[1] * b[2] - a[2] * b[1]>>
Plus(a, b)  == Adding[a, b]
Times(n, a) == Scaling[n, a]
Dot(a, b)   == Inner[a, b]
Cross(a, b) == Outer[a, b]
Sum3(t)     == Plus(t[1], Plus(t[2], t[3]))

Midpoint(a, b) ==
  <<(a[1] + b[1]) \div 2, (a[2] + b[2]) \div 2, (a[3] + b[3]) \div 2>>

\* v[0] .. v[5] of the constructor: k, i, j, -i, -j, -k
Far == 2^Fineness
OctahedronVertices ==
  <<<<0, 0, Far>>, <<Far, 0, 0>>, <<0, Far, 0>>,
    <<-Far, 0, 0>>, <<0, -Far, 0>>, <<0, 0, -Far>>>>

\* The vertices of the faces S0 .. S3, N0 .. N3 in the order of newNode(1, 5, 2, 8) ...
RootFaces ==
  <<<<1, 5, 2>>, <<2, 5, 3>>, <<3, 5, 4>>, <<4, 5, 1>>,
    <<1, 0, 4>>, <<4, 0, 3>>, <<3, 0, 2>>, <<2, 0, 1>>>>

Triangles == [1 .. 3 -> [1 .. 3 -> Int]]

\* partitionTriangle
PartitionTriangle[t \in Triangles, k \in 0 .. 3] ==
  LET w0 == Midpoint(t[2], t[3])
      w1 == Midpoint(t[1], t[3])
      w2 == Midpoint(t[1], t[2])
  IN  CASE k = 0 -> <<t[1], w2, w1>>
        [] k = 1 -> <<t[2], w0, w2>>
        [] k = 2 -> <<t[3], w1, w0>>
        [] k = 3 -> <<w0, w1, w2>>

-----------------------------------------------------------------------------
(***************************************************************************)
(* What the numbers of trixels mean, whichever way they are stored.        *)
(***************************************************************************)
IdsOf(level) == 8 * 4^level .. 16 * 4^level - 1

Child(id, k) == 4 * id + k

\* levelOfId, from the position of the first bit
LevelOfId(id) == CHOOSE level \in 0 .. Fineness : id \in IdsOf(level)

\* The corners of a trixel, found from the digits of its id.
CornersByDigits[id \in 8 .. 16 * 4^Fineness - 1] ==
  IF id < 16
  THEN [i \in 1 .. 3 |-> OctahedronVertices[RootFaces[id - 7][i] + 1]]
  ELSE PartitionTriangle[CornersByDigits[id \div 4], id % 4]

Corners == [id \in 8 .. 16 * 4^Fineness - 1 |-> CornersByDigits[id]]

Triple(a, b, p) == Dot(Cross(a, b), p)

\* isInside, with gEpsilon the smallest step
IsInside(p, t) ==
  /\ Triple(t[1], t[2], p) >= 0
  /\ Triple(t[2], t[3], p) >= 0
  /\ Triple(t[3], t[1], p) >= 0

CornerSet(id) == {Corners[id][i] : i \in 1 .. 3}

ShareEdge(a, b)   == Cardinality(CornerSet(a) \cap CornerSet(b)) = 2
ShareCorner(a, b) == Cardinality(CornerSet(a) \cap CornerSet(b)) = 1
=============================================================================
