--------------------------- MODULE SpatialPolygon ---------------------------
(***************************************************************************)
(* SpatialPolygon of src/src/SpatialPolygon.cpp: whether a direction is in *)
(* a polygon, by the edges that the great circle through it and ray_dest   *)
(* crosses, and whether a triangle meets it.  Only signs and directions of *)
(* the vectors are used, so nothing is normalized here; two vectors are    *)
(* the same when they have the same direction.                             *)
(***************************************************************************)
EXTENDS TrixelTree

\* The polygon: nodes is closed, its last node is its first.
VARIABLE p

Sgn[x \in Int] == IF x > 0 THEN 1 ELSE IF x < 0 THEN -1 ELSE 0

SameDirection[a \in Vectors, b \in Vectors] == Cross(a, b) = <<0, 0, 0>> /\ Dot(a, b) > 0

\* ray_dest turned about the x axis, when it is at a node (by 0.05) or at the direction
\* that is asked for (by 0.1).
Turned(v)   == <<20 * v[1], 20 * v[2] - v[3], v[2] + 20 * v[3]>>
Turned10(v) == <<10 * v[1], 10 * v[2] - v[3], v[2] + 10 * v[3]>>

SumOf(vectors) ==
  LET upTo[n \in 0 .. Len(vectors)] == IF n = 0 THEN <<0, 0, 0>> ELSE Plus(upTo[n - 1], vectors[n])
  IN  upTo[Len(vectors)]

\* initialize
Polygon(nodes) ==
  LET open  == SubSeq(nodes, 1, Len(nodes) - 1)
      edges == [j \in DOMAIN open |-> Cross(nodes[j], nodes[j + 1])]
      AtNode(v) == \E j \in DOMAIN open : SameDirection[v, nodes[j]]
      ray[n \in 0 .. Len(nodes)] == IF n = 0 THEN SumOf(open) ELSE Turned(ray[n - 1])
      free  == CHOOSE n \in DOMAIN ray : ~AtNode(ray[n]) /\ \A m \in 0 .. n - 1 : AtNode(ray[m])
  IN  [nodes |-> nodes, edge_gcs |-> edges,
       left_gcs  |-> [j \in DOMAIN edges |-> Cross(edges[j], nodes[j])],
       right_gcs |-> [j \in DOMAIN edges |-> Cross(nodes[j + 1], edges[j])],
       ray_dest  |-> ray[free],
       ccw_orientation |-> Dot(SumOf(edges), SumOf(open)) > 0]

\* The great circle of ray meets the j-th edge, or the side opposite to it.
CrossesEdge[j \in Nat, ray \in Vectors] ==
  LET x == Cross(p.edge_gcs[j], ray)
  IN  Sgn[Dot(x, p.left_gcs[j])] * Sgn[Dot(x, p.right_gcs[j])] > 0

\* Slip: edges that are passed on the way in and out count alike.
Slip_CrossCount == [v \in Vectors, ray_dest \in Vectors |->
  Cardinality({j \in DOMAIN p.edge_gcs : CrossesEdge[j, Cross(v, ray_dest)]})]

\* cross_count: the edges crossed that have v on their left, less those that have it on
\* their right.
CrossCount == [v \in Vectors, ray_dest \in Vectors |->
  LET ray == Cross(v, ray_dest)
      side(s) == Cardinality({j \in DOMAIN p.edge_gcs :
                                CrossesEdge[j, ray] /\ Sgn[Dot(v, p.edge_gcs[j])] = s})
  IN  side(1) - side(-1)]

\* intersect_triangle asks for corners, middles of edges and centre in this order. How many
\* of them are in the polygon, and ray_dest afterwards: intersection leaves it turned.
IntersectTriangle[t \in Triangles] ==
  LET spots == t \o <<Plus(t[1], t[2]), Plus(t[2], t[3]), Plus(t[3], t[1]), Sum3(t)>>
      ray[n \in 0 .. 7] ==
        IF n = 0 THEN p.ray_dest
        ELSE IF SameDirection[spots[n], ray[n - 1]] THEN Turned10(ray[n - 1]) ELSE ray[n - 1]
  IN  [included |-> Cardinality({n \in 1 .. 7 : CrossCount[spots[n], ray[n]] > 0}),
       ray_dest |-> ray[7]]

Between[x \in Vectors, a \in Vectors, b \in Vectors, n \in Vectors] ==
  Dot(Cross(a, x), n) > 0 /\ Dot(Cross(b, x), n) < 0

\* Where the great circles of an edge of the polygon and of v0..v1 meet is between the ends
\* of both.
SegmentCrossp[v0 \in Vectors, v1 \in Vectors] ==
  LET ray == Cross(v0, v1)
  IN  \E j \in DOMAIN p.edge_gcs :
        LET x == Cross(p.edge_gcs[j], ray)
        IN  Between[x, v0, v1, ray] /\ Between[x, p.nodes[j], p.nodes[j + 1], p.edge_gcs[j]]

TriangleCrossp(t) ==
  SegmentCrossp[t[1], t[2]] \/ SegmentCrossp[t[2], t[3]] \/ SegmentCrossp[t[3], t[1]]
=============================================================================
