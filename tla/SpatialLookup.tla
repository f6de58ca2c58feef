---------------------------- MODULE SpatialLookup ----------------------------
(***************************************************************************)
(* What a built SpatialIndex answers (idByPoint and the two neighbour      *)
(* searches of src/SpatialIndex.cpp): down the nodes SpatialMesh has built *)
(* and sorted from a face that holds the point, from other faces when the  *)
(* trixel found seems far from the point, then down to maxlevel_ by        *)
(* dividing triangles.                                                     *)
(***************************************************************************)
EXTENDS SpatialMesh

CONSTANTS
  Points,         \* the directions looked up
  Trixels,        \* the trixels whose neighbours are asked for
  Strays          \* which of the nine steps at the corners go astray, see below

VARIABLE answer   \* what the last question was answered

IndexInit == Init /\ answer = [kind |-> "none"]

-----------------------------------------------------------------------------
\* The same sequence; TLC evaluates its elements once and for all.
Listed(s) == SubSeq(s, 1, Len(s))

\* A direction and the infinitely small step it was nudged by; the tolerant test of a triangle.
Directions == [at : Vectors, nudge : Vectors]
Still(p) == [at |-> p, nudge |-> <<0, 0, 0>>]

Left(p, a, b) ==
  \/ Triple(a, b, p.at) > 0
  \/ Triple(a, b, p.at) = 0 /\ Triple(a, b, p.nudge) >= 0

Holds(t, p) == Left(p, t[1], t[2]) /\ Left(p, t[2], t[3]) /\ Left(p, t[3], t[1])

\* isInsideBarycentric of a face: the direction, dropped onto its plane, lies in the face.
DropsInto(t, p) ==
  LET sign == [i \in 1 .. 3 |-> Sum3(t)[i] \div Far]
      n    == Dot(sign, p)
      Reaches[x \in Int] == x <= 0 \/ x * x <= Dot(p, p)
  IN  \A i \in 1 .. 3 : Reaches[n - 3 * sign[i] * p[i]]

\* Slip: half the distance is too far.
Slip_IsFar(t, p) ==
  LET c == Sum3(t)
      d == Dot(c, p)
  IN  d <= 0 \/ 64 * d * d < 63 * Dot(c, c) * Dot(p, p)

\* dc_end > 0.25: the centre of the trixel and the direction are more than 0.25 apart, their
\* cosine is below 1 - 1/32.  dc_improvement > 0.125 follows, as no dc_start is above 2.
IsFar(t, p) ==
  LET c == Sum3(t)
      d == Dot(c, p)
  IN  d <= 0 \/ 16 * d * d < 15 * Dot(c, c) * Dot(p, p)

\* The face a search begins with, and the order in which the others are tried.
FirstFace(p) == CHOOSE i \in IdsOf(0) :
  /\ Holds(Corners[i], p)
  /\ \A j \in 8 .. i - 1 : ~Holds(Corners[j], p)

ByDistance(p) ==
  LET Near(i) == Dot(Sum3(Corners[i]), p)
      Before(i) == {j \in IdsOf(0) : Near(j) > Near(i) \/ (Near(j) = Near(i) /\ j < i)}
  IN  Listed([rank \in 1 .. 8 |-> CHOOSE i \in IdsOf(0) : Cardinality(Before(i)) = rank - 1])

\* The number of the first of four triangles that holds the point, of the last if none does.
FirstHolding(four, p) ==
  CHOOSE k \in 0 .. 3 :
    /\ k = 3 \/ Holds(four[k], p)
    /\ \A j \in 0 .. k - 1 : ~Holds(four[j], p)

\* Down to a leaf from node to node: the first child that holds the point, the last if none
\* does.  The nodes of the faces are 1 to 8.
Descend(face, p) ==
  LET Down[i \in DOMAIN nodes] ==
        LET Of(k) == nodes[i].child[k + 1]
        IN  IF Of(0) = 0 THEN nodes[i].id
            ELSE Down[Of(FirstHolding([k \in 0 .. 3 |-> CornersOf(nodes[Of(k)])], p))]
  IN  Down[face - 7]

\* subTriangleIndexByPoint: the first child that holds the point; if rounding or a wrong
\* trixel leaves none, the child whose worst edge is best.  (The code asks the children by
\* barycentric coordinates too, in between, which for a point they hold is the same test.)
Quality(t, p) ==
  Min({Triple(t[1], t[2], p.at), Triple(t[2], t[3], p.at), Triple(t[3], t[1], p.at)})

SubTriangle(t, p) ==
  LET Q(k) == Quality(PartitionTriangle[t, k], p)
  IN  IF \E k \in 0 .. 3 : Holds(PartitionTriangle[t, k], p)
      THEN FirstHolding([k \in 0 .. 3 |-> PartitionTriangle[t, k]], p)
      ELSE Min({k \in 0 .. 3 : \A j \in 0 .. 3 : Q(j) <= Q(k)})

\* The digits below the stored leaf, if there is one.
Deepen[stored \in Nat, p \in Directions] ==
  LET Below[level \in buildlevel .. maxlevel] ==
        IF level = buildlevel THEN [id |-> stored, t |-> Corners[stored]]
        ELSE LET up == Below[level - 1]
                 k  == SubTriangle(up.t, p)
             IN  [id |-> Child(up.id, k), t |-> PartitionTriangle[up.t, k]]
  IN  IF stored = 0 THEN 0 ELSE Below[maxlevel].id

\* Attempt by attempt from the next face by distance; a face just tried is passed over.
Search[p \in Directions, nudged \in BOOLEAN] ==
  LET sorted   == ByDistance(p.at)
      Good(id) == nudged \/ ~IsFar(Corners[id], p.at)
      Try[attempt \in 1 .. 8, itry \in 0 .. 8, face \in IdsOf(0)] ==
        LET found == Descend(face, p)
            next  == IF itry < 8 /\ sorted[itry + 1] = face THEN itry + 1 ELSE itry
        IN  IF Good(found) THEN found
            ELSE IF attempt = 8 \/ next = 8 THEN 0
            ELSE Try[attempt + 1, next + 1, sorted[next + 1]]
  IN  Try[1, 0, FirstFace(p)]

\* idByPoint: 0 stands for the "Lost Point" exceptions.
Located[p \in Directions, nudged \in BOOLEAN] == Deepen[Search[p, nudged], p]

IdByDirection(q) ==
  IF \A i \in IdsOf(0) : ~DropsInto(Corners[i], q.at)
  THEN Located[[at |-> q.at, nudge |-> Sum3(Corners[FirstFace(q)])], TRUE]
  ELSE Located[q, FALSE]

IdByPoint(v) == IdByDirection(Still(v))

\* ValueFromSpatialVector: a point that is lost is looked up again beside itself.
ValueFromSpatialVector(v) ==
  LET OrBeside[id \in Nat] == IF id # 0 THEN id ELSE IdByDirection([at |-> v, nudge |-> <<1, 0, 0>>])
  IN  OrBeside[IdByPoint(v)]

\* NeighborsAcrossEdgesFromHtmId: a step from the centre over the middle of each edge.
OverEdges(t) ==
  [i \in 1 .. 3 |-> Plus(Times(13, Plus(t[(i % 3) + 1], t[((i + 1) % 3) + 1])), Times(-2, t[i]))]

NeighborsAcrossEdges(id) ==
  LET over == OverEdges(Corners[id])
  IN  Listed([i \in 1 .. 3 |-> IdByPoint(over[i])])

\* Three steps at every corner: beside the one edge, straight on, beside the other edge.
OverCorners(t) ==
  LET Beside(a, b, c) == Plus(Times(25, t[a]), Plus(t[b], Times(-2, t[c])))
      Beyond(a, b, c) == Plus(Times(14, t[a]), Times(-1, Plus(t[b], t[c])))
  IN  <<Beside(1, 3, 2), Beyond(1, 2, 3), Beside(1, 2, 3),
        Beside(2, 1, 3), Beyond(2, 1, 3), Beside(2, 3, 1),
        Beside(3, 2, 1), Beyond(3, 1, 2), Beside(3, 1, 2)>>

\* Slip: the trixel itself is not passed over.
Slip_Replaced(guesses, i, id) ==
  LET fresh == SelectSeq(NeighborsAcrossEdges(guesses[i]), LAMBDA n : n \notin Range(guesses))
  IN  IF fresh = <<>> THEN guesses ELSE [guesses EXCEPT ![i] = fresh[1]]

\* NeighborsAcrossVerticesFromEdges: a guess that is a neighbour across an edge is replaced
\* by a neighbour of that neighbour which is not in the list yet.
Replaced(guesses, i, id) ==
  LET From[around \in [1 .. 3 -> Nat]] ==
        LET fresh == SelectSeq(around, LAMBDA n : n # id /\ n \notin Range(guesses))
        IN  IF 0 \in Range(around) THEN [guesses EXCEPT ![i] = 0]
            ELSE IF fresh = <<>> THEN guesses ELSE [guesses EXCEPT ![i] = fresh[1]]
  IN  From[NeighborsAcrossEdges(guesses[i])]

\* On the sphere trixels are of unequal shape, and a step beside an edge may end in the
\* neighbour across that edge: strays are the steps that do.
EdgeBeside(i) == CASE i \in {3, 4} -> 3 [] i \in {6, 7} -> 1 [] i \in {9, 1} -> 2

NeighborsAcrossCorners(id, edges, strays) ==
  LET over    == OverCorners(Corners[id])
      guesses == [i \in 1 .. 9 |->
                    IF i \in strays THEN edges[EdgeBeside(i)] ELSE IdByPoint(over[i])]
      Turn(list, n) ==
        LET i == n \div 3 + 1
        IN  IF list[i] # 0 /\ list[i] = edges[(n % 3) + 1] THEN Replaced(list, i, id) ELSE list
  IN  FoldLeft(Turn, Listed(guesses), [n \in 1 .. 27 |-> n - 1])

\* The neighbours across the edges, then those across the corners.
NeighborsOfValue(id, strays) ==
  LET With[edges \in [1 .. 3 -> Nat]] == [edges |-> edges, corners |-> NeighborsAcrossCorners(id, edges, strays)]
  IN  With[NeighborsAcrossEdges(id)]

\* The index is built, and nothing else is being asked.
Ready == pc = "ready" /\ answer.kind = "none"

Lookup(v) ==
  /\ Ready
  /\ answer' = [kind |-> "point", at |-> v, id |-> ValueFromSpatialVector(v)]
  /\ UNCHANGED vars

Neighbors(id, strays) ==
  /\ Ready
  /\ \E found \in {NeighborsOfValue(id, strays)} :
         answer' = IF 0 \in Range(found.edges) \cup Range(found.corners) THEN [kind |-> "lost"]
                   ELSE [kind |-> "neighbors", of |-> id] @@ found
  /\ UNCHANGED vars

\* The caller has the answer.
Answered ==
  /\ answer.kind # "none"
  /\ answer' = [kind |-> "none"]
  /\ UNCHANGED vars

IndexNext ==
  \/ Next /\ UNCHANGED answer
  \/ \E v \in Points : Lookup(v)
  \/ \E id \in Trixels \cap IdsOf(maxlevel), strays \in Strays : Neighbors(id, strays)
  \/ Answered

IndexSpec == IndexInit /\ [][IndexNext]_<<vars, answer>>

-----------------------------------------------------------------------------
\* A lookup never answers a trixel that does not hold the point, whatever faces it has tried
\* on the way, and with three stored levels it never loses a point (idByPoint).
LookupIsRight ==
  answer.kind = "point" =>
    IF answer.id = 0 THEN buildlevel < 3
    ELSE answer.id \in IdsOf(maxlevel) /\ IsInside(answer.at, Corners[answer.id])

\* The neighbours across the edges are the three trixels on the other side of the edges, in
\* the order of the opposite corners.  Every other neighbour touches the trixel at a corner
\* only, however the steps went astray; if one is across an edge, then because that edge's
\* neighbours are all in the list (NeighborsAcrossEdgesFromHtmId,
\* NeighborsAcrossVerticesFromEdges: "if not found, fail silently").
NeighborsMeet ==
  answer.kind = "neighbors" =>
    /\ \A i \in 1 .. 3 :
         /\ ShareEdge(answer.of, answer.edges[i])
         /\ Corners[answer.of][i] \notin CornerSet(answer.edges[i])
    /\ \A i \in 1 .. 9 :
         \/ ShareCorner(answer.of, answer.corners[i])
         \/ /\ answer.corners[i] \in Range(answer.edges)
            /\ Range(NeighborsAcrossEdges(answer.corners[i]))
                 \subseteq {answer.of} \cup Range(answer.corners)
=============================================================================
