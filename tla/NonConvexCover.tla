--------------------------- MODULE NonConvexCover ---------------------------
(***************************************************************************)
(* STARE::NonConvexHull (src/src/STARE.cpp): the trixels that meet a       *)
(* polygon, found from the eight roots with a worklist, and for a clockwise*)
(* polygon the trixels that are left.  Every turn of either loop is an     *)
(* action; ray_dest of the polygon may change with every turn.             *)
(***************************************************************************)
EXTENDS SpatialPolygon, SpatialRange

CONSTANT Polygons    \* what is asked: points and force_resolution_level

ASSUME NonConvexCoverAssumption ==
  /\ Roots = 8 /\ Fanout = 4 /\ Depth = Fineness
  /\ KEY_MAX = EndOfKeys - 1      \* the terminator of the last trixel, LLONG_MAX
  /\ \A q \in Polygons : q.force_resolution_level \in 0 .. Depth /\ Len(q.points) >= 3

VARIABLES
  task,
  ccw_orientation,
  cover, cover2,              \* what is still to do in the two worklists
  cover1, cover3,             \* what has been kept
  interior,                   \* cover1 as a range
  phase

vars == <<task, p, ccw_orientation, cover, cover2, cover1, cover3, interior, phase>>

force_resolution_level == task.force_resolution_level

RootValues == [r \in 1 .. 8 |-> (r - 1) * KeySpan(0)]

Closed(points) == points \o <<points[1]>>
Backwards(s)   == [i \in DOMAIN s |-> s[Len(s) + 1 - i]]

Init ==
  /\ task \in Polygons
  /\ LET asked == Polygon(Closed(task.points))
     IN  /\ ccw_orientation = asked.ccw_orientation
         /\ p = IF ccw_orientation THEN asked ELSE Polygon(Backwards(asked.nodes))
  /\ cover = RootValues
  /\ cover1 = {} /\ cover2 = <<>> /\ cover3 = {} /\ interior = {}
  /\ phase = "sift"

-----------------------------------------------------------------------------
\* htmIDFromValue: the id of a value's trixel at a level.
HtmIDFromValue(siv, level) == 8 * 4^level + Position(siv) \div Span(level)

\* getIndex(level) and TriangleFromValue.
TriangleFromValue(siv) == Corners[HtmIDFromValue(siv, LevelById(siv))]

\* Slip: the children are set apart by the span of their parent's level.
Slip_Children(siv) == [j \in 1 .. 4 |-> 1 + siv + (j - 1) * KeySpan(LevelById(siv))]

Children(siv) == [j \in 1 .. 4 |-> 1 + siv + (j - 1) * KeySpan(LevelById(siv) + 1)]

\* With no spot inside, a node of the polygon may be in the triangle, or edges may cross.
Hit(t) == (\E k \in DOMAIN p.nodes : IsInside(p.nodes[k], t)) \/ TriangleCrossp(t)

\* A turn of the first loop.  No value in the worklist is a terminator.
Sift ==
  LET i0   == Head(cover)
      t    == TriangleFromValue(i0)
      test == IntersectTriangle[t]
      meets == test.included > 0 \/ Hit(t)
      done == test.included >= 7 \/ LevelById(i0) = force_resolution_level
  IN
  /\ phase = "sift" /\ cover # <<>>
  /\ p' = [p EXCEPT !.ray_dest = test.ray_dest]
  /\ \/ ~meets /\ cover' = Tail(cover) /\ UNCHANGED cover1
     \/ meets /\ done /\ cover' = Tail(cover) /\ cover1' = cover1 \cup {i0}
     \/ meets /\ ~done /\ cover' = Tail(cover) \o Children(i0) /\ UNCHANGED cover1
  /\ UNCHANGED <<task, ccw_orientation, cover2, cover3, interior, phase>>

\* The cover of a counterclockwise polygon is cover1.
SiftEnds ==
  /\ phase = "sift" /\ cover = <<>>
  /\ IF ccw_orientation THEN phase' = "done" /\ UNCHANGED <<cover2, interior>>
     ELSE /\ phase' = "complement"
          /\ cover2' = RootValues
          /\ interior' = {IntervalOf(siv, siv) : siv \in cover1}
  /\ UNCHANGED <<task, p, ccw_orientation, cover, cover1, cover3>>

Overlaps[siv \in Nat] == AtLeastOne({IntervalOf(siv, siv)}, interior)

\* Slip: a child that overlaps the interior is not looked at again.
Slip_Undecided(children) == {}

\* The children that are divided in their turn, and those that are done.
Undecided(children) == {c \in children : ~ContainsValue(interior, c) /\ Overlaps[c]}

Outside(children) == {c \in children : ~ContainsValue(interior, c) /\ ~Overlaps[c]}

PushBack(list, c, S) == IF c \in S THEN Append(list, c) ELSE list

\* The list with those of four children at its end that are in S.
PushEach(list, c, S) ==
  PushBack(PushBack(PushBack(PushBack(list, c[1], S), c[2], S), c[3], S), c[4], S)

\* A turn of the second loop: what overlaps the interior is divided.
ComplementDivide ==
  LET i0 == Head(cover2)
      children == Range(Children(i0))
  IN
  /\ phase = "complement" /\ cover2 # <<>>
  /\ LevelById(i0) < force_resolution_level
  /\ AtLeastOne(interior, {IntervalOf(i0, i0)})
  /\ cover2' = PushEach(Tail(cover2), Children(i0), Undecided(children))
  /\ cover3' = cover3 \cup Outside(children)
  /\ UNCHANGED <<task, p, ccw_orientation, cover, cover1, interior, phase>>

\* Slip: a trixel that is kept stays in the worklist.
Slip_ComplementKeep ==
  LET i0 == Head(cover2)
  IN
  /\ phase = "complement" /\ cover2 # <<>>
  /\ \/ LevelById(i0) >= force_resolution_level
     \/ ~AtLeastOne(interior, {IntervalOf(i0, i0)})
  /\ cover3' = cover3 \cup {i0}
  /\ UNCHANGED <<task, p, ccw_orientation, cover, cover2, cover1, interior, phase>>

\* What does not, or can not be divided, is kept.
ComplementKeep ==
  LET i0 == Head(cover2)
  IN
  /\ phase = "complement" /\ cover2 # <<>>
  /\ \/ LevelById(i0) >= force_resolution_level
     \/ ~AtLeastOne(interior, {IntervalOf(i0, i0)})
  /\ cover2' = Tail(cover2)
  /\ cover3' = cover3 \cup {i0}
  /\ UNCHANGED <<task, p, ccw_orientation, cover, cover1, interior, phase>>

ComplementEnds ==
  /\ phase = "complement" /\ cover2 = <<>>
  /\ phase' = "done"
  /\ UNCHANGED <<task, p, ccw_orientation, cover, cover2, cover1, cover3, interior>>

Next == Sift \/ SiftEnds \/ ComplementDivide \/ ComplementKeep \/ ComplementEnds

\* The caller waits for the call.
Spec == Init /\ [][Next]_vars /\ WF_vars(Next)

-----------------------------------------------------------------------------
\* The directions by which cover and polygon are compared: the middles of the finest
\* trixels.  They are inside when they are in more of the triangles that an anchor spans with
\* the sides counterclockwise than in those it spans clockwise; the anchor is in line with
\* no side and middle.
Samples == 8 * 4^Fineness .. 16 * 4^Fineness - 1
Middle == [id \in Samples |-> Sum3(Corners[id])]

Inside[id \in Samples] ==
  LET v == Middle[id]
      anchor == Plus(Times(19, SumOf(Tail(p.nodes))), <<1, 7, -4>>)
      sides == [j \in DOMAIN p.edge_gcs |->
                  <<Triple(anchor, p.nodes[j], v), Triple(p.nodes[j], p.nodes[j + 1], v),
                    Triple(p.nodes[j + 1], anchor, v)>>]
      turning(s) == Cardinality({j \in DOMAIN sides : \A i \in 1 .. 3 : Sgn[sides[j][i]] = s})
  IN  turning(1) > turning(-1)

PositionOf(id) == id - 8 * 4^Fineness
Covers(cell, siv) == Position(siv) \div Span(LevelById(siv)) = cell \div Span(LevelById(siv))
CoveredBy(cells, cell) == \E siv \in cells : Covers(cell, siv)

\* No trixel of a worklist lies in another one of it or in one that has been kept.
Apart(list, kept) ==
  /\ \A a, b \in kept : Covers(Position(a), b) => a = b
  /\ \A i \in DOMAIN list : \A a \in kept :
       ~Covers(Position(a), list[i]) /\ ~Covers(Position(list[i]), a)
  /\ \A i, j \in DOMAIN list : Covers(Position(list[i]), list[j]) => i = j

\* Whatever the tests of triangles answer, no part of the sphere is looked at twice: at
\* every turn of either loop what waits and what has been kept have nothing in common
\* (NonConvexHull).
EachOnce == Apart(cover, cover1) /\ Apart(cover2, cover3)

\* No direction inside the polygon is lost, however the polygon lies in the trixels
\* (NonConvexHull).
PolygonIsCovered ==
  phase = "done" => \A id \in Samples : Inside[id] => CoveredBy(cover1, PositionOf(id))

\* What is kept without reaching the forced level is inside as a whole, unless the polygon's
\* border runs through it (intersect_triangle: its seven spots are taken for all of it).
CoverIsTight ==
  phase = "done" => \A siv \in cover1 :
    LevelById(siv) < force_resolution_level /\ ~Hit(TriangleFromValue(siv)) =>
      \A id \in Samples : Covers(PositionOf(id), siv) => Inside[id]

\* The cover loses nothing of the polygon and, where no border runs, adds nothing.
CoverIsSound == PolygonIsCovered /\ CoverIsTight

LastPosition == Roots * Span(0) - 1

\* What contains takes for inside although it is not: once the interior ends with the sphere,
\* all that lies after its other trixels, in a root that it meets.
Overlooked(cell) ==
  /\ ~CoveredBy(cover1, cell)
  /\ \E siv \in cover1 : Covers(LastPosition, siv)
  /\ \A siv \in cover1 : Covers(LastPosition, siv) \/ Position(siv) < cell
  /\ \E root \in Range(RootValues) :
       Covers(cell, root) /\ \E siv \in cover1 : Covers(Position(siv), root)

\* At a forced level above 0 a clockwise polygon gives the trixels outside of it and no part of
\* those it found inside, and loses just what contains overlooks; at level 0 it gives the
\* sphere (the complement in NonConvexHull).
ComplementIsTheRest ==
  phase = "done" /\ ~ccw_orientation => \A cell \in Positions :
    CoveredBy(cover3, cell) <=>
      force_resolution_level = 0 \/ ~(CoveredBy(cover1, cell) \/ Overlooked(cell))

\* Both loops divide the sphere: nothing is looked at twice, and nothing but the overlooked is
\* left out (NonConvexHull).
SphereIsDivided == EachOnce /\ ComplementIsTheRest

\* Both worklists run empty (NonConvexHull).
HullIsFound == <>(phase = "done")
=============================================================================
