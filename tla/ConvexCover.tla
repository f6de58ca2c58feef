---------------------------- MODULE ConvexCover ----------------------------
(***************************************************************************)
(* From points or caps to a range of trixels: htmInterface's convexHull    *)
(* and domain calls (src/SpatialInterface.cpp), which make a convex, and   *)
(* RangeConvex::intersect (src/RangeConvex.cpp), which simplifies it and   *)
(* goes down the trixels that meet it: through the nodes of the index with *)
(* testTrixel, below its leaves with testPartial.                          *)
(***************************************************************************)
EXTENDS PolygonHull, RangeConvex

CONSTANT Tasks    \* what is asked: the points of a hull or the caps of a convex (points, caps), the
                  \* index (levels = <<maxlevel_, buildlevel_>>), varlen_, and tight, see below

VARIABLES
  task,           \* the task, with the points and constraints still to come
  todo,           \* the trixels whose tests are still to come
  hr, hrInterior, hrBoundary     \* the keys of the three ranges

coverVars == <<task, todo, hr, hrInterior, hrBoundary>>

vars == <<hullVars, convexVars, coverVars>>

Init ==
  /\ HullInit /\ ConvexInit
  /\ task \in Tasks
  /\ todo = <<>> /\ hr = {} /\ hrInterior = {} /\ hrBoundary = {}

maxlevel   == task.levels[1]
buildlevel == task.levels[2]
varlen     == task.varlen

-----------------------------------------------------------------------------
(***************************************************************************)
(* What the convex is made of.                                             *)
(***************************************************************************)
GivePoint(v) ==
  /\ v \in task.points
  /\ SetPolyCorner(v)
  /\ task' = [task EXCEPT !.points = @ \ {v}]
  /\ UNCHANGED <<convexVars, todo, hr, hrInterior, hrBoundary>>

\* doHull: a half-sphere for every side; less than three corners throw.
Side(p, i) == HalfSphere(Cross(p[i], p[(i % Len(p)) + 1]))

DoHull ==
  /\ points # {} /\ task.points = {} /\ task.caps = <<>> /\ phase = "fill"
  /\ IF Len(polyCorners) < 3
     THEN phase' = "done" /\ UNCHANGED <<constraints, sign, asked>>
     ELSE /\ constraints' = [i \in DOMAIN polyCorners |-> Side(polyCorners, i)]
          /\ sign' = "zERO"
          /\ asked' = Range(constraints')
          /\ phase' = "simplify"
  /\ UNCHANGED <<hullVars, corners, vertex, removeConstr, current, along, iFuse, coverVars>>

\* domainCmd and circleRegion
AddCap ==
  /\ task.caps # <<>>
  /\ Add(Head(task.caps))
  /\ task' = [task EXCEPT !.caps = Tail(@)]
  /\ UNCHANGED <<hullVars, todo, hr, hrInterior, hrBoundary>>

Intersect ==
  /\ phase = "fill" /\ constraints # <<>> /\ task.caps = <<>>
  /\ phase' = "simplify"
  /\ UNCHANGED <<hullVars, constraints, sign, corners, vertex, removeConstr, current, along, iFuse, asked,
                 coverVars>>

SimplifyConvex ==
  /\ SimplifyStep
  /\ todo' = IF phase' = "cover" THEN [i \in 1 .. 8 |-> [id |-> i + 7, partial |-> -1]] ELSE todo
  /\ UNCHANGED <<hullVars, task, hr, hrInterior, hrBoundary>>

-----------------------------------------------------------------------------
(***************************************************************************)
(* testNode and testTriangle.                                              *)
(***************************************************************************)
\* Bounding circles are larger than what they bound: they tell a triangle from a cap that
\* has nothing in common with it, or they do not (tight or not).
CircleApart(t) ==
  /\ task.tight
  /\ sign = "zERO" => Len(constraints) = 1
  /\ \E i \in DOMAIN constraints : Apart(t, constraints[i])

\* testOtherPosNone
OtherPosNone(t) ==
  {i \in 2 .. Len(constraints) :
     /\ \A j \in 2 .. i : SignOf(constraints[j]) = "pOS"
     /\ ~TestEdgeConstraint(t, constraints[i])}

\* Slip: a hole that only crosses an edge is not seen.
Slip_AllInside(t) ==
  IF sign \in {"pOS", "zERO"} \/ ~TestHole(t, constraints) THEN "fULL" ELSE "pARTIAL"

\* All three corners are inside.
AllInside(t) ==
  IF sign \in {"pOS", "zERO"} \/ ~(TestHole(t, constraints) \/ TestEdge(t, constraints))
  THEN "fULL" ELSE "pARTIAL"

\* No corner is inside; dONTKNOW is made pARTIAL by testNode.
NoneInside(t) ==
  IF CircleApart(t) THEN "rEJECT"
  ELSE CASE sign = "zERO" /\ Len(constraints) > 2 ->
         IF corners # <<>> /\ TestEdge0(t, corners) THEN "pARTIAL" ELSE "rEJECT"
    [] sign = "nEG" -> "pARTIAL"
    [] OTHER ->
         IF TestEdgeConstraint(t, constraints[1])
         THEN IF OtherPosNone(t) = {} THEN "pARTIAL"
              ELSE LET c == constraints[Min(OtherPosNone(t))]
                   IN  IF IsInside(c.a, t) \/ HoldsInside(c, t[1]) THEN "pARTIAL" ELSE "rEJECT"
         ELSE IF sign = "mIXED" \/ IsInside(constraints[1].a, t) THEN "pARTIAL" ELSE "rEJECT"

TestNode[t \in Triangles] ==
  LET vsum == Cardinality({i \in 1 .. 3 : Within(t[i], constraints)})
  IN  IF vsum \in {1, 2} THEN "pARTIAL"
      ELSE IF vsum = 3 THEN AllInside(t) ELSE NoneInside(t)

-----------------------------------------------------------------------------
\* saveTrixel: the keys of a trixel, its leaves or itself.
KeysOf(id) ==
  LET deeper == maxlevel - LevelOfId(id)
  IN  IF varlen THEN {id} ELSE id * 4^deeper .. (id + 1) * 4^deeper - 1

\* The keys of trixels saved with the mark fULL and with the mark pARTIAL.
SaveTrixels(full, partial) ==
  LET in == UNION {KeysOf(id) : id \in full}
      at == UNION {KeysOf(id) : id \in partial}
  IN  /\ hr' = hr \cup in \cup at
      /\ hrInterior' = hrInterior \cup in
      /\ hrBoundary' = hrBoundary \cup at

SaveNothing == UNCHANGED <<hr, hrInterior, hrBoundary>>

\* testTrixel
TestTrixel ==
  LET id   == Head(todo).id
      mark == TestNode[Corners[id]]
  IN
  /\ phase = "cover" /\ todo # <<>>
  /\ Head(todo).partial = -1
  /\ CASE mark = "fULL"   -> SaveTrixels({id}, {}) /\ todo' = Tail(todo)
       [] mark = "rEJECT" -> SaveNothing /\ todo' = Tail(todo)
       [] mark = "pARTIAL" /\ LevelOfId(id) < buildlevel ->
            /\ SaveNothing
            /\ todo' = [k \in 1 .. 4 |-> [id |-> Child(id, k - 1), partial |-> -1]] \o Tail(todo)
       [] mark = "pARTIAL" /\ LevelOfId(id) = buildlevel /\ buildlevel < maxlevel ->
            /\ SaveNothing
            /\ todo' = <<[id |-> id, partial |-> maxlevel - buildlevel]>> \o Tail(todo)
       [] OTHER -> SaveTrixels({}, {id}) /\ todo' = Tail(todo)
  /\ UNCHANGED <<hullVars, convexVars, task>>

\* testPartial
TestPartial ==
  LET id   == Head(todo).id
      level == Head(todo).partial
      m    == [k \in 0 .. 3 |-> TestNode[PartitionTriangle[Corners[id], k]]]
      F    == {k \in 0 .. 3 : m[k] = "fULL"}
      P    == SelectSeq(<<0, 1, 2, 3>>, LAMBDA k : m[k] = "pARTIAL")
  IN
  /\ phase = "cover" /\ todo # <<>>
  /\ level # -1
  /\ IF level = 0
     THEN /\ IF F = 0 .. 3 THEN SaveTrixels({id}, {})
             ELSE IF P # <<>> THEN SaveTrixels({}, {id}) ELSE SaveNothing
          /\ todo' = Tail(todo)
     ELSE /\ SaveTrixels({Child(id, k) : k \in F}, {})
          /\ todo' = [n \in DOMAIN P |-> [id |-> Child(id, P[n]), partial |-> level - 1]]
                     \o Tail(todo)
  /\ UNCHANGED <<hullVars, convexVars, task>>

CoverEnds ==
  /\ phase = "cover" /\ todo = <<>>
  /\ phase' = "done"
  /\ UNCHANGED <<hullVars, constraints, sign, corners, vertex, removeConstr, current, along, iFuse, asked,
                 coverVars>>

Next ==
  \/ \E v \in task.points : GivePoint(v)
  \/ DoHull \/ AddCap \/ Intersect \/ SimplifyConvex
  \/ TestTrixel \/ TestPartial \/ CoverEnds

Spec == Init /\ [][Next]_vars

-----------------------------------------------------------------------------
\* The directions by which the region and the cover are compared: the middles of trixels of
\* the finest level.  None is on the border of a coarser trixel.
Samples == IdsOf(Fineness)
Middle == [id \in Samples |-> Sum3(Corners[id])]

Inside(id, cs) == \A c \in cs : Beyond(Middle[id], c) > 0
Covered(id, keys) ==
  \E level \in 0 .. maxlevel : (varlen \/ level = maxlevel) /\ id \div 4^(Fineness - level) \in keys

\* Three half-spheres that were asked for meet in a corner of the convex, or all in its ends.
Knotted ==
  \E a, b, c \in asked :
    /\ Cardinality({a, b, c}) = 3
    /\ \E side \in {-1, 1} :
         LET at == Times(side, Cross(a.a, b.a))
         IN  /\ at # <<0, 0, 0>> /\ Dot(at, c.a) = 0
             /\ \A d \in asked : d.d = 0 /\ Dot(at, d.a) >= 0

\* Every constraint cuts off something that the others do not.
NoneIsRedundant ==
  \A c \in asked : \E id \in Samples : Inside(id, asked \ {c}) /\ ~Inside(id, {c})

\* Everything inside the region that was asked for is in the range, whatever simplify has
\* dropped or emptied, unless its half-spheres meet three in a corner; and everything in the
\* interior is inside every constraint that simplify has left, which are all of them for a
\* hull and for caps none of which is redundant (intersect, testTrixel, testPartial).
CoverIsRight ==
  phase = "done" => \A id \in Samples :
    /\ asked # {} /\ ~Knotted /\ Inside(id, asked) => Covered(id, hr)
    /\ Covered(id, hrInterior) =>
         /\ Inside(id, Range(constraints))
         /\ polyCorners # <<>> \/ (sign # "zERO" /\ NoneIsRedundant) => Inside(id, asked)

\* "If one lies in the other: drop the larger one" (simplify): of constraints that are
\* redundant the convex loses nothing, so that the interior is inside all that was asked for.
InteriorIsAsked ==
  phase = "done" => \A id \in Samples : Covered(id, hrInterior) => Inside(id, asked)

\* The interior and the boundary make up the range and have no trixel in common, also when
\* trixels are saved by ids of different levels (saveTrixel).
InteriorOrBoundary ==
  /\ hr = hrInterior \cup hrBoundary
  /\ phase = "done" => \A id \in Samples : ~(Covered(id, hrInterior) /\ Covered(id, hrBoundary))

\* The three ranges hold the region, and each no more than it says.
CoverIsExact == CoverIsRight /\ InteriorOrBoundary

\* simplify0 keeps every side of a hull, and its walk finds the corners of the hull in the
\* hull's order (doHull, simplify0).
HullSurvives ==
  phase = "cover" /\ polyCorners # <<>> =>
    /\ Len(constraints) = Len(polyCorners)
    /\ Len(corners) = Len(polyCorners)
    /\ \E k \in DOMAIN corners : \A i \in DOMAIN corners :
         corners[i] = Shorter[polyCorners[((i + k) % Len(corners)) + 1]]

\* The walk around the corners comes back to the first one before its fuse has burnt down,
\* and there is a first one, for every convex of half-spheres that is not empty and has no
\* corner in which three of them meet (simplify0).
WalkReturns ==
  phase \in {"throws", "crashes"} => Knotted \/ \A id \in Samples : ~Inside(id, asked)
=============================================================================
