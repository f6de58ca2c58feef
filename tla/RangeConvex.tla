---------------------------- MODULE RangeConvex ----------------------------
(***************************************************************************)
(* A convex and its simplification (the first half of                      *)
(* src/RangeConvex.cpp): constraints are added in order of their angle,    *)
(* and before the convex is used, simplify drops constraints that seem     *)
(* redundant, for a convex of half-spheres after finding its corners and   *)
(* walking around them.                                                    *)
(***************************************************************************)
EXTENDS SphericalCap, SequencesExt

CONSTANT Fuse     \* the turns after which simplify0's walk gives up (iFuse, 2^38 in the code)

ASSUME RangeConvexAssumption == Fuse \in Nat \ {0}

VARIABLES
  constraints,    \* constraints_
  sign,           \* sign_: "nEG", "zERO", "pOS" or "mIXED"
  corners,        \* corners_
  phase,          \* "fill", "simplify", "walk", "cover", "done", "throws" or "crashes"
  vertex,         \* simplify0: corner with cornerConstr1 and cornerConstr2
  removeConstr,   \* simplify0
  current, along, \* simplify0: currentCorner (from 1), and c
  iFuse,
  asked           \* the constraints as they were added

convexVars == <<constraints, sign, corners, phase, vertex, removeConstr, current, along, iFuse,
                asked>>

ConvexInit ==
  /\ constraints = <<>> /\ sign = "zERO" /\ corners = <<>> /\ asked = {}
  /\ phase = "fill"
  /\ vertex = <<>> /\ removeConstr = {} /\ current = 0 /\ along = 0 /\ iFuse = Fuse

-----------------------------------------------------------------------------
\* The sign of a convex when a constraint of sign s comes to those of sign old.
SignWith(old, s) ==
  IF {old, s} = {"nEG", "pOS"} THEN "mIXED" ELSE IF old = "zERO" THEN s ELSE old

SignOfAll(cs) ==
  FoldLeft(LAMBDA sofar, c : SignWith(sofar, SignOf(c)), SignOf(cs[1]), Tail(cs))

\* One sweep from the end: the new constraint sinks to its place by ascending angle.
Sunk(cs, c) ==
  LET after == {i \in DOMAIN cs : \A j \in i .. Len(cs) : cs[j].d < c.d}
  IN  IF after = {} THEN Append(cs, c) ELSE InsertAt(cs, Min(after), c)

Add(c) ==
  /\ phase = "fill"
  /\ constraints' = Sunk(constraints, c)
  /\ sign' = IF constraints = <<>> THEN SignOf(c) ELSE SignWith(sign, SignOf(c))
  /\ asked' = asked \cup {c}
  /\ UNCHANGED <<corners, phase, vertex, removeConstr, current, along, iFuse>>

-----------------------------------------------------------------------------
(***************************************************************************)
(* simplify of convexes with caps: pairs are compared in turn, and after   *)
(* the first pair with a redundant constraint all begins again.            *)
(***************************************************************************)
Pairs == {p \in (DOMAIN constraints) \X (DOMAIN constraints) : p[2] < p[1]}

\* What a pair shows: nothing, an empty convex, or the one of the two that is redundant.
Nothing == 0
Empty == -1

Verdict(p) ==
  LET a    == constraints[p[1]]
      b    == constraints[p[2]]
      test == TestConstraints(a, b)
      holes == {i \in {p[1], p[2]} : SignOf(constraints[i]) = "nEG"}
  IN  IF test = 0 \/ (SignOf(a) = "zERO" /\ SignOf(b) = "zERO") THEN Nothing
      ELSE CASE holes = {} ->
                  IF test = -1 THEN Empty ELSE IF test = 1 THEN p[1] ELSE p[2]
             [] Cardinality(holes) = 2 ->
                  IF test = -1 THEN Nothing ELSE IF test = 1 THEN p[2] ELSE p[1]
             [] OTHER ->
                  IF test = -1 THEN Min(holes)
                  ELSE IF (test = 2) = (p[1] \in holes) THEN Nothing ELSE Empty

\* The first pair that shows something.
Decisive ==
  LET telling == {p \in Pairs : Verdict(p) # Nothing}
  IN  {p \in telling : \A q \in telling : p[1] < q[1] \/ (p[1] = q[1] /\ p[2] <= q[2])}

\* erase(end() - i - 1), which counts i from the end.
Redundant(i) == RemoveAt(constraints, Len(constraints) + 1 - i)

Simplify ==
  /\ phase = "simplify" /\ sign # "zERO"
  /\ IF Decisive = {}
     THEN /\ sign' = SignOfAll(constraints)
          /\ phase' = "cover"
          /\ UNCHANGED constraints
     ELSE LET verdict == Verdict(CHOOSE p \in Decisive : TRUE)
          IN  IF verdict = Empty
              THEN constraints' = <<>> /\ phase' = "done" /\ UNCHANGED sign
              ELSE constraints' = Redundant(verdict) /\ UNCHANGED <<phase, sign>>
  /\ UNCHANGED <<corners, vertex, removeConstr, current, along, iFuse, asked>>

-----------------------------------------------------------------------------
(***************************************************************************)
(* simplify0.                                                              *)
(***************************************************************************)
Axis(i) == constraints[i].a

\* The pairs i < j the loops come to before j is the same half-sphere as i, in their order.
PairsOf(i) ==
  LET same == {j \in i + 1 .. Len(constraints) : Axis(j) = Axis(i)}
  IN  i + 1 .. (IF same = {} THEN Len(constraints) ELSE Min(same) - 1)

Corner(i, j, side) == Shorter[Times(side, Cross(Axis(i), Axis(j)))]

\* Slip: the point opposite to a corner is taken.
Slip_IsCorner(i, j, side) ==
  \A k \in DOMAIN constraints \ {i, j} : Dot(Corner(i, j, side), Axis(k)) < 0

IsCorner(i, j, side) ==
  \A k \in DOMAIN constraints \ {i, j} : Dot(Corner(i, j, side), Axis(k)) > 0

CornersOn(i) ==
  FlattenSeq([n \in 1 .. Len(constraints) |->
    IF n \in PairsOf(i)
    THEN LET Both == <<[at |-> Corner(i, n, 1), c1 |-> i, c2 |-> n, side |-> 1],
                       [at |-> Corner(i, n, -1), c1 |-> i, c2 |-> n, side |-> -1]>>
         IN  SelectSeq(Both, LAMBDA v : IsCorner(i, n, v.side))
    ELSE <<>>])

Opposed == \E i \in DOMAIN constraints : \E j \in PairsOf(i) : Axis(j) = Times(-1, Axis(i))

\* The other corner of constraint i, the last one if there are several.
OtherCorner(vs, i) == Max({k \in 2 .. Len(vs) : i \in {vs[k].c1, vs[k].c2}} \cup {0})

\* Slip: the first half-sphere of the corner, whichever the walk came along.
Slip_Across(v, i) == v.c1

\* The other half-sphere of a corner.
Across(v, i) == IF v.c1 = i THEN v.c2 ELSE v.c1

Simplify0Few ==
  /\ phase = "simplify" /\ sign = "zERO"
  /\ Len(constraints) <= 2
  /\ LET twice == Len(constraints) = 2 /\ Axis(1) = Axis(2)
     IN  /\ constraints' = IF Opposed THEN <<>> ELSE IF twice THEN Front(constraints) ELSE constraints
         /\ phase' = IF Opposed THEN "done" ELSE "cover"
  /\ UNCHANGED <<sign, corners, vertex, removeConstr, current, along, iFuse, asked>>

\* The points vi1 and vi2, on this side and on the other, that the last pair has left.
LeftOver(side) ==
  LET i == Max({n \in 1 .. Len(constraints) - 1 : PairsOf(n) # {}})
  IN  Corner(i, Max(PairsOf(i)), side)

\* The first corner is read although there is none.
NoCorner(vs) ==
  /\ vs = <<>>
  /\ phase' = "crashes"
  /\ UNCHANGED <<constraints, corners, vertex, removeConstr, current, along>>

\* Up to the walk: from the first corner it goes along the one of its half-spheres that has
\* the convex on its left, judged by the other corner there or else by what vi1 was left
\* with.  When there is no other corner, k1 and c1, or k2 and c2, are read uninitialized.
FirstStep(vs) ==
  LET i     == vs[1].c1
      to    == <<OtherCorner(vs, i), OtherCorner(vs, vs[1].c2)>>
      vi    == [n \in {1, 2} |-> IF to[n] # 0 THEN vs[to[n]].at
                                ELSE LeftOver(IF n = 1 THEN 1 ELSE -1)]
      n     == IF Triple(vi[1], Axis(i), vs[1].at) > 0 THEN 1 ELSE 2
  IN
  /\ vs # <<>>
  /\ phase' = "walk"
  /\ vertex' = vs
  /\ removeConstr' = {k \in 1 .. Len(constraints) - 1 : CornersOn(k) = <<>>}
  /\ corners' = <<vs[1].at, vi[n]>>
  /\ IF to[n] # 0
     THEN /\ current' = to[n]
          /\ along' = Across(vs[to[n]], IF n = 1 THEN i ELSE vs[1].c2)
     ELSE /\ current' \in 1 .. Len(vs) + 1
          /\ along' \in 0 .. Len(constraints)
  /\ UNCHANGED constraints

\* Three constraints or more.
Simplify0Corners ==
  /\ phase = "simplify" /\ sign = "zERO"
  /\ Len(constraints) > 2
  /\ LET vs == FlattenSeq([i \in 1 .. Len(constraints) - 1 |-> CornersOn(i)])
     IN  IF Opposed
         THEN /\ constraints' = <<>> /\ phase' = "done"
              /\ UNCHANGED <<corners, vertex, removeConstr, current, along>>
         ELSE NoCorner(vs) \/ FirstStep(vs)
  /\ UNCHANGED <<sign, iFuse, asked>>

\* The i-th of the constraints is to go, and the i-th from the end goes.
Remaining ==
  LET Stays(i) == Len(constraints) + 1 - i \notin removeConstr
      places   == SelectSeq([i \in DOMAIN constraints |-> i], Stays)
  IN  [n \in DOMAIN places |-> constraints[places[n]]]

\* The other corners on the half-sphere the walk follows.
Ahead == {k \in DOMAIN vertex \ {current} : along \in {vertex[k].c1, vertex[k].c2}}

\* One turn of the walk: to the first of them, if there is one.
WalkTurn ==
  /\ phase = "walk" /\ current # 1
  /\ iFuse' = iFuse - 1
  /\ phase' = IF iFuse = 1 THEN "throws" ELSE phase
  /\ IF Ahead = {} THEN UNCHANGED <<corners, current, along>>
     ELSE /\ current' = Min(Ahead)
          /\ IF Min(Ahead) = 1 THEN UNCHANGED <<corners, along>>
             ELSE /\ corners' = Append(corners, vertex[Min(Ahead)].at)
                  /\ along' = Across(vertex[Min(Ahead)], along)
  /\ UNCHANGED <<constraints, sign, vertex, removeConstr, asked>>

\* The walk is back at the first corner.
WalkEnds ==
  /\ phase = "walk" /\ current = 1
  /\ phase' = "cover"
  /\ constraints' = Remaining
  /\ UNCHANGED <<sign, corners, vertex, removeConstr, current, along, iFuse, asked>>

SimplifyStep == Simplify \/ Simplify0Few \/ Simplify0Corners \/ WalkTurn \/ WalkEnds
=============================================================================
