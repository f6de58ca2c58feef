------------------------------ MODULE LevelMap ------------------------------
(***************************************************************************)
(* What an HtmRangeMultiLevel maintains: for every finest triangle whether *)
(* it is covered and at which level, "merge while retaining level"         *)
(* (HstmRange.cpp:115), where the coarser of two levels wins.  Compression *)
(* may replace the children of a triangle, all covered at their own level, *)
(* by the triangle.                                                        *)
(***************************************************************************)
EXTENDS EmbeddedLevel, FiniteSetsExt

VARIABLE levelAt      \* the level each position is covered at, or Uncovered

Uncovered == Depth + 1

\* The map after a run of triangles of level l has joined it.
Merged(map, first, last, l) ==
  [p \in Positions |-> IF p \in first .. last /\ l < map[p] THEN l ELSE map[p]]

\* The map after triangles of level l - 1, whose children are all covered at
\* level l, have taken the place of the children.
Family(n, l) == {p \in Positions : p \div Span(l - 1) = n}

FullFamilies(map, l) ==
  {n \in 0 .. Roots * Power[l - 1] - 1 : \A p \in Family(n, l) : map[p] = l}

Coalesced(map, parents, l) ==
  [p \in Positions |-> IF p \div Span(l - 1) \in parents THEN l - 1 ELSE map[p]]

Init == levelAt = [p \in Positions |-> Uncovered]

\* A run of triangles of one level joins the map: it reaches from the first to
\* the last position that changes, and may be longer.
Merge ==
  \E changed \in {{p \in Positions : levelAt'[p] # levelAt[p]}} :
    /\ changed # {}
    /\ \E l \in Levels : levelAt' = Merged(levelAt, Min(changed), Max(changed), l)

Clear == levelAt' = [p \in Positions |-> Uncovered]

Coalesce ==
  \E l \in Levels \ {0} :
     \E parents \in SUBSET FullFamilies(levelAt, l) :
        levelAt' = Coalesced(levelAt, parents, l)

Next == Merge \/ Clear \/ Coalesce

Spec == Init /\ [][Next]_levelAt
=============================================================================
