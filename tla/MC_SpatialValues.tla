-------------------------- MODULE MC_SpatialValues --------------------------
(***************************************************************************)
(* Every interval of every level of two root triangles and two levels, at  *)
(* every forced level, alone and before another one, and every array of up *)
(* to three values at a few positions.                                     *)
(***************************************************************************)
EXTENDS SpatialValues

Value(position, level) == position * Unit + level

Between(l) == {<<Value(a * Span(l), l), Value(b * Span(l), l) + KeySpan(l) - 1 - l>> :
                 a, b \in 0 .. (Roots * Span(0)) \div Span(l) - 1}
MCIntervals ==
  {s \in UNION {Between(l) : l \in Levels} : s[1] < s[2]}
    \cup {<<Value(p, l)>> : p \in Positions, l \in Levels}

MCExpansions ==
  [call : {"expand"}, intervals : MCIntervals \cup {s \o <<Value(5, 2)>> \o s : s \in {t \in MCIntervals : t[1] < 2 * KeySpan(1)}},
   force_resolution : {-1} \cup Levels, multi_resolution : BOOLEAN]

MCAdaptations ==
  [call : {"adapt"}, s_indices : UNION {[1 .. n -> {Value(p, l) : p \in {0, 1, 5, 20}, l \in {0, 2}}] : n \in 1 .. 3}]

\* Nothing can be said of values at the same place: the conversion to int gives INT_MIN.
MCEstimate(a, b) ==
  LET apart == IF a > b THEN a - b ELSE b - a
  IN  IF apart = 0 THEN -1 ELSE IF apart > 16 THEN 0 ELSE IF apart > 4 THEN 1 ELSE 2
=============================================================================
