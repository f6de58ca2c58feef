----------------------- MODULE MC_HtmRangeMultiLevel -----------------------
(***************************************************************************)
(* Two root triangles with four children each, down to level 2: thirty-two *)
(* finest triangles and intervals of three levels.                         *)
(***************************************************************************)
EXTENDS HtmRangeMultiLevel

\* The interval of the triangles first..last of level l.
Run(l, first, last) == <<first * KeySpan(l) + l, (last + 1) * KeySpan(l) - 1>>

\* Up to seven finest triangles that begin with a first, second or last child and end with a
\* second, third or last one or a first; children of the roots, one alone, two, and some of both
\* roots; and a root.
MCRanges ==
  {Run(2, first, last) : <<first, last>> \in
     {run \in {0, 3, 5, 9, 15} \X {2, 5, 7, 8, 15, 19} : run[2] - run[1] \in 0 .. 6}}
    \cup {Run(1, 1, 1), Run(1, 2, 3), Run(1, 3, 5), Run(0, 0, 0)}
=============================================================================
