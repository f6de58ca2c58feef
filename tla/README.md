# STARE in TLA+

TLA+ models of STARE (SpatioTemporal Adaptive Resolution Encoding), the TLC
configurations that check them on small instances, and TLAPS proofs about some of
them for every size. STARE numbers the triangles (trixels) of a hierarchical
triangular mesh of the sphere; a region is a set of intervals of such numbers.

The models follow that idea through the library: the mesh is built and asked where
a point lies; polygons and caps are turned into sets of trixels; the values are
expanded, compared and adapted; and the intervals are kept in `HtmRange` and
`HtmRangeMultiLevel`, each a pair of skip lists that are changed separately and
walked with one shared iterator each. The other half of STARE packs a time and its
precision into an integer; the objects that hold such a time, and the functions
that compute with packed times, are modelled too.

## Inventory

### Parts, their state and their operations

| part | state | operations | who calls it |
|---|---|---|---|
| `SkipList`, `SkipListElement` | header, forward links per level, keys, values, `myLength`, one iterator `iter` | `insert`, `free`, `freeRange`, `freeAll`, `search`, `findMAX`, `findMIN`, `reset`, `step`, `getkey`, `getNthKey`, `getCount` | the two range classes |
| `HtmRange` | two skip lists, `my_los` and `my_his` | `mergeRange`/`addRange`, `purge`, `defrag`, `defrag(gap)`, `isIn`, `contains`, `intersection`, `reset`, `getNext`, `nranges`, `bestgap`, `stats`, output | `RangeConvex`, `SpatialInterface`, `HtmRangeIterator` |
| `HtmRangeMultiLevel` | two skip lists; the low end's value is its high end, its key carries its level | `mergeRange`/`addRange`, `defrag`, `CompressionPass`, `RangeFromIntersection`, `purge`, `reset`, `getNext`, `nranges`, `isIn`, `equalp`, `verify` | `HstmRange`, `SpatialRange` |
| `EmbeddedLevelNameEncoding` | one id | level, terminator, successor, predecessor, increment, decrement, names, SciDB formats | everything that handles ids |
| `BitShiftNameEncoding` | one id | conversion from and to right-justified ids and names | `SpatialIndex`, `HtmRange` output |
| the range iterators | current key, current interval | `hasNext`, `nextSymbolic`, `next` | applications |
| `HstmRange`, `SpatialRange` | one multi-level range | `addRange` with terminators and level checks, `addSpatialIntervals`, `toSpatialIntervals`, `compress`, intersection (`sr_intersect`) | applications, the Python binding |
| `STARE` | caches of `SpatialIndex` per level, the temporal index | spatial and temporal values, covers, hulls, `cmpSpatial`, `expandIntervalsMultiRes` | applications |
| `TemporalIndex`, `TemporalWordFormat1`, `BitField` | bit fields of one word, reached through shared pointers | field access, increment and decrement with carry, conversion to and from milliseconds and dates; overlap, union, intersection, resolutions of a series | `STARE`, the Python binding |
| `SpatialIndex` | arrays of nodes, layers and vertices, filled once | building the quad tree, lookup by point and by id | `STARE`, `SpatialInterface`, `RangeConvex` |
| `RangeConvex`, `SpatialDomain`, `SpatialConstraint` | constraints, corners, the ranges under construction | descent over the tree, saving of accepted triangles | `STARE`, `SpatialInterface` |
| `SpatialInterface`, `SpatialEdge`, `SpatialPolygon`, `SpatialVector`, `SpatialRotation` | geometry | floating-point geometry | the above |
| `Htmio`, exceptions, applications, `contrib`, vendored CUTE and ERFA | none of interest | input, output | |

### How they interact, and what is hard

The library runs in one thread and persists nothing: there are no messages, no
crashes to recover from and no locks. What is hard is sequence and sharing:

* **Two lists, one meaning.** An interval is a key in `my_los` and a key in
  `my_his`, and nothing but the order of calls ties them together. Every merge
  frees and inserts in one list and then in the other, after asking both where
  its ends lie.
* **One iterator per list, shared by all.** `defrag`, `CompressionPass`,
  `mergeRange`, `nranges`, `getNext` and printing all move the same iterator.
  Loops free the element the iterator is at, and must have looked ahead.
* **Keys as symbols.** -1 is "no key", 0 is "no more intervals" to some walks
  and a legal key to others, `KEY_MAX` and `-KEY_MAX` are the header, and `KEY_MAX` is
  the terminator of the last trixel of the sphere.
* **Levels.** Ends of intervals of different levels are compared as numbers and
  trimmed by successor and predecessor at one level or the other; the successor
  of the last triangle of the sphere is 0.
* **Loops that give up.** `mergeRange` of the multi-level range throws in the
  middle of its loop when a counter passes 100.
* **Loops that repeat until nothing changes.** `CompressionPass`.
* **Work lists that grow while they are worked off.** The covers push the children of
  a trixel where they took the trixel from; the spatial adaptation and the temporal
  series rewrite the array they still compare.
* **Walks that must come back.** `simplify0` walks around the corners of a convex from
  half-sphere to half-sphere until it is at the first corner again, or 2^38 turns later.
* **Decisions that geometry makes degenerate.** A point on an edge, a ray through a
  node, three half-spheres through one corner, a hull whose points lie on a line.
* **Numbers that move.** `SpatialIndex` sorts its nodes and renumbers the links between
  them while later moves still follow those links.
* **Fields behind shared pointers.** Copying a `TemporalIndex` and assigning one
  look alike and are not: an assigned object shares its fields.
* **Time before the start.** The packed integer is negative and its fields run
  backwards, while the calendar inside a year runs forwards.

`PROJECT.json` lists these, line by line, under `hazards`.

### What makes each part correct

* `SkipList`: whatever levels were drawn, the links at all levels agree, and the
  list is the map from keys to values that its calls describe.
* `HtmRange`: the two lists pair up; the range is a set of keys; `mergeRange` is
  union with an interval; `defrag(gap)` closes gaps up to `gap` and ends.
* `HtmRangeMultiLevel`: the lists pair up and the stored high ends are right; an
  interval is a run of whole triangles of its level; the range is a map from
  finest triangles to levels; `mergeRange` is the minimum with an interval's
  level; `defrag` changes nothing in it; `CompressionPass` replaces full families
  of siblings by parents, should find all of them, which it does not (see the findings), and
  ends.
* encodings: conversions keep order and nesting. Iterators: every value of the
  range once.
* `SpatialIndex`: trixels that share an edge share its midpoint; after sorting, the nodes
  are the tree of ids and a trixel's corners can be found from its number; a point is
  looked up in a trixel that holds it; the neighbours are the neighbours.
* `SpatialInterface`, `RangeConvex`: the hull is that of the points in whatever order
  they come; simplification keeps a hull, and should keep the region of any convex, which it
  does not (see the findings); the range holds all of the region, the interior nothing outside
  the constraints left, and what is not interior is boundary.
* `SpatialPolygon`, `STARE::NonConvexHull`: no direction inside is lost; a trixel kept
  whole is inside unless the border runs through it; a cover and its complement make up
  the sphere; both work lists run empty.
* `STARE`: an expansion covers its interval and ends; comparison is containment; every
  value is adapted to the nearest of the others.
* `TemporalIndex`: carries are additions and stop at the year; packing loses
  nothing and keeps the order of time; objects do not change behind their owner's
  back; a series' values reach to their neighbours; overlap, union and
  intersection are those of the stretches of time.

## Modules

```
OrderedKeys        keys, iterator positions, findMAX, findMIN, freeRange on sets of keys
  OrderedMap       what a skip list promises
  SkipList         the linked levels                         MC_SkipList
  IntervalSet      what an HtmRange promises
  HtmRange         two lists of ends, their iterators        MC_HtmRange
  OrderedKeysProofs, SkipListProofs                          proofs
  HtmRangeProofs                                             proofs
EmbeddedLevel      index values, their levels and terminators
  LevelMap         what an HtmRangeMultiLevel promises
  HtmRangeMultiLevel                                         MC_HtmRangeMultiLevel
  EmbeddedLevelLemmas                                        proofs
  HtmRangeMultiLevelProofs                                   proofs
  SpatialRange     intervals put in, taken out, intersected
    SpatialValues  expansion, comparison, adaptation         MC_SpatialValues
TrixelTree         ids, corners and neighbours of trixels
  SpatialMesh      the index being built
    SpatialLookup  the same index asked when it is built     MC_SpatialLookup
  SphericalCap     constraints against points, edges, trixels
    PolygonHull    setPolyCorner
    RangeConvex    add, simplify, simplify0
      ConvexCover  both of them, and the descent             MC_ConvexCover
  SpatialPolygon   ray crossings, spots, border crossings
    NonConvexCover with SpatialRange: NonConvexHull          MC_NonConvexCover
    NonConvexCoverProofs                                     proofs
TemporalFormat     the packed word: fields, milliseconds, resolutions
  TemporalIndex    objects that hold one                     MC_TemporalIndex
  TemporalSeries   functions of packed values                MC_TemporalSeries
  TemporalFormatLemmas, TemporalIndexProofs                  proofs of both
```

### `OrderedKeys`, `OrderedMap`, `SkipList`

`SkipList` has the header and the elements as `level` and `next[i][e]`, the values,
`myLength` as `length`, the iterator as `iter` (a key, `Nil`, or `Freed` once its
element is deleted) and `freeing`, the local variables of `freeRange` and
`freeAll`. `insert` and `free` are one action each; `freeRange` and `freeAll` are
one action per turn, because each turn frees the element the loop is at.
`getNewLevel` draws a level: the model takes every outcome. `findMAX` and
`findMIN` walk the levels as the code does (`WalkMAX`, `WalkMIN`), and
`OrderedKeys` says what the walk finds in a set of keys; `SearchesAgree` connects
the two, and the modules above use the operators on sets.

### `IntervalSet`, `HtmRange`

`los` and `his` are the key sets of the two lists, `loAt` and `hiAt` the
iterators, `gap` the argument of the `defrag` under way. `walking` is a ghost
variable: it is true as long as the range has not been changed since the last
`reset`, the condition under which a client may expect `getNext` to be paired.
`tinside` is `TInside`, from the same four searches; `mergeRange` frees and
inserts as it says. `defrag` is one action per turn, with its look-ahead: the
iterators are stepped, the old ends are freed, the iterators are set by search.
`isIn`, `contains` and `intersection` are operators.

### `EmbeddedLevel`, `LevelMap`, `HtmRangeMultiLevel`

An index value is a position on the finest level times `Unit`, plus its level;
the terminator of a triangle is the last value in it, all level bits set.
`Roots`, `Fanout`, `Depth` and `LevelMask` are 8, 4, 27 and 63 in the program.
`Power` is the powers of the fan-out, written as a recursive function because the
provers know nothing of `^`. A client's ranges (`Ranges`) are pairs of numbers below the
end of the sphere.
`los` is a function, since the list of low ends stores the high end. `call` holds
the locals of `mergeRange`, `defrag` or `CompressionPass` while one of them loops;
every turn is an action, named for the case it handles (the code numbers them 1
to 6). `call.before` is a ghost: the map of levels when the merge began.

`LevelMap` is the abstract specification: every finest triangle is uncovered or
covered at one level. A merge takes the coarser level; compression replaces
complete families.

### `TrixelTree`, `SpatialMesh`, `SpatialLookup`

`TrixelTree` has the reference: the corners of an id by halving, and which trixels
share an edge or a corner. Directions are integer vectors. The program pushes every
midpoint out to the sphere; here it stays on the flat octahedron with corners at
2^`Fineness`. That moves trixels and changes their shape, and leaves alone what the
models are about: which trixel is whose child, which corners they share, on which side
of an edge a direction lies. Midpoints of `Fineness` halvings are integers, so every
test is exact; `Fineness` is therefore the level of the finest trixel a run looks at, in
`ConvexCover` one more than that of the index.

`SpatialMesh` is the constructor of `SpatialIndex`. `NewEdge` is one call of `newEdge`
(an edge is found in the six slots of its first vertex or filed there with a new
midpoint), `MakeChildren` one trixel of `makeNewLayer`, `BeginLayer` the new layer's
numbers, `SortLeaf` and `SortNonleaf` one move of `sortIndex`. `layers`, `nodes`,
`vertices`, `index` and `lTab` are the members of those names; `cursor` and `corner`
are the loop counters. The properties look at what the index answers: `NodeVertex`
descends below the stored leaves as `nodeVertex` does.

`SpatialLookup` goes on where `SpatialMesh` has come to its end (`IndexNext` has the steps of
both), and is what the built index answers, one question an action: `idByPoint` with
the choice of the first face, the descent from node to node (`Descend`), the test of the
distance after it, the other faces in order of distance and the division of triangles below the
stored leaves (`Search`, `Deepen`); `ValueFromSpatialVector`, which looks a lost point up again
beside itself; the neighbours across edges and the nine guesses at the corners with
their replacement. A nudge of 10^-8 or 10^-10 in the code is infinitely small here: a
direction is a pair of a vector and a nudge that only breaks ties. The limit of 0.25 on
the distance is the squared cosine 15/16. On the sphere trixels are of unequal shape, and a
guess beside a corner may end beside the edge instead: `Strays` says which of the guesses
do, so that the replacement is exercised although the flat steps never stray.

### `SphericalCap`, `PolygonHull`, `RangeConvex`, `ConvexCover`

A constraint is a cap around an axis of integer length with cosine d/5 and sine s/5, so
that all comparisons of cosines are comparisons of integer squares. `SphericalCap` holds
the tests of a cap against a vertex, an edge, a trixel.

`PolygonHull` gives points one by one to `setPolyCorner`. `RangeConvex` adds constraints in
order of their angle and simplifies: `Simplify` is one round of `simplify`,
`Simplify0Corners` finds the corners, `WalkTurn` is one turn of the walk around them, with
`iFuse` as `Fuse` turns, and `WalkEnds` what comes behind it. Which way the walk sets off is
decided by what was last put into `vi1` and `vi2`, by the search for the other corner on each of
the two half-spheres or, when there is none, by the last pair looked at before (`LeftOver`); the
index and the half-sphere that go with a corner which was not found are uninitialized, and any
(`FirstStep`). Without any corner `corner[0]` is read beyond the end, and the phase is
"crashes". `ConvexCover` makes a convex of a hull (`DoHull`) or
of caps (`AddCap`), and descends: `TestTrixel` through stored trixels, `TestPartial` below
the leaves, with `TestNode` for the verdict and `SaveTrixels` for the three ranges `hr`,
`hrInterior` and `hrBoundary`. The trixels to come are the call stack, in order, in `todo`.

Three things are simplified. A bounding circle is larger than its triangle and by how much
is geometry: with `tight` it rejects whatever has no point in common with the cap, without
it nothing, and runs take both. `eSolve` finds intersections by solving a
quadratic equation in parameters of the edge; here it is the condition that the nearest or
farthest point of the edge's great circle lies within the edge and across the border.
The ranges are sets of keys: how they keep them is `HtmRange` and `HtmRangeMultiLevel`.

### `SpatialPolygon`, `SpatialRange`, `NonConvexCover`

`SpatialPolygon` counts the crossings of a ray with the edges as `contains` does, turning
the ray, which is a member and stays turned, when it meets a node. The turns of 0.1 and 0.05
radians are turns by arc tangents of 1/10 and 1/20. A triangle meets a polygon by its seven spots
or by crossings of borders.

`SpatialRange` has a range as its set of intervals, which do not overlap: values and
terminators put in (`AddSpatialIntervals`), taken out again (`ToSpatialIntervals`),
membership and intersection by the same searches as the code.

`NonConvexCover` composes them: `Sift` is one turn of the first work list of
`NonConvexHull` (keep, divide or drop a trixel), `ComplementDivide` and `ComplementKeep` the
turns of the second one, which for a clockwise polygon divides what overlaps the inside
and keeps the rest (`PushEach` is its `push_back` for each of the four children).
`KEY_MAX` is the last key of the sphere (`NonConvexCoverAssumption`), as it is in the program:
the terminator of the last trixel at depth 27 is 0x7FFFFFFFFFFFFFFF, which is `LLONG_MAX`. A list
holds it as any other key, but `findMIN` takes it for the header's and answers `KEY_MIN`
(`FindMIN`), and `contains` of a range that ends with it says yes to values outside the range.
`Overlooked` is what the complement loses by that.

### `SpatialValues`

Expansion of arrays of intervals one loop turn at a time: `TakeInterval`, `StartWorking`,
`ExpandWorking` for a plain level, `Coalesce` for families of four that are
taken together. `atLevel(nextLo, level0)` has its two arguments as the code reads them
(`AtLevelOfItself`). `Adapt` is one turn of the pairwise comparison, written in place.
`Estimate`, the level at which triangles are as wide as two places are apart, is a
constant operator; for equal places the code converts minus infinity to an `int`, which
is the smallest one in practice, here -1: never the largest. `CmpSpatial` is an operator.
The index values are left-justified without depth bit, in the SciDB format shifted by
one bit; both are a position times `Unit` plus a level.

### `TemporalFormat`, `TemporalIndex`, `TemporalSeries`

`Fields` lists the calendar fields with width, maximum and scale; the program has
eight. `Encode` and `Decode` are `scidbTemporalIndex` and the constructor from an
integer, `Milliseconds` and `FromMilliseconds` the conversions to native time,
`MillisecondsAt` and `CoarsestFiner` those of resolutions. They are the same bit
arithmetic as in the code, at other widths. `Sums` is the code's loop over the fields, and
`Two` its shifts, as functions on the fields and on the bits there are.

In `TemporalIndex`, `held` says which set of fields an object points to and `data` what
is in it: the copy constructor makes a new set, the assignment the compiler
generates does not. Every setter and conversion is an action, and a call that
throws changes what the code has stored before it throws. `assigned` is a ghost, the
groups of objects that were assigned to each other.

`TemporalSeries` holds the array of `set_temporal_resolutions_from_sorted_inplace` and
takes one turn of its loop at a time; the turn calls `scidbNewTemporalValue`, which
calls `scidbContainsInstant` and `scidbOverlap`. Union and intersection, which call them
too, are operators. An error is the value 0, which no time is packed into. `given`
is a ghost, the array as it was passed. `TemporalSeriesAssumption` says what of the calendar
makes each resolution finer than the one before: no field has a bit its greatest value does
not need, and the resolution that marks a terminator stands for none. Both are so in the
program: its fields of 13, 4, 2, 3, 5, 6, 6 and 10 bits go up to 8191, 13, 3, 6, 23, 59, 59
and 999, and the finest resolution is 48 of 63.

In all these modules `Slip_...` operators stand before some definitions: each is
a small programming error at that place, used to show that a property can fail.

## Runs

| run | instance | result |
|---|---|---|
| `skiplist` | 3 keys, 3 levels, 2 values, every draw of levels | passes |
| `htmrange` | 6 keys, three gaps and none | passes |
| `hrml` | 2 roots, fan-out 4, depth 2: 32 finest triangles, 3 levels; 15 ranges: runs of up to seven finest triangles, of children of one and of both roots, and a root; `errorCountMax` 2 | passes |
| `hrml_anyrange` | as `hrml`, merges unrestricted | `EndsPaired` violated |
| `index` | indexes of levels 1 to 3, stored wholly, one level short, or with 0 or too many levels asked to be stored; 8 points on corners, edges and insides; all trixels of one face at levels 1 to 3 with four sets of strays | passes |
| `cover` | hulls of up to 6 points in every order; convexes of up to three caps of 37, 53, 90, 127 and 143 degrees, with holes, and of half-spheres, of some of which three meet in a corner or which have nothing in common; indexes of levels 1 to 3, stored wholly or one or two levels short; both kinds of circles and of ids | passes |
| `interior_asked` | as `cover` | `InteriorIsAsked` violated |
| `nonconvex` | 7 polygons in both directions at forced levels 0 to 3 | passes |
| `values` | every interval of 2 roots, fan-out 4, depth 2 at every forced level, plainly and with families; arrays of up to 3 values for the adaptation | passes |
| `values_remaining` | as `values` | `RemainingFollows` violated |
| `temporal_index` | two objects; a year (0 to 3) and two fields below it, one with room above its maximum | passes |
| `temporal_series` | sorted arrays of up to 3 instants of 17; four fields, resolutions of 20, 10, 8, 4, 2 and 1 milliseconds | passes |

**Invariants with parts.** Several runs check a conjunction of named parts:
`ListIsWellFormed` is `TypeOK`, `LevelsNested`, `LengthIsCount` and `FreeRangeLookAhead`;
`RangeIsWellFormed` is `TypeOK`, `EndsPaired`, `WholeTriangles`, `InStep` and `MergeProgress`;
`QueriesAreNearlyRight` is `ContainsIsNearlyRight` and `IntersectionIsNearlyRight`;
`MeshIsShared` is `TypeOK` and `MidpointsShared`; `CoverIsExact` is `CoverIsRight` and
`InteriorOrBoundary`; `CoverIsSound` is `PolygonIsCovered` and `CoverIsTight`;
`SphereIsDivided` is `EachOnce` and `ComplementIsTheRest`;
`ExpansionIsRight` is `PlainIsRight` and `IntervalsSurvive`; `WordsAreSound` is `TypeOK` and
`ConversionsAreFaithful`; `SeriesIsSound` is `SeriesTypeOK` and
`ReachesNeighbours`.

**Bounds and why they suffice.** Nothing here is counted up without limit: the
states are sets of keys from a fixed range, so no guard caps anything. Three keys
let a skip list have a head, a middle and an end of any relative heights, and
three levels let the header rise and fall past an empty level. Six keys let an
`HtmRange` hold three intervals, or two with an interval that overlaps, touches,
contains or falls between them at distance 1 and 2. In `hrml` the fan-out is the program's four,
for `CompressionPass` counts families by fours. Its ranges are chosen, not exhaustive: they begin
with a first, second and last child, end with each kind of child, lie in one family and
across two, and three levels are nested, so that every case of `mergeRange` is taken, with the
new range coarser, finer and the same, a family can be complete within one interval or be put
together of several, coalescing cascades to a root, and intervals of five and six that begin with
a last child are there, over which compression goes wrong. `errorCountMax`
is 100 in the code: with 2, ranges short enough to explore reach it.

Two fields below the year let a carry run over a field with room above its maximum
and one without, and stop at the year; the year is not a multiple of the next
field, as in the native calendar. Values from setters go one beyond the maximum,
times one beyond the first and the last. In `temporal_series` the distances between
neighbours cover 0, every distance up to 13 and some beyond the coarsest
resolution, and an array may end at the last millisecond there is, where the loop
throws. Its values are after the start of the calendar: before it the functions
take them for values that are not given, because they are negative. The caller
changes a field by at most its range (`DeltasGiven`): one carry is all the code does.

In `index` three stored levels fill all six slots of the first vertices, and an index that
stores fewer levels than it answers for has its leaf numbers computed. A trixel's
neighbours asked for lie in its own face, across one edge and around a corner of the octahedron,
where four trixels meet instead of six. In `cover` and `nonconvex` the samples by which
region and cover are compared are the middles of all finest trixels, 2048 and 512 of them, no
coarser than the trixels that are kept; shapes lie in one trixel, on corners and edges, across several
faces and around a pole, and are convex, notched and thin. `Fuse` is 12: no hull there has more
than six corners, so a walk that comes back has done so by then. `KEY_MAX` is 4095 in `nonconvex`
and 255 in `values`, the last key of the sphere there. A polygon of `nonconvex` lies in the last
trixel of the second level alone, others reach into that of the first. `values` has every interval
there is over two roots and two levels, so that an interval begins and ends at
every child number, and holds no, one and several families of either level.

**What the passing `hrml` run leaves out**: merges of a coarse range that would
cut a finer interval in two (`CutsStraddler`; `hrml_anyrange` shows what they do), and ranges
that reach the last triangle of the sphere, whose successor is 0 in the code (a finding
below). With these left out the lists pair up in all states.

**Fairness.** A called function runs until it returns, and nothing else happens
meanwhile, for the library is single threaded: so the turns of loops are weakly fair, and
where the run is one call (`nonconvex`, `values`) the whole of `Next` is. Clients
owe no call. `FreeRangeEnds`, `DefragEnds`, `CallsEnd`, `HullIsFound` and
`ExpansionEnds` say that loops end; `CallsEnd` covers the repeated passes of
`CompressionPass`. That `simplify0` comes back is a safety property, `WalkReturns`: the fuse
would end the walk anyway.

**Deadlock** is checked wherever clients can always make another call; `cover`,
`nonconvex`, `values`, `values_remaining` and `temporal_series` are one call, which ends.

### Properties worth pointing out

* `ImplementsMap`, `ImplementsIntervalSet`, `ImplementsLevelMap`: refinement of the
  three abstract specifications.
* `DefragLookAhead`, `FreeRangeLookAhead`, `InStep`: at no turn of a loop is an
  iterator at a freed element or at the wrong interval.
* `MergeProgress`: between two turns of the multi-level `mergeRange`, what is in
  the lists together with what is left to merge is what the call was asked for;
  and case 5.1 never returns with the rest lost.
* `MergeIsWhole`: a merge that returns has merged everything, and one that throws
  has merged exactly the part below where it gave up.
* `CarriesAdd`: a carry over any number of fields is an addition in mixed radix.
* `ConversionsAreFaithful`: the order of packed integers is the order of time, before
  the start, after it and across.
* `ChangesStayTogether`: the two objects change in one step only when one was assigned
  to the other.
* `ReachesNeighbours`: the resolutions are the ones that fit the neighbours' distance,
  with bounds to within the one millisecond by which `scidbContainsInstant` widens an
  instant, although the turns before have rewritten the neighbour.
* `OverlapIsMeeting`: holds although `temporal_mask` computes 2 xor 12 where 2 to the
  12th was meant, because all bounds have the same reverse resolution, and an upper one never
  the smaller forward resolution.
* `HullsNearlyCover`: union and intersection cover what they should within a
  millisecond. Where a value reaches before the start, its lower end is not covered.
* `KeysFound`, `QueriesAreNearlyRight`: what `isIn`, `contains` and `intersection` really
  answer.
* `MidpointsShared`, `SortKeepsTree`: every edge is met twice, from trixels whose order
  depends on the layer before, and its midpoint is made once; after all moves the links,
  ids and corners of nodes agree.
* `LookupIsRight`: the distance test rejects good trixels when few levels are stored, and
  the other faces are tried; a wrong trixel is never the answer, and a point is lost
  only with fewer than three levels stored.
* `NeighborsMeet`: whatever guesses stray, the nine at the corners are neighbours at a corner,
  or nothing was left to replace the guess by.
* `HullIsRight`: independent of the order of points, also on a line and over the wrap.
* `HullSurvives`, `CoverIsExact`: the hull goes through simplification unchanged; the region a
  caller asked for is in the range after constraints were dropped and the descent done, unless
  three half-spheres meet in a corner (`Knotted`); the interior is inside the constraints that are
  left and, for a hull and for caps of which none is redundant, inside all that were asked for.
* `WalkReturns`: the walk around the corners comes back, and there is a first one, but for
  convexes that are knotted or empty.
* `OnlyShortIntervalsKeepFamilies`: which families of siblings compression leaves, whatever was
  merged and stitched together before.
* `SphereIsDivided` (`EachOnce`): trixels are told apart by values that carry a level; what is pushed behind the
  list while it is worked off is never a part of what waits or has been kept.
* `CoverIsSound`: relates the crossing count of a ray, which may have been turned, to an
  independent definition of the inside, for all finest trixels. A trixel kept whole may have a notch
  between its spots when the border runs through it.
* `SphereIsDivided` (`ComplementIsTheRest`): the complement of a clockwise polygon is what its cover
  leaves, less what `contains` overlooks, and that is said in terms of the cover alone.
* `ExpansionIsRight`, `CompareIsContainment`, `AdaptedToNearest`: against sets of finest
  positions.

### Findings

These are shown by runs:

1. `HtmRangeMultiLevel::mergeRange`, case 5.2, can free the low end of an interval and
   leave its high end (`hrml_anyrange`).
2. `RangeConvex::simplify` erases redundant constraints by an index counted from the wrong end:
   of two nested caps the smaller one goes, and the interior holds what lies outside of it
   (`interior_asked`).
3. `expandIntervalsMultiRes` continues behind families taken together at a wrong position:
   `atLevel(nextLo, level0)` is given the position for the level (`values_remaining`). Of the
   1200 intervals of level 2 tried with the library, 877 come back wrong.

Others were met while modelling. The models contain them, and the property named with each says
exactly how far the code departs from what it promises, so the run that passes shows the
departure too: without the exception in it the property is violated.

* `CompressionPass` "coarsens where possible" (`SpatialRange.h:67`), and overlooks full families
  of four in intervals of five or six triangles that begin with a last child: triangles 3 to 7
  stay as they are. `HtmRangeMultiLevel.cpp:2273` takes it that they hold none
  (`OnlyShortIntervalsKeepFamilies`).
* When three half-spheres meet in a corner of a convex, as those around (1,0,0), (0,1,0), (0,0,1)
  and (1,1,0) do, `simplify0` finds corners from which its walk does not come back, and throws
  after 2^38 turns, which the `TODO` at `RangeConvex.cpp:574` fears (`WalkReturns`, `Knotted`).
* The terminator of the sphere's last trixel is `KEY_MAX`, which `findMIN` turns into `KEY_MIN`. A
  `SpatialRange` that ends with it says of values behind its other trixels that it contains them,
  and the complement of a clockwise polygon, with which `STARE.cpp:925` means to make up the
  sphere, loses those trixels (`ComplementIsTheRest`, `Overlooked`). The compiled library loses
  them, too.
* The complement of a clockwise polygon lacks the outer part of the trixels on the border, which
  the comment at `STARE.cpp:1007` keeps: they are trixels of the cover, whose complement is the
  rest (`ComplementIsTheRest`).
* `HtmRange::contains` answers "full" for an interval of which only the first key is in
  the range; `intersection` has no case for a low end outside and a high end on a boundary.
* `HtmRangeMultiLevel` uses the successor 0 of the sphere's last triangle as a low end, and
  throws when a merge passes more than a hundred intervals.
* `expandInterval` of a value with location bits, forced to a finer level, begins at that
  place and not at the triangle's first child.

## Proofs

Six components have theorems; each rests on the assumptions about constants its modules
state and, where that is said, on a hypothesis written out in the theorem.

### `SkipList`

`SkipListProofs`, for every `KEY_MAX > 1`, every number of levels, all values and all draws
of the levels (`KeyMaxAssumption`, `SkipListAssumption`):

* `ListIsWellFormedAlways`, `SearchesAgreeAlways`: the invariants the run checks;
* `CallsKeepTheirPromiseAlways`: its action property;
* `Implementation`: `SkipList` implements `OrderedMap`.

With `FreeRangeEnds`, which is liveness, these are all properties of the run. The
properties speak of what walks see: of chains, and of descents that begin at the
header's level. Neither says anything of an element a walk does not come by, so they are
not inductive. The invariant speaks of single links: on every level in use or not, an
element that is tall enough links the next such key, everything else links nothing
(`Linked`); the header is as tall as the tallest element (`HeaderIsTallest`); the
length is the number of keys; `freeRange` is at the first key it has still to free
(`FreeingAt`). The part about levels above the header is what makes it safe to
raise the header again.

The argument has three parts. `AdvanceStops` and `DescentStops`: in a list that is `Linked`
every descent stops at the last element below the key; the walks are recursive
functions, of which a solution is written down and shown to be the only one on the
elements that matter, by the greatest element at which another solution could differ.
`ChainRecursion` and `ChainLists`: a chain lists the elements of its level in order and as
many as there are. `Hooked` and `Unhooked`: one element more or less on one level, from which
`LinkKeeps` and `UnlinkKeeps` follow level by level. `OrderedKeysProofs` says what `findMAX`,
`findMIN` and the iterator find in a set of keys, from the existence of least and
greatest elements of bounded sets of integers. `SearchesAgreeAlways` is what permits
`HtmRange` to be modelled, and proved about, on sets of keys.

### `HtmRange`

`HtmRangeProofs`, for every `KEY_MAX > 1` and every set of gaps (`KeyMaxAssumption`,
`HtmRangeAssumption`):

* `EndsAlternateAlways`, `WalkIsPairedAlways`, `KeysFoundAlways`: invariants the run checks;
  `TypeCorrect`, on which they rest; `DefragLookAheadAlways`: the look-ahead of the loop;
* `QueriesAreNearlyRightAlways`: what `contains` and `intersection` answer, with their
  deviations;
* `MergeIsUnionAlways`: its action property; `PlainDefragChangesNothingAlways`;
* `Implementation`: `HtmRange` implements `IntervalSet`.

The inductive invariant is `TypeOK /\ EndsAlternate /\ WalkIsPaired /\ LoopInv`.
`EndsAlternate` alone is kept by merges, whose verdicts from `tinside` are right only
in lists that alternate; it is not kept by a turn of `defrag` unless the iterators
are at neighbouring ends, which is `LoopInv` (`DefragLookAhead` without its claim
about the gaps behind, and with the kind of positions), and `LoopInv` is set up by
`DefragBegin` from `EndsAlternate`. The lemmas at the head of the module are combinatorics, about
any two sets of ends that alternate: what a merge makes of them (`MergeAlternates`, `MergeOpens`),
what a join of neighbours makes of them (`JoinAlternates`, `JoinOpens`), and which high
end follows a low end (`FirstPair`, `NextPair`). The refinement maps a turn that joins to
`CloseGap` if keys were missing and to a stutter if not; `EndClosing` needs that all gaps
left are wide, which is the second half of `DefragLookAhead`.

### `HtmRangeMultiLevel`

`HtmRangeMultiLevelProofs`, for every number of roots, fan-out, depth and level mask, every
`errorCountMax` and `KEY_MAX` (`EmbeddedLevelAssumption`, `HtmRangeMultiLevelAssumption`):

* `RangeIsWellFormedAlways`, `MergeIsWholeAlways`: invariants the run checks;
* `OnlyCoalescingCoarsensAlways`: its action property;
* `Implementation`: the two lists implement `LevelMap`.

Each of them has the hypothesis `Restricted`, the restriction of the passing run: `AnyRange`
is false, so a merge does not cut a finer interval in two, and no range of a client reaches
the last triangle of the sphere. Without the first, case 5.2 of `mergeRange` leaves a high
end behind (`hrml_anyrange`). Without the second, the case above the current interval takes
the successor of a high end as the next low end, and that of the sphere's last triangle
is 0 in the code. What compression leaves (`OnlyShortIntervalsKeepFamilies`) is not proved.

The inductive invariant is that the two lists hold runs of whole triangles, one above the
other (`Good`), that the iterators are where the loops expect them (`Iterators`), and
about a merge under way: that what is left of it is an interval of whole triangles
(`LeftToMerge`), that the intervals the loop has passed lie below the rest (`Behind`), that
none reaches into it from below (`NoStraddle`), that merging the rest would complete
the whole merge (`Sofar`), and that from the rest upwards the map is the old one
(`Untouched`). `RangeIsWellFormed` has only the last but one of these: it does not say where
the loop is, so from a state it allows a turn may insert an interval into the middle of
another.

The argument: positions are reduced to keys (`KeyOf`, `PositionBelow`, `PositionAbove`), bounds of
whole triangles that differ do so by at least a `Unit` (`UnitsApart`), and `Rewritten` and
`RewrittenMap` are about any call that replaces one stretch of the lists by given
intervals: what the lists and the map are afterwards. Every case of `mergeRange`, of
`defrag` and of `CompressionPass` is an instance of it, with its intervals. For
`CompressionPass`, `PiecesAre`, `ParentsLie` and `ParentsMap` say that a run of triangles is cut
into a head, whole families and a tail. For the refinement, `MergedExtends` relates the map
a merge began with to the one it leaves. TLC found the invariant to hold in the 96801
states of the run before it was proved.

### `TemporalIndex`

`TemporalIndexProofs`, for every set of objects, every calendar and every argument
(`TemporalFormatAssumption`, which the program's eight fields fulfil, and
`TemporalIndexAssumption`): all three properties of the run.

* `TypedAlways`: every set of fields holds a word whose fields are between 0 and one beyond
  their maximum; the invariant behind the next two.
* `CarriesAddAlways`: `incrementAtId` and `decrementAtId` add and take what they are asked to,
  and throw when the result has no representation and only then.
* `WordsAreSoundAlways`: `TypeOK`, and values in range are packed into integers that lose
  nothing and sort by time, and survive milliseconds and back.
* `ChangesStayTogetherAlways`: when two objects change in one step, one was assigned to
  the other, directly or by way of others. Copies, sums and conversions never tie objects.
* `SharingIsByAssignment`: the invariant behind it.

The calendar is a constant, so every statement is about sums over a list of fields of
any length. `TemporalFormatLemmas` treats one matter for all of them: the digits of a
number in a mixed radix (`Radix`, `Digits`, `Worth`). What the digits from one place on are
worth stays below the place before (`TailBound`), so each digit can be read off the number
(`DigitOf`), and of two numbers the one with the greater digit where they first
differ is greater, and the other way round (`LaterDigit`, `FirstDifference`). There are three
instances. The bit fields of the packed integer (`BitsAreRadix`) give `DecodeOfEncode` and
`EncodeOrders`; the scales of the fields below the year (`ScalesAreRadix`) give
`MillisecondsRoundTrip`; the places of the carries (`PlacesAreRadix`) give
`CarryingKeepsNumber`: what each field is changed by, less what it carries on, changes the
number by what is carried into the finest field. `EncodeSorts` puts the first two together:
where two values of one year first differ in time is where their integers first differ,
and before the start, where the fields below the year are stored reversed and the sign is
negative, the two reversals cancel. The lemmas about sums, powers, carries and places begin
with the existence of the recursive function (`SumsRecursion`, `TwoRecursion`,
`CarryRecursion`, `BorrowRecursion`, `PlaceRecursion`); inductions are over an interval
of fields, from `Climbing` and `Descending`, which follow from the existence of least elements.

`TypeOK` is inductive once the type is known to be 1, without which a word can not be packed
and unpacked (`Typed`). `CallsFit` shows that every call writes a word that fits, into the
fields its object points to or into new ones, points it to another's, or changes
nothing; a setter may leave a field in excess by one, and a carry or a borrow from there leaves
no more. `ChangesStayTogether` is a property of steps; what makes it true is that objects with
the same fields are in one group of assigned objects (`Sharing`). To keep that through an
assignment, which moves an object from one group to another, the groups must partition
the objects (`Grouped`); the step lemmas are about the four things of `CallsFit`.

### `TemporalSeries`

The second half of `TemporalIndexProofs`, for every calendar, every sorted array of any
length whose values are after the start, and whatever resolutions they were given with
(`TemporalSeriesAssumption`): all three properties of the run.

* `SeriesIsSoundAlways`: however many turns have rewritten the array, what they have not reached
  is as given, and what they have keeps its time and has resolutions that fit its neighbours,
  with bounds and without, also where a turn throws.
* `OverlapIsMeetingAlways`: the masked comparison of two integers answers whether two stretches
  of time meet, whenever it does not throw.
* `HullsNearlyCoverAlways`: union and intersection cover what they should to within a
  millisecond.

`SeriesIsSound` says nothing of the values a turn has yet to read, and of those already rewritten
not that they can be read. The inductive invariant is `SeriesInv`: every value, rewritten or
not, is a time after the start (`IsTime`: unpacking and packing it gives it back) and still
the one it was given as (`SeriesIsTimes`), the given times ascend (`GivenIsSorted`), the
rewritten resolutions are such as the search finds (`ResolutionsAreFound`), and `SeriesIsSound`.
That the turn before has changed the lower neighbour does not matter because only its time
is read. TLC found the invariant to hold in the 8553 states of the run before it was proved.

The argument, from the bottom. *Resolutions*: every bit of the time lies in one field
(`FieldOfBit`) and stands for a value the field has (`BitsAreValues`), so each resolution stands
for less than the one before, down to one millisecond (`ResolutionsDescend`); the search
returns the one that is no wider than asked while the next coarser is
(`ResolveFits`). *Times*: a word set to a representable millisecond is worth exactly it, for its
fields are the digits of the rest of the year (`DigitsOfNumber`, `FromMillisecondsIsTimed`), and
integers of words that say when are sorted by time (`EncodeSortsTime`). *The mask*: it clears bits
0, 2 and 3 instead of the 12 lowest. A bound has ones in its reverse resolution, so its
integer ends in 13, before the start in the negative of that; the mask takes 13 off the one
and 1 off the other (`BoundIndex`, `MaskedBound`), and what is left compares as the times do,
because where two bounds are of one time only the upper one reaches into the future
(`BoundsCompare`, `OverlapMeans`). *Neighbours*: an instant is contained when it is
reached to within a millisecond (`ContainsMeans`), and one step towards it is
enough (`FoundFits`, `ReachLowerSteps`, `ReachUpperSteps`). *Hulls*: the mask has also cleared the
type of the two bounds a union is made from, which is then 0 after the start and 2
before it. Such an integer still says when (`RetypedDecodes`, `MaskedIsTime`), sorts like the
bounds themselves (`BoundsSort`), and every test against it comes out as against type 1
(`ReachBelowType`); where the middle falls before the start the value has a type nothing can be
tested with, and the call throws (`BetweenIs`).

### `NonConvexHull` of `STARE`

`NonConvexCoverProofs`, for every polygon, every forced level and every depth and fineness of
the mesh (`NonConvexCoverAssumption`, `EmbeddedLevelAssumption`, `KeyMaxAssumption`), whatever
the tests of triangles answer, `SphereIsDividedAlways` with its two parts:

* `EachOnceAlways`: no trixel of either work list lies in another one of it or in one that
  has been kept;
* `ComplementIsTheRestAlways`: a clockwise polygon's complement is what its cover leaves, less what
  `contains` overlooks. `KEY_MAX` is the last key of the sphere in it, as in the program. A cover
  that does not end with the sphere has nothing overlooked: its complement is the rest of the sphere.

Neither part is inductive. `EachOnce` says nothing of what a value is: it would allow a
value that is not the first of its trixel, whose children reach into the next trixel. And
that the sphere is full at the end depends on what is still waiting before. The
invariant `IInv` says of both loops that what waits and what is kept are trixels, no finer than
forced and pairwise apart (`Good`), and of the second one (`Filling`) that every key of
the sphere lies in something kept, something waiting, in the cover, or is overlooked
(`Missed`); that what is kept is apart from the cover, and no child behind it (`Passed`); and that a waiting trixel of the forced level is too, since
it is kept without being divided. The last is the delicate one. It holds because a child
that overlaps the cover is either contained in it, and not pushed, or coarser than
something of the cover inside it (`InteriorMeets`), and nothing in the cover is finer than
forced.

The argument: a value stands for the keys from `Low` to `Past`, multiples of its level's span, so two
values lie apart or one in the other (`Nested`); four children divide their parent
(`ChildrenDivide`) and the eight roots the sphere (`RootsDivide`). `ContainsMeans` and
`AtLeastOneMeans` say what `contains` and the intersection answer in a range of whole trixels,
from the searches of `SpatialRange`, with the answer of `findMIN` for the last key: the value is in
the range, or behind all of its other trixels. `OverlookedIsMissed` makes of that, for the
children a turn passes by, the condition on the cover alone. Forced level 0 is apart, for there the roots are in
both covers; and of an empty cover, in which the searches find no key and go on to compare with
it, nothing is known and nothing has to be. TLC found the invariant to hold in the 4027 states of the run
before it was proved. That the cover loses nothing of the polygon (`CoverIsSound`) is
geometry and stays with TLC.

### Only model-checked

Liveness (`DefragEnds`, `FreeRangeEnds`, `CallsEnd`, `HullIsFound`, `ExpansionEnds`), which is
out of the prover's reach; `OnlyShortIntervalsKeepFamilies`, for what compression has reached when
it ends would need the progress of its passes; and the geometry of the spatial modules. The geometry is computed from recursive data over small integers, and what it
is for every input would need induction over data; `SpatialValues` reaches
`Bitwise`, which the provers' backends do not take.

## Not modelled, and why

* **Floating point.** Rounding, tolerances of 10^-15, degrees, areas, rotations and the
  rotation of the root octahedron; ERFA's TAI, UTC and Julian dates. Exact integers decide
  in the models what the code decides with tolerance, ties included. Where three half-spheres meet
  in a corner the code compares a product with 0 that rounding may have moved to either side; it
  comes out as in the model when the axes are short integers, like those of the run.
* **Text.** Names of trixels, strings of dates, parsing, printing, exceptions' messages.
* **Conversions without state.** `BitShiftNameEncoding` and the names in
  `EmbeddedLevelNameEncoding`: the models name a trixel by id or by position and level.
* **Parts of modelled classes.** `HtmRange`: `bestgap`, `stats`, `isIn` of two ranges,
  `HTMRangeAtLevelFromIntersection`. `HtmRangeMultiLevel`: `equalp`, `isIn` and `contains` of
  intervals. `SpatialRange`: ranges added to ranges, the null range of an empty
  intersection as an object. `RangeConvex`: domains of several convexes. `SpatialInterface`:
  commands, changes of depth. `STARE`: wrappers of covers, areas, distances, the cache of
  indexes. `TemporalIndex`: types other than 1, which the code does not implement, `cmp`,
  which skips every other field and nothing in the library calls, the functions that clear
  bits.
* **The iterators** over ranges: a cursor on top of `getNext`, whose shared walk `HtmRange`
  models. `SpatiallyAdaptiveDataCover` is an experiment nothing uses. The applications,
  `contrib` and vendored code keep no state of interest.
* **Allocation.** What matters of it is that a freed element is not used again, and
  that is `Freed`. Keys at or below 0 are left out of `SkipList` and `HtmRange`, as
  `SkipList.h:23` presumes; `HtmRangeMultiLevel` does use key 0 and has it.

## Plan

Models, in this order: the range iterators composed with `HtmRange`, whose walk other calls
disturb; `isIn` and `equalp` of two ranges and `HTMRangeAtLevelFromIntersection`; the cache of
`getIndex` and the setters of `STARE` that write a temporal index field by field; domains of
several convexes with `RangeConvex`'s ranges kept in an `HtmRange`; `cmp` and the
bit-clearing functions beside the order of the packed integers.

Theorems, in this order: `MidpointsShared` of `SpatialMesh`; `RemainingFollows` corrected, for
a `SpatialValues` whose positions are computed without `Bitwise`.
