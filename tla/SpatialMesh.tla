----------------------------- MODULE SpatialMesh -----------------------------
(***************************************************************************)
(* SpatialIndex (src/SpatialIndex.cpp) with SpatialEdge: the constructor   *)
(* builds the trixels down to buildlevel_ layer by layer, first all the    *)
(* midpoints of a layer's edges, then the four children of every trixel,   *)
(* and at last sorts the leaves to the front of nodes_.                    *)
(***************************************************************************)
EXTENDS TrixelTree, SequencesExt

CONSTANT Levels   \* the pairs <<maxlevel, buildlevel>> the constructor gets

IOFFSET == 9

VARIABLES
  maxlevel, buildlevel,
  layers,         \* layers_, a sequence: the layer of depth d is layers[d + 1]
  nodes,          \* nodes_, from 0
  vertices,       \* vertices_: vertex i is vertices[i + 1]
  index,          \* index_, the node newNode makes next
  lTab,           \* SpatialEdge::lTab_, six slots for every vertex of a layer
  oldnodes, leaf, nonleaf,     \* sortIndex
  pc,             \* "edges", "nodes", "sort" or "ready"
  cursor,         \* the node the loop at pc has come to
  corner          \* newEdge's k

vars == <<maxlevel, buildlevel, layers, nodes, vertices, index, lTab, oldnodes, leaf, nonleaf,
          pc, cursor, corner>>

NoEdge == <<>>
NoNode == [v |-> <<0, 0, 0>>, w |-> <<0, 0, 0>>, child |-> <<0, 0, 0, 0>>,
           id |-> 0, index |-> 0, parent |-> 0]

NewNode(i, v, id, parent) ==
  [v |-> v, w |-> <<0, 0, 0>>, child |-> <<0, 0, 0, 0>>, id |-> id, index |-> i, parent |-> parent]

\* vMax: all nodes and all vertices down to a level.
NodesTo[level \in Nat]    == IF level = 0 THEN 8 ELSE NodesTo[level - 1] + 8 * 4^level
VerticesTo[level \in Nat] ==
  IF level = 0 THEN 6 ELSE VerticesTo[level - 1] + 8 * 4^(level - 1) + VerticesTo[level - 1] - 2

FirstLayer == [nVert |-> 6, nNode |-> 8, nEdge |-> 12, firstIndex |-> 1, firstVertex |-> 0]

\* The constructor up to the loop over the layers.
Init ==
  \E levels \in Levels :
    /\ maxlevel = levels[1]
    /\ buildlevel = IF levels[2] = 0 \/ levels[2] > levels[1] THEN levels[1] ELSE levels[2]
    /\ layers = <<FirstLayer>>
    /\ nodes = [i \in 0 .. NodesTo[buildlevel] |->
                  IF i \in 1 .. 8 THEN NewNode(i, RootFaces[i], i + 7, 0) ELSE NoNode]
    /\ vertices = OctahedronVertices
    /\ index = 9
    /\ lTab = [i \in 0 .. 6 * 6 - 1 |-> NoEdge]
    /\ oldnodes = <<>> /\ leaf = 0 /\ nonleaf = 0
    /\ pc = IF buildlevel = 0 THEN "ready" ELSE "edges"
    /\ cursor = 1
    /\ corner = 0

Layer == layers[Len(layers)]

InLayer(i) == i < Layer.firstIndex + Layer.nNode

-----------------------------------------------------------------------------
(***************************************************************************)
(* SpatialEdge: every edge is filed under its smaller end, in the first    *)
(* free of that vertex's six slots.                                        *)
(***************************************************************************)
\* Slip: the ends are not put in order.
Slip_EdgeOf(node, k) ==
  CASE k = 0 -> <<node.v[2], node.v[3]>>
    [] k = 1 -> <<node.v[1], node.v[3]>>
    [] k = 2 -> <<node.v[1], node.v[2]>>

EdgeOf(node, k) ==
  LET v == node.v
      e == CASE k = 0 -> <<v[2], v[3]>> [] k = 1 -> <<v[1], v[3]>> [] k = 2 -> <<v[1], v[2]>>
  IN  IF e[1] > e[2] THEN <<e[2], e[1]>> ELSE e

\* edgeMatch goes on until a slot is free or holds the edge, whosever slot it is.
Match(e) ==
  LET Ends[i \in Nat] ==
        IF i \notin DOMAIN lTab THEN -1
        ELSE IF lTab[i] = NoEdge \/ lTab[i].end = e[2] THEN i ELSE Ends[i + 1]
  IN  Ends[6 * e[1]]

IsFiled(e) == Match(e) # -1 /\ lTab[Match(e)] # NoEdge

\* insertLookup: nothing is filed when the six slots are taken.
FreeSlots(e) == {i \in 6 * e[1] .. 6 * e[1] + 5 : lTab[i] = NoEdge}

InsertLookup(e, mid) ==
  IF FreeSlots(e) = {} THEN lTab
  ELSE [lTab EXCEPT ![CHOOSE i \in FreeSlots(e) : \A j \in FreeSlots(e) : i <= j] =
                       [end |-> e[2], mid |-> mid]]

\* newEdge, one turn of makeMidPoints; getMidPoint appends the vertex.
NewEdge ==
  /\ pc = "edges"
  /\ InLayer(cursor)
  /\ LET e   == EdgeOf(nodes[cursor], corner)
         mid == IF IsFiled(e) THEN lTab[Match(e)].mid ELSE Len(vertices)
     IN  /\ nodes' = [nodes EXCEPT ![cursor].w[corner + 1] = mid]
         /\ IF IsFiled(e) THEN UNCHANGED <<vertices, lTab>>
            ELSE /\ vertices' = Append(vertices, Midpoint(vertices[e[1] + 1], vertices[e[2] + 1]))
                 /\ lTab' = InsertLookup(e, mid)
  /\ corner' = (corner + 1) % 3
  /\ cursor' = IF corner = 2 THEN cursor + 1 ELSE cursor
  /\ UNCHANGED <<maxlevel, buildlevel, layers, index, oldnodes, leaf, nonleaf, pc>>

\* The beginning of makeNewLayer.
NextLayer(l) ==
  LET nVert == l.nVert + l.nEdge
      nNode == 4 * l.nNode
  IN  [nVert |-> nVert, nNode |-> nNode, nEdge |-> nNode + nVert - 2,
       firstIndex |-> index, firstVertex |-> l.firstVertex + l.nVert]

BeginLayer ==
  /\ pc = "edges"
  /\ ~InLayer(cursor)
  /\ pc' = "nodes"
  /\ layers' = Append(layers, NextLayer(Layer))
  /\ cursor' = Layer.firstIndex
  /\ UNCHANGED <<maxlevel, buildlevel, nodes, vertices, index, lTab, oldnodes, leaf, nonleaf,
                 corner>>

\* The corners of the four children of a node.
ChildCorners(node) ==
  LET v == node.v
      w == node.w
  IN  <<<<v[1], w[3], w[2]>>, <<v[2], w[1], w[3]>>, <<v[3], w[2], w[1]>>, w>>

\* One turn of makeNewLayer's loop; after the last one the next layer's edges, or the sort.
MakeChildren ==
  LET old  == layers[Len(layers) - 1]
      last == cursor + 1 = old.firstIndex + old.nNode
      parent == nodes[cursor]
  IN
  /\ pc = "nodes"
  /\ nodes' = [i \in DOMAIN nodes |->
                 IF i = cursor
                 THEN [parent EXCEPT !.child = [k \in 1 .. 4 |-> index + k - 1]]
                 ELSE IF i \in index .. index + 3
                 THEN NewNode(i, ChildCorners(parent)[i - index + 1], 4 * parent.id + i - index, cursor)
                 ELSE nodes[i]]
  /\ index' = index + 4
  /\ IF ~last
     THEN /\ cursor' = cursor + 1
          /\ UNCHANGED <<lTab, pc, oldnodes, leaf, nonleaf>>
     ELSE IF Len(layers) - 1 < buildlevel
     THEN /\ pc' = "edges"
          /\ cursor' = Layer.firstIndex
          /\ lTab' = [i \in 0 .. 6 * Layer.nVert - 1 |-> NoEdge]
          /\ UNCHANGED <<oldnodes, leaf, nonleaf>>
     ELSE /\ pc' = "sort"
          /\ cursor' = IOFFSET
          /\ oldnodes' = nodes'
          /\ leaf' = IOFFSET
          /\ nonleaf' = NodesTo[buildlevel]
          /\ UNCHANGED lTab
  /\ UNCHANGED <<maxlevel, buildlevel, layers, vertices, corner>>

-----------------------------------------------------------------------------
(***************************************************************************)
(* sortIndex: leaves go to the front, the other nodes to the end, and the  *)
(* links of parents and children are renumbered on the way.                *)
(***************************************************************************)
\* Slip: the parent's link is left as it was.
Slip_Moved(place) == [nodes EXCEPT ![place] = oldnodes[cursor]]

\* The new list with the node at cursor moved to place, and its parent's link renamed.
Moved(place) ==
  LET moved  == [nodes EXCEPT ![place] = oldnodes[cursor]]
      parent == oldnodes[cursor].parent
      slot   == SelectInSeq(moved[parent].child, LAMBDA c : c = cursor)
  IN  IF slot = 0 THEN moved ELSE [moved EXCEPT ![parent].child[slot] = place]

SortLeaf ==
  /\ pc = "sort"
  /\ cursor \in DOMAIN nodes
  /\ oldnodes[cursor].child[1] = 0
  /\ nodes' = Moved(leaf)
  /\ leaf' = leaf + 1
  /\ cursor' = cursor + 1
  /\ UNCHANGED <<maxlevel, buildlevel, layers, vertices, index, lTab, oldnodes, nonleaf, pc,
                 corner>>

SortNonleaf ==
  /\ pc = "sort"
  /\ cursor \in DOMAIN nodes
  /\ oldnodes[cursor].child[1] # 0
  /\ nodes' = Moved(nonleaf)
  /\ oldnodes' = LET children == Range(oldnodes[cursor].child)
                 IN  [i \in DOMAIN oldnodes |->
                        IF i \in children THEN [oldnodes[i] EXCEPT !.parent = nonleaf]
                        ELSE oldnodes[i]]
  /\ nonleaf' = nonleaf - 1
  /\ cursor' = cursor + 1
  /\ UNCHANGED <<maxlevel, buildlevel, layers, vertices, index, lTab, leaf, pc, corner>>

SortEnds ==
  /\ pc = "sort"
  /\ cursor \notin DOMAIN nodes
  /\ pc' = "ready"
  /\ oldnodes' = <<>>
  /\ UNCHANGED <<maxlevel, buildlevel, layers, nodes, vertices, index, lTab, leaf, nonleaf,
                 cursor, corner>>

Next == NewEdge \/ BeginLayer \/ MakeChildren \/ SortLeaf \/ SortNonleaf \/ SortEnds

Spec == Init /\ [][Next]_vars /\ WF_vars(Next)

-----------------------------------------------------------------------------
(***************************************************************************)
(* A node number below stands for nodeId64: a leaf's place in nodes_,      *)
(* whether or not that leaf is stored.                                     *)
(***************************************************************************)
CornersOf(node) == [i \in 1 .. 3 |-> vertices[node.v[i] + 1]]

\* leafNumberById and NodeID64FromHtmId; nodeIndexFromId gives 0 for an id of another level.
NodeIDFromHtmId(id) == id - 8 * 4^maxlevel + IOFFSET
NodeIndexFromId(id) == IF LevelOfId(id) # maxlevel THEN 0 ELSE NodeIDFromHtmId(id)

\* nodeVertex goes down from the stored leaf by the remaining digits.
NodeVertex(nodeId) ==
  LET deeper == maxlevel - buildlevel
      Stored == IF deeper = 0 THEN IF maxlevel = 0 THEN nodeId - (IOFFSET - 1) ELSE nodeId
                ELSE (nodeId - IOFFSET) \div 4^deeper + IOFFSET
      Down[i \in 0 .. deeper] ==
        IF i = 0 THEN CornersOf(nodes[Stored])
        ELSE PartitionTriangle[Down[i - 1], ((nodeId - IOFFSET) \div 4^(deeper - i)) % 4]
  IN  Down[deeper]

-----------------------------------------------------------------------------
\* Every variable keeps its type, and every number stays inside the list it counts.
TypeOK ==
  /\ pc \in {"edges", "nodes", "sort", "ready"}
  /\ Len(layers) \in 1 .. buildlevel + 1
  /\ Len(vertices) <= VerticesTo[buildlevel]
  /\ index \in 9 .. NodesTo[buildlevel] + 1
  /\ \A i \in DOMAIN nodes :
       /\ Range(nodes[i].v) \cup Range(nodes[i].w) \subseteq 0 .. Len(vertices) - 1
       /\ Range(nodes[i].child) \subseteq DOMAIN nodes
       /\ nodes[i].parent \in DOMAIN nodes

\* Trixels that share an edge share its midpoint: no vertex is made twice, the search for an
\* edge never leaves the six slots of its vertex, and a finished layer has the numbers of
\* nodes, edges and vertices makeNewLayer and vMax count beforehand
\* (SpatialEdge::edgeMatch, insertLookup; SpatialIndex::vMax).
MidpointsShared ==
  /\ Cardinality(Range(vertices)) = Len(vertices)
  /\ pc = "edges" =>
       IF InLayer(cursor)
       THEN LET e == EdgeOf(nodes[cursor], corner)
            IN  Match(e) \in 6 * e[1] .. 6 * e[1] + 5
       ELSE Len(vertices) = Layer.nVert + Layer.nEdge
  /\ pc = "ready" => Len(vertices) = VerticesTo[buildlevel]

\* What has been built has no vertex twice and no number that points outside.
MeshIsShared == TypeOK /\ MidpointsShared

\* A built index is the tree of ids: the children of a node have its id with two more bits
\* and name it as their parent, every node's corners are those of its id, and the leaves
\* stand at their leaf numbers, so that nodeVertex of any id of maxlevel_ answers that
\* trixel's corners, stored or not (sortIndex, nodeIndexFromId, nodeVertex).
SortKeepsTree ==
  pc = "ready" =>
    /\ \A i \in DOMAIN nodes \ {0} :
         /\ CornersOf(nodes[i]) = Corners[nodes[i].id]
         /\ nodes[i].child[1] # 0 => \A k \in 0 .. 3 :
              LET child == nodes[nodes[i].child[k + 1]]
              IN  child.id = Child(nodes[i].id, k) /\ child.parent = i
    /\ \A id \in IdsOf(maxlevel) : NodeVertex(NodeIndexFromId(id)) = Corners[id]
=============================================================================
