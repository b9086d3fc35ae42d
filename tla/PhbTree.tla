-------------------------------- MODULE PhbTree --------------------------------
(* PHB collision resources: what phb_author.rs makes of a geometry, what
   phb_tree.rs accepts, and the triangles that a query of a box finds.  Operators
   only.

   A resource is a record of its chunks, with the extents (byte offset and size)
   of its allocations.  A point has two integer axes, a box a least and a greatest
   point, and arithmetic is exact.  A quantised coordinate is Bias + Range * (v -
   min) / (max - min), for 0x4000 and 0x8000.  A leaf references 1 to Leaf
   triangles, from at most MaxStart on. *)
EXTENDS Integers, Sequences, FiniteSets, FiniteSetsExt, SequencesExt

CONSTANTS
  Bias, Range1,   \* 16384 and 32768
  Top,            \* the greatest word: 65535
  Leaf,           \* references of a leaf: 4
  MaxStart,       \* 0x3FFF
  Capacity,       \* triangles per tree: 16384
  MaxTrees,       \* 512
  Refused

Planes == {1, 2}
Union(boxes) ==
  [min |-> [a \in Planes |-> Min({b.min[a] : b \in boxes})],
   max |-> [a \in Planes |-> Max({b.max[a] : b \in boxes})]]
Encloses(outer, inner) ==
  \A a \in Planes : outer.min[a] <= inner.min[a] /\ outer.max[a] >= inner.max[a]
Clamp(word) == Max({0, Min({word, Top})})
Align16(n, to) == ((n + to - 1) \div to) * to

TriangleBox(geometry, t) ==
  Union({[min |-> geometry.vertices[i + 1], max |-> geometry.vertices[i + 1]] :
           i \in {geometry.triangles[t + 1].indices[k] : k \in 1 .. 3}})
GroupBox(geometry, ids) == Union({TriangleBox(geometry, ids[i]) : i \in DOMAIN ids})
Aggregate(geometry, ids) ==
  LET surfaces == {geometry.triangles[ids[i] + 1].surface : i \in DOMAIN ids}
  IN [low |-> Min(surfaces), high |-> Max(surfaces)]
Ids(geometry) == [i \in DOMAIN geometry.triangles |-> i - 1]

Area(p, q, r) == (q[1] - p[1]) * (r[2] - p[2]) - (q[2] - p[2]) * (r[1] - p[1])

\* geometry_bounds: what a geometry must be.
GeometryValid(geometry) ==
  /\ geometry.vertices # <<>> /\ geometry.triangles # <<>>
  /\ Len(geometry.vertices) <= Top + 1
  /\ \A t \in DOMAIN geometry.triangles :
       LET index == geometry.triangles[t].indices
       IN /\ \A k \in 1 .. 3 : index[k] < Len(geometry.vertices)
          /\ Area(geometry.vertices[index[1] + 1], geometry.vertices[index[2] + 1],
                  geometry.vertices[index[3] + 1]) # 0

\* enclosing_bounds: the template's padding on each side, never none.
Padded(box, padding) ==
  [min |-> [a \in Planes |-> box.min[a] - padding[a]],
   max |-> [a \in Planes |-> box.max[a] + padding[a]]]

----------------------------------------------------------------------------
(* author_phb: the template's allocations, one leaf for every triangle. *)

\* template: vertices it has room for, its padding, its offsets, its geometry.
SingleLeafAccepted(template) ==
  /\ Len(template.vertices) \in 1 .. template.room
  /\ Len(template.triangles) \in 1 .. Leaf
  /\ \A a \in Planes : template.padding[a] > 0

SingleExtents ==
  << <<0, 128>>, <<128, 128>>, <<256, 128>>, <<384, 128>>, <<512, 240>>, <<768, 128>>, <<896, 128>> >>

AuthorPhb(template, geometry) ==
  LET box == Padded(GroupBox(geometry, Ids(geometry)), template.padding)
      sum == Aggregate(geometry, Ids(geometry))
      count == Len(geometry.triangles)
      node == [min |-> [a \in Planes |-> Bias], max |-> [a \in Planes |-> Bias + Range1],
               skip |-> 1, leaf |-> <<0, count>>]
      tree == [box |-> box, aggregate |-> sum, nodes |-> <<node>>, references |-> Ids(geometry),
               terminal |-> count + 1]
  IN IF /\ SingleLeafAccepted(template)
        /\ count <= Leaf /\ Len(geometry.vertices) <= template.room
        /\ GeometryValid(geometry)
     THEN [vertices |-> geometry.vertices, triangles |-> geometry.triangles, box |-> box,
           aggregate |-> sum, extents |-> SingleExtents, grid |-> <<0>>, list |-> <<0, Top>>,
           tbcs |-> << [box |-> box, aggregate |-> sum, at |-> 0, tree |-> tree] >>,
           room |-> template.room, padding |-> template.padding]
     ELSE Refused

----------------------------------------------------------------------------
(* author_phb_branching: one binary tree for each group of Capacity triangles. *)

FloorDiv(n, d) == n \div d
CeilDiv(n, d) == -((-n) \div d)

\* node_coordinate: outwards.
NodeWord(v, min, max, upper) ==
  Bias + (IF upper THEN CeilDiv((v - min) * Range1, max - min) ELSE FloorDiv((v - min) * Range1, max - min))
NodeBox(box, tree) ==
  [min |-> [a \in Planes |-> NodeWord(box.min[a], tree.min[a], tree.max[a], FALSE)],
   max |-> [a \in Planes |-> NodeWord(box.max[a], tree.min[a], tree.max[a], TRUE)]]

\* pack_leaf: the word of MaxStart and Leaf is the one that marks a branch.
PackLeaf(start, count) ==
  IF start > MaxStart \/ count \notin 1 .. Leaf \/ (start = MaxStart /\ count = Leaf)
  THEN Refused ELSE <<start, count>>

Centroid(geometry, t, a) ==
  LET index == geometry.triangles[t + 1].indices
  IN geometry.vertices[index[1] + 1][a] + geometry.vertices[index[2] + 1][a]
     + geometry.vertices[index[3] + 1][a]

\* Along the first axis of the widest spread of centroids, by identifier if equal.
SplitOrder(geometry, ids) ==
  LET all(a) == {Centroid(geometry, ids[i], a) : i \in DOMAIN ids}
      axis == IF Max(all(2)) - Min(all(2)) > Max(all(1)) - Min(all(1)) THEN 2 ELSE 1
  IN SortSeq(ids, LAMBDA s, t : LET x == Centroid(geometry, s, axis)
                                    y == Centroid(geometry, t, axis)
                                IN x < y \/ (x = y /\ s < t))

\* Faulty variant: the first child's box alone.
BranchBoxFirst(first, second) == Union({[min |-> n.min, max |-> n.max] : n \in {first}})

\* The box of a branch: its children's.
BranchBox(first, second) == Union({[min |-> n.min, max |-> n.max] : n \in {first, second}})

\* build_nodes: in preorder, each node with the index after its subtree.
RECURSIVE BuildNodes(_, _, _, _)
BuildNodes(geometry, box, ids, built) ==
  LET at == Len(built.nodes) + 1
      sorted == SplitOrder(geometry, ids)
      half == Len(ids) \div 2
      empty == [min |-> box.min, max |-> box.max, skip |-> 0, leaf |-> <<>>]
      opened == [built EXCEPT !.nodes = Append(@, empty)]
      left == BuildNodes(geometry, box, SubSeq(sorted, 1, half), opened)
      right == BuildNodes(geometry, box, SubSeq(sorted, half + 1, Len(ids)), left)
      second == Len(left.nodes) + 1
      leaf == PackLeaf(Len(built.references), Len(ids))
      own == NodeBox(GroupBox(geometry, ids), box)
      Close(tree, node) ==
        [tree EXCEPT !.nodes[at] = [node EXCEPT !.skip = Len(tree.nodes)]]
  IN IF built = Refused THEN Refused
     ELSE IF Len(ids) <= Leaf
     THEN IF leaf = Refused THEN Refused
          ELSE Close([opened EXCEPT !.references = @ \o ids],
                     [min |-> own.min, max |-> own.max, skip |-> 0, leaf |-> leaf])
     ELSE IF left = Refused \/ right = Refused THEN Refused
     ELSE LET whole == BranchBox(right.nodes[at + 1], right.nodes[second])
          IN Close(right, [min |-> whole.min, max |-> whole.max, skip |-> 0, leaf |-> <<>>])

TreeExtent(tree) == Align16(80 + (Len(tree.nodes) + 1) * 16 + Len(tree.references) * 2, 16)

\* The file of the trees, in their order.
Assemble(template, geometry, trees) ==
  LET count == Len(trees)
      size(i) == 112 + TreeExtent(trees[i])
      before(i) == FoldSet(LAMBDA j, n : n + size(j), 0, 1 .. (i - 1))
      listSize == Align16((count + 1) * 2, 128)
      descriptors == 256 + listSize
      chain == descriptors + Align16(count * 16, 128)
      triangles == Align16(chain + before(count + 1), 128)
      vertices == Align16(triangles + Len(geometry.triangles) * 8, 128)
  IN [vertices |-> geometry.vertices, triangles |-> geometry.triangles,
      box |-> Padded(GroupBox(geometry, Ids(geometry)), template.padding),
      aggregate |-> Aggregate(geometry, Ids(geometry)),
      extents |-> << <<0, 128>>, <<128, 128>>, <<256, listSize>>, <<descriptors, chain - descriptors>>,
                     <<chain, before(count + 1)>>, <<triangles, Len(geometry.triangles) * 8>>,
                     <<vertices, Len(geometry.vertices) * 12>> >>,
      grid |-> <<0>>, list |-> [i \in 1 .. (count + 1) |-> IF i <= count THEN i - 1 ELSE Top],
      tbcs |-> [i \in 1 .. count |->
                  [box |-> trees[i].box, aggregate |-> trees[i].aggregate, at |-> before(i),
                   tree |-> trees[i]]],
      room |-> template.room, padding |-> template.padding]

AuthorBranching(template, geometry) ==
  LET count == CeilDiv(Len(geometry.triangles), Capacity)
      group(i) == SubSeq(Ids(geometry), (i - 1) * Capacity + 1,
                         Min({i * Capacity, Len(geometry.triangles)}))
      Tree(ids, box, built) ==
        IF built = Refused THEN Refused
        ELSE [box |-> box, aggregate |-> Aggregate(geometry, ids), nodes |-> built.nodes,
              references |-> built.references, terminal |-> Len(built.nodes) + Len(built.references)]
      Grow(ids, box) == Tree(ids, box, BuildNodes(geometry, box, ids, [nodes |-> <<>>, references |-> <<>>]))
      Join(trees) == IF Refused \in {trees[i] : i \in DOMAIN trees} THEN Refused
                     ELSE Assemble(template, geometry, trees)
  IN IF ~SingleLeafAccepted(template) \/ ~GeometryValid(geometry) THEN Refused
     ELSE IF Len(geometry.triangles) - 1 > Top \/ count > MaxTrees THEN Refused
     ELSE Join([i \in 1 .. count |-> Grow(group(i), Padded(GroupBox(geometry, group(i)), template.padding))])

----------------------------------------------------------------------------
(* parse_phb, validate_phb_tree and the queries of its report. *)

ParsePhb(phb) ==
  IF \E t \in DOMAIN phb.triangles : \E k \in 1 .. 3 :
       phb.triangles[t].indices[k] >= Len(phb.vertices)
  THEN Refused
  ELSE [vertices |-> phb.vertices,
        indices |-> FlattenSeq([t \in DOMAIN phb.triangles |-> phb.triangles[t].indices]),
        surfaces |-> [t \in DOMAIN phb.triangles |-> phb.triangles[t].surface]]

\* coordinate: the client's word, one below or above the tree's own.
QueryWord(v, min, max, bias) == Clamp(FloorDiv((v - min) * Range1, max - min) + bias)
QueryBox(box, tree) ==
  [min |-> [a \in Planes |-> QueryWord(box.min[a], tree.min[a], tree.max[a], Bias - 1)],
   max |-> [a \in Planes |-> QueryWord(box.max[a], tree.min[a], tree.max[a], Bias + 1)]]

Sums(aggregate, surfaces) ==
  aggregate.low <= aggregate.high /\ \A s \in surfaces : s \in aggregate.low .. aggregate.high

Disjoint(extents) ==
  \A i, j \in DOMAIN extents :
    i # j => extents[i][1] + extents[i][2] <= extents[j][1] \/ extents[j][1] + extents[j][2] <= extents[i][1]

\* The trees that a cell's list names, up to its terminator.
Listed(list, offset) ==
  LET ends == {i \in (offset + 1) .. Len(list) : list[i] = Top}
  IN IF ends = {} THEN Refused ELSE {list[i] : i \in (offset + 1) .. (Min(ends) - 1)}

\* Skips partition each branch into two children, whose boxes it encloses.
BranchValid(nodes, i) ==
  LET skip == nodes[i].skip
      first == i + 1
  IN /\ first <= skip
     /\ nodes[first].skip + 1 <= skip
     /\ nodes[nodes[first].skip + 1].skip = skip
     /\ \A child \in {first, nodes[first].skip + 1} :
          Encloses([min |-> nodes[i].min, max |-> nodes[i].max],
                   [min |-> nodes[child].min, max |-> nodes[child].max])

\* A point query at each end of a triangle must meet the leaf.
LeafValid(tree, boxes, i) ==
  LET node == tree.nodes[i]
      slots == (node.leaf[1] + 1) .. (node.leaf[1] + node.leaf[2])
      at(v) == QueryBox([min |-> v, max |-> v], tree.box)
  IN /\ node.skip = i
     /\ slots \subseteq DOMAIN tree.references
     /\ \A s \in slots : \A a \in Planes :
          /\ node.min[a] <= at(boxes[tree.references[s] + 1].min).max[a]
          /\ node.max[a] >= at(boxes[tree.references[s] + 1].max).min[a]

TreeValid(tree, boxes) ==
  LET nodes == tree.nodes
      n == Len(nodes)
      branches == {i \in DOMAIN nodes : nodes[i].leaf = <<>>}
      children(i) == {i + 1, nodes[i + 1].skip + 1}
      slots(i) == (nodes[i].leaf[1] + 1) .. (nodes[i].leaf[1] + nodes[i].leaf[2])
      leaves == DOMAIN nodes \ branches
  IN /\ n \in 1 .. Top /\ tree.references # <<>>
     /\ n + Len(tree.references) <= Top /\ tree.terminal = n + Len(tree.references)
     /\ \A a \in Planes : tree.box.min[a] < tree.box.max[a]
     /\ \A r \in DOMAIN tree.references :
          tree.references[r] < Len(boxes) /\ Encloses(tree.box, boxes[tree.references[r] + 1])
     /\ \A i \in DOMAIN nodes :
          /\ nodes[i].skip \in i .. n
          /\ \A a \in Planes : nodes[i].min[a] <= nodes[i].max[a]
     /\ \A i \in branches : BranchValid(nodes, i)
     /\ \A i \in leaves : LeafValid(tree, boxes, i)
     /\ \A i, j \in leaves : i # j => slots(i) \cap slots(j) = {}
     /\ UNION {slots(i) : i \in leaves} = DOMAIN tree.references
     /\ nodes[1].skip = n
     /\ \A i \in 2 .. n : Cardinality({p \in branches : i \in children(p)}) = 1

ValidatePhb(phb) ==
  LET boxes == [t \in DOMAIN phb.triangles |-> TriangleBox(phb, t - 1)]
      count == Len(phb.tbcs)
      used == FlattenSeq([i \in DOMAIN phb.tbcs |-> phb.tbcs[i].tree.references])
      surface(ids) == {phb.triangles[ids[i] + 1].surface : i \in DOMAIN ids}
      lists == {Listed(phb.list, phb.grid[c]) : c \in DOMAIN phb.grid}
      Chunk(i) ==
        LET tbc == phb.tbcs[i]
        IN /\ Encloses(phb.box, tbc.box)
           /\ tbc.at = FoldSet(LAMBDA j, sum : sum + 112 + TreeExtent(phb.tbcs[j].tree), 0, 1 .. (i - 1))
           /\ TreeValid(tbc.tree, boxes)
           /\ Encloses(tbc.box, tbc.tree.box)
           /\ \A r \in DOMAIN tbc.tree.references : Encloses(tbc.box, boxes[tbc.tree.references[r] + 1])
           /\ Sums(tbc.tree.aggregate, surface(tbc.tree.references))
           /\ Sums(tbc.aggregate, surface(tbc.tree.references))
  IN /\ ParsePhb(phb) # Refused
     /\ phb.vertices # <<>> /\ phb.triangles # <<>>
     /\ Len(phb.vertices) <= Top + 1 /\ Len(phb.triangles) <= Top + 1
     /\ \A v \in DOMAIN phb.vertices :
          Encloses(phb.box, [min |-> phb.vertices[v], max |-> phb.vertices[v]])
     /\ Sums(phb.aggregate, {phb.triangles[t].surface : t \in DOMAIN phb.triangles})
     /\ count \in 1 .. MaxTrees
     /\ Disjoint(phb.extents)
     /\ Refused \notin lists /\ UNION lists = 0 .. (count - 1)
     /\ \A i \in DOMAIN phb.tbcs : Chunk(i)
     /\ IsInjective(used) /\ {used[i] : i \in DOMAIN used} = 0 .. (Len(phb.triangles) - 1)

\* candidates: a node that misses the query is skipped with its subtree.
RECURSIVE Visit(_, _, _)
Visit(tree, query, i) ==
  IF i > Len(tree.nodes) THEN <<>>
  ELSE LET node == tree.nodes[i]
           missed == \E a \in Planes : query.max[a] < node.min[a] \/ query.min[a] > node.max[a]
       IN IF missed THEN Visit(tree, query, node.skip + 1)
          ELSE (IF node.leaf = <<>> THEN <<>>
                ELSE SubSeq(tree.references, node.leaf[1] + 1, node.leaf[1] + node.leaf[2]))
               \o Visit(tree, query, i + 1)

Candidates(phb, box) ==
  FlattenSeq([i \in DOMAIN phb.tbcs |->
    Visit(phb.tbcs[i].tree, QueryBox(box, phb.tbcs[i].tree.box), 1)])
=============================================================================
