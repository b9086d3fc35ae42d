------------------------------- MODULE ZoneTools -------------------------------
(* The zone formats at work: beside the packages and roots of ZonePackage, the
   single operations of the library and of export-zones on one asset: a layout is
   read, a model gets new geometry, again and again, or a part of it is scaled, a
   collision resource is authored, a client tree is exported.

   What each must achieve is stated from the outside: where a scene graph puts
   things, what a model holds, which triangles a query must find. *)
EXTENDS ZonePackage

CONSTANTS
  MaxDepth, Paired, Identity, Q, Align, MaxNesting, MaxVertices, MaxTriangles, MaxCells,
  Bias, Range1, Top, Leaf, MaxStart, Capacity, MaxTrees,   \* ZoneFloor
  SafeStem, StemRank,   \* ZoneExport
  Layouts,      \* layout resources to read
  Models,       \* model resources to import into
  Texts,        \* OBJ texts
  Factors,      \* <<n, d>>
  Templates,    \* single-leaf collision resources
  Geometries,   \* collision geometries
  Queries,      \* boxes
  Trees,        \* client trees to export
  MaxImports    \* imports in a row

Floor == INSTANCE ZoneFloor
Exporter == INSTANCE ZoneExport
Scene == INSTANCE Layout
Mesh == INSTANCE ModelImport
Hull == INSTANCE PhbTree

\* What ZonePackage takes of a floor project; it depends on the pinned inputs alone.
FloorInputs(project) == Floor!Inputs(project)
FloorAdmitted(project) == Floor!Admitted(project)
PreparedFloors == [project \in {package.project : package \in Packages} |-> Floor!PrepareFloor(project)]

VARIABLE asset   \* [op, from, by, to]: the last operation, its inputs and its result

vars == <<pvars, asset>>

Untouched == [op |-> "none", from |-> Absent, by |-> Absent, to |-> Absent, imports |-> 0]
Did(op, from, by, to) ==
  asset' = [op |-> op, from |-> from, by |-> by, to |-> to,
            imports |-> asset.imports + (IF op = "import" THEN 1 ELSE 0)]

\* A behaviour is about the client's trees or, where there is no overlay, one asset.
Init == PInit /\ asset = Untouched
Alone == ready = Absent /\ overlays = <<>>
Fresh == asset = Untouched /\ Alone

\* The layout, and the kind of record that each node it read is reported as.
ReadLayout(file) ==
  LET Report(layout) ==
        Did("layout", file, IF layout = Refused THEN Refused ELSE Scene!Reported(file.graph, layout), layout)
  IN Fresh /\ Report(Scene!ParseLayout(file))

\* The model that the next operation takes.
Current == IF asset.op \in {"import", "scale"} /\ asset.to # Refused THEN {asset.to}
           ELSE IF asset = Untouched THEN Models ELSE {}

ImportObj(text) ==
  /\ Alone
  /\ asset.imports < MaxImports
  /\ \E file \in Current : Did("import", file, text, Mesh!ImportModel(file, text))

ScaleOne(part, factor) ==
  /\ Alone
  /\ asset.op # "scale"
  /\ \E file \in Current :
       Did("scale", file, <<part, factor>>, Mesh!ScalePart(file, part, factor[1], factor[2]))

AuthorOne(template, geometry) ==
  Fresh /\ Did("single", template, geometry, Hull!AuthorPhb(template, geometry))
AuthorMany(template, geometry) ==
  Fresh /\ Did("trees", template, geometry, Hull!AuthorBranching(template, geometry))

ExportZones(tree, selected) ==
  Fresh /\ Did("export", tree, selected, Exporter!Export(tree, selected))

Operate ==
  \/ \E file \in Layouts : ReadLayout(file)
  \/ \E text \in Texts : ImportObj(text)
  \/ \E part \in {1, 2}, factor \in Factors : ScaleOne(part, factor)
  \/ \E template \in Templates, geometry \in Geometries : AuthorOne(template, geometry)
  \/ \E template \in Templates, geometry \in Geometries : AuthorMany(template, geometry)
  \/ \E tree \in Trees : \E selected \in {Absent} \cup {path.key : path \in DOMAIN tree} :
       ExportZones(tree, selected)

Next ==
  \/ asset = Untouched /\ PNext /\ UNCHANGED asset
  \/ Operate /\ UNCHANGED pvars

Spec == Init /\ [][Next]_vars

----------------------------------------------------------------------------
(* FloorExact. *)

\* The world triangles of a parsed model and of a parsed collision at a placement.
ModelFaces(model, world) ==
  [t \in 1 .. (Len(model.indices) \div 3) |->
    [k \in 1 .. 3 |-> <<world, model.vertices[model.indices[3 * t - 3 + k] + 1]>>]]
HullFaces(phb, world) ==
  [t \in DOMAIN phb.triangles |->
    [k \in 1 .. 3 |-> <<world, [a \in {1, 2} |-> 2 * Q * phb.vertices[phb.triangles[t].indices[k] + 1][a]]>>]]

(* The files of a package agree with each other and with the client's scene: at every
   placement of the original layout, in the same order and place, the client now finds
   the new model and the new collision, triangle for triangle the same surface; nothing
   else of the layout changed (prepare_loaded, compare_triangles). *)
FloorExact ==
  LET Exact(b, old, new, model, phb) ==
        /\ DOMAIN new.objects = DOMAIN old.objects
        /\ \A o \in DOMAIN old.objects :
             /\ new.objects[o] = [old.objects[o] EXCEPT !.model = b.newModel, !.phb = b.newPhb]
             /\ ModelFaces(model, old.objects[o].world) = HullFaces(phb, old.objects[o].world)
        /\ {r \in DOMAIN old.rows : new.rows[r] # old.rows[r]} = {b.modelRow, b.phbRow}
  IN \A i \in Built :
       LET made == overlays[i].made
           b == made.project.binding
           file(key) == overlays[i].files[Path(key)]
       IN Exact(b, Scene!ParseLayout(made.project.layout.content), Scene!ParseLayout(file(made.add.resource)),
                Mesh!ParseModel(file(b.newModel))[1], file(b.newPhb))

----------------------------------------------------------------------------
(* PlacedByPath: the placements of a graph without the walk's mutable context. *)

RECURSIVE PlacedUnder(_, _, _, _, _), PlacedInGroup(_, _, _, _)
\* at: the transforms above the node; tree, groups: those of its unit tree.
PlacedUnder(graph, node, instance, tree, groups) ==
  LET n == graph.nodes[node]
      kids(run) == [k \in 1 .. run.count |-> run.first + k - 1]
      base == graph.nodes[n.base]
      world == <<graph.zone, instance, tree>> \o groups \o <<n.at>>
  IN CASE Scene!ClassPath(graph, n.base) = "unit tree" ->
            FlattenSeq([k \in DOMAIN kids(base.groups) |->
                          PlacedInGroup(graph, kids(base.groups)[k], <<instance, base.at>>, <<>>)])
            \o FlattenSeq([k \in DOMAIN kids(base.children) |->
                             PlacedUnder(graph, kids(base.children)[k], instance, base.at, <<>>)])
       [] Scene!ClassPath(graph, n.base) \in {"attribute", "box"} -> <<[node |-> n.base, world |-> world]>>
       [] OTHER -> <<>>
PlacedInGroup(graph, node, above, groups) ==
  LET n == graph.nodes[node]
      own == Append(groups, n.at)
      kids(run) == [k \in 1 .. run.count |-> run.first + k - 1]
  IN FlattenSeq([k \in DOMAIN kids(n.groups) |-> PlacedInGroup(graph, kids(n.groups)[k], above, own)])
     \o FlattenSeq([k \in DOMAIN kids(n.children) |->
                      PlacedUnder(graph, kids(n.children)[k], above[1], above[2], own)])

\* An instance is its own outermost child, without a transform of that level.
PlacedInLayout(file) ==
  LET graph == file.graph
      Instances == SelectSeq(Tail(graph.objects), LAMBDA n : Scene!ClassPath(graph, n) = "instance")
      Slots(n) == SelectSeq([k \in 1 .. graph.nodes[n].children.count |-> graph.nodes[n].children.first + k - 1],
                            LAMBDA s : Scene!Shape(graph, s) = "child")
      settings == Scene!Settings(graph)
      zone == IF settings = 0 THEN Identity ELSE graph.nodes[graph.objects[settings]].at
      in == [graph EXCEPT !.zone = zone, !.nodes = [m \in DOMAIN @ |->
               IF m \in Range(Instances) THEN [@[m] EXCEPT !.at = Identity] ELSE @[m]]]
      Of(n) == PlacedUnder(in, n, graph.nodes[n].at, Identity, <<>>)
               \o FlattenSeq([k \in DOMAIN Slots(n) |->
                                PlacedUnder(in, Slots(n)[k], graph.nodes[n].at, Identity, <<>>)])
  IN FlattenSeq([i \in DOMAIN Instances |-> Of(Instances[i])])

(* What docs/formats/zone-geometry.md:58 says, "world = zone * instance * unitTree *
   group * child", of every layout that is read: a placement has the transforms of the
   nodes above it and no others, in their order, whatever was walked before it (the
   walk's context is shared and restored by hand: walk_child, walk_base, walk_group).
   The code does otherwise after a unit tree below a group: see PlacedByPath. *)
PlacedAsDocumented ==
  asset.op = "layout" /\ asset.to # Refused =>
    [o \in DOMAIN asset.to.objects |-> [node |-> asset.to.objects[o].node, world |-> asset.to.objects[o].world]]
      = PlacedInLayout(asset.from)

\* A unit tree under a child of a group.
TreeInGroup(file) ==
  \E g \in Scene!Nodes(file.graph) :
    /\ Scene!Shape(file.graph, g) = "group"
    /\ \E c \in file.graph.nodes[g].children.first ..
               (file.graph.nodes[g].children.first + file.graph.nodes[g].children.count - 1) :
         Scene!ClassPath(file.graph, file.graph.nodes[c].base) = "unit tree"

(* The same of every layout but those with a unit tree below a group. Entering that
   tree clears the chain of groups, and nothing puts it back: what the group holds
   after the tree is placed without the group. Every other part of the context (child,
   unit tree, the groups a group adds) is restored. *)
PlacedByPath ==
  asset.op = "layout" /\ asset.to # Refused /\ ~TreeInGroup(asset.from) => PlacedAsDocumented

----------------------------------------------------------------------------
Boxes(geometry) == [t \in DOMAIN geometry.triangles |-> Hull!TriangleBox(geometry, t - 1)]
Touching(a, b) == \A p \in {1, 2} : a.min[p] <= b.max[p] /\ b.min[p] <= a.max[p]

(* Whatever valid geometry fits is authored, the independent validator accepts the
   result, and a query finds every triangle that its box touches, none of them twice
   (author_phb, author_phb_branching, validate_phb_tree, candidates). *)
TreeFindsTriangles ==
  asset.op \in {"single", "trees"} =>
    LET geometry == asset.by
        found(q) == Hull!Candidates(asset.to, q)
    IN /\ asset.op = "trees" /\ Hull!GeometryValid(geometry) /\ Hull!SingleLeafAccepted(asset.from)
            => asset.to # Refused
       /\ asset.to # Refused =>
            /\ Hull!ValidatePhb(asset.to)
            /\ \A q \in Queries :
                 /\ IsInjective(found(q))
                 /\ \A t \in DOMAIN geometry.triangles :
                      Touching(Boxes(geometry)[t], q) => t - 1 \in ToSet(found(q))

----------------------------------------------------------------------------
Size(box, a) == box.max[a] - box.min[a]
Magnitude(n) == IF n < 0 THEN -n ELSE n

\* The entries of a directory but the model's, and the model's other vertex data.
Others(file) == [e \in {d \in DOMAIN file.directory : ~Mesh!IsWrb(file, d)} |-> Mesh!Entry(file, e)]
Kept(file) ==
  LET items == Mesh!PartStreams(file)[1].items IN [k \in DOMAIN items |-> items[k].rest]

(* An imported model holds the OBJ's triangles, each vertex within half a step of the
   quantisation, leaves every other entry and the other fields of the vertices it had,
   and can be imported into again; a scaled part keeps its triangles and never moves a
   vertex outside the box (import_obj_to_model, edit_model_part_positions). *)
ModelKept ==
  /\ asset.op = "import" /\ asset.to # Refused =>
       LET text == Mesh!ParseObj(asset.by)
           part == Mesh!ParseModel(asset.to)[1]
           old == Kept(asset.from)
           new == Kept(asset.to)
       IN /\ part.indices = text.indices
          /\ \A i \in DOMAIN text.vertices : \A a \in {1, 2} :
               2 * Magnitude(part.vertices[i][a] - 2 * Q * text.vertices[i][a]) <= Size(text.box, a)
          /\ Others(asset.to) = Others(asset.from)
          /\ \A i \in DOMAIN old \cap DOMAIN new : new[i] = old[i]
          /\ Mesh!Profile(asset.to) # Refused
  /\ asset.op = "scale" /\ asset.to # Refused =>
       LET before == Mesh!ParseModel(asset.from)[asset.by[1]]
           after == Mesh!ParseModel(asset.to)[asset.by[1]]
           box == Mesh!BoxOf(before.vertices)
       IN /\ after.indices = before.indices
          /\ \A i \in DOMAIN after.vertices : \A a \in {1, 2} :
               after.vertices[i][a] \in box.min[a] .. box.max[a]

----------------------------------------------------------------------------
(* Every layout of a tree that export-zones accepts has a file of its own, whatever
   the names and their case: no zone overwrites another's (allocate_name). *)
ExportsApart ==
  asset.op = "export" /\ asset.to # Refused =>
    /\ {asset.to[i].of.key : i \in DOMAIN asset.to}
         = {p.key : p \in {q \in DOMAIN asset.from : /\ q.key # Absent
                                                     /\ Exporter!IsLayout(asset.from[q])
                                                     /\ asset.by \in {Absent, q.key}}}
    /\ \A i, j \in DOMAIN asset.to : Exporter!Lower(asset.to[i].name) = Exporter!Lower(asset.to[j].name) => i = j
=============================================================================
