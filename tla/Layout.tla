-------------------------------- MODULE Layout --------------------------------
(* A MapLayout resource: its table of resources and its scene graph, as
   src/formats/src/zone.rs reads them and layout_edit.rs rebinds them.  Operators
   only.

   The graph is an array of nodes; a type declares one extent of it and the shape
   (width and field set) of the nodes there.  Offsets count nodes, 0 is the null
   reference.  A transform is a model value: what a placement's matrix depends on
   is the sequence of transforms it is composed of.  Class paths are named by what
   they are the class of. *)
EXTENDS Integers, Sequences, FiniteSets, FiniteSetsExt, SequencesExt, Functions

CONSTANTS
  MaxDepth,   \* MAX_GRAPH_DEPTH
  Paired,     \* placements of the floor profile: 4
  Identity,   \* the default transform
  Refused, Absent

\* Shapes that hold a class reference, and those that do not.
Classed == {"class", "instance", "unit tree", "attribute", "chip", "box", "settings"}
Unclassed == {"child", "group", "range", "other"}

Nodes(graph) ==
  UNION {graph.types[t].first .. (graph.types[t].first + graph.types[t].count - 1) :
           t \in DOMAIN graph.types}

\* node_kind: the last type that declares the node.
TypeOf(graph, node) ==
  Max({t \in DOMAIN graph.types :
         node \in graph.types[t].first .. (graph.types[t].first + graph.types[t].count - 1)})
Shape(graph, node) == graph.types[TypeOf(graph, node)].shape

\* class_path: "" when the node has none.
ClassPath(graph, node) ==
  IF node \notin Nodes(graph) THEN Refused
  ELSE IF Shape(graph, node) \notin Classed \/ graph.nodes[node].class = 0 THEN ""
  ELSE LET class == graph.nodes[node].class
       IN IF class \notin Nodes(graph) THEN Refused
          ELSE IF Shape(graph, class) # "class" THEN Refused
          ELSE graph.nodes[class].name

\* node_run: consecutive nodes, inside the extent of the first one.
Run(graph, run) ==
  IF run.count = 0 THEN <<>>
  ELSE IF run.first \notin Nodes(graph) THEN Refused
  ELSE LET type == graph.types[TypeOf(graph, run.first)]
       IN IF run.first + run.count > type.first + type.count THEN Refused
          ELSE [i \in 1 .. run.count |-> run.first + i - 1]

\* resolve_resource_key: the last row of the name for each of the two tags.
Resolve(rows, key) ==
  LET last(tag) == {i \in DOMAIN rows : rows[i].name = key /\ rows[i].tag = tag}
      id(tag) == IF last(tag) = {} THEN Absent ELSE rows[Max(last(tag))].id
  IN [model |-> id("brt"), phb |-> id("bhp")]

----------------------------------------------------------------------------
(* The walk.  It carries where it is (the instance, the unit tree, the groups and
   the child it is under), the nodes it has read and the placements it has found;
   it fails as a whole. *)

Start == [instance |-> Identity, tree |-> Identity, groups |-> <<>>, child |-> Identity,
          reached |-> {}, out |-> <<>>]

Read(walk, nodes) == [walk EXCEPT !.reached = @ \cup (nodes \ {0})]

Placement(graph, walk, node, ids, key, boxes) ==
  [node |-> node, block |-> graph.types[TypeOf(graph, node)].first, key |-> key,
   model |-> ids.model, phb |-> ids.phb, boxes |-> boxes,
   world |-> <<graph.zone, walk.instance, walk.tree>> \o walk.groups \o <<walk.child>>]

RECURSIVE WalkBase(_, _, _, _, _), WalkGroup(_, _, _, _, _)

WalkChild(graph, rows, walk, node, depth) ==
  IF depth > MaxDepth \/ Shape(graph, node) # "child" THEN Refused
  ELSE LET inside == [Read(walk, {node}) EXCEPT !.child = graph.nodes[node].at]
           Leave(after) == IF after = Refused THEN Refused ELSE [after EXCEPT !.child = walk.child]
       IN Leave(WalkBase(graph, rows, inside, graph.nodes[node].base, depth + 1))

\* One operation after another over a run; a failed one fails the run.
WalkRun(Op(_, _, _, _, _), graph, rows, walk, run, depth) ==
  IF Run(graph, run) = Refused THEN Refused
  ELSE FoldLeft(LAMBDA w, node : IF w = Refused THEN Refused
                                 ELSE Op(graph, rows, w, node, depth),
                walk, Run(graph, run))

\* What is under a group or a unit tree: its groups, then its children.
WalkUnder(graph, rows, walk, node, depth) ==
  LET Then(grouped) ==
        IF grouped = Refused THEN Refused
        ELSE WalkRun(WalkChild, graph, rows, grouped, graph.nodes[node].children, depth + 1)
  IN Then(WalkRun(WalkGroup, graph, rows, walk, graph.nodes[node].groups, depth + 1))

\* Faulty variant: the group's transform stays when the walk has left it.
WalkGroupKept(graph, rows, walk, node, depth) ==
  IF depth > MaxDepth \/ Shape(graph, node) # "group" THEN Refused
  ELSE WalkUnder(graph, rows, [Read(walk, {node}) EXCEPT !.groups = Append(@, graph.nodes[node].at)], node, depth)

WalkGroup(graph, rows, walk, node, depth) ==
  LET inside == [Read(walk, {node}) EXCEPT !.groups = Append(@, graph.nodes[node].at)]
      Leave(after) == IF after = Refused THEN Refused
                      ELSE [after EXCEPT !.groups = IF @ = <<>> THEN <<>> ELSE Front(@)]
  IN IF depth > MaxDepth \/ Shape(graph, node) # "group" THEN Refused
     ELSE Leave(WalkUnder(graph, rows, inside, node, depth))

WalkTree(graph, rows, walk, node, depth) ==
  LET inside == [walk EXCEPT !.groups = <<>>, !.tree = graph.nodes[node].at]
      Leave(after) == IF after = Refused THEN Refused ELSE [after EXCEPT !.tree = walk.tree]
  IN Leave(WalkUnder(graph, rows, inside, node, depth))

WalkBase(graph, rows, walk, node, depth) ==
  LET class == ClassPath(graph, node)
      read == Read(walk, {node, graph.nodes[node].class})
      key == graph.nodes[node].key
      ids == Resolve(rows, key)
      none == [model |-> Absent, phb |-> Absent]
  IN IF node = 0 THEN walk
     ELSE IF depth > MaxDepth \/ class = Refused THEN Refused
     ELSE IF class \notin {"unit tree", "attribute", "box"} THEN read
     ELSE IF Shape(graph, node) # class THEN Refused
     ELSE CASE class = "unit tree" -> WalkTree(graph, rows, read, node, depth)
            [] class = "attribute" ->
                 IF ids = none THEN Refused
                 ELSE [read EXCEPT !.out = Append(@, Placement(graph, walk, node, ids, key, 0))]
            [] class = "box" ->
                 [read EXCEPT !.out = Append(@, Placement(graph, walk, node, none, Absent, 1))]

\* The records of an instance's children that are not children: checked, skipped.
WalkSlot(graph, rows, walk, node, depth) ==
  IF Shape(graph, node) = "range"
  THEN IF graph.nodes[node].inside THEN Read(walk, {node}) ELSE Refused
  ELSE WalkChild(graph, rows, walk, node, depth)

WalkInstance(graph, rows, walk, node) ==
  LET inside == [Read(walk, {node}) EXCEPT
                   !.instance = graph.nodes[node].at, !.tree = Identity,
                   !.groups = <<>>, !.child = Identity]
      Then(based) == IF based = Refused THEN Refused
                     ELSE WalkRun(WalkSlot, graph, rows, based, graph.nodes[node].children, 1)
  IN IF Shape(graph, node) # "instance" THEN Refused
     ELSE Then(WalkBase(graph, rows, inside, graph.nodes[node].base, 1))

\* The first scene object whose class is settings, among those before a failure.
Settings(graph) ==
  LET stops == {i \in DOMAIN graph.objects : ClassPath(graph, graph.objects[i]) \in {Refused, "settings"}}
  IN IF stops = {} THEN 0 ELSE Min(stops)

\* The scene objects after the first, in the zone of the object at that place (0: none).
ParseObjects(file, at) ==
  LET bad == \/ Len(file.graph.objects) < 2
             \/ at # 0 /\ ClassPath(file.graph, file.graph.objects[at]) = Refused
             \/ at # 0 /\ Shape(file.graph, file.graph.objects[at]) # "settings"
      zone == IF at = 0 THEN Identity ELSE file.graph.nodes[file.graph.objects[at]].at
      graph == [file.graph EXCEPT !.zone = zone]
      Next(walk, node) ==
        IF walk = Refused \/ ClassPath(graph, node) = Refused THEN Refused
        ELSE LET seen == Read(walk, {node, graph.nodes[node].class})
             IN IF ClassPath(graph, node) # "instance" THEN seen
                ELSE WalkInstance(graph, file.rows, seen, node)
      scanned == {graph.objects[i] : i \in 1 .. (IF at = 0 THEN Len(graph.objects) ELSE at)}
      begun == Read(Start, scanned \cup {graph.nodes[n].class : n \in scanned})
      Parsed(walk) ==
        IF walk = Refused THEN Refused
        ELSE [rows |-> file.rows, zone |-> zone, objects |-> walk.out, reached |-> walk.reached]
  IN IF bad THEN Refused ELSE Parsed(FoldLeft(Next, begun, Tail(graph.objects)))

ParseLayout(file) == ParseObjects(file, Settings(file.graph))

\* inspect_binding_fields: of the nodes read, those whose fields are reported.
Reported(graph, layout) ==
  LET classes == {TypeOf(graph, graph.nodes[n].class) :
                    n \in {m \in layout.reached : /\ Shape(graph, m) \in Classed
                                                  /\ graph.nodes[m].class \in Nodes(graph)
                                                  /\ Shape(graph, graph.nodes[m].class) = "class"}}
      as(n) == IF TypeOf(graph, n) \in classes THEN "class"
               ELSE IF Shape(graph, n) \in {"range", "child"} THEN Shape(graph, n)
               ELSE IF /\ Shape(graph, n) \in {"instance", "attribute", "chip"}
                       /\ ClassPath(graph, n) = Shape(graph, n)
                    THEN Shape(graph, n) ELSE Absent
  IN {<<n, as(n)>> : n \in {m \in layout.reached : as(m) # Absent}}

----------------------------------------------------------------------------
(* edit_layout_binding: two identifiers of the table, after checks. *)

\* Take the expected placements out one by one, each the first that matches.
Pairs(objects, expected, Matches(_, _), Accept(_)) ==
  LET Take(left, want) ==
        IF left = Refused THEN Refused
        ELSE LET at == {i \in DOMAIN left : Matches(left[i], want)}
             IN IF at = {} THEN Refused
                ELSE IF ~Accept(left[Min(at)]) THEN Refused ELSE RemoveAt(left, Min(at))
  IN Len(objects) = Paired /\ FoldLeft(Take, objects, expected) # Refused

Identified(object, want) ==
  object.node = want.node /\ object.block = want.block /\ object.world = want.world

PlacementsPaired(objects, expected, key, model, phb) ==
  Pairs(objects, expected, Identified,
        LAMBDA o : o.model = model /\ o.phb = phb /\ o.key = key /\ o.boxes = 0)

\* selected_field: the row is the only one of its name and tag, and holds the id.
Selected(rows, key, row, tag, id) ==
  /\ row \in DOMAIN rows
  /\ {i \in DOMAIN rows : rows[i].name = key /\ rows[i].tag = tag} = {row}
  /\ rows[row].id = id /\ id # 0

\* request: key, two rows with their ids and their new ids, expected placements.
EditParsed(file, layout, request) ==
  LET rows == [i \in DOMAIN file.rows |->
                 IF i = request.modelRow THEN [file.rows[i] EXCEPT !.id = request.newModel]
                 ELSE IF i = request.phbRow THEN [file.rows[i] EXCEPT !.id = request.newPhb]
                 ELSE file.rows[i]]
      edited == [file EXCEPT !.rows = rows]
      expected == [layout EXCEPT !.rows = rows,
                     !.objects = [i \in DOMAIN @ |-> [@[i] EXCEPT !.model = request.newModel,
                                                                  !.phb = request.newPhb]]]
  IN IF /\ layout # Refused
        /\ Selected(file.rows, request.key, request.modelRow, "brt", request.model)
        /\ Selected(file.rows, request.key, request.phbRow, "bhp", request.phb)
        /\ 0 \notin {request.newModel, request.newPhb} /\ request.newModel # request.newPhb
        /\ \A i \in DOMAIN file.rows \ {request.modelRow, request.phbRow} :
             file.rows[i].id \notin {request.newModel, request.newPhb}
        /\ PlacementsPaired(layout.objects, request.placements, request.key,
                            request.model, request.phb)
        /\ ParseLayout(edited) = expected
     THEN edited ELSE Refused

EditBinding(file, request) == EditParsed(file, ParseLayout(file), request)
=============================================================================
