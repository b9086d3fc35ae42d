-------------------------------- MODULE MCZone --------------------------------
(* A client with a catalog of three roots, one floor scene (a layout that places a
   model and a collision twice) and the user's overlays; packages and roots that fit
   it, collide with each other, or are refused.  Layouts with every kind of node,
   models with and without a normal and a second entry, grids of triangles. *)
EXTENDS ZoneTools

----------------------------------------------------------------------------
(* Layouts. *)
Types(list) ==
  LET first(i) == 1 + FoldFunction(+, 0, [j \in 1 .. (i - 1) |-> list[j][2]])
  IN [i \in DOMAIN list |-> [first |-> first(i), count |-> list[i][2], shape |-> list[i][1]]]
None == [first |-> 0, count |-> 0]
To(first, count) == [first |-> first, count |-> count]
Node(class, at) == [class |-> class, name |-> "", at |-> at, base |-> 0, groups |-> None, children |-> None,
                    key |-> "", inside |-> TRUE]
Class(name) == [Node(0, Identity) EXCEPT !.name = name]
ClassNodes == <<Class("attribute"), Class("box"), Class("instance"), Class("unit tree"), Class("settings")>>
Holder(at, base) == [Node(0, at) EXCEPT !.base = base]
Attribute(key) == [Node(1, Identity) EXCEPT !.key = key]
Instance(at, base, children) == [Node(3, at) EXCEPT !.base = base, !.children = children]
Tree(at, groups, children) == [Node(4, at) EXCEPT !.groups = groups, !.children = children]
Group(at, groups, children) == [Node(0, at) EXCEPT !.groups = groups, !.children = children]
Settings1 == Node(5, "z")
Box == Node(2, Identity)

Graph(types, nodes, objects) == [types |-> Types(types), nodes |-> nodes, objects |-> objects, zone |-> Identity]
\* The floor: an instance with two children, each an attribute.
FloorGraph ==
  Graph(<<<<"class", 5>>, <<"settings", 1>>, <<"instance", 1>>, <<"child", 2>>, <<"attribute", 2>>>>,
        ClassNodes \o <<Settings1, Instance("i", 0, To(8, 2)), Holder("c", 10), Holder("d", 11),
                        Attribute("f"), Attribute("f")>>, <<6, 7>>)
Rows3(model, phb) ==
  << [name |-> "f", tag |-> "brt", id |-> model], [name |-> "f", tag |-> "bhp", id |-> phb],
     [name |-> "g", tag |-> "chip", id |-> 0] >>
FloorLayout(name, model, phb) == [name |-> name, rows |-> Rows3(model, phb), graph |-> FloorGraph]

\* 6 settings, 7-8 instances, 9-14 children, 15-17 groups, 18-19 unit trees,
\* 20-21 attributes, 22 box, 23 range.
DeepNodes(first, rest) ==
  ClassNodes \o
  <<Settings1, Instance("i", 18, To(9, 2)), Instance("j", first, To(23, 1)),
    Holder("a", 20), Holder("b", rest), Holder("c", 21), Holder("d", 22), Holder("e", 20), Holder("k", 21),
    Group("g", To(16, 2), To(11, 1)), Group("h", None, To(12, 1)), Group("m", None, To(13, 2)),
    Tree("t", To(15, 1), To(12, 2)), Tree("u", None, To(14, 1)),
    Attribute("f"), Attribute("f"), Box, Holder("r", 0)>>
Deep(first, rest) ==
  Graph(<<<<"class", 5>>, <<"settings", 1>>, <<"instance", 2>>, <<"child", 6>>, <<"group", 3>>, <<"unit tree", 2>>,
          <<"attribute", 2>>, <<"box", 1>>, <<"range", 1>>>>,
        DeepNodes(first, rest), <<6, 7, 8>>)
OfGraph(graph) == [name |-> <<"a">>, rows |-> Rows3(12, 16), graph |-> graph]
MCLayouts ==
  {OfGraph(FloorGraph), OfGraph([FloorGraph EXCEPT !.objects = <<6, 7, 7>>]),
   OfGraph([FloorGraph EXCEPT !.objects = <<7, 7>>]), OfGraph([FloorGraph EXCEPT !.objects = <<6>>]),
   OfGraph([FloorGraph EXCEPT !.nodes[7].children = To(8, 3)]),
   OfGraph([FloorGraph EXCEPT !.nodes[11].key = "x"]),
   OfGraph([FloorGraph EXCEPT !.nodes[11].class = 6]),
   OfGraph([FloorGraph EXCEPT !.nodes[9].base = 9])}
  \cup {OfGraph(Deep(first, rest)) : first \in {0, 19, 20, 22}, rest \in {0, 18, 19, 21, 22}}
  \cup {OfGraph([Deep(19, 19) EXCEPT !.nodes[23].inside = FALSE]),
        OfGraph([Deep(19, 19) EXCEPT !.nodes[13].base = 19]),
        OfGraph([Deep(19, 19) EXCEPT !.nodes[14].base = 18])}

----------------------------------------------------------------------------
(* Models: a WRB of one mesh, and the entries around it. *)
Chunk(tag, payload, pad) ==
  <<[tag |-> tag, size |-> 1 + Len(payload), padded |-> 1 + Len(payload) + pad]>> \o payload
  \o [i \in 1 .. pad |-> [zero |-> i]]
Info == <<[info |-> 0]>>
Raw(position, rest, normal) == [position |-> position, normal |-> normal, rest |-> rest]
Usage(usage, from, width) == [usage |-> usage, from |-> from, width |-> width]
PositionHead(normal, items) ==
  [fields |-> <<Usage("position", 0, 2)>> \o (IF normal THEN <<Usage("normal", 2, 1)>> ELSE <<>>)
              \o <<Usage("uv", 3, Absent)>>, items |-> items, stride |-> 4]
IndexHead(items) == [fields |-> <<Usage("index", 0, 1)>>, items |-> items, stride |-> 1]
Descriptors(head) == [i \in DOMAIN head.fields |-> [descriptor |-> i]]
Stms(head, items, pad) == Chunk("STMS", <<head>> \o Descriptors(head) \o items, pad)
Square == [min |-> <<0, 0>>, max |-> <<4, 4>>]
Vertices3 == <<Raw(<<-Q, -Q>>, "u", 1), Raw(<<Q, -Q>>, "v", 1), Raw(<<Q, Q>>, "w", 1)>>
Vertices5 == Vertices3 \o <<Raw(<<-Q, Q>>, "x", 1), Raw(<<0, 0>>, "y", 1)>>
Indices(list) == [k \in DOMAIN list |-> [index |-> list[k]]]
MeshOf(normal, vertices, indices, pad) ==
  Chunk("MESH", Info \o Chunk("HEAD", <<[vertices |-> Len(vertices), triangles |-> Len(indices) \div 3]>>, 0) \o Chunk("AABB", <<Square>>, 0)
                \o Stms(PositionHead(normal, Len(vertices)), vertices, pad)
                \o Stms(IndexHead(Len(indices)), Indices(indices), 0), 0)
MeshCells(normal, pad) == MeshOf(normal, Vertices3, <<0, 1, 2>>, pad)
Wrb(mesh) ==
  Chunk("WRB", Info \o Chunk("MDLC", Info \o
    Chunk("MDL", Info \o Chunk("AABB", <<Square>>, 0) \o Chunk("COMP", <<Square>>, 0) \o mesh, 1), 0), 0)
Native(mesh, before, after) ==
  LET body == <<[sedb |-> "wrb", size |-> 1 + Len(Wrb(mesh))]>> \o Wrb(mesh)
  IN [total |-> Len(before) + Len(body) + Len(after),
      directory |-> <<[at |-> 1, size |-> Len(before)], [at |-> Len(before) + 1, size |-> Len(body)],
                      [at |-> Len(before) + Len(body) + 1, size |-> Len(after)]>>,
      cells |-> before \o body \o after]
Model1 == Native(MeshCells(TRUE, 1), <<[sedb |-> "other", size |-> 1]>>, <<[tex |-> 1], [tex |-> 2]>>)
\* Room for the floor: five vertices and three triangles.
FloorModel == Native(MeshOf(TRUE, Vertices5, <<0, 1, 4, 1, 2, 4, 2, 3, 4>>, 1), <<[tex |-> 0]>>, <<[tex |-> 1]>>)
MCModels ==
  {Model1, FloorModel, Native(MeshCells(FALSE, 0), <<[tex |-> 0]>>, <<[tex |-> 1]>>),
   Native(MeshCells(TRUE, 0) \o MeshCells(FALSE, 0), <<[tex |-> 0]>>, <<[tex |-> 1]>>),
   [Model1 EXCEPT !.directory[3] = [at |-> 3, size |-> 2]]}

MCFactors == {<<1, 2>>, <<1, 1>>, <<3, 2>>}

V(x, y) == <<"v", <<x, y>>>>
F(i, j, k) == <<"f", <<i, j, k>>>>
QuadText == <<V(0, 0), V(4, 0), V(4, 4), V(0, 4), F(1, 2, 3), F(1, 3, 4)>>
MCTexts ==
  {QuadText, <<V(0, 0), V(3, 1), V(1, 3), F(1, 2, 3)>>, <<V(0, 0), V(2, 0), F(-2, -1, -3), V(1, 2)>>,
   <<V(0, 0), V(2, 0), V(1, 2), F(-3, -2, -1)>>, <<V(0, 0), V(1, 0), V(2, 0), F(1, 2, 3)>>,
   <<V(-3, 0), V(2, 0), V(1, 2), V(0, 1), V(2, 2), F(3, 2, 1), F(3, 4, 1), F(3, 5, 2)>>}

----------------------------------------------------------------------------
(* Collision. *)
Face(i, j, k, surface) == [indices |-> <<i, j, k>>, surface |-> surface]
Template == [vertices |-> <<<<0, 0>>, <<2, 0>>, <<0, 2>>>>, triangles |-> <<Face(0, 1, 2, 1)>>, room |-> 4,
             padding |-> <<1, 1>>, extents |-> Hull!SingleExtents, tbcs |-> <<>>]
QuadGeometry == [vertices |-> <<<<0, 0>>, <<4, 0>>, <<4, 4>>, <<0, 4>>>>,
                 triangles |-> <<Face(0, 1, 2, 1), Face(0, 2, 3, 2)>>]
\* A row of n triangles over two lines of points.
Strip(n) == [vertices |-> [i \in 1 .. (n + 2) |-> <<(i - 1) \div 2, IF i % 2 = 0 THEN 3 ELSE 0>>],
             triangles |-> [t \in 1 .. n |-> Face(t - 1, t, t + 1, t % 3)]]
Fan(n) == [vertices |-> <<<<0, 0>>>> \o [i \in 1 .. (n + 1) |-> <<n - i, i>>],
           triangles |-> [t \in 1 .. n |-> Face(0, t + 1, t, 2)]]
MCGeometries ==
  {QuadGeometry, Strip(1), Strip(3), Strip(5), Strip(8), Strip(9), Strip(12), Fan(3), Fan(4), Fan(7),
   [vertices |-> <<<<0, 0>>, <<1, 1>>, <<2, 2>>>>, triangles |-> <<Face(0, 1, 2, 1)>>],
   [QuadGeometry EXCEPT !.triangles[2] = Face(0, 2, 4, 2)]}
MCTemplates == {Template, [Template EXCEPT !.padding = <<0, 1>>], [Template EXCEPT !.room = 2]}
MCQueries ==
  {[min |-> <<x, y>>, max |-> <<x + w, y + h>>] : x \in -2 .. 6, y \in -1 .. 4, w \in {0, 1}, h \in {0, 2}}

----------------------------------------------------------------------------
(* Clients, packages and roots. *)
Named(id, type, dat, children, name) == Row(id, type, dat, children, 0, name, TRUE)
MCRows ==
  <<Named(1, 0, 0, 2, "one"), Named(21, 2, 8, 0, "one a"), Named(22, 0, 9, 0, "one b"),
    Row(2, 0, 0, 1, 70, "two", TRUE), Named(23, 1, 31, 0, "two a"),
    Named(3, 0, 0, 2, "three"), Named(24, 1, 66, 0, "three a"), Named(25, 3, 67, 0, "three b")>>
MCCatalog == [size |-> 8, count |-> 3, rows |-> MCRows, tail |-> 0]
Low1(key) == [key |-> key, upper |-> FALSE]
Client1 ==
  (CatalogPath :> MCCatalog) @@ (Path(8) :> FloorLayout(<<"a">>, 12, 16)) @@ (Path(12) :> FloorModel)
  @@ (Path(16) :> Template) @@ (Low1(90) :> [other |-> 1]) @@ ([key |-> Absent, upper |-> FALSE] :> [other |-> 2])
MCClients == {Client1}
MCStacks ==
  {<<>>, <<CatalogPath :> [MCCatalog EXCEPT !.tail = 1]>>, <<Low1(44) :> [other |-> 1]>>, <<Path(16) :> [Template EXCEPT !.room = 5]>>,
   <<CatalogPath :> [MCCatalog EXCEPT !.size = 6, !.count = 2, !.rows = SubSeq(MCRows, 1, 5)]>>}

At(path) == [path |-> path, content |-> Client1[path]]
Place(node, at) == [node |-> node, block |-> 10, world |-> <<"z", "i", Identity, at>>]
Project(model, phb) ==
  [layout |-> At(Path(8)), template |-> At(Path(16)),
   resources |-> <<[row |-> 1, id |-> 12, tag |-> "brt", file |-> At(Path(12))],
                   [row |-> 2, id |-> 16, tag |-> "bhp", file |-> At(Path(16))]>>,
   obj |-> QuadText, geometry |-> QuadGeometry,
   binding |-> [key |-> "f", modelRow |-> 1, phbRow |-> 2, newModel |-> model, newPhb |-> phb],
   placements |-> <<Place(10, "c"), Place(11, "d")>>]
Adds(resource, root, rootName, child, childName) ==
  [resource |-> resource, rootKey |-> root, rootName |-> rootName, childKey |-> child, childName |-> childName,
   type |-> Absent]
Package(project, add) == [project |-> project, like |-> 1, likeChild |-> Absent, add |-> add]
P1 == Package(Project(44, 45), Adds(40, 4, "four", 31, "four a"))
P2 == Package(Project(52, 53), Adds(48, 5, "five", 32, "five a"))
Stale == [Project(44, 45) EXCEPT !.layout.content.rows[1].id = 13]
Skewed == [Project(44, 45) EXCEPT !.geometry.vertices[3] = <<4, 3>>, !.template = At(Path(16))]
Twice == [Project(44, 45) EXCEPT !.placements = <<Place(10, "c"), Place(10, "c")>>]
MCPackages ==
  {P1, P2, [P1 EXCEPT !.project.obj = <<V(0, 0), V(4, 0), V(4, 4), F(1, 2, 3)>>], [P2 EXCEPT !.project = Project(41, 53)], [P2 EXCEPT !.add.childName = "one b"],
   [P2 EXCEPT !.add.rootKey = 4, !.add.type = 7], [P1 EXCEPT !.add.resource = 47], [P1 EXCEPT !.project = Stale],
   [P1 EXCEPT !.project = Skewed], [P1 EXCEPT !.project = Twice], [P2 EXCEPT !.project = Project(70, 90)],
   [P2 EXCEPT !.project = Project(49, 52)], [P2 EXCEPT !.add.resource = 43, !.likeChild = 1]}
MCAppend(resource, root, environment) ==
  [like |-> 1, likeChild |-> Absent, environment |-> environment,
   add |-> IF root = 6 THEN Adds(resource, 6, "six", 33, "six a") ELSE Adds(resource, 7, "seven", 34, "seven a")]
MCAppends ==
  {MCAppend(56, 6, 1), MCAppend(57, 7, 1), MCAppend(10, 7, Absent), MCAppend(55, 7, Absent), MCAppend(56, 6, 2),
   MCAppend(65, 7, 3), [MCAppend(57, 7, Absent) EXCEPT !.likeChild = 1]}

MCSafeStem == ("a" :> "a") @@ ("A" :> "A") @@ ("b" :> "b") @@ ("?" :> "_") @@ ("!" :> "_") @@ ("" :> "")
MCStemRank == ("" :> 0) @@ ("_" :> 1) @@ ("a" :> 2) @@ ("A" :> 2) @@ ("b" :> 3) @@ ("?" :> 4) @@ ("!" :> 5) @@ ("zone" :> 6)
Zone3(first, second, third) ==
  (Path(12) :> Model1) @@ (Path(16) :> Template) @@ (Low1(8) :> FloorLayout(first, 12, 16))
  @@ (Path(9) :> FloorLayout(second, 12, 16)) @@ (Path(10) :> FloorLayout(third, 12, 16))
MCZoneNames == {<<"a">>, <<"A">>, <<"?">>, <<"">>, <<"a", 8>>}
MCTrees ==
  {Zone3(x, y, z) : x, y, z \in MCZoneNames}
  \cup {Zone3(<<"?">>, <<"!">>, <<"A", 8>>), Zone3(<<"a", 10>>, <<"A">>, <<"a">>)}
  \cup {(Path(8) :> Template) @@ Zone3(<<"a">>, <<"b">>, <<"">>), Path(12) :> Model1,
        (Path(11) :> FloorLayout(<<"a">>, 16, 12)) @@ Zone3(<<"a">>, <<"b">>, <<"">>),
        (Path(11) :> FloorLayout(<<"a">>, 12, 20)) @@ Zone3(<<"a">>, <<"b">>, <<"">>)}
=============================================================================
