------------------------------- MODULE ZoneFloor -------------------------------
(* A floor project (src/apps/cli/src/zone_project.rs): a layout, a model and a
   collision resource of the client, authored anew from an OBJ text and a collision
   geometry, and compared triangle by triangle before anything is written.
   Operators only.

   A project names client files by path and pins their content.  A world coordinate
   is a sequence of transforms applied to a point in units of 1 / (2 Q). *)
EXTENDS Integers, Sequences, FiniteSets, FiniteSetsExt, SequencesExt

CONSTANTS
  MaxDepth, Paired, Identity,                                      \* Layout
  Q, Align, MaxNesting, MaxVertices, MaxTriangles, MaxCells,       \* ModelImport
  Bias, Range1, Top, Leaf, MaxStart, Capacity, MaxTrees,           \* PhbTree
  Refused, Absent

Scene == INSTANCE Layout
Mesh == INSTANCE ModelImport
Hull == INSTANCE PhbTree

----------------------------------------------------------------------------
(* flatten_zone: the collision of every placement, in world coordinates. *)

\* World coordinates of an integer point, and of a decoded one.
World(object, point) == <<object.world, [a \in {1, 2} |-> 2 * Q * point[a]]>>
WorldOf(object, decoded) == <<object.world, decoded>>

\* append_box: eight corners and twelve triangles.
BoxCorners == 8
BoxFaces ==
  << <<0,1,3>>, <<0,3,2>>, <<2,3,5>>, <<2,5,4>>, <<4,5,7>>, <<4,7,6>>,
     <<6,7,1>>, <<6,1,0>>, <<1,7,5>>, <<1,5,3>>, <<6,0,2>>, <<6,2,4>> >>

Flatten(layout, phbs) ==
  LET Add(zone, o) ==
        LET object == layout.objects[o]
            phb == phbs[object.phb]
            base == Len(zone.vertices)
            hull == IF object.phb = Absent THEN <<>>
                    ELSE [i \in DOMAIN phb.vertices |-> World(object, phb.vertices[i])]
            corners == [i \in 1 .. (BoxCorners * object.boxes) |-> <<object.world, "corner">>]
            face(t) == [indices |-> [k \in 1 .. 3 |-> base + phb.indices[3 * t - 3 + k]],
                        object |-> o, resource |-> object.phb, model |-> object.model,
                        surface |-> phb.surfaces[t]]
            boxFace(b, t) == [indices |-> [k \in 1 .. 3 |-> base + Len(hull) + (b - 1) * BoxCorners + BoxFaces[t][k]],
                              object |-> o, resource |-> Absent, model |-> Absent, surface |-> 0]
        IN IF zone = Refused THEN Refused
           ELSE IF object.phb # Absent /\ object.phb \notin DOMAIN phbs THEN Refused
           ELSE [vertices |-> zone.vertices \o hull \o corners,
                 placements |-> Append(zone.placements, object),
                 faces |-> zone.faces
                   \o (IF object.phb = Absent THEN <<>>
                       ELSE [t \in DOMAIN phb.surfaces |-> face(t)])
                   \o FlattenSeq([b \in 1 .. object.boxes |->
                                    [t \in DOMAIN BoxFaces |-> boxFace(b, t)]])]
  IN FoldLeft(Add, [vertices |-> <<>>, placements |-> <<>>, faces |-> <<>>],
              [o \in DOMAIN layout.objects |-> o])

----------------------------------------------------------------------------
(* compare_triangles. *)

Corner(zone, face, k) == zone.vertices[face.indices[k] + 1]

\* Faulty variant: as many triangles as the model has, whatever they are.
TrianglesCounted(layout, model, zone) ==
  \A o \in DOMAIN layout.objects : \A t \in 1 .. (Len(model[1].indices) \div 3) :
    zone.faces[(o - 1) * (Len(model[1].indices) \div 3) + t].object = o

TrianglesEqual(layout, model, zone) ==
  LET part == model[1]
      perObject == Len(part.indices) \div 3
      face(o, t) == zone.faces[(o - 1) * perObject + t]
      vertex(o, t, k) == WorldOf(layout.objects[o], part.vertices[part.indices[3 * t - 3 + k] + 1])
  IN \A o \in DOMAIN layout.objects : \A t \in 1 .. perObject :
       /\ face(o, t).object = o
       /\ face(o, t).resource = layout.objects[o].phb
       /\ face(o, t).model = layout.objects[o].model
       /\ \A k \in 1 .. 3 : Corner(zone, face(o, t), k) = vertex(o, t, k)

CompareFloor(layout, model, zone) ==
  LET count == Len(layout.objects)
      spread(points) == Mesh!BoxOf(points)
      own(o) == {i \in DOMAIN zone.vertices : zone.vertices[i][1] = layout.objects[o].world}
  IN /\ Len(model) = 1 /\ model[1].indices # <<>>
     /\ zone.placements = layout.objects
     /\ Len(zone.faces) = (Len(model[1].indices) \div 3) * count
     /\ Len(zone.vertices) = Len(model[1].vertices) * count
     /\ TrianglesEqual(layout, model, zone)
     /\ \A o \in DOMAIN layout.objects :
          spread(model[1].vertices) = spread([i \in own(o) |-> zone.vertices[i][2]])

----------------------------------------------------------------------------
(* load_project: the pinned inputs, and what the layout must say of them. *)

\* The client files of a project, each with its pinned content.
Inputs(project) ==
  {project.layout, project.template} \cup {project.resources[i].file : i \in DOMAIN project.resources}

ProjectValid(project) ==
  /\ IsInjective([i \in DOMAIN project.resources |-> project.resources[i].row])
  /\ project.binding.modelRow # project.binding.phbRow
  /\ project.binding.newModel # project.binding.newPhb

\* validate_inventory: every row with an identifier is declared, as it is.
InventoryComplete(project, layout) ==
  /\ \A r \in DOMAIN layout.rows :
       LET own == {i \in DOMAIN project.resources : project.resources[i].row = r}
       IN IF layout.rows[r].id = 0 THEN own = {}
          ELSE /\ own # {}
               /\ \A i \in own : /\ project.resources[i].id = layout.rows[r].id
                                 /\ project.resources[i].tag = layout.rows[r].tag
  /\ \A i \in DOMAIN project.resources : project.resources[i].row \in DOMAIN layout.rows

\* validate_binding.
BindingValid(project, layout) ==
  LET b == project.binding
      row(r) == layout.rows[r]
      named(tag) == {r \in DOMAIN layout.rows : row(r).name = b.key /\ row(r).tag = tag}
  IN /\ {b.modelRow, b.phbRow} \subseteq DOMAIN layout.rows
     /\ named("brt") = {b.modelRow} /\ named("bhp") = {b.phbRow}
     /\ row(b.modelRow).id # 0 /\ row(b.phbRow).id # 0
     /\ \A r \in DOMAIN layout.rows \ {b.modelRow, b.phbRow} :
          row(r).id \notin {b.newModel, b.newPhb}
     /\ Scene!PlacementsPaired(layout.objects, project.placements, b.key,
                               row(b.modelRow).id, row(b.phbRow).id)

LayoutFits(project, layout) ==
  layout # Refused /\ InventoryComplete(project, layout) /\ BindingValid(project, layout)

\* The rest of load_project: it depends on the pinned content alone.
Admitted(project) ==
  /\ ProjectValid(project)
  /\ LayoutFits(project, Scene!ParseLayout(project.layout.content))

----------------------------------------------------------------------------
(* prepare_loaded. *)

\* verify_allocation: the file's length, directory and structure are retained.
SameAllocation(before, after) ==
  before.total = after.total /\ before.directory = after.directory
  /\ Len(before.cells) = Len(after.cells)
SameExtents(before, after) == before.extents = after.extents /\ before.room = after.room

Source(project, row) ==
  project.resources[CHOOSE i \in DOMAIN project.resources : project.resources[i].row = row]

\* The three results, read again, are one floor.
FloorAgrees(layout, model, hull, key) ==
  LET Compare(zone) == zone # Refused /\ CompareFloor(layout, model, zone)
  IN hull # Refused /\ Compare(Flatten(layout, (key :> hull)))

Floored(project, layout, model, phb) ==
  IF model = Refused \/ phb = Refused \/ layout = Refused THEN Refused
  ELSE IF /\ SameAllocation(Source(project, project.binding.modelRow).file.content, model)
          /\ SameExtents(project.template.content, phb)
          /\ FloorAgrees(Scene!ParseLayout(layout), Mesh!ParseModel(model), Hull!ParsePhb(phb),
                         project.binding.newPhb)
       THEN [layout |-> layout, model |-> model, phb |-> phb] ELSE Refused

PrepareFloor(project) ==
  LET b == project.binding
      request == [key |-> b.key, modelRow |-> b.modelRow, phbRow |-> b.phbRow,
                  model |-> Source(project, b.modelRow).id, phb |-> Source(project, b.phbRow).id,
                  newModel |-> b.newModel, newPhb |-> b.newPhb, placements |-> project.placements]
  IN Floored(project, Scene!EditBinding(project.layout.content, request),
             Mesh!ImportModel(Source(project, b.modelRow).file.content, project.obj),
             Hull!AuthorPhb(project.template.content, project.geometry))
=============================================================================
