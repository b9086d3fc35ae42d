------------------------------ MODULE ModelImport ------------------------------
(* A RES model resource: how src/formats/src/zone.rs reads its meshes, and how
   model_import.rs puts the geometry of an OBJ text into one of them.  Operators
   only.

   A resource is a directory of extents over a sequence of cells.  A cell is a
   chunk header, or a payload record (a box, counts, a vertex, an index, anything
   else).  Sizes count cells and are rounded to Align, for 16 bytes.  A point has
   two integer axes; arithmetic is exact, and a decoded point is in units of
   1 / (2 Q). *)
EXTENDS Integers, Sequences, FiniteSets, FiniteSetsExt, SequencesExt

CONSTANTS
  Q,            \* the largest raw coordinate: 32767
  Align,        \* cells to round a chunk to
  MaxNesting,   \* MAX_MODEL_CHUNK_DEPTH
  MaxVertices,  \* MAX_MODEL_VERTICES
  MaxTriangles, \* MAX_MODEL_TRIANGLES
  MaxCells,     \* MAX_OUTPUT_BYTES
  Refused, Absent

Axes == {1, 2}
RoundUp(size) == ((size + Align - 1) \div Align) * Align
Round(n, d) == IF n >= 0 THEN (2 * n + d) \div (2 * d) ELSE -((d - 2 * n) \div (2 * d))
\* The image of a sequence.
Each(seq, Op(_)) == SubSeq([i \in DOMAIN seq |-> Op(seq[i])], 1, Len(seq))
BoxOf(points) ==
  [min |-> [a \in Axes |-> Min({points[i][a] : i \in DOMAIN points})],
   max |-> [a \in Axes |-> Max({points[i][a] : i \in DOMAIN points})]]

Quantize(v, box) ==
  [a \in Axes |-> IF box.min[a] = box.max[a] THEN 0
                  ELSE Round((2 * v[a] - box.min[a] - box.max[a]) * Q, box.max[a] - box.min[a])]
Decode(raw, box) ==
  [a \in Axes |-> (box.min[a] + box.max[a]) * Q + raw[a] * (box.max[a] - box.min[a])]

----------------------------------------------------------------------------
(* Chunks.  A container's first payload cell is its info block; the children
   follow.  A cell that is not a header ends a list: the rest is its tail. *)

Containers == {"WRB", "MDLC", "MDL", "MESH", "AABB"}
IsHeader(cell) == "tag" \in DOMAIN cell

\* parse_chunks: the chunks of cells[from .. to].
RECURSIVE Chunks(_, _, _, _)
Chunks(cells, from, to, depth) ==
  IF depth > MaxNesting THEN Refused
  ELSE IF from > to THEN <<>>
  ELSE IF ~IsHeader(cells[from]) THEN <<>>
  ELSE LET head == cells[from]
           padded == IF head.padded >= head.size THEN head.padded ELSE RoundUp(head.size)
           children == IF head.tag \in Containers
                       THEN Chunks(cells, from + 2, from + head.size - 1, depth + 1) ELSE <<>>
           rest == Chunks(cells, from + padded, to, depth)
       IN IF \/ head.size < (IF head.tag \in Containers THEN 2 ELSE 1)
             \/ from + head.size - 1 > to \/ from + padded - 1 > to
          THEN Refused
          ELSE IF children = Refused \/ rest = Refused THEN Refused
          ELSE <<[tag |-> head.tag, at |-> from, size |-> head.size, padded |-> padded,
                  children |-> children]>> \o rest

RECURSIVE Find(_, _), Leaves(_, _)
Find(chunks, tag) ==
  FlattenSeq([i \in DOMAIN chunks |->
    (IF chunks[i].tag = tag THEN <<chunks[i]>> ELSE <<>>) \o Find(chunks[i].children, tag)])
Leaves(chunk, tag) ==
  (IF chunk.tag = tag /\ chunk.children = <<>> THEN <<chunk>> ELSE <<>>)
  \o FlattenSeq([i \in DOMAIN chunk.children |-> Leaves(chunk.children[i], tag)])

\* parse_stms: a header, the descriptors it counts, and one cell for each item.
Stream(cells, chunk) ==
  LET head == cells[chunk.at + 1]
      first == chunk.at + 2 + Len(head.fields)
  IN IF first + head.items # chunk.at + chunk.size THEN Refused
     ELSE [chunk |-> chunk, fields |-> head.fields, stride |-> head.stride, first |-> first,
           items |-> SubSeq(cells, first, chunk.at + chunk.size - 1)]

Streams(cells, mesh) ==
  LET of == SelectSeq(mesh.children, LAMBDA c : c.tag = "STMS")
  IN Each(of, LAMBDA c : Stream(cells, c))
IsIndex(stream) == stream.stride = 1 /\ [i \in DOMAIN stream.fields |-> stream.fields[i].usage] = <<"index">>
Positions(stream) == {i \in DOMAIN stream.fields : stream.fields[i].usage = "position"}

\* parse_mesh_chunk, in the box of the COMP chunk in scope.
MeshOf(streams, box) ==
  LET index == {i \in DOMAIN streams : IsIndex(streams[i])}
      position == {i \in DOMAIN streams : ~IsIndex(streams[i]) /\ Positions(streams[i]) # {}}
      of(set) == streams[CHOOSE i \in set : TRUE].items
  IN IF Refused \in {streams[i] : i \in DOMAIN streams} THEN Refused
     ELSE IF \/ Cardinality(index) # 1 \/ Cardinality(position) # 1 \/ box = Absent
             \/ \E i \in position : Cardinality(Positions(streams[i])) > 1
             \/ \E i \in position : \E f \in Positions(streams[i]) :
                  streams[i].fields[f].from + 2 > streams[i].stride
             \/ Len(of(index)) % 3 # 0
             \/ \E k \in DOMAIN of(index) : of(index)[k].index >= Len(of(position))
          THEN Refused
     ELSE <<[vertices |-> Each(of(position), LAMBDA item : Decode(item.position, box)),
             indices |-> Each(of(index), LAMBDA item : item.index)]>>

Mesh(cells, mesh, box) == MeshOf(Streams(cells, mesh), box)

\* find_comp, and the box that a chunk's children are read in.
Scope(cells, chunk, outer) ==
  LET found == Find(chunk.children, "COMP")
  IN IF found = <<>> THEN outer ELSE cells[found[1].at + 1]

RECURSIVE Meshes(_, _, _)
Meshes(cells, chunks, outer) ==
  LET of(chunk) ==
        CASE chunk.tag = "MESH" -> Mesh(cells, chunk, outer)
          [] chunk.tag = "COMP" -> <<>>
          [] OTHER -> Meshes(cells, chunk.children, Scope(cells, chunk, outer))
      Join(all) == IF Refused \in {all[i] : i \in DOMAIN all} THEN Refused ELSE FlattenSeq(all)
  IN Join(Each(chunks, of))

----------------------------------------------------------------------------
(* The RES: entries of the directory that start with a WRB header. *)

Entry(file, e) == SubSeq(file.cells, file.directory[e].at, file.directory[e].at + file.directory[e].size - 1)
IsWrb(file, e) ==
  /\ file.directory[e].at + file.directory[e].size - 1 <= Len(file.cells)
  /\ file.directory[e].size > 0
  /\ "sedb" \in DOMAIN file.cells[file.directory[e].at]
  /\ file.cells[file.directory[e].at].sedb = "wrb"
WrbChunks(file, e) ==
  Chunks(file.cells, file.directory[e].at + 1, file.directory[e].at + file.directory[e].size - 1, 0)

ParseModel(file) ==
  LET wrb == SelectSeq([e \in DOMAIN file.directory |-> e], LAMBDA e : IsWrb(file, e))
      Parse(chunks) == IF chunks = Refused THEN Refused ELSE Meshes(file.cells, chunks, Absent)
      Join(all) == IF Refused \in {all[i] : i \in DOMAIN all} THEN Refused ELSE FlattenSeq(all)
  IN IF wrb = <<>> THEN Refused ELSE Join(Each(wrb, LAMBDA e : Parse(WrbChunks(file, e))))

----------------------------------------------------------------------------
(* The OBJ text: a sequence of <<"v", point>> and <<"f", indices>> records. *)

Cross(p, q, r) == (q[1] - p[1]) * (r[2] - p[2]) - (q[2] - p[2]) * (r[1] - p[1])

\* parse_face_index: from 1, or back from the vertices read so far.
FaceIndex(raw, count) ==
  LET index == IF raw > 0 THEN raw - 1 ELSE count + raw
  IN IF raw = 0 \/ index \notin 0 .. (count - 1) THEN Refused ELSE index

ReadObj(text) ==
  LET Add(g, record) ==
        IF g = Refused THEN Refused
        ELSE IF record[1] = "v" THEN [g EXCEPT !.vertices = Append(@, record[2])]
        ELSE LET face == [i \in 1 .. 3 |-> FaceIndex(record[2][i], Len(g.vertices))]
             IN IF Refused \in {face[i] : i \in 1 .. 3} THEN Refused
                ELSE [g EXCEPT !.indices = @ \o face]
  IN FoldLeft(Add, [vertices |-> <<>>, indices |-> <<>>], text)

\* geometry_normals: a vertex is normal to its faces together; 0 stands for no
\* normal, and no face may have none.
GeometryNormals(vertices, indices) ==
  LET v(k) == vertices[indices[k] + 1]
      normal(t) == Cross(v(3 * t - 2), v(3 * t - 1), v(3 * t))
      faces == 1 .. (Len(indices) \div 3)
      around(i) == {t \in faces : i - 1 \in {indices[3 * t - k] : k \in 0 .. 2}}
      sum(i) == FoldSet(LAMBDA t, s : s + normal(t), 0, around(i))
  IN IF \E t \in faces : normal(t) = 0 THEN Refused
     ELSE [i \in DOMAIN vertices |-> IF sum(i) > 0 THEN 1 ELSE IF sum(i) < 0 THEN -1 ELSE 0]

\* What was read, with its box and normals.
Geometry(read) ==
  LET With(normals) ==
        IF normals = Refused THEN Refused
        ELSE [vertices |-> read.vertices, indices |-> read.indices,
              box |-> BoxOf(read.vertices), normals |-> normals]
  IN IF read = Refused THEN Refused
     ELSE IF read.vertices = <<>> \/ read.indices = <<>> THEN Refused
     ELSE With(GeometryNormals(read.vertices, read.indices))

ParseObj(text) == Geometry(ReadObj(text))

----------------------------------------------------------------------------
(* The template: one WRB, one MDL, one MESH, one COMP, one of each box and stream. *)

Overlap(a, b) == a.from < b.to /\ b.from < a.to

\* The bytes of a descriptor, of an unknown type up to the end of the stride.
Field(field, stride) ==
  [from |-> field.from, to |-> IF field.width = Absent THEN stride ELSE field.from + field.width]

\* Every field is in the stride, the ones that are made anew to their end.
FieldsFit(stream) ==
  \A i \in DOMAIN stream.fields :
    /\ stream.fields[i].from < stream.stride
    /\ Field(stream.fields[i], stream.stride).to <= stream.stride

StreamAccepted(stream) ==
  LET of(use) == {i \in DOMAIN stream.fields : stream.fields[i].usage = use}
      range(i) == Field(stream.fields[i], stream.stride)
      made == of("position") \cup of("normal")
  IN \/ IsIndex(stream)
     \/ /\ Cardinality(of("position")) = 1 /\ Cardinality(of("normal")) <= 1
        /\ FieldsFit(stream)
        /\ \A i \in made : \A j \in DOMAIN stream.fields \ {i} : ~Overlap(range(i), range(j))

\* One stream of positions, not empty, and one of triangles.
StreamsHold(position, index) ==
  /\ Len(position) = 1 /\ Len(index) = 1
  /\ position[1].items # <<>> /\ Len(index[1].items) % 3 = 0

ProfileOf(file, e, chunks, streams) ==
  LET extent(d) == [from |-> file.directory[d].at, to |-> file.directory[d].at + file.directory[d].size]
      only(tag) == Find(chunks, tag)[1]
      boxes == SelectSeq(only("MDL").children, LAMBDA c : c.tag = "AABB")
      mesh == only("MESH")
      heads == SelectSeq(mesh.children, LAMBDA c : c.tag = "HEAD")
      leaves == FlattenSeq([i \in DOMAIN mesh.children |-> Leaves(mesh.children[i], "AABB")])
      index == SelectSeq(streams, IsIndex)
      position == SelectSeq(streams, LAMBDA s : ~IsIndex(s))
  IN IF /\ file.cells[file.directory[e].at].size = file.directory[e].size
        /\ \A d \in DOMAIN file.directory :
             Overlap(extent(d), extent(e)) => extent(d) = extent(e)
        /\ \A tag \in {"WRB", "MDL", "MESH", "COMP"} : Len(Find(chunks, tag)) = 1
        /\ Len(boxes) = 1 /\ Len(Leaves(boxes[1], "AABB")) = 1
        /\ Len(heads) = 1 /\ Len(leaves) = 1
        /\ \A i \in DOMAIN streams : StreamAccepted(streams[i])
        /\ StreamsHold(position, index)
     THEN [entry |-> e, wrb |-> only("WRB"), head |-> heads[1], outer |-> Leaves(boxes[1], "AABB")[1],
           inner |-> leaves[1], comp |-> only("COMP"), position |-> position[1], index |-> index[1]]
     ELSE Refused

\* A readable model with one WRB entry; its streams are those of its one MESH.
Profile(file) ==
  LET direct == {e \in DOMAIN file.directory : IsWrb(file, e)}
      Of(e, chunks) == ProfileOf(file, e, chunks, Streams(file.cells, Find(chunks, "MESH")[1]))
      Only(e) == Of(e, WrbChunks(file, e))
  IN IF ParseModel(file) = Refused \/ Cardinality(direct) # 1 THEN Refused
     ELSE Only(CHOOSE d \in direct : TRUE)

----------------------------------------------------------------------------
(* The rewriting. *)

\* finish_chunk: keep the allocation if the data fits it, else pad as much as before.
FinishChunk(cells, output, old) ==
  LET size == Len(output)
      padding == SubSeq(cells, old.at + old.size, old.at + old.padded - 1)
      suffix == SubSeq(cells, old.at + size, old.at + old.padded - 1)
      grown == Max({RoundUp(size), size + Len(padding)})
      fill == [i \in 1 .. (grown - size) |-> IF i <= Len(padding) THEN padding[i] ELSE [zero |-> 0]]
  IN IF size <= old.size
     THEN [output EXCEPT ![1].size = size, ![1].padded = old.padded] \o suffix
     ELSE [output EXCEPT ![1].size = size, ![1].padded = grown] \o fill

\* rewrite_chunk: put[at] are the cells of the chunks that are replaced.
RECURSIVE RewriteChunk(_, _, _)
RewriteChunk(cells, chunk, put) ==
  LET inside == \E at \in DOMAIN put : chunk.at <= at /\ at < chunk.at + chunk.size
      From(i) == IF i = 1 THEN chunk.at + 1 ELSE chunk.children[i - 1].at + chunk.children[i - 1].padded
      part(i) == SubSeq(cells, From(i), chunk.children[i].at - 1) \o RewriteChunk(cells, chunk.children[i], put)
      parts == FlattenSeq([i \in DOMAIN chunk.children |-> part(i)])
      tail == SubSeq(cells, From(Len(chunk.children) + 1), chunk.at + chunk.size - 1)
  IN IF chunk.at \in DOMAIN put THEN put[chunk.at]
     ELSE IF ~inside THEN SubSeq(cells, chunk.at, chunk.at + chunk.padded - 1)
     ELSE FinishChunk(cells, <<cells[chunk.at]>> \o parts \o tail, chunk)

\* replace_head, replace_bounds: the first record after the header.
Recorded(cells, chunk, record) ==
  [SubSeq(cells, chunk.at, chunk.at + chunk.padded - 1) EXCEPT ![2] = record]

\* build_position_data, build_index_data.
PositionData(stream, geometry) ==
  LET hasNormal == \E i \in DOMAIN stream.fields : stream.fields[i].usage = "normal"
      old(i) == stream.items[Min({i, Len(stream.items)})]
  IN [i \in DOMAIN geometry.vertices |->
        [old(i) EXCEPT !.position = Quantize(geometry.vertices[i], geometry.box),
                       !.normal = IF hasNormal /\ geometry.normals[i] # 0
                                  THEN geometry.normals[i] ELSE @]]
IndexData(geometry) == [k \in DOMAIN geometry.indices |-> [index |-> geometry.indices[k]]]

\* replace_stream_data.
Restreamed(cells, stream, data) ==
  LET header == SubSeq(cells, stream.chunk.at, stream.first - 1)
  IN FinishChunk(cells, [header EXCEPT ![2].items = Len(data)] \o data, stream.chunk)

\* Faulty variant: the entries that follow stay where they were.
NotMoved(at, end, delta) == at

\* map_after: where what starts at or after the end of the entry goes.
MapAfter(at, end, delta) == IF at >= end THEN at + delta ELSE at

\* replace_wrb_resource: the entry's new cells, and the entries after it moved.
Relocate(file, profile, wrb) ==
  LET entry == file.directory[profile.entry]
      end == entry.at + entry.size
      cells == SubSeq(file.cells, entry.at, profile.wrb.at - 1) \o wrb
               \o SubSeq(file.cells, profile.wrb.at + profile.wrb.padded, end - 1)
      delta == Len(cells) - entry.size
      moved(d) == IF d = profile.entry THEN [file.directory[d] EXCEPT !.size = Len(cells)]
                  ELSE [file.directory[d] EXCEPT !.at = MapAfter(@, end, delta)]
  IN [total |-> file.total + delta,
      directory |-> [d \in DOMAIN file.directory |-> moved(d)],
      cells |-> SubSeq(file.cells, 1, entry.at - 1) \o [cells EXCEPT ![1].size = Len(cells)]
                \o SubSeq(file.cells, end, Len(file.cells))]

\* rewrite: the profile's chunks with the geometry in them.
Rewrite(file, geometry, profile) ==
  LET cells == file.cells
      put == (profile.head.at :> Recorded(cells, profile.head,
                 [cells[profile.head.at + 1] EXCEPT !.vertices = Len(geometry.vertices),
                                                    !.triangles = Len(geometry.indices) \div 3]))
             @@ (profile.outer.at :> Recorded(cells, profile.outer, geometry.box))
             @@ (profile.inner.at :> Recorded(cells, profile.inner, geometry.box))
             @@ (profile.comp.at :> Recorded(cells, profile.comp, geometry.box))
             @@ (profile.position.chunk.at :>
                   Restreamed(cells, profile.position, PositionData(profile.position, geometry)))
             @@ (profile.index.chunk.at :> Restreamed(cells, profile.index, IndexData(geometry)))
  IN Relocate(file, profile, RewriteChunk(cells, profile.wrb, put))

\* The output is read again: one part, with as many vertices and indices.
Reread(model, geometry) ==
  /\ model # Refused /\ Len(model) = 1
  /\ Len(model[1].vertices) = Len(geometry.vertices)
  /\ Len(model[1].indices) = Len(geometry.indices)

\* preflight_output_budget: room for the largest model, whatever is imported.
WithinBudget(file) == Len(file.cells) + MaxVertices + 3 * MaxTriangles <= MaxCells

\* import_obj_to_model.
ImportModel(file, text) ==
  LET Check(geometry, output) ==
        IF /\ Len(geometry.vertices) <= MaxVertices
           /\ Len(geometry.indices) \div 3 <= MaxTriangles
           /\ WithinBudget(file)
           /\ Len(output.cells) <= MaxCells
           /\ Len(output.cells) >= file.total
           /\ Reread(ParseModel(output), geometry)
        THEN output ELSE Refused
      Import(geometry, profile) ==
        IF geometry = Refused \/ profile = Refused THEN Refused
        ELSE Check(geometry, Rewrite(file, geometry, profile))
  IN Import(ParseObj(text), Profile(file))

----------------------------------------------------------------------------
(* edit_model_part_positions: one part scaled around the centre of its box. *)

RECURSIVE MeshChunks(_)
MeshChunks(chunks) ==
  FlattenSeq([i \in DOMAIN chunks |->
    IF chunks[i].tag = "MESH" THEN <<chunks[i]>> ELSE MeshChunks(chunks[i].children)])

\* The position streams of all parts, in the order the parts are numbered in.
PartStreams(file) ==
  LET wrb == SelectSeq([e \in DOMAIN file.directory |-> e], LAMBDA e : IsWrb(file, e))
      meshes == FlattenSeq([i \in DOMAIN wrb |-> MeshChunks(WrbChunks(file, wrb[i]))])
      of(mesh) == SelectSeq(Streams(file.cells, mesh), LAMBDA s : ~IsIndex(s) /\ Positions(s) # {})[1]
  IN Each(meshes, of)

\* The factor is n / d, above 0 and at most 1.
ScalePart(file, part, n, d) ==
  LET Scale(stream) ==
        LET own == stream.first .. (stream.first + Len(stream.items) - 1)
        IN [file EXCEPT !.cells = [i \in DOMAIN @ |->
              IF i \in own THEN [@[i] EXCEPT !.position = [a \in Axes |-> Round(@[a] * n, d)]]
              ELSE @[i]]]
      Pick(streams) == IF part \notin DOMAIN streams THEN Refused ELSE Scale(streams[part])
  IN IF ParseModel(file) = Refused \/ ~(0 < n /\ n <= d) THEN Refused ELSE Pick(PartStreams(file))
=============================================================================
