---------------------------- MODULE ResourceExport ----------------------------
(***************************************************************************)
(* What extract-resource writes (resource_export.rs): the report of the    *)
(* input, one artifact per payload the options ask for, and a manifest     *)
(* that ties each artifact to the report.                                  *)
(***************************************************************************)
EXTENDS Inspection

\* A payload path: its fixed part, and the numbers and the digest in the rest.
Path(name, n, span, sha) == [name |-> name, n |-> n, span |-> span, sha |-> sha]
Plain(name) == Path(name, 0, Span(0, 0), Empty)

Manifest(path, role, bytes) ==
  [path |-> path, role |-> role, sha |-> bytes, size |-> bytes.length, span |-> Absent,
   container |-> Absent, entry |-> Absent, dds |-> Absent, png |-> Absent, texture |-> Absent]

Artifact(manifest, bytes) == [manifest |-> manifest, bytes |-> bytes]

\* A slice of the source, under a path that names its place and its digest.
Sliced(img, name, n, role, span, entry, container) ==
  LET bytes == Sha(img, span)
  IN Artifact([Manifest(Path(name, n, span, bytes), role, bytes)
                 EXCEPT !.span = span, !.entry = entry, !.container = container], bytes)

\* A document the reader decodes out of its wrapper.
Decoded(name, role, document) == Artifact(Manifest(Plain(name), role, Bytes(document)), Bytes(document))

Identity(c) == [format |-> ContainerFormat(c), span |-> c.span, subtype |-> c.subtype]

\* The entries of the outermost container, its directory left out.
PayloadsOf(img, c) ==
  LET relation(i) == [kind |-> c.entries[i].body, at |-> i,
                      child |-> IF c.entries[i].child = Absent THEN Absent
                                ELSE Identity(c.entries[i].child)]
      payload(i) == Sliced(img, "entry", i, c.entries[i].body, c.entries[i].span, relation(i), Identity(c))
      payloads == SelectSeq([i \in DOMAIN c.entries |-> i], LAMBDA i : c.entries[i].body # "directory")
  IN IF Exact(c) THEN [k \in DOMAIN payloads |-> payload(payloads[k])] ELSE Refused

ContainerPayloads(img) == Try(ReadContainer(img), LAMBDA c : PayloadsOf(img, c))

GtexSurfaces(img) ==
  LET entry(g, i) == [kind |-> "gtex-encoded-surface", at |-> i, face |-> g.surfaces[i].face,
                      level |-> g.surfaces[i].level, format |-> g.format]
  IN Try(ParseGtex(img), LAMBDA g :
       IF ~Materializable(g) THEN Refused
       ELSE [i \in DOMAIN g.surfaces |->
               Sliced(img, "surface", i, "gtex-encoded-surface", g.surfaces[i].span, entry(g, i), Absent)])

PwibSurface(img, index) ==
  LET entry(s) == [kind |-> "pwib-gtex-encoded-surface", at |-> 0, visible |-> index,
                   relative |-> s.surface.offset - s.pwib.second.offset]
  IN Try(SelectPwib(img, index), LAMBDA s :
       <<Sliced(img, "pwib-surface", index, "pwib-gtex-encoded-surface", s.surface, entry(s), Absent)>>)

\* A converted texture with where its mips come from, moved to the source's
\* positions; relative where the surfaces lie in a view of the source.
DdsRecord(export, base, viewed) ==
  [format |-> export.format, width |-> export.width, height |-> export.height,
   mips |-> [i \in DOMAIN export.mips |->
               LET m == export.mips[i] IN
               [level |-> m.level, width |-> m.width, height |-> m.height, dds |-> m.dds, sha |-> m.sha,
                source |-> Moved(m.source, base),
                relative |-> IF viewed THEN m.source.offset ELSE Absent]]]

PngRecord(preview, base) ==
  [format |-> preview.format, width |-> preview.width, height |-> preview.height, rgba |-> preview.rgba,
   level |-> preview.level, source |-> Moved(preview.source, base), sha |-> preview.sha]

\* One texture, from the view its surfaces lie in.
DdsArtifact(view, g, path, role, base, viewed, link) ==
  Try(ExportDds(view, g), LAMBDA export :
    Artifact([Manifest(path, role, export.bytes)
                EXCEPT !.dds = DdsRecord(export, base, viewed), !.texture = link], export.bytes))

PngArtifact(view, g, path, role, base, link) ==
  Try(ExportPng(view, g), LAMBDA preview :
    Artifact([Manifest(path, role, preview.bytes)
                EXCEPT !.png = PngRecord(preview, base), !.texture = link], preview.bytes))

\* Artifacts none of which may be refused.
AllOf(artifacts) ==
  IF \E i \in DOMAIN artifacts : artifacts[i] = Refused THEN Refused ELSE artifacts

GtexDds(img) ==
  Try(ParseGtex(img), LAMBDA g :
    AllOf(<<DdsArtifact(img, g, Plain("texture.dds"), "gtex-dds-texture", 0, FALSE, Absent)>>))

GtexPng(img) ==
  Try(ParseGtex(img), LAMBDA g :
    AllOf(<<PngArtifact(img, g, Plain("preview.png"), "gtex-top-mip-png-preview", 0, Absent)>>))

PwibDds(img, index) ==
  Try(SelectPwib(img, index), LAMBDA s :
    AllOf(<<DdsArtifact(SurfaceSource(img, s), s.gtex, Plain("texture.dds"), "pwib-gtex-dds-texture",
                        s.pwib.second.offset, TRUE, Absent)>>))

PwibPng(img, index) ==
  Try(SelectPwib(img, index), LAMBDA s :
    AllOf(<<PngArtifact(SurfaceSource(img, s), s.gtex, Plain("preview.png"), "pwib-gtex-png-preview",
                        s.pwib.second.offset, Absent)>>))

Link(t) == [chunk |-> t.chunk, texture |-> t.texture]

\* Each embedded texture as it is; the reader need not accept it.
FdtPayloads(img) ==
  LET payload(t) == Sliced(img, "gtex-t", t.texture, "fdt-gtex-payload", t.payload,
                           Link(t) @@ [kind |-> "fdt-gtex-payload"], Absent)
      Each(textures) == [i \in DOMAIN textures |-> payload(textures[i])]
  IN Each(GtexChunks(ParseFdt(img)))

\* fdt_texture_exports: some texture, and every one of them converted.
FdtExports(img, Export(_, _)) ==
  LET Source(source, t) == IF source.gtex = Refused THEN Refused ELSE Export(source, t)
      Each(textures) ==
        IF textures = <<>> THEN Refused
        ELSE AllOf([i \in DOMAIN textures |-> Source(FontTexture(img, textures[i]), textures[i])])
  IN Each(GtexChunks(ParseFdt(img)))

FdtDds(img) ==
  FdtExports(img, LAMBDA source, t :
    DdsArtifact(source.bytes, source.gtex, Path("texture-t", t.texture, Span(0, 0), Empty),
                "fdt-gtex-dds-texture", t.payload.offset, TRUE, Link(t)))

FdtPng(img) ==
  FdtExports(img, LAMBDA source, t :
    PngArtifact(source.bytes, source.gtex, Path("preview-t", t.texture, Span(0, 0), Empty),
                "fdt-gtex-png-preview", t.payload.offset, Link(t)))

GlyphBytes(img) == Cell(1, [magic |-> "glyphs", metadata |-> ExportGlyphs(img)])

GlyphArtifact(bytes) == Artifact(Manifest(Plain("glyphs.json"), "fdt-glyph-metadata", bytes), bytes)

-----------------------------------------------------------------------------
(* The plan *)

Option(materialize, dds, png, entry) ==
  [materialize |-> materialize, dds |-> dds, png |-> png, entry |-> entry]

\* The reader --as names, or the one the signature names.
Chosen(img, how) == IF how = Absent THEN Detect(img) ELSE FromArguments(how)

Report(source, selected, entry) ==
  IF entry = Absent THEN Inspect(source.image, source.name, selected)
  ELSE IF Is(source.image, "PWIB") THEN InspectSelected(source.image, entry) ELSE Refused

\* Written whatever the options are: the content of a wrapper, a font's glyphs.
Always(source, report) ==
  CASE report.format \in {"lpb", "client-lua"} ->
         <<Decoded("decoded.luac", "decoded-lua-5.1-chunk", report.wrapper.decoded)>>
    [] report.format \in {"sqwt", "scrambled-xml"} ->
         <<Decoded("decoded.xml", "decoded-xml-document", report.container.document)>>
    [] report.format = "fdt" -> <<GlyphArtifact(GlyphBytes(source.image))>>
    [] OTHER -> <<>>

Materialized(img, format, entry) ==
  CASE format \in {"sqwt", "scrambled-xml"} -> <<>>
    [] format = "gtex" -> GtexSurfaces(img)
    [] format = "pwib" /\ entry # Absent -> PwibSurface(img, entry)
    [] format \in {"sedb", "res"} -> ContainerPayloads(img)
    [] format = "fdt" -> FdtPayloads(img)
    [] OTHER -> Refused

\* A conversion of the textures, for the formats that have some.
Converted(img, format, entry, Gtex(_), Pwib(_, _), Fdt(_)) ==
  CASE format = "gtex" -> Gtex(img)
    [] format = "fdt" -> Fdt(img)
    [] format = "pwib" /\ entry # Absent -> Pwib(img, entry)
    [] OTHER -> Refused

\* The artifacts each option asks for, those of a refused one Refused.
Planned(source, report, options) ==
  << Always(source, report),
     IF options.materialize
     THEN Materialized(source.image, report.format, options.entry) ELSE <<>>,
     IF options.dds
     THEN Converted(source.image, report.format, options.entry, GtexDds, PwibDds, FdtDds) ELSE <<>>,
     IF options.png
     THEN Converted(source.image, report.format, options.entry, GtexPng, PwibPng, FdtPng) ELSE <<>> >>

\* The manifest document: the report, and what each artifact says of itself.
ResourceManifest(source, entry, report, artifacts) ==
  [format |-> report.format, parsed |-> report,
   anomalies |-> IF report.format \in {"sedb", "res"} THEN AnomaliesOf(report.root) ELSE <<>>,
   payloads |-> [i \in DOMAIN artifacts |-> artifacts[i].manifest],
   source |-> [name |-> source.name, id |-> source.id, sha |-> source.image,
               size |-> source.image.length, entry |-> entry]]

\* A report's plan: nothing is written unless all of it can be.
PlanOf(source, options, report) ==
  LET Told(artifacts) ==
        [artifacts |-> artifacts, document |-> ResourceManifest(source, options.entry, report, artifacts)]
      Joined(parts) ==
        IF \E i \in DOMAIN parts : parts[i] = Refused THEN Refused ELSE Told(FlattenSeq(parts))
  IN IF report = Refused THEN Refused ELSE Joined(Planned(source, report, options))

PlanAs(source, selected, options) ==
  IF selected \in {Absent, Refused} \/ (options.entry # Absent /\ selected # "pwib") THEN Refused
  ELSE PlanOf(source, options, Report(source, selected, options.entry))

\* plan_bytes_options_with_pwib
Plan(source, how, options) == PlanAs(source, Chosen(source.image, how), options)

\* The length of a rendered manifest: it grows with what it lists.
DocumentSize(document) == 8 + 4 * Len(document.payloads)

\* output_bytes
OutputBytes(plan) ==
  Total([i \in DOMAIN plan.artifacts |-> plan.artifacts[i].bytes.length]) + DocumentSize(plan.document)

\* artifact_bytes: the first artifact of that path.
ArtifactBytes(plan, path) ==
  LET same == SelectSeq(plan.artifacts, LAMBDA a : a.manifest.path = path)
  IN IF same = <<>> THEN Absent ELSE same[1].bytes

\* write_to: the files and the directories under one output directory.
Written(plan, directory) ==
  [files |-> [f \in {[dir |-> directory, path |-> a.manifest.path] : a \in Range(plan.artifacts)} |->
                ArtifactBytes(plan, f.path)],
   dirs |-> IF plan.artifacts = <<>> THEN {} ELSE {directory}]
=============================================================================
