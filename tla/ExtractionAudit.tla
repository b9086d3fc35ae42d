---------------------------- MODULE ExtractionAudit ----------------------------
(***************************************************************************)
(* What verify-extraction checks of an extraction (verify_extract.rs): the *)
(* files against the manifest, the manifest against the report in it, and, *)
(* with the source, both against what an extraction of it gives.           *)
(*                                                                         *)
(* An output is the files under it, the directories, the extraction        *)
(* manifests by directory ("" is the output itself) and the batch manifest *)
(* or Absent.  A check that fails ends the command: the verdict is Refused.*)
(* What the embedded JSON schemas say of a field's type holds here of      *)
(* every manifest, so that they never refuse one.                          *)
(***************************************************************************)
EXTENDS ResourceExport

-----------------------------------------------------------------------------
(* A texture's report against the length of its input *)

GeometryHeader(report, length) ==
  LET g == report.texture IN
  /\ report.length = length
  /\ g.base >= Fixed /\ g.base <= length
  /\ g.flags = 0 /\ g.depth = 1
  /\ g.width > 0 /\ g.height > 0 /\ g.mips > 0 /\ g.mips <= MaxMips(g.width, g.height)

GeometryTable(g) ==
  /\ g.table >= Fixed /\ g.table <= g.base
  /\ Len(g.surfaces) = g.mips
  /\ g.format \in DOMAIN Formats
  /\ g.table + EntrySize * g.mips <= g.base

\* One table entry: its own fields, and a surface after the one before it.
GeometrySurface(g, i, length) ==
  LET s == g.surfaces[i] IN
  /\ s.field = g.table + EntrySize * (i - 1)
  /\ s.face = 0 /\ s.level = i - 1
  /\ s.span = Span(g.base + s.relative, SurfaceSize(g.format, Mip(g.width, i - 1), Mip(g.height, i - 1)))
  /\ s.span.offset >= (IF i = 1 THEN g.base ELSE End(g.surfaces[i - 1].span))
  /\ End(s.span) <= length

GeometryHolds(report, length) ==
  /\ GeometryHeader(report, length)
  /\ GeometryTable(report.texture)
  /\ \A i \in DOMAIN report.texture.surfaces : GeometrySurface(report.texture, i, length)

\* A GTEX report and where its input sits in the source: base is Absent at
\* the start of a GTEX file, a position for a texture inside a font.
GtexSource(report, length, base) == [report |-> report, length |-> length, base |-> base]

\* Faulty variant: the texture's place inside the font is forgotten.
AsIs(gtex, span) == span

Absolute(gtex, span) == IF gtex.base = Absent THEN span ELSE Moved(span, gtex.base)

\* One mip's record: its place in the DDS, in the source and, in a font, in
\* the texture, and the digest all three share.
DdsMip(m, i, image, bytes, gtex, size) ==
  LET s == gtex.report.texture.surfaces[i].span IN
  /\ <<m.level, m.width, m.height>> = <<i - 1, image.mips[i].width, image.mips[i].height>>
  /\ m.dds = image.mips[i].span /\ s.length = m.dds.length
  /\ m.source = Absolute(gtex, s)
  /\ m.relative = (IF gtex.base = Absent THEN Absent ELSE s.offset)
  /\ End(m.source) <= size
  /\ m.sha = Sha(bytes, m.dds)
  /\ m.sha = gtex.report.surfaces[i]

\* verify_dds_texture
DdsTexture(record, bytes, gtex, size) ==
  LET g == gtex.report.texture
      Holds(image) ==
        /\ image # Refused
        /\ GeometryHolds(gtex.report, gtex.length)
        /\ <<image.width, image.height, Len(image.mips)>> = <<g.width, g.height, g.mips>>
        /\ <<record.width, record.height, Len(record.mips)>> = <<g.width, g.height, g.mips>>
        /\ record.format = g.format /\ image.format = g.format
        /\ \A i \in DOMAIN image.mips : DdsMip(record.mips[i], i, image, bytes, gtex, size)
  IN Holds(ParseDds(bytes))

\* verify_png_bytes: the program's own encoding of the pixels, of the top mip.
PngBytes(record, bytes) ==
  LET Holds(image) ==
        /\ image # Refused
        /\ EncodePng(image.width, image.height, image.rgba) = bytes
        /\ record.rgba = image.rgba
        /\ <<record.width, record.height, record.level>> = <<image.width, image.height, 0>>
  IN Holds(DecodePng(bytes))

\* verify_png_texture: the pixels are not derived again, only where they come from.
PngTexture(record, gtex, size) ==
  LET g == gtex.report.texture IN
  /\ GeometryHolds(gtex.report, gtex.length)
  /\ <<record.width, record.height>> = <<g.width, g.height>>
  /\ record.format = g.format
  /\ record.source.offset < size /\ End(record.source) <= size
  /\ record.source = Absolute(gtex, g.surfaces[1].span)
  /\ record.sha = gtex.report.surfaces[1]

\* verify_dds_payload and verify_png_payload: only under a texture report.
Standalone(document) == document.format = "gtex" /\ document.parsed.format = "gtex" /\ document.parsed.supported

\* fdt_texture_source: the report the link of an artifact leads to, or Refused.
FdtSource(p, document) ==
  LET t == document.parsed.textures[p.texture.texture + 1]
      chunk == document.parsed.chunks[p.texture.chunk]
  IN IF \/ p.texture.texture + 1 \notin DOMAIN document.parsed.textures
        \/ p.texture.chunk \notin DOMAIN document.parsed.chunks
        \/ t.chunk # p.texture.chunk \/ t.tag # "GTEX" \/ chunk.tag # "GTEX"
        \/ ~t.gtex.parsed \/ t.gtex.offset # chunk.payload.offset
        \/ ~t.gtex.report.supported
     THEN Refused
     ELSE GtexSource(t.gtex.report, chunk.payload.length, chunk.payload.offset)

\* verify_fdt_glyph_payload: the records in order, as many as reported, their
\* bytes those of the glyph chunk.
GlyphsHold(bytes, document) ==
  LET m == At(bytes, 0).metadata
      font == document.parsed
      chunk == SelectSeq(font.chunks, LAMBDA c : c.tag = "GLYP")[1]
      keyed == {r \in DOMAIN m.records : m.records[r].keys # {}}
  IN /\ Is(bytes, "glyphs")
     /\ \A r \in DOMAIN m.records : m.records[r].span.offset = chunk.payload.offset + GlyphSize * (r - 1)
     /\ Len(m.records) = font.records /\ Cardinality(keyed) = font.referenced
     /\ Total([r \in DOMAIN m.records |-> Cardinality(m.records[r].keys)]) = font.mappedKeys
     /\ m.version = font.version /\ Len(m.textures) = Len(font.textures)
     /\ m.bytes = chunk.sha

-----------------------------------------------------------------------------
(* A selected PWIB *)

\* verify_pwib_selection: every span where the one around it allows it.
Within(span, segment) == span.offset >= segment.offset /\ End(span) <= End(segment)

SegmentsHold(parsed, size) ==
  /\ parsed.length = size
  /\ parsed.segments.second.offset = End(parsed.segments.first) /\ End(parsed.segments.second) <= size
  /\ parsed.segments.subtype = "RES "
  /\ \A x \in {parsed.selection.txb.span, parsed.selection.descriptor.span} :
       Within(x, parsed.segments.first)

\* The metadata blocks have no visible index; every other entry has its own.
DirectoryHolds(s, first) ==
  /\ s.visible = Len(s.entries) - s.metadata
  /\ s.metadata = Len(Blocks(s.entries, "RESOURCE_TYPE")) + Len(Blocks(s.entries, "RESOURCE_ID"))
  /\ \A i \in DOMAIN s.entries :
       /\ Within(s.entries[i].span, first)
       /\ s.entries[i].visible = (IF s.entries[i].name \in Metadata THEN Absent ELSE i - 1)

SelectedHolds(s, index) ==
  /\ index + 1 \in DOMAIN s.entries /\ s.selected = s.entries[index + 1]
  /\ s.selected.visible = index /\ index < s.visible
  /\ s.types = Blocks(s.entries, "RESOURCE_TYPE")[1]
  /\ s.txb = [span |-> s.selected.span, sha |-> s.selected.sha]

\* The descriptor inside its block, and the one surface it describes.
DescriptorHolds(s, second) ==
  LET g == s.texture IN
  /\ Within(s.descriptor.span, s.txb.span)
  /\ OneDxt1Mip(g) /\ Len(g.surfaces) = 1 /\ g.base = 0
  /\ g.table >= Fixed /\ g.table + EntrySize <= s.descriptor.span.length
  /\ g.surfaces[1].relative = s.surface.relative
  /\ s.surface.span.length = SurfaceSize(24, g.width, g.height)
  /\ s.surface.relative + s.surface.span.length <= second.length
  /\ second.offset + s.surface.relative = s.surface.span.offset

SelectionHolds(document) ==
  LET parsed == document.parsed
      s == parsed.selection
  IN /\ document.format = "pwib" /\ parsed.format = "pwib"
     /\ s # Absent /\ s.index = document.source.entry
     /\ SegmentsHold(parsed, document.source.size)
     /\ DirectoryHolds(s, parsed.segments.first)
     /\ Within(s.surface.span, parsed.segments.second)
     /\ SelectedHolds(s, document.source.entry)
     /\ DescriptorHolds(s, parsed.segments.second)

\* verify_pwib_dds_payload
PwibDdsHolds(p, bytes, document) ==
  LET s == document.parsed.selection
      m == p.dds.mips[1]
      Holds(image) ==
        /\ image # Refused
        /\ image.format = 24 /\ <<image.width, image.height>> = <<s.texture.width, s.texture.height>>
        /\ Len(image.mips) = 1 /\ bytes.length = DdsHeader + s.surface.span.length
        /\ <<p.dds.format, p.dds.width, p.dds.height, Len(p.dds.mips)>> = <<24, image.width, image.height, 1>>
        /\ <<m.level, m.width, m.height, m.relative>> = <<0, image.width, image.height, s.surface.relative>>
        /\ m.sha = s.surface.sha /\ m.sha = Sha(bytes, Span(DdsHeader, bytes.length - DdsHeader))
        /\ m.dds = Span(DdsHeader, s.surface.span.length)
        /\ m.source = s.surface.span /\ End(m.source) <= document.source.size
  IN Holds(ParseDds(bytes))

\* verify_pwib_png_payload
PwibPngHolds(p, bytes, document) ==
  LET s == document.parsed.selection IN
  /\ PngBytes(p.png, bytes)
  /\ <<p.png.format, p.png.width, p.png.height>> = <<24, s.texture.width, s.texture.height>>
  /\ p.png.sha = s.surface.sha
  /\ p.png.source = s.surface.span /\ End(p.png.source) <= document.source.size

-----------------------------------------------------------------------------
(* One payload against the manifest *)

DdsRoles == {"gtex-dds-texture", "pwib-gtex-dds-texture", "fdt-gtex-dds-texture"}
PngRoles == {"gtex-top-mip-png-preview", "pwib-gtex-png-preview", "fdt-gtex-png-preview"}
PwibRoles == {"pwib-gtex-dds-texture", "pwib-gtex-png-preview", "pwib-gtex-encoded-surface"}
FdtLinked == {"fdt-gtex-dds-texture", "fdt-gtex-png-preview"}
FdtRoles == FdtLinked \cup {"fdt-glyph-metadata", "fdt-gtex-payload"}

\* A role, a converted texture's record and a path come together or not at all.
Together(isRole, hasRecord, atPath, exact) == (isRole \/ hasRecord \/ atPath) => (isRole /\ hasRecord /\ exact)

Contract(p, document) ==
  LET linked == p.role \in FdtLinked
      dds == IF linked THEN Path("texture-t", p.texture.texture, Span(0, 0), Empty) ELSE Plain("texture.dds")
      png == IF linked THEN Path("preview-t", p.texture.texture, Span(0, 0), Empty) ELSE Plain("preview.png")
  IN /\ p.role = "fdt-glyph-metadata" <=> p.path = Plain("glyphs.json")
     /\ p.role \in FdtRoles => document.format = "fdt"
     /\ linked <=> p.texture # Absent
     /\ Together(p.role \in DdsRoles, p.dds # Absent, p.path \in {dds, Plain("texture.dds")}, p.path = dds)
     /\ Together(p.role \in PngRoles, p.png # Absent, p.path \in {png, Plain("preview.png")}, p.path = png)

Roles(document) == {p.role : p \in Range(document.payloads)}
Count(document, roles) == Len(SelectSeq(document.payloads, LAMBDA p : p.role \in roles))

\* Counts and the rule that a selection, its artifacts and its index are a PWIB's.
Contracts(document) ==
  LET selected == \/ "selection" \in DOMAIN document.parsed /\ document.parsed.selection # Absent
                  \/ Roles(document) \cap PwibRoles # {}
                  \/ document.source.entry # Absent
  IN /\ selected => document.format = "pwib" /\ document.source.entry # Absent /\ SelectionHolds(document)
     /\ \A i \in DOMAIN document.payloads : Contract(document.payloads[i], document)
     /\ document.format = "fdt" => Count(document, {"fdt-glyph-metadata"}) = 1
     /\ Count(document, DdsRoles \ FdtLinked) <= 1
     /\ Count(document, PngRoles \ FdtLinked) <= 1

\* What a file's own bytes have to be, by its role.
FileHolds(p, bytes, document) ==
  LET size == document.source.size
      standalone == GtexSource(document.parsed, size, Absent)
      embedded == FdtSource(p, document)
  IN /\ bytes.length = p.size /\ bytes = p.sha
     /\ CASE p.role = "gtex-dds-texture" ->
               Standalone(document) /\ DdsTexture(p.dds, bytes, standalone, size)
         [] p.role = "gtex-top-mip-png-preview" ->
               Standalone(document) /\ PngTexture(p.png, standalone, size) /\ PngBytes(p.png, bytes)
         [] p.role = "pwib-gtex-dds-texture" -> PwibDdsHolds(p, bytes, document)
         [] p.role = "pwib-gtex-png-preview" -> PwibPngHolds(p, bytes, document)
         [] p.role = "fdt-glyph-metadata" -> GlyphsHold(bytes, document)
         [] p.role = "fdt-gtex-dds-texture" ->
               embedded # Refused /\ DdsTexture(p.dds, bytes, embedded, size)
         [] p.role = "fdt-gtex-png-preview" ->
               embedded # Refused /\ PngTexture(p.png, embedded, size) /\ PngBytes(p.png, bytes)
         [] OTHER -> TRUE

-----------------------------------------------------------------------------
(* A slice of the source against the report: the entry it stands for *)

EntryOf(p, kind) == p.span # Absent /\ p.entry # Absent /\ p.entry.kind = kind

FdtEntry(p, document) ==
  LET t == p.entry.texture + 1
      chunk == document.parsed.chunks[p.entry.chunk]
  IN /\ EntryOf(p, "fdt-gtex-payload")
     /\ t \in DOMAIN document.parsed.textures /\ p.entry.chunk \in DOMAIN document.parsed.chunks
     /\ document.parsed.textures[t].chunk = p.entry.chunk /\ chunk.tag = "GTEX"
     /\ chunk.payload = p.span /\ p.size = p.span.length /\ p.sha = chunk.sha

PwibEntry(p, document) ==
  LET surface == document.parsed.selection.surface IN
  /\ EntryOf(p, "pwib-gtex-encoded-surface") /\ p.span = surface.span /\ p.size = p.span.length
  /\ p.sha = surface.sha
  /\ p.entry.visible = document.parsed.selection.index /\ p.entry.relative = surface.relative

\* The bytes of a surface are not compared with the report's digest of it.
GtexEntry(p, document) ==
  LET surfaces == document.parsed.texture.surfaces IN
  /\ EntryOf(p, "gtex-encoded-surface") /\ p.size = p.span.length
  /\ "texture" \in DOMAIN document.parsed /\ p.entry.at \in DOMAIN surfaces
  /\ p.entry.face = surfaces[p.entry.at].face /\ p.entry.level = surfaces[p.entry.at].level
  /\ p.span = surfaces[p.entry.at].span /\ p.entry.format = document.parsed.texture.format

ContainerEntry(p, document) ==
  LET root == document.parsed.root
      entry == root.entries[p.entry.at]
  IN /\ "root" \in DOMAIN document.parsed /\ p.size = p.span.length
     /\ p.container = [Identity(root) EXCEPT !.format = document.parsed.format]
     /\ p.entry.at \in DOMAIN root.entries /\ EntryOf(p, entry.body) /\ p.span = entry.span
     /\ p.entry.child = (IF entry.child = Absent THEN Absent ELSE Identity(entry.child))

\* A payload that is no slice belongs to no entry.
Relationship(p, document) ==
  CASE p.role = "fdt-gtex-payload" -> FdtEntry(p, document)
    [] p.role = "pwib-gtex-encoded-surface" -> PwibEntry(p, document)
    [] p.span = Absent -> p.container = Absent /\ p.entry = Absent
    [] p.role = "gtex-encoded-surface" -> GtexEntry(p, document)
    [] OTHER -> p.container # Absent /\ p.entry # Absent /\ ContainerEntry(p, document)

\* The path of the entry, as far as it tells two payloads apart.
EntryKey(p) ==
  <<p.role = "fdt-gtex-payload", IF p.role = "fdt-gtex-payload" THEN p.entry.texture ELSE p.entry.at>>

\* No entry twice, no slice past the source, no byte in two slices.
Slices(document) ==
  LET sliced == SelectSeq(document.payloads, LAMBDA p : p.span # Absent)
      ordered == SortSeq([i \in DOMAIN sliced |-> sliced[i].span],
                         LAMBDA a, b : a.offset < b.offset \/ (a.offset = b.offset /\ a.length < b.length))
  IN /\ IsInjective([i \in DOMAIN sliced |-> EntryKey(sliced[i])])
     /\ \A s \in Range(ordered) : End(s) <= document.source.size
     /\ \A i \in 1..(Len(ordered) - 1) : End(ordered[i]) <= ordered[i + 1].offset
=============================================================================
