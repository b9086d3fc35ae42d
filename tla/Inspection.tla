------------------------------ MODULE Inspection ------------------------------
(***************************************************************************)
(* What inspect and validate report of an input (inspect.rs) and how the   *)
(* reader is chosen (scan.rs).  A report names the format it read and      *)
(* carries the spans and the digests the other commands rely on.           *)
(***************************************************************************)
EXTENDS Wrapper

CONSTANTS LuaChunks,      \* the chunks lua51::parse reads
          XmlDocuments    \* the documents xml::parse_document reads

\* InspectAs::NAMES, of the readers modelled here.
Selectors == {"sedb", "scrambled-xml", "sqwt", "lpb", "lpb-bytecode", "fdt", "gtex", "pwib"}

FromArguments(name) == IF name \in Selectors THEN name ELSE Refused

\* scan.rs detect: the first signature that matches.
Detect(img) ==
  CASE Is(img, "GTEX") -> "gtex"
    [] Is(img, "PWIB") -> "pwib"
    [] IsSqwt(img) -> "sqwt"
    [] Is(img, "bytes") /\ DecodeScrambled(img) # Refused -> "scrambled-xml"
    [] IsLpb(img) -> "lpb"
    [] Is(img, "SEDB") -> "sedb"
    [] OTHER -> Absent

Sha(img, span) == Slice(img, span.offset, span.length)

-----------------------------------------------------------------------------
(* Containers *)

ContainerFormat(c) == IF c.res THEN "res" ELSE "sedb"

\* inspect_sedb: what follows the container is reported, never dropped.
InspectSedb(img) ==
  Try(ReadContainer(img), LAMBDA c :
    [format |-> ContainerFormat(c), length |-> img.length, root |-> c,
     trailing |-> IF c.total < img.length
                  THEN Slice(img, c.total, img.length - c.total) ELSE Empty])

\* collect_anomalies: a container's own, then those inside it.
RECURSIVE AnomaliesOf(_)
AnomaliesOf(c) ==
  c.anomalies \o FlattenSeq([i \in DOMAIN c.entries |->
                   IF c.entries[i].child = Absent THEN <<>> ELSE AnomaliesOf(c.entries[i].child)])

-----------------------------------------------------------------------------
(* Textures *)

\* The tagged report of a texture: its fields, and a digest of each surface.
InspectGtex(img) ==
  Try(ParseGtex(img), LAMBDA g :
    [format |-> "gtex", length |-> img.length, texture |-> g,
     surfaces |-> [i \in DOMAIN g.surfaces |-> Sha(img, g.surfaces[i].span)],
     unknown |-> [i \in DOMAIN g.unknown |-> Sha(img, g.unknown[i])],
     supported |-> Materializable(g), data |-> Sha(img, Span(g.base, img.length - g.base))])

TaggedPwib(img, selection) ==
  Try(ParsePwib(img), LAMBDA p :
    [format |-> "pwib", length |-> img.length, segments |-> p,
     digests |-> <<Sha(img, p.first), Sha(img, p.second), Sha(img, p.trailing)>>,
     selection |-> selection])

InspectPwib(img) == TaggedPwib(img, Absent)

\* inspect_selected_pwib: the entry chosen, its descriptor in the first
\* segment and its surface in the second, each with its own span and digest.
InspectSelected(img, index) ==
  LET row(e, i) == [name |-> e.name, span |-> e.span, sha |-> Sha(img, e.span),
                    visible |-> IF e.name \in Metadata THEN Absent ELSE i - 1]
      Tagged(s, rows) ==
        TaggedPwib(img,
          [index |-> index, entries |-> rows, visible |-> s.visible,
           metadata |-> Len(rows) - s.visible, selected |-> rows[index + 1],
           types |-> CHOOSE r \in Range(rows) : r.name = "RESOURCE_TYPE",
           txb |-> [span |-> s.entry.span, sha |-> Sha(img, s.entry.span)], direct |-> s.direct,
           descriptor |-> [span |-> s.descriptor, sha |-> Sha(img, s.descriptor)], texture |-> s.gtex,
           surface |-> [span |-> s.surface, sha |-> Sha(img, s.surface),
                        relative |-> s.surface.offset - s.pwib.second.offset]])
  IN Try(SelectPwib(img, index), LAMBDA s :
       Tagged(s, [i \in DOMAIN s.entries |-> row(s.entries[i], i)]))

-----------------------------------------------------------------------------
(* Fonts *)

\* fdt_texture_gtex: the report of an embedded texture, from its own start,
\* or that it has none; never an error of the font.
FontGtex(img, chunk) ==
  LET Reported(report) ==
        [offset |-> chunk.payload.offset, parsed |-> report # Refused, report |-> report]
  IN IF chunk.tag = "GTEX" THEN Reported(InspectGtex(PayloadOf(img, chunk))) ELSE Absent

InspectFdt(img) ==
  Try(ParseFdt(img), LAMBDA font :
    [format |-> "fdt", length |-> img.length, version |-> font.version,
     chunks |-> [i \in DOMAIN font.chunks |->
                   [tag |-> font.chunks[i].tag, payload |-> font.chunks[i].payload,
                    sha |-> PayloadOf(img, font.chunks[i]), read |-> i <= font.glyphChunk]],
     textures |-> [i \in DOMAIN font.textures |->
                     [chunk |-> font.textures[i].chunk, tag |-> font.textures[i].tag,
                      size |-> font.textures[i].size,
                      gtex |-> FontGtex(img, font.chunks[font.textures[i].chunk])]],
     mappedKeys |-> font.mappedKeys, records |-> font.records, referenced |-> font.referenced,
     checks |-> font.checks, trailing |-> Sha(img, font.trailing)])

\* export_fdt_glyphs: every record with the keys that reach it.
GlyphsOf(img, font) ==
  LET n == font.glyphChunk
      page == At(img, font.chunks[n - 2].payload.offset).pages
      word == At(img, font.chunks[n - 1].payload.offset).words
      keys(r) == {<<k, w>> \in (1..PageSlots) \X (1..PageWords) :
                    page[k] # Unmapped /\ word[page[k] * PageWords + w] = r - 1}
      start == font.chunks[n].payload.offset
      scalars == SelectSeq(SubSeq(font.chunks, 1, n - 3),
                           LAMBDA c : c.tag \in {"TEXC", "FSIZ", "FSMX", "BSLN", "HMGN"})
  IN [version |-> font.version, textures |-> font.textures,
      scalars |-> [i \in DOMAIN scalars |-> <<scalars[i].tag, ValueOf(img, scalars[i])>>],
      pages |-> [k \in {x \in 1..PageSlots : page[x] # Unmapped} |-> page[k]],
      spare |-> (0..(Len(word) \div PageWords - 1)) \ Range(page),
      bytes |-> PayloadOf(img, font.chunks[n]),
      records |-> [r \in 1..font.records |->
                     [span |-> Span(start + GlyphSize * (r - 1), GlyphSize),
                      glyph |-> font.glyphs[r], keys |-> keys(r)]]]

ExportGlyphs(img) == Try(ParseFdt(img), LAMBDA font : GlyphsOf(img, font))

-----------------------------------------------------------------------------
(* Wrapped documents *)

InspectLpb(img) ==
  Try(ExtractLpb(img), LAMBDA f : [format |-> "lpb", length |-> img.length, wrapper |-> f])

\* The bytecode view carries another format's name.
InspectBytecode(img) ==
  Try(ExtractLpb(img), LAMBDA f :
    IF f.decoded \notin LuaChunks THEN Refused
    ELSE [format |-> "client-lua", length |-> img.length, wrapper |-> f])

\* A decoded document that reads as XML.
InspectDocument(img, format, container) ==
  IF container = Refused \/ container.document \notin XmlDocuments THEN Refused
  ELSE [format |-> format, length |-> img.length, container |-> container]

InspectSqwt(img, name) == InspectDocument(img, "sqwt", DecodeSqwt(img, name))

InspectScrambled(img) ==
  InspectDocument(img, "scrambled-xml", IF Is(img, "bytes") THEN DecodeScrambled(img) ELSE Refused)

\* inspect_named_bytes_as
Inspect(img, name, how) ==
  CASE how = "sedb" -> InspectSedb(img)
    [] how = "gtex" -> InspectGtex(img)
    [] how = "pwib" -> InspectPwib(img)
    [] how = "fdt" -> InspectFdt(img)
    [] how = "lpb" -> InspectLpb(img)
    [] how = "lpb-bytecode" -> InspectBytecode(img)
    [] how = "sqwt" -> InspectSqwt(img, name)
    [] how = "scrambled-xml" -> InspectScrambled(img)

-----------------------------------------------------------------------------
(* validate: what was read, written again *)

CanonicalTexture(img, g) ==
  LET end == Fixed + EntrySize * Len(g.surfaces) IN
  /\ g.flags = 0 /\ g.depth = 1 /\ g.table = Fixed
  /\ g.base = CeilDiv(end, 16) * 16
  /\ g.gaps = <<>>
  /\ \A o \in DOMAIN img.heads : ~(end <= o /\ o < g.base)

\* The bytes each check of validate wants to be those of the input; a check
\* that does not apply to it has none.
RoundTrip(img, report) ==
  CASE report.format = "gtex" -> {RebuildGtex(img, report.texture)}
    [] report.format \in {"lpb", "client-lua"} -> {RebuildLpb(img, report.wrapper)}
    [] report.format = "scrambled-xml" -> {EncodeScrambled(report.container.document)}
    [] OTHER -> {}

CanonicalBuild(img, report) ==
  CASE report.format = "gtex" /\ CanonicalTexture(img, report.texture) ->
         {BuildGtex(report.texture.format, report.texture.width, report.texture.height, report.surfaces)}
    [] report.format \in {"lpb", "client-lua"} /\ (report.wrapper.raw
         \/ report.wrapper.size = SizeWord(Len(report.wrapper.decoded))) -> {EncodeLpb(report.wrapper)}
    [] OTHER -> {}

\* The checks that fail; the parse is one of them.
ChecksOf(img, report) ==
  IF report = Refused THEN {"parse"}
  ELSE (IF RoundTrip(img, report) \subseteq {img} THEN {} ELSE {"round-trip"})
       \cup (IF CanonicalBuild(img, report) \subseteq {img} THEN {} ELSE {"canonical-build"})

Validate(img, name, how) == ChecksOf(img, Inspect(img, name, how))
=============================================================================
