------------------------------- MODULE Texture -------------------------------
(***************************************************************************)
(* Textures: the GTEX and PWIB readers (gtex_pwib.rs), the GTEX writer     *)
(* (gtex_write.rs), the DDS writer and reader (dds.rs) and the PNG preview *)
(* of the top mip (texture_preview.rs).                                    *)
(*                                                                         *)
(* A surface is one record with its cells, the blocks or the texels it is  *)
(* encoded in; the header and each entry of the surface table are records  *)
(* at the offsets the code reads them from.                                *)
(***************************************************************************)
EXTENDS Images

CONSTANT MaxPreview   \* MAX_PREVIEW_RGBA_BYTES

Fixed == 24           \* GTEX_FIXED_FIELDS_SIZE
EntrySize == 8        \* SURFACE_OFFSET_ENTRY_SIZE
DdsHeader == 128      \* DDS_FILE_HEADER_SIZE

\* The client's format indices: bits of a texel, bytes of a 4x4 block or 0.
Formats == 4 :> [bits |-> 32, block |-> 0] @@ 22 :> [bits |-> 16, block |-> 0]
        @@ 24 :> [bits |-> 4, block |-> 8] @@ 26 :> [bits |-> 8, block |-> 16]

Mip(size, level) == Larger(size \div 2^level, 1)

\* The bit length of the longer side.
MaxMips(w, h) == CHOOSE n \in 0..17 :
                   2^n > Larger(w, h) /\ (n = 0 \/ 2^(n - 1) <= Larger(w, h))

SurfaceSize(f, w, h) ==
  IF Formats[f].block > 0 THEN CeilDiv(w, 4) * CeilDiv(h, 4) * Formats[f].block
                          ELSE (w * h * Formats[f].bits) \div 8

Faces(flags) == IF flags % 2 = 1 THEN 6 ELSE 1
Volume(flags) == flags % 2 = 0 /\ (flags \div 2) % 2 = 1

-----------------------------------------------------------------------------
(* GTEX *)

EntryAt(h, i) == h.table + EntrySize * (i - 1)

\* The surfaces of a table, in table order; level runs fastest.
SurfacesOf(img, h, start) ==
  [i \in 1..(h.mips * Faces(h.flags)) |->
     LET e == At(img, EntryAt(h, i)) IN
     [level |-> (i - 1) % Larger(h.mips, 1), face |-> (i - 1) \div Larger(h.mips, 1),
      field |-> EntryAt(h, i), relative |-> e.offset, span |-> Span(start + e.offset, e.size)]]

\* Inside the source, in order, and of the size the format calls for.
SurfacesFit(h, surfaces, limit) ==
  \A i \in DOMAIN surfaces :
    LET s == surfaces[i] IN
    /\ End(s.span) <= limit
    /\ i > 1 => s.span.offset >= End(surfaces[i - 1].span)
    /\ h.format \in DOMAIN Formats =>
         s.span.length = SurfaceSize(h.format, Mip(h.width, s.level), Mip(h.height, s.level))
                         * (IF Volume(h.flags) THEN Mip(h.depth, s.level) ELSE 1)

\* What lies before, between and after the spans, from byte a to byte z.
GapsOf(spans, a, z) ==
  LET from(i) == IF i = 1 THEN a ELSE End(spans[i - 1])
      to(i) == IF i > Len(spans) THEN z ELSE spans[i].offset
      gap(i) == IF to(i) > from(i) THEN <<Span(from(i), to(i) - from(i))>> ELSE <<>>
  IN FlattenSeq([i \in 1..(Len(spans) + 1) |-> gap(i)])

\* The texture of a header and its surfaces.  source is the length of the view
\* the surfaces lie in, Absent when they follow the header in the same bytes.
GtexOf(img, h, source, start, surfaces) ==
  LET standalone == source = Absent
      headerEnd == IF standalone THEN start ELSE img.length
      tableEnd == h.table + EntrySize * h.mips * Faces(h.flags)
      table == IF h.table = 0 THEN <<>> ELSE <<Span(h.table, tableEnd - h.table)>>
  IN IF \/ img.length < Fixed \/ h.magic # "GTEX"
        \/ standalone /\ (h.base < Fixed \/ h.base > img.length)
        \/ ~standalone /\ h.base # 0
        \/ h.table # 0 /\ (h.table < Fixed \/ tableEnd > headerEnd)
        \/ ~SurfacesFit(h, surfaces, IF standalone THEN img.length ELSE source)
     THEN Refused
     ELSE [format |-> h.format, mips |-> h.mips, flags |-> h.flags, width |-> h.width,
           height |-> h.height, depth |-> h.depth, table |-> h.table, base |-> h.base,
           surfaces |-> surfaces,
           unknown |-> <<Span(4, 2), Span(8, 1)>>
                       \o GapsOf(table, Fixed, IF standalone \/ table # <<>> THEN start ELSE Fixed),
           gaps |-> GapsOf([i \in DOMAIN surfaces |-> surfaces[i].span], start,
                           IF standalone THEN img.length ELSE 0)]

ParseGtexFrom(img, source) ==
  LET From(h, start) ==
        GtexOf(img, h, source, start, IF h.table = 0 THEN <<>> ELSE SurfacesOf(img, h, start))
  IN From(At(img, 0), IF source = Absent THEN At(img, 0).base ELSE 0)

ParseGtex(img) == IF img.length < 4 \/ ~Is(img, "GTEX") THEN Refused ELSE ParseGtexFrom(img, Absent)

\* GtexResource::materialization_refusal
Materializable(g) ==
  /\ g.table # 0 /\ g.format \in DOMAIN Formats /\ g.flags = 0 /\ g.depth = 1
  /\ g.mips > 0 /\ g.width > 0 /\ g.height > 0
  /\ Len(g.surfaces) = g.mips

\* A texture of the canonical layout: table at 24, surfaces from a multiple of 16 on.
BuildGtex(format, w, h, mips) ==
  LET base == CeilDiv(Fixed + EntrySize * Len(mips), 16) * 16
      size(i) == SurfaceSize(format, Mip(w, i - 1), Mip(h, i - 1))
      relative(i) == Total([j \in 1..(i - 1) |-> mips[j].length])
      head == [magic |-> "GTEX", opaque |-> <<1, 1, 2>>, format |-> format, mips |-> Len(mips),
               flags |-> 0, width |-> w, height |-> h, depth |-> 1, table |-> Fixed, base |-> base]
      entries == [x \in {Fixed + EntrySize * (i - 1) : i \in DOMAIN mips} |->
                    LET i == (x - Fixed) \div EntrySize + 1
                    IN [magic |-> "entry", offset |-> relative(i), size |-> mips[i].length]]
  IN IF \/ format \notin DOMAIN Formats \/ w = 0 \/ h = 0
        \/ Len(mips) = 0 \/ Len(mips) > MaxMips(w, h)
        \/ \E i \in DOMAIN mips : mips[i].length # size(i)
     THEN Refused
     ELSE Cat([length |-> base, heads |-> (0 :> head) @@ entries], Join(mips))

\* The parsed fields written back, with the bytes the reader kept no field of
\* copied from their recorded spans.
RebuildGtex(img, g) ==
  LET surfaces == [i \in DOMAIN g.surfaces |-> g.surfaces[i].span]
      kept == Range(g.unknown \o g.gaps \o surfaces)
      copied == {x \in DOMAIN img.heads : \E s \in kept : s.offset <= x /\ x < End(s)}
      head == [magic |-> "GTEX",
               opaque |-> IF {Span(4, 2), Span(8, 1)} \subseteq kept
                          THEN At(img, 0).opaque ELSE <<0, 0, 0>>,
               format |-> g.format, mips |-> g.mips, flags |-> g.flags, width |-> g.width,
               height |-> g.height, depth |-> g.depth, table |-> g.table, base |-> g.base]
      entry(s) == [magic |-> "entry", offset |-> s.relative, size |-> s.span.length]
  IN [length |-> img.length,
      heads |-> (0 :> head)
                @@ [x \in {s.field : s \in Range(g.surfaces)} |->
                      entry(CHOOSE s \in Range(g.surfaces) : s.field = x)]
                @@ [x \in copied |-> img.heads[x]]]

-----------------------------------------------------------------------------
(* PWIB: a RES directory with the descriptors, then the surface bytes *)

ParsePwib(img) ==
  LET h == At(img, 0)
      first == Slice(img, h.first, h.second - h.first)
  IN IF \/ img.length < 16 \/ h.magic # "PWIB"
        \/ h.first < 16 \/ h.first > h.second \/ h.second > h.total \/ h.total > img.length
        \/ h.second - h.first < 20 \/ ~Is(first, "SEDB")
     THEN Refused
     ELSE [first |-> Span(h.first, h.second - h.first), second |-> Span(h.second, h.total - h.second),
           trailing |-> Span(h.total, img.length - h.total), subtype |-> At(first, 0).subtype]

Metadata == {"RESOURCE_TYPE", "RESOURCE_ID"}

\* The directory of the first segment, each entry under its name, or Refused.
DirectoryOf(first, at, h, names) ==
  LET payload == 64 + 16 * h.count
      rows == SubSeq(h.rows, 1, h.count)
      entry(i) == [name |-> names.names[rows[i].index + 1], size |-> rows[i].size, kind |-> rows[i].kind,
                   span |-> Span(at + payload + rows[i].offset, rows[i].size)]
  IN IF \/ first.length < 64 \/ h.subtype # "RES " \/ h.endian # 0
        \/ payload > first.length \/ payload + h.names > first.length
        \/ h.repeat > first.length - payload - h.names
        \/ h.repeat > 0 /\ (names.magic # "names" \/ Len(names.names) < h.repeat)
        \/ \E i \in 1..h.count : \/ rows[i].index >= h.repeat
                                 \/ payload + rows[i].offset + rows[i].size > first.length
     THEN Refused
     ELSE [i \in 1..h.count |-> entry(i)]

PwibDirectory(first, at) ==
  LET h == At(first, 0) IN DirectoryOf(first, at, h, At(first, 64 + 16 * h.count + h.names))

\* The one metadata block of that name, if the directory is long enough for it.
Blocks(entries, name) == SelectSeq(entries, LAMBDA e : e.name = name)

MetadataFits(entries) ==
  /\ Len(Blocks(entries, "RESOURCE_TYPE")) = 1
  /\ Len(Blocks(entries, "RESOURCE_ID")) <= 1
  /\ Blocks(entries, "RESOURCE_TYPE")[1].size >= 4 * Len(entries)
  /\ \A b \in Range(Blocks(entries, "RESOURCE_ID")) : b.size >= 16 * Len(entries)

\* Where the descriptor begins in a txb block: after its header word, or
\* where a pointer says when the word is too large to be one.
DescriptorAt(txb) ==
  LET header == At(txb, 0).header IN IF header <= 48 THEN 48 + header ELSE At(txb, 48).value

OneDxt1Mip(d) == d.format = 24 /\ d.mips = 1 /\ d.flags = 0 /\ d.depth = 1 /\ d.width # 0 /\ d.height # 0

\* The descriptor d at a byte of the chosen entry's block, its one surface in
\* the second segment, or Refused.
Described(txb, at, d, entry, second) ==
  LET length == Larger(d.table + EntrySize * d.mips * Faces(d.flags), Fixed)
      Read(gtex) ==
        IF gtex = Refused THEN Refused
        ELSE [direct |-> At(txb, 0).header <= 48, gtex |-> gtex,
              descriptor |-> Span(entry.span.offset + at, length),
              surface |-> [gtex.surfaces[1].span EXCEPT !.offset = @ + second.offset]]
  IN IF \/ at + Fixed > txb.length \/ d.magic # "GTEX" \/ d.table = 0 \/ at + length > txb.length
        \/ ~OneDxt1Mip(d)
     THEN Refused
     ELSE Read(ParseGtexFrom(Slice(txb, at, length), second.length))

\* The block of the chosen entry: a txb resource that begins with a SEDB header.
BlockAt(txb, entry, second) ==
  LET h == At(txb, 0)
      Located(at) == Described(txb, at, At(txb, at), entry, second)
  IN IF \/ entry.size < 48 \/ h.magic # "SEDB" \/ h.subtype # "txb"
        \/ h.version # 1 \/ h.endian # 0
     THEN Refused ELSE Located(DescriptorAt(txb))

\* The visible index is the physical index of the directory; the metadata
\* blocks only lower its bound.
SelectFrom(img, pwib, entries, index) ==
  LET visible == Cardinality({i \in DOMAIN entries : entries[i].name \notin Metadata})
      types == At(img, Blocks(entries, "RESOURCE_TYPE")[1].span.offset).types
      chosen == entries[index + 1]
      Chosen(read) ==
        IF read = Refused THEN Refused
        ELSE [index |-> index, pwib |-> pwib, entries |-> entries, visible |-> visible,
              entry |-> chosen] @@ read
  IN IF \/ entries = Refused
        \/ ~MetadataFits(entries)
        \/ index >= visible
        \/ chosen.name \in Metadata
        \/ types[index + 1] # "txb"
     THEN Refused
     ELSE Chosen(BlockAt(Slice(img, chosen.span.offset, chosen.size), chosen, pwib.second))

SelectPwib(img, index) ==
  LET In(pwib) ==
        IF pwib = Refused THEN Refused
        ELSE SelectFrom(img, pwib,
                        PwibDirectory(Slice(img, pwib.first.offset, pwib.first.length), pwib.first.offset),
                        index)
  IN In(ParsePwib(img))

\* The view the surfaces of a selection are relative to.
SurfaceSource(img, selection) == Slice(img, selection.pwib.second.offset, selection.pwib.second.length)

-----------------------------------------------------------------------------
(* DDS *)

DdsFlags(format, mips) ==
  {"CAPS", "HEIGHT", "WIDTH", "PIXELFORMAT"}
    \cup (IF Formats[format].block > 0 THEN {"LINEARSIZE"} ELSE {"PITCH"})
    \cup (IF mips > 1 THEN {"MIPMAPCOUNT"} ELSE {})

DdsCaps(mips) == IF mips > 1 THEN {"COMPLEX", "MIPMAP", "TEXTURE"} ELSE {"TEXTURE"}

\* dwPitchOrLinearSize: the bytes of the top mip, or of one of its rows.
DdsLayout(format, w, top) == IF Formats[format].block > 0 THEN top ELSE (w * Formats[format].bits) \div 8

DdsHead(format, w, h, mips, top) ==
  [magic |-> "DDS ", format |-> format, flags |-> DdsFlags(format, mips), caps |-> DdsCaps(mips),
   width |-> w, height |-> h, depth |-> 0, mips |-> mips, layout |-> DdsLayout(format, w, top)]

\* export_gtex and export_gtex_external: source holds the surfaces' spans.
ExportDds(source, g) ==
  LET size(i) == g.surfaces[i].span.length
      at(i) == DdsHeader + Total([j \in 1..(i - 1) |-> size(j)])
      bytes(i) == Slice(source, g.surfaces[i].span.offset, size(i))
      top == g.surfaces[1].span.length
  IN IF \/ ~Materializable(g)
        \/ g.mips > MaxMips(g.width, g.height)
        \/ \E i \in DOMAIN g.surfaces : \/ End(g.surfaces[i].span) > source.length
                                        \/ g.surfaces[i].level # i - 1 \/ g.surfaces[i].face # 0
     THEN Refused
     ELSE [bytes |-> Cat(Cell(DdsHeader, DdsHead(g.format, g.width, g.height, g.mips, top)),
                         Join([i \in DOMAIN g.surfaces |-> bytes(i)])),
           format |-> g.format, width |-> g.width, height |-> g.height,
           mips |-> [i \in DOMAIN g.surfaces |->
                       [level |-> i - 1, width |-> Mip(g.width, i - 1), height |-> Mip(g.height, i - 1),
                        source |-> g.surfaces[i].span, dds |-> Span(at(i), size(i)), sha |-> bytes(i)]]]

\* Only the canonical header, and nothing after the mip chain, is read.
ParseDds(img) ==
  LET h == At(img, 0)
      size(i) == SurfaceSize(h.format, Mip(h.width, i - 1), Mip(h.height, i - 1))
      at(i) == DdsHeader + Total([j \in 1..(i - 1) |-> size(j)])
  IN IF \/ img.length < DdsHeader \/ h.magic # "DDS "
        \/ h.width = 0 \/ h.height = 0 \/ h.depth # 0 \/ h.mips = 0 \/ h.mips > MaxMips(h.width, h.height)
        \/ h.format \notin DOMAIN Formats
        \/ h.layout # DdsLayout(h.format, h.width, size(1))
        \/ h.flags # DdsFlags(h.format, h.mips) \/ h.caps # DdsCaps(h.mips)
        \/ at(h.mips + 1) # img.length
     THEN Refused
     ELSE [format |-> h.format, width |-> h.width, height |-> h.height,
           mips |-> [i \in 1..h.mips |-> [width |-> Mip(h.width, i - 1), height |-> Mip(h.height, i - 1),
                                          span |-> Span(at(i), size(i))]]]

-----------------------------------------------------------------------------
(* The preview of the top mip *)

Rgb565(c) ==
  LET r == (c \div 2048) % 32  g == (c \div 32) % 64  b == c % 32
  IN <<r * 8 + r \div 4, g * 4 + g \div 16, b * 8 + b \div 4>>

\* a and b in proportion m to n, rounded; the code's mix and average.
Blend(a, b, m, n) == [k \in 1..3 |-> (m * a[k] + n * b[k] + (m + n) \div 2) \div (m + n)]
Average(a, b) == [k \in 1..3 |-> (a[k] + b[k]) \div 2]

Palette(cell, fourColours) ==
  LET a == Rgb565(cell.c0)  b == Rgb565(cell.c1) IN
  IF fourColours THEN <<a, b, Blend(a, b, 2, 1), Blend(a, b, 1, 2)>>
                 ELSE <<a, b, Average(a, b), <<0, 0, 0>>>>

AlphaTable(a, b) ==
  <<a, b>> \o (IF a > b THEN [i \in 1..6 |-> ((7 - i) * a + i * b + 3) \div 7]
                        ELSE [i \in 1..4 |-> ((5 - i) * a + i * b + 2) \div 5] \o <<0, 255>>)

Dxt1Texel(cell, k) ==
  LET s == cell.select[k]  four == cell.c0 > cell.c1
  IN Palette(cell, four)[s + 1] \o <<IF ~four /\ s = 3 THEN 0 ELSE 255>>

Dxt5Texel(cell, k) ==
  Palette(cell, TRUE)[cell.select[k] + 1] \o <<AlphaTable(cell.a0, cell.a1)[cell.alphas[k] + 1]>>

\* The texel p of an image w wide: its own cell, or its place in its block.
Texel(format, w, cells, p) ==
  LET x == (p - 1) % w
      y == (p - 1) \div w
      cell == IF Formats[format].block = 0 THEN cells[p]
              ELSE cells[(y \div 4) * CeilDiv(w, 4) + x \div 4 + 1]
      local == (y % 4) * 4 + (x % 4) + 1
  IN CASE format = 4 -> <<cell.r, cell.g, cell.b, cell.a>>
       [] format = 22 -> <<cell.r * 17, cell.g * 17, cell.b * 17, cell.a * 17>>
       [] format = 24 -> Dxt1Texel(cell, local)
       [] format = 26 -> Dxt5Texel(cell, local)

\* decode_surface: the texels in rows, each red, green, blue and alpha; the
\* texels of a block outside the image are dropped.
DecodeSurface(format, w, h, surface) ==
  LET Texels(cells) == [p \in 1..(w * h) |-> Texel(format, w, cells, p)]
  IN IF surface.length # SurfaceSize(format, w, h) \/ ~Is(surface, "surface")
     THEN Refused ELSE Texels(At(surface, 0).cells)

RgbaFits(w, h) == w * h * 4 <= MaxPreview

PngSize(w, h) == 57 + 4 * w * h

\* canonical: as this program's encoder writes the same pixels.
EncodePng(w, h, rgba) ==
  IF RgbaFits(w, h) /\ Len(rgba) = w * h
  THEN Cell(PngSize(w, h), [magic |-> "PNG", width |-> w, height |-> h, rgba |-> rgba, canonical |-> TRUE])
  ELSE Refused

DecodePng(img) ==
  LET h == At(img, 0) IN
  IF h.magic # "PNG" \/ ~RgbaFits(h.width, h.height)
  THEN Refused ELSE [width |-> h.width, height |-> h.height, rgba |-> h.rgba]

ExportPng(source, g) ==
  LET top == g.surfaces[1].span
      Encoded(encoded, rgba) ==
        IF rgba = Refused THEN Refused
        ELSE [bytes |-> EncodePng(g.width, g.height, rgba), rgba |-> rgba, source |-> top, sha |-> encoded,
              format |-> g.format, width |-> g.width, height |-> g.height, level |-> g.surfaces[1].level]
      Decoded(encoded) == Encoded(encoded, DecodeSurface(g.format, g.width, g.height, encoded))
  IN IF \/ ~Materializable(g) \/ g.mips > MaxMips(g.width, g.height)
        \/ End(top) > source.length \/ ~RgbaFits(g.width, g.height)
     THEN Refused
     ELSE Decoded(Slice(source, top.offset, top.length))
=============================================================================
