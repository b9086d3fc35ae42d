-------------------------------- MODULE Font --------------------------------
(***************************************************************************)
(* Bitmap fonts (fdt.rs): a walk over tagged chunks in the client's order, *)
(* the two tables that lead from a key to a glyph record, and the textures *)
(* inside.  A chunk is a header record of eight bytes and its payload.     *)
(***************************************************************************)
EXTENDS Container

CONSTANTS PageSlots,   \* the high bytes of a key a page table covers: 256
          PageWords    \* the low bytes of a key a page covers: 256

ChunkHeader == 8
GlyphSize == 14
Unmapped == -1         \* UNMAPPED_PAGE and UNMAPPED_RECORD

\* read_chunk at byte a: Refused when the payload runs past the end.
ChunkAt(img, a) ==
  LET h == At(img, a) IN
  IF a + ChunkHeader > img.length \/ h.magic # "chunk" \/ a + ChunkHeader + h.size > img.length
  THEN Refused
  ELSE [tag |-> h.tag, span |-> Span(a, ChunkHeader + h.size), payload |-> Span(a + ChunkHeader, h.size)]

PayloadOf(img, chunk) == Slice(img, chunk.payload.offset, chunk.payload.length)

\* Walker: the offset reached and the chunks taken, or Refused for good.
Take(img, walker, tag) ==
  LET Taken(chunk) ==
        IF chunk = Refused \/ chunk.tag # tag THEN Refused
        ELSE [offset |-> End(chunk.span), chunks |-> Append(walker.chunks, chunk)]
  IN Taken(IF walker = Refused THEN Refused ELSE ChunkAt(img, walker.offset))

\* A chunk of four bytes.
TakeScalar(img, walker, tag) ==
  LET Scalar(next) == IF next = Refused \/ Last(next.chunks).payload.length # 4 THEN Refused ELSE next
  IN Scalar(Take(img, walker, tag))

ValueOf(img, chunk) == At(img, chunk.payload.offset).value

\* peek_tag needs the four bytes of the tag only.
Peek(img, walker) ==
  IF walker.offset + 4 <= img.length /\ At(img, walker.offset).magic = "chunk"
  THEN At(img, walker.offset).tag ELSE "none"

RECURSIVE TakeAll(_, _, _)
TakeAll(img, walker, tag) ==
  IF walker = Refused \/ Peek(img, walker) # tag THEN walker
  ELSE TakeAll(img, Take(img, walker, tag), tag)

\* The chunks after the glyphs, as long as they are whole.
RECURSIVE TakeRest(_, _)
TakeRest(img, walker) ==
  LET chunk == ChunkAt(img, walker.offset) IN
  IF chunk = Refused THEN walker
  ELSE TakeRest(img, [offset |-> End(chunk.span), chunks |-> Append(walker.chunks, chunk)])

\* A gate of the version, or the walker as it was.
TakeFrom(img, walker, version, first, tag) ==
  IF version >= first THEN TakeScalar(img, walker, tag) ELSE walker

Version(img, walker) ==
  IF Peek(img, [offset |-> 0]) = "VERS" /\ walker # Refused THEN ValueOf(img, walker.chunks[1]) ELSE 0

\* decode_record: the two layouts put the source origin in different bytes.
Glyph(record, version) ==
  [resource |-> record.resource, selector |-> record.selector, width |-> record.width,
   height |-> record.height,
   x |-> IF version = 0 THEN record.word8 ELSE record.word10,
   y |-> IF version = 0 THEN record.word10 ELSE record.word12]

Dimensions(payload) ==
  IF payload.length >= 14 /\ Is(payload, "GTEX")
  THEN <<At(payload, 0).width, At(payload, 0).height>> ELSE Absent

\* check_records: how many glyphs disagree with the textures, none an error.
Checks(glyphs, textures, offset) ==
  LET has(i) == i \in 0..(Len(textures) - 1)
      count(P(_)) == Cardinality({i \in DOMAIN glyphs : P(glyphs[i])})
      negative(g) == g.width < 0 \/ g.height < 0
      size(g) == IF has(g.resource) /\ ~negative(g) THEN textures[g.resource + 1].size ELSE Absent
  IN [outside |-> count(LAMBDA g : ~has(g.resource)),
      offsetOutside |-> count(LAMBDA g : ~has(g.resource + offset)),
      selector |-> count(LAMBDA g : g.selector \notin 0..3),
      negative |-> count(negative),
      source |-> count(LAMBDA g : /\ size(g) # Absent
                                  /\ (g.x + g.width > size(g)[1] \/ g.y + g.height > size(g)[2])),
      unchecked |-> count(LAMBDA g : size(g) = Absent)]

\* The chunks up to the glyphs in the client's order, each gate at its version.
WalkChunks(img) ==
  LET start == [offset |-> 0, chunks |-> <<>>]
      Gated(w, v) ==
        LET sized == TakeScalar(img, TakeFrom(img, w, v, 4, "TEXC"), "FSIZ")
            based == TakeScalar(img, TakeFrom(img, sized, v, 3, "FSMX"), "BSLN")
        IN TakeFrom(img, based, v, 2, "HMGN")
      Tables(w) == Take(img, Take(img, Take(img, w, "HTBL"), "LTBL"), "GLYP")
      Versioned(w) == Tables(Gated(TakeAll(img, TakeAll(img, w, "DDSF"), "GTEX"), Version(img, w)))
  IN Versioned(IF Peek(img, start) = "VERS" THEN TakeScalar(img, start, "VERS") ELSE start)

\* The two tables lead from every key to a record there is.
TablesHold(page, word, pageBytes, wordBytes, records) ==
  /\ pageBytes = PageSlots
  /\ wordBytes % (2 * PageWords) = 0
  /\ \A k \in 1..PageSlots : page[k] # Unmapped => page[k] < wordBytes \div (2 * PageWords)
  /\ \A w \in DOMAIN word : word[w] # Unmapped => word[w] < records

\* The word of every mapped key.
KeyWords(page, word) ==
  LET place(kw) == page[kw[1]] * PageWords + kw[2]
      mapped == {k \in 1..PageSlots : page[k] # Unmapped}
  IN [kw \in {p \in mapped \X (1..PageWords) : word[place(p)] # Unmapped} |-> word[place(kw)]]

\* The offset of the texture table: the value of the TEXC chunk, if there is one.
TextureOffset(img, texc) == IF texc = <<>> THEN 0 ELSE ValueOf(img, texc[1])

\* The font of the chunks walked: the page and word tables and the records.
FdtOf(img, chunks, version, rest) ==
  LET n == Len(chunks)
      pages == chunks[n - 2].payload
      words == chunks[n - 1].payload
      glyphs == chunks[n].payload
      records == glyphs.length \div GlyphSize
      page == At(img, pages.offset).pages
      word == At(img, words.offset).words
      Told(table, list, offset, keys) ==
        [chunks |-> rest.chunks, version |-> version, textures |-> list, offset |-> offset,
         glyphChunk |-> n, mappedKeys |-> Cardinality(DOMAIN keys), records |-> records,
         referenced |-> Cardinality(Range(keys)),
         glyphs |-> table, checks |-> Checks(table, list, offset),
         trailing |-> Span(rest.offset, img.length - rest.offset)]
  IN IF glyphs.length % GlyphSize # 0 \/ ~TablesHold(page, word, pages.length, words.length, records)
     THEN Refused
     ELSE Told([i \in 1..records |-> Glyph(At(img, glyphs.offset).glyphs[i], version)],
               SelectSeq([i \in 1..n |-> [chunk |-> i, tag |-> chunks[i].tag,
                                          size |-> Dimensions(PayloadOf(img, chunks[i]))]],
                         LAMBDA t : t.tag \in {"DDSF", "GTEX"}),
               TextureOffset(img, SelectSeq(chunks, LAMBDA c : c.tag = "TEXC")),
               KeyWords(page, word))

ParseFdt(img) ==
  LET Of(walked) == IF walked = Refused THEN Refused
                    ELSE FdtOf(img, walked.chunks, Version(img, walked), TakeRest(img, walked))
  IN Of(WalkChunks(img))

\* FdtFile::gtex_payloads: the place in the texture list and the chunk of each.
GtexChunks(font) ==
  SelectSeq([i \in DOMAIN font.textures |->
               [texture |-> i - 1, chunk |-> font.textures[i].chunk, tag |-> font.textures[i].tag,
                payload |-> font.chunks[font.textures[i].chunk].payload]],
            LAMBDA t : t.tag = "GTEX")

\* parse_gtex_payload: read as a texture by itself, spans from its own start.
FontTexture(img, t) ==
  LET bytes == Slice(img, t.payload.offset, t.payload.length)
  IN [bytes |-> bytes, gtex |-> ParseGtex(bytes)]
=============================================================================
