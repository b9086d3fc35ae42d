------------------------------ MODULE Container ------------------------------
(***************************************************************************)
(* SEDB containers and RES directories (sedb.rs), the extents a reader     *)
(* that follows only some tags selects in them (res_extents.rs), and when  *)
(* their entries may be written out.  Positions are those of the original  *)
(* input: a container inside another is read from base on.                 *)
(***************************************************************************)
EXTENDS Texture

MaxNestingDepth == 8      \* MAX_NESTING_DEPTH
ExtendedHeader == 48      \* RES_EXTENDED_HEADER_OFFSET
ResHeader == 64           \* RES_HEADER_SIZE
RowSize == 16             \* RES_DIRECTORY_ENTRY_SIZE

Anomaly(kind, at, length) == [kind |-> kind, span |-> Span(at, length)]

\* The rows of a RES directory, in slot order, as extents of the container.
\* An extent past the bytes there are is cut at their end.
Extents(img, h, payload) ==
  [s \in 1..h.count |->
     LET row == h.rows[s]
         start == payload + row.offset
     IN [slot |-> s, start |-> start, end |-> Lesser(start + row.size, img.length),
         declared |-> start + row.size, kind |-> row.kind]]

\* What a row says that its bytes do not bear out.
RowAnomalies(x, img, total, base, directory) ==
  CASE x.start > img.length ->
         <<Anomaly("subresource-start-out-of-range", base + directory + RowSize * (x.slot - 1), RowSize)>>
    [] x.start <= img.length /\ x.declared > img.length ->
         <<Anomaly("subresource-extent-clamped", base + x.start, x.end - x.start)>>
    [] x.declared <= img.length /\ x.declared > total ->
         <<Anomaly("subresource-past-container-end", base + x.start, x.end - x.start)>>
    [] OTHER -> <<>>

\* Faulty variant: bytes that two extents claim are counted twice.
TileUncut(state, x) ==
  LET gap == IF x.start > state.cursor
             THEN <<[span |-> Span(state.cursor, x.start - state.cursor), of |-> Absent]>> ELSE <<>>
  IN [state EXCEPT !.cursor = Larger(@, x.end),
                   !.entries = @ \o gap \o <<[span |-> Span(x.start, x.end - x.start), of |-> x]>>]

\* The payload as entries one after another: what no extent claims is a gap,
\* what two claim is counted once, under the later.
Tile(state, x) ==
  LET entry(a, z) == <<[span |-> Span(a, z - a), of |-> x]>>
      gap == <<[span |-> Span(state.cursor, x.start - state.cursor), of |-> Absent]>>
      overlap == <<Anomaly("subresource-overlap", x.start, Lesser(state.cursor, x.end) - x.start)>>
  IN IF x.start < state.cursor
     THEN [cursor |-> Larger(state.cursor, x.end),
           entries |-> state.entries \o (IF x.end > state.cursor THEN entry(state.cursor, x.end) ELSE <<>>),
           anomalies |-> state.anomalies \o overlap]
     ELSE [cursor |-> x.end,
           entries |-> state.entries \o (IF x.start > state.cursor THEN gap ELSE <<>>) \o entry(x.start, x.end),
           anomalies |-> state.anomalies]

ByExtent(x, y) == \/ x.start < y.start
                  \/ x.start = y.start /\ x.end < y.end
                  \/ x.start = y.start /\ x.end = y.end /\ x.slot < y.slot

Moved(span, base) == [span EXCEPT !.offset = @ + base]

RECURSIVE ParseContainer(_, _, _)

\* A child that carries the signature: its container, or Refused.
Child(img, x, base, depth) ==
  LET bytes == Slice(img, x.start, x.end - x.start)
  IN IF Is(bytes, "SEDB") THEN ParseContainer(bytes, base + x.start, depth + 1) ELSE Absent

\* The anomalies of the rows in slot order, a child refused among them.
RowsSay(img, total, base, directory, extents, children) ==
  FlattenSeq([s \in DOMAIN extents |->
    RowAnomalies(extents[s], img, total, base, directory)
    \o IF s \in DOMAIN children /\ children[s] = Refused
       THEN <<Anomaly("nested-parse-error", base + extents[s].start, extents[s].end - extents[s].start)>>
       ELSE <<>>])

\* The gap left after the last extent, and the bytes past the container.
Tailed(tiled, total) ==
  tiled.entries \o IF tiled.cursor < total
                   THEN <<[span |-> Span(tiled.cursor, total - tiled.cursor), of |-> Absent]>> ELSE <<>>

PastEnd(tiled, base, total) ==
  IF tiled.cursor > total
  THEN <<Anomaly("payload-past-container-end", base + total, tiled.cursor - total)>> ELSE <<>>

\* An entry of the payload: a gap, or an extent with the child it holds.
TiledEntry(img, base, children, e) ==
  LET Holding(child) ==
        [body |-> IF e.of = Absent THEN "gap" ELSE "subresource", span |-> Moved(e.span, base),
         child |-> IF child = Refused THEN Absent ELSE child,
         sha |-> Slice(img, e.span.offset, e.span.length)]
  IN Holding(IF e.of = Absent THEN Absent ELSE children[e.of.slot])

ResPayload(img, h, base, depth, total) ==
  LET directory == Larger(h.header, ResHeader)
      payload == directory + RowSize * h.count
      head == [body |-> "directory", span |-> Span(base + directory, payload - directory),
               child |-> Absent, sha |-> Slice(img, directory, payload - directory)]
      Entries(all, children) == [i \in DOMAIN all |-> TiledEntry(img, base, children, all[i])]
      Told(tiled, extents, children) ==
        [entries |-> <<head>> \o Entries(Tailed(tiled, total), children),
         anomalies |-> RowsSay(img, total, base, directory, extents, children)
                       \o [i \in DOMAIN tiled.anomalies |->
                             [tiled.anomalies[i] EXCEPT !.span = Moved(@, base)]]
                       \o PastEnd(tiled, base, total)]
      Resolved(extents, found) ==
        Told(FoldLeft(Tile, [cursor |-> payload, entries |-> <<>>, anomalies |-> <<>>],
                      SetToSortSeq(found, ByExtent)),
             extents, [s \in {x.slot : x \in found} |-> Child(img, extents[s], base, depth)])
      Found(extents) == Resolved(extents, {x \in Range(extents) : x.start <= img.length})
  IN Found(Extents(img, h, payload))

\* A size below the header stands for the header.
TotalSize(h) == IF h.declared < h.header THEN h.header ELSE h.declared

PayloadStart(h) == IF h.subtype = "RES " THEN Larger(h.header, ResHeader) ELSE h.header

\* A header that parse_container_at_depth accepts; a RES header may be the
\* short one that the directory overlaps.
HeaderHolds(img, h) ==
  /\ img.length >= 20 /\ h.magic = "SEDB"
  /\ h.header >= 20 /\ h.header <= img.length /\ h.declared <= img.length
  /\ h.subtype = "RES " =>
       /\ h.header >= ResHeader \/ (h.header = ExtendedHeader /\ h.count # 0)
       /\ img.length >= ResHeader
       /\ h.count = h.repeat
       /\ PayloadStart(h) + RowSize * h.count <= TotalSize(h)

ParseContainer(img, base, depth) ==
  LET h == At(img, 0)
      res == h.subtype = "RES "
      total == TotalSize(h)
      start == PayloadStart(h)
      below == IF h.declared < h.header THEN <<Anomaly("declared-size-below-header", base + 16, 4)>> ELSE <<>>
      shaped == IF res /\ h.header # ResHeader
                THEN <<Anomaly("unexpected-res-header-size", base + 14, 2)>> ELSE <<>>
      whole == [entries |-> <<[body |-> "payload", span |-> Span(base + start, total - start),
                               child |-> Absent, sha |-> Slice(img, start, total - start)]>>,
                anomalies |-> <<>>]
      Holding(payload) ==
        [span |-> Span(base, total), start |-> start, total |-> total, res |-> res,
         subtype |-> h.subtype, version |-> h.version, endian |-> h.endian,
         entries |-> payload.entries, anomalies |-> below \o shaped \o payload.anomalies]
  IN IF depth > MaxNestingDepth \/ ~HeaderHolds(img, h)
     THEN Refused
     ELSE Holding(IF res THEN ResPayload(img, h, base, depth, total) ELSE whole)

ReadContainer(img) == ParseContainer(img, 0, 0)

\* Container::entries_tile_the_payload
Tiles(c) ==
  LET n == Len(c.entries)
      from(i) == IF i = 1 THEN c.span.offset + c.start ELSE End(c.entries[i - 1].span)
  IN /\ \A i \in 1..n : c.entries[i].span.offset = from(i)
     /\ from(n + 1) >= End(c.span)

Ambiguous == {"subresource-start-out-of-range", "subresource-extent-clamped",
              "subresource-past-container-end", "subresource-overlap",
              "payload-past-container-end", "nested-parse-error"}

\* validate_payload_materialization: every entry one exact span of its own,
\* in the container and in those inside it.
RECURSIVE Exact(_)
Exact(c) ==
  /\ \A a \in Range(c.anomalies) : a.kind \notin Ambiguous
  /\ \A e \in Range(c.entries) : e.child = Absent \/ Exact(e.child)

-----------------------------------------------------------------------------
(* res_extents.rs: the tags one reader follows *)

FirstSegment(img) ==
  LET First(pwib) == IF pwib = Refused THEN Refused ELSE pwib.first
  IN IF Is(img, "PWIB") THEN First(ParsePwib(img)) ELSE Span(0, img.length)

\* An extent may be claimed once, and only inside extents of lower depth.
Claimable(claims, span, depth) ==
  \A c \in claims : c.span # span /\ (Disjoint(<<c.span, span>>) \/ c.depth < depth)

\* The rows one directory selects: a leaf or a RES directory, opaque rows passed over.
Selected(img, h, extent, leaf) ==
  LET payload == ResHeader + RowSize * h.count
      Row(s, child) ==
        IF /\ payload + h.rows[s].offset + 8 <= extent /\ h.rows[s].size >= 8
           /\ child.magic = "SEDB" /\ child.subtype \in {leaf, "RES "}
        THEN [slot |-> s, start |-> payload + h.rows[s].offset, length |-> h.rows[s].size,
              leaf |-> child.subtype = leaf]
        ELSE Absent
  IN SelectSeq([s \in 1..h.count |-> Row(s, At(img, payload + h.rows[s].offset))],
               LAMBDA r : r # Absent)

\* The claims of the rows of one directory added to those before, or Refused.
Claimed(claims, rows, base, declared, depth) ==
  LET Claim(acc, r) ==
        IF \/ acc = Refused \/ r.length > declared - r.start
           \/ ~Claimable(acc, Span(base + r.start, r.length), depth)
        THEN Refused
        ELSE acc \cup {[span |-> Span(base + r.start, r.length), depth |-> depth]}
  IN FoldLeft(Claim, claims, rows)

RECURSIVE Collect(_, _, _, _, _)

\* collect: the claims and the leaves with their paths, or Refused.
Collect(img, base, path, state, leaf) ==
  LET h == At(img, 0)
      Visit(acc, r) ==
        CASE acc = Refused -> Refused
          [] acc # Refused /\ r.leaf ->
               [acc EXCEPT !.leaves = Append(@, [path |-> Append(path, r.slot - 1),
                                                 span |-> Span(base + r.start, r.length)])]
          [] acc # Refused /\ ~r.leaf ->
               Collect(Slice(img, r.start, r.length), base + r.start, Append(path, r.slot - 1), acc, leaf)
      Into(claims, rows) ==
        IF claims = Refused THEN Refused
        ELSE FoldLeft(Visit, [state EXCEPT !.claims = claims], rows)
      Selecting(rows) == Into(Claimed(state.claims, rows, base, h.declared, Len(path) + 1), rows)
  IN IF \/ Len(path) > MaxNestingDepth
        \/ img.length < 64 \/ h.magic # "SEDB" \/ h.subtype # "RES "
        \/ h.header \notin {ExtendedHeader, ResHeader}
        \/ h.declared < 64 \/ h.declared > img.length
        \/ h.repeat # h.count \/ ResHeader + RowSize * h.count > h.declared
     THEN Refused
     ELSE Selecting(Selected(img, h, h.declared, leaf))

\* The leaves of one tag in an input, a PWIB's first segment or the whole.
Leaves(img, leaf) ==
  LET Within(first) ==
        IF first = Refused THEN Refused
        ELSE Collect(Slice(img, first.offset, first.length), first.offset, <<>>,
                     [claims |-> {}, leaves |-> <<>>], leaf)
  IN Within(FirstSegment(img))
=============================================================================
