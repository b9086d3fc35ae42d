----------------------------- MODULE SheetFormat -----------------------------
(* The files a sheet is stored in, as src/formats/src/{sheet,ssd,ssd_edit,csv}.rs
   reads and writes them: a definition document, and for every block of rows a
   data file, an enable file and a row-offset file.  Operators only.

   A column value is one unit of its data file, whatever its width in bytes, so
   a row-offset file counts values; files that end in the middle of a record are
   not modelled.  A text is a model string; Spelled gives, for each column type,
   the texts its reader accepts and writes back alike (parse_cell, value_text).
   An operation that returns an error in the code has the value Refused here, and
   one that has nothing to return, where others are records, the value None. *)
EXTENDS Integers, Sequences, FiniteSets, FiniteSetsExt, SequencesExt, Functions

CONSTANTS
  Spelled,   \* column type -> the texts a value of the type can show
  MaxRow,    \* the largest row identifier and count (u32::MAX)
  Refused,   \* the result of an operation that fails
  Absent     \* an attribute, an element or a file that is not there

Types == DOMAIN Spelled
Value(type, text, hidden) == [type |-> type, text |-> text, hidden |-> hidden]

\* A value that the row leaves out at its end (None in parse_row_span).
Omitted == Value("none", "", FALSE)

None == [is |-> "none"]

\* The values of a column.
ValuesOf(type) == [type : {type}, text : Spelled[type], hidden : BOOLEAN]

ASSUME MaxRowAssumption == MaxRow \in Nat
ASSUME ResultAssumption ==
  /\ Types \cap {Absent, Omitted.type} = {}
  /\ Refused \notin {Absent, None, {}, Omitted} \cup UNION {ValuesOf(type) : type \in Types}

----------------------------------------------------------------------------
(* Enable file: pairs of first row and run length. *)

RowsIn(range) == range.first .. (range.first + range.count - 1)

\* named counts an identifier once for every range that names it (row_count).
ParseEnable(ranges) ==
  [ids |-> UNION {RowsIn(r) : r \in Range(ranges)},
   named |-> Cardinality(UNION {{<<i, id>> : id \in RowsIn(ranges[i])} : i \in DOMAIN ranges}),
   sound |-> \A i \in DOMAIN ranges :
               /\ ranges[i].count > 0
               /\ i > 1 => ranges[i].first >= ranges[i - 1].first + ranges[i - 1].count]

\* runs: the identifiers of a block, in ascending order, as maximal ranges.
EncodeEnable(file, ids) ==
  LET Extend(ranges, id) ==
        IF ranges # <<>> /\ ranges[Len(ranges)].first + ranges[Len(ranges)].count = id
        THEN [ranges EXCEPT ![Len(ranges)].count = @ + 1]
        ELSE Append(ranges, [first |-> id, count |-> 1])
      runs[i \in 0 .. file.count] ==
        IF i = 0 THEN <<>>
        ELSE IF file.begin + i - 1 \in ids THEN Extend(runs[i - 1], file.begin + i - 1) ELSE runs[i - 1]
  IN runs[file.count]

\* Row-offset file: entry i is the end of slot i-1; an empty slot repeats it.
ParseOffsets(ends) ==
  LET Before(i) == Max({0} \cup {ends[j] : j \in 1 .. (i - 1)})
  IN [slots |-> {[index |-> i - 1, from |-> Before(i), to |-> ends[i]] : i \in {j \in DOMAIN ends : ends[j] > Before(j)}},
      sound |-> \A i \in DOMAIN ends : ends[i] >= Before(i),
      length |-> IF ends = <<>> THEN 0 ELSE ends[Len(ends)]]

\* The last end of a slot before the i-th entry.
EndBefore(ends, i) == Max({0} \cup {ends[k] : k \in {j \in DOMAIN ends : j < i}})

\* Faulty variant: the slot of the last row is not written.
EncodeOffsetsShort(count, ends) == [i \in 1 .. (count - 1) |-> EndBefore(ends, i)]

\* Ends by slot: the slots are of the block, and every row has an extent.
EncodeOffsets(count, ends) ==
  IF \E k \in DOMAIN ends : k >= count \/ ends[k] <= EndBefore(ends, k)
  THEN Refused ELSE [i \in 1 .. count |-> EndBefore(ends, i)]

\* Rows by slot: their values one after another, with the end of each.
EncodeRows(count, rows) ==
  LET laid[i \in 0 .. count] ==
        IF i = 0 THEN <<>>
        ELSE IF i - 1 \in DOMAIN rows THEN laid[i - 1] \o rows[i - 1] ELSE laid[i - 1]
  IN IF <<>> \in Range(rows) THEN Refused
     ELSE [data |-> laid[count], ends |-> [k \in DOMAIN rows |-> Len(laid[k + 1])]]

\* parse_rows over the bytes of one row.
RowParses(values, columns) ==
  Len(values) = Len(columns) /\ \A k \in DOMAIN values : values[k] \in ValuesOf(columns[k])

\* parse_row_span: the whole row, or the row without its last value.
SpanParses(values, columns) ==
  \E n \in {Len(columns) - 1, Len(columns)} \ {0} : n >= 0 /\ RowParses(values, SubSeq(columns, 1, n))
ParseRowSpan(values, columns) ==
  [k \in DOMAIN columns |-> IF k \in DOMAIN values THEN values[k] ELSE Omitted]

\* What is stored of a row: its values, of which only the last may be omitted.
Stored(row) == [k \in {j \in DOMAIN row : row[j] # Omitted} |-> row[k]]

----------------------------------------------------------------------------
(* CSV cells.  What a cell shows is a sequence of pieces: the text, and the
   markers of missing and of duplicate values; the empty text shows nothing. *)

Piece(mark, text) == [mark |-> mark, of |-> text]
Show(text) == IF text = "" THEN <<>> ELSE <<Piece("text", text)>>
HasMarker(shown) == \E p \in Range(shown) : p.mark # "text"
TextOf(shown) == IF shown = <<>> THEN "" ELSE IF Len(shown) = 1 THEN shown[1].of ELSE "[@]"

ParseCell(shown, type, hidden) ==
  IF ~HasMarker(shown) /\ TextOf(shown) \in Spelled[type]
  THEN Value(type, TextOf(shown), hidden /\ type = "str") ELSE Refused

\* A cell of the merged table: what it shows and the logical values it has seen.
NoCell == [shown |-> <<>>, seen |-> {}]

AddValue(cell, value) ==
  LET logical == IF value = Omitted THEN Piece("missing", "") ELSE Piece("text", value.text)
  IN IF logical \in cell.seen THEN cell
     ELSE [seen |-> cell.seen \cup {logical},
           shown |-> cell.shown \o
             IF value = Omitted
             THEN (IF cell.seen # {} /\ cell.shown = <<>> THEN <<Piece("duplicate", "")>> ELSE <<>>)
                    \o <<logical>>
             ELSE IF cell.seen = {} THEN Show(value.text)
             ELSE <<Piece("duplicate", value.text)>>]

(* CsvTable: a document's sheets share the rows and, by their indexes, the columns. *)

\* insert_columns: the types that the sheets declare at a column.
TypesAt(sheets, c) ==
  UNION {{s.columns[k] : k \in {j \in DOMAIN s.index : s.index[j] = c - 1}} : s \in sheets}

ColumnsAgree(sheets) ==
  \A s \in sheets : \A k \in DOMAIN s.index :
    \A t, u \in TypesAt(sheets, s.index[k] + 1) : t = u

Columns(sheets) ==
  [c \in UNION {1 .. s.width : s \in sheets} |->
     IF TypesAt(sheets, c) = {} THEN Absent ELSE CHOOSE t \in TypesAt(sheets, c) : TRUE]

\* Whether a block has a value in a cell, and which.
HasValue(b, id, c) == b # None /\ id \in DOMAIN b.rows /\ c - 1 \in Range(b.index)
ValueIn(b, id, c) == b.rows[id][CHOOSE k \in DOMAIN b.index : b.index[k] = c - 1]

\* insert_row: a cell is what the blocks make of it one after another.
MergedCell(blocks, id, c) ==
  LET cell[n \in 0 .. Len(blocks)] ==
        IF n = 0 THEN NoCell
        ELSE IF HasValue(blocks[n], id, c) THEN AddValue(cell[n - 1], ValueIn(blocks[n], id, c))
        ELSE cell[n - 1]
  IN cell[Len(blocks)]

MergedTable(sheets, blocks) ==
  [columns |-> Columns(sheets),
   rows |-> [id \in UNION {DOMAIN b.rows : b \in Range(blocks) \ {None}} |->
               [c \in DOMAIN Columns(sheets) |-> MergedCell(blocks, id, c)]]]

\* render: the text form, in which a cell never set and an empty one look alike.
Render(table) ==
  [columns |-> table.columns,
   rows |-> [r \in DOMAIN table.rows |-> [c \in DOMAIN table.columns |-> table.rows[r][c].shown]]]

----------------------------------------------------------------------------
(* Definition documents: a root element with sheet elements. *)

FileBlock == [begin : 0 .. MaxRow, count : 0 .. MaxRow, data : Nat, enable : Nat, offsets : Nat]

\* An element without children refers to a document; one with them has at most
\* one of each tag, and a type.
SheetParses(e) ==
  LET Some(tag) == \E c \in Range(e.children) : c.tag = tag
      The(tag) == CHOOSE c \in Range(e.children) : c.tag = tag
  IN /\ e.tag = "sheet" /\ e.name # Absent
     /\ IF DOMAIN e.children = {} THEN e.infofile # Absent
        ELSE /\ \A c \in Range(e.children) : c.tag \in {"type", "index", "block"}
             /\ \A i, j \in DOMAIN e.children : e.children[i].tag = e.children[j].tag => i = j
             /\ Some("type") /\ The("type").params \in Seq(Types)
             /\ Some("block") => /\ The("block").files \in Seq(FileBlock)
                                 /\ The("block").declared = Len(The("block").files)

ParseSheet(e) ==
  LET Some(tag) == \E c \in Range(e.children) : c.tag = tag
      The(tag) == CHOOSE c \in Range(e.children) : c.tag = tag
  IN IF DOMAIN e.children = {} THEN [kind |-> "reference", name |-> e.name, infofile |-> e.infofile]
     ELSE [kind |-> "definition", name |-> e.name, lang |-> e.lang,
           width |-> e.width, count |-> e.count, columns |-> The("type").params,
           index |-> IF Some("index") THEN The("index").params ELSE <<>>,
           files |-> IF Some("block") THEN The("block").files ELSE <<>>]

ParseDocument(doc) ==
  IF doc.root # "ssd" \/ doc.sheets \notin Seq({e \in Range(doc.sheets) : SheetParses(e)}) THEN Refused
  ELSE [i \in DOMAIN doc.sheets |-> ParseSheet(doc.sheets[i])]

\* format_id: references only, definitions only, or neither.
FormatId(sheets) ==
  IF \A s \in Range(sheets) : s.kind = "reference" THEN "ssd-master"
  ELSE IF \A s \in Range(sheets) : s.kind = "definition" THEN "ssd-sheet"
  ELSE "ssd-mixed"

IdsOf(file) == {file.data, file.enable, file.offsets}
NamedIds(sheets) ==
  UNION {IF s.kind = "reference" THEN {s.infofile}
         ELSE UNION {IdsOf(f) : f \in Range(s.files)} : s \in Range(sheets)}

\* Faulty variant: the files begin in order, and may overlap.
RangesInOrder(files) == \A i \in 2 .. Len(files) : files[i].begin >= files[i - 1].begin

\* Sorted, disjoint, and inside the row identifiers.
RangesFit(files) ==
  \A i \in DOMAIN files :
     /\ files[i].begin + files[i].count <= MaxRow
     /\ i > 1 => files[i].begin >= files[i - 1].begin + files[i - 1].count

(* edit_definition.  An edit names a sheet and, in "by", what asks for it: the
   file "at" gets another count, or a file is inserted. *)

Grows(edits, s) == {e \in edits : e.op = "grow" /\ e.sheet = s}
Inserts(edits, s) == {e \in edits : e.op = "insert" /\ e.sheet = s}

\* No file is grown twice or shrinks, and an inserted resource is named by no other file.
EditsAdmitted(sheets, edits) ==
  LET inserted == {e \in edits : e.op = "insert"}
  IN /\ \A e \in edits :
          /\ e.sheet \in DOMAIN sheets /\ sheets[e.sheet].kind = "definition"
          /\ e.op = "grow" => e.at \in DOMAIN sheets[e.sheet].files
     /\ \A s \in DOMAIN sheets : \A e, f \in Grows(edits, s) : e.at = f.at => e = f
     /\ \A s \in DOMAIN sheets : \A e \in Grows(edits, s) : e.count >= sheets[s].files[e.at].count
     /\ \A e \in inserted :
          /\ Cardinality(IdsOf(e.file)) = 3 /\ IdsOf(e.file) \cap NamedIds(sheets) = {}
          /\ sheets[e.sheet].files # <<>>
     /\ \A e, f \in inserted : e # f => IdsOf(e.file) \cap IdsOf(f.file) = {}

\* replace_count
GrownFile(file, edits, s, i) ==
  LET hits == {e \in Grows(edits, s) : e.at = i}
  IN IF hits = {} THEN file ELSE [file EXCEPT !.count = (CHOOSE e \in hits : TRUE).count]

\* Faulty variant: of several inserted elements only the last one is spliced in.
EntriesLastInsert(sheets, edits, s) ==
  {[at |-> i, file |-> GrownFile(sheets[s].files[i], edits, s, i)] : i \in DOMAIN sheets[s].files}
    \cup {[at |-> 0, file |-> e.file] :
            e \in {x \in Inserts(edits, s) : \A y \in Inserts(edits, s) : y.file.begin <= x.file.begin}}

\* The file elements of a sheet after the edits: the shipped one "at" its place, 0 an inserted one.
Entries(sheets, edits, s) ==
  {[at |-> i, file |-> GrownFile(sheets[s].files[i], edits, s, i)] : i \in DOMAIN sheets[s].files}
    \cup {[at |-> 0, file |-> e.file] : e \in Inserts(edits, s)}

(* The text gets every inserted element before the first shipped one that begins
   later, and is to read as the definition with its files sorted by begin: the
   shipped files keep their order, so they must be in order to begin with.  (Two
   inserted files of one begin overlap in either order.) *)
Arranged(entries) ==
  {order \in Bijection(1 .. Cardinality(entries), entries) :
     \A i, j \in DOMAIN order : i < j =>
        /\ order[i].file.begin <= order[j].file.begin
        /\ order[j].at # 0 => /\ order[i].at < order[j].at
                              /\ order[i].at = 0 => order[i].file.begin # order[j].file.begin}

\* The files a sheet ends up with.
EditedFiles(sheets, edits, s) ==
  LET order == CHOOSE q \in Arranged(Entries(sheets, edits, s)) : TRUE
  IN [i \in DOMAIN order |-> order[i].file]

\* The text after the edits.
SplicedElement(e, files) ==
  LET Child(c) == IF c.tag # "block" THEN c
                  ELSE [tag |-> "block", params |-> c.params, declared |-> Len(files), files |-> files]
  IN [tag |-> e.tag, name |-> e.name, lang |-> e.lang, width |-> e.width, count |-> e.count,
      infofile |-> e.infofile, children |-> [i \in DOMAIN e.children |-> Child(e.children[i])]]

Spliced(doc, sheets, edits) ==
  [root |-> doc.root,
   sheets |-> [s \in DOMAIN doc.sheets |->
                 IF sheets[s].kind = "reference" THEN doc.sheets[s]
                 ELSE SplicedElement(doc.sheets[s], EditedFiles(sheets, edits, s))]]

EditSheets(doc, sheets, edits) ==
  IF edits = {} THEN doc
  ELSE IF /\ EditsAdmitted(sheets, edits)
          /\ \A s \in DOMAIN sheets : sheets[s].kind = "definition" =>
               /\ Arranged(Entries(sheets, edits, s)) # {}
               /\ RangesFit(EditedFiles(sheets, edits, s))
          /\ ParseDocument(Spliced(doc, sheets, edits)) # Refused
  THEN Spliced(doc, sheets, edits) ELSE Refused

EditDefinition(doc, edits) == EditSheets(doc, ParseDocument(doc), edits)
=============================================================================
