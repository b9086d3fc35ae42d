----------------------------- MODULE SheetImport -----------------------------
(* extract and import-sheets (apps/cli/src/{extract,import_sheets}.rs): a client
   tree is extracted to one CSV per definition document, somebody edits the
   CSVs and writes a block plan, and the import writes the resources that have to
   change, as an overlay tree, and verifies them by reading them back.

   Files are identified by resource id; a file says what it is read as, and a file
   read as something else does not parse.  How the overlay's files come into
   being beside other runs is the subject of OverlayPublish; here the writing is
   one step that succeeds or leaves nothing.  How column_max, row ids and counts
   are spelled in decimal is not modelled. *)
EXTENDS SheetFormat

CONSTANTS
  Client,       \* the client tree: resource id -> file
  NewTexts,     \* the texts the user types into a cell
  NewRows,      \* the row identifiers the user adds
  Plans,        \* the block plans the user may write, NoPlan among them
  MaxEdits,     \* bound: edits of CSVs and plans
  MaxRounds,    \* bound: imports applied to the tree
  MaxColumns    \* MAX_EXPORT_COLUMNS

ASSUME ClientAssumption == DOMAIN Client \subseteq Nat /\ IsFiniteSet(DOMAIN Client)

VARIABLES
  game,       \* the client tree, as the last applied overlay left it
  csv,        \* the CSV directory: name -> table
  plan,       \* the block plan
  pc, why,    \* the import's phase, and what it was refused for
  todo,       \* the documents still to be processed, with their names
  work,       \* what the import has decided so far
  overlay,    \* the output tree
  edits, left, rounds  \* history: edits since the extraction, edits left, imports applied

vars == <<game, csv, plan, pc, why, todo, work, overlay, edits, left, rounds>>

NoPlan == [version |-> 0, grow |-> <<>>, add |-> <<>>]
NoWork == [resources |-> <<>>, expected |-> <<>>, intended |-> {}, verify |-> {}]

\* What the bytes of a file read as one of the three kinds come to.
Formatted(file) ==
  CASE file.as = "data" -> file.of \in Seq(Range(file.of))
    [] file.as = "enable" -> file.of \in Seq([first : Nat, count : Nat])
    [] file.as = "offsets" -> file.of \in Seq(Nat)
Is(fs, id, kind) == id \in DOMAIN fs /\ fs[id].as = kind /\ Formatted(fs[id])
Over(lower, upper) == [id \in DOMAIN lower \cup DOMAIN upper |->
                         IF id \in DOMAIN upper THEN upper[id] ELSE lower[id]]

----------------------------------------------------------------------------
(* Extraction. *)

\* The ids of the definition documents; mixed ones are refused.
Discover(fs) ==
  LET Parsed(id) == ParseDocument(fs[id].of)
      documents == {id \in DOMAIN fs : fs[id].as = "definition"}
  IN IF \E id \in documents : Parsed(id) = Refused \/ FormatId(Parsed(id)) = "ssd-mixed" THEN Refused
     ELSE {id \in documents : FormatId(Parsed(id)) = "ssd-sheet"}

\* unique_name: the name of a document's first sheet, numbered in path order when repeated.
NameEach(fs, ids) ==
  LET Base(id) == ParseDocument(fs[id].of)[1].name
  IN {[id |-> id,
       name |-> <<Base(id), 1 + Cardinality({j \in ids : j < id /\ Base(j) = Base(id)})>>] : id \in ids}
Named(fs) == NameEach(fs, Discover(fs))

SheetAccepted(s) ==
  /\ s.width # Absent /\ s.width \in 0 .. MaxColumns
  /\ s.count = Len(s.columns)
  /\ Range(s.index) \subseteq 0 .. (s.width - 1)
  /\ IsInjective(s.index) /\ DOMAIN s.index = DOMAIN s.columns

Bytes(data, slot) == SubSeq(data, slot.from + 1, slot.to)

(* One block: its three files are all there or all absent; the enable ranges lie
   in the block, name exactly the stored rows, and every row parses. *)
Shipped(fs, f) == IdsOf(f) \cap DOMAIN fs # {}

BlockLoads(fs, s, f) ==
  LET enable == ParseEnable(fs[f.enable].of)
      offsets == ParseOffsets(fs[f.offsets].of)
  IN /\ Is(fs, f.data, "data") /\ Is(fs, f.enable, "enable") /\ Is(fs, f.offsets, "offsets")
     /\ enable.sound /\ offsets.sound
     /\ Len(fs[f.offsets].of) <= f.count
     /\ offsets.length = Len(fs[f.data].of)
     /\ enable.ids \subseteq f.begin .. (f.begin + f.count - 1) /\ enable.named <= f.count
     /\ {f.begin + t.index : t \in offsets.slots} = enable.ids
     /\ \A t \in offsets.slots : SpanParses(Bytes(fs[f.data].of, t), s.columns)

LoadRows(fs, s, f) ==
  LET slots == ParseOffsets(fs[f.offsets].of).slots
  IN [id \in ParseEnable(fs[f.enable].of).ids |->
        ParseRowSpan(Bytes(fs[f.data].of, CHOOSE t \in slots : f.begin + t.index = id), s.columns)]

LoadBlock(fs, s, at) ==
  LET f == s.files[at[2]]
  IN IF ~Shipped(fs, f) THEN None
     ELSE [is |-> "block", file |-> f, at |-> at, columns |-> s.columns, index |-> s.index,
           rows |-> LoadRows(fs, s, f), data |-> fs[f.data].of, enable |-> fs[f.enable].of,
           offsets |-> fs[f.offsets].of, force |-> FALSE, flags |-> [c \in DOMAIN s.columns |-> FALSE]]

\* The blocks of a document, sheet by sheet and file by file.
LoadBlocks(fs, sheets) ==
  FlattenSeq([i \in DOMAIN sheets |->
                IF sheets[i].kind = "definition"
                THEN [k \in DOMAIN sheets[i].files |-> LoadBlock(fs, sheets[i], <<i, k>>)] ELSE <<>>])

(* load_document_overlay: the merged table of a document's sheets, and its blocks. *)
DefinitionsOf(sheets) == {s \in Range(sheets) : s.kind = "definition"}

DocumentLoads(fs, sheets) ==
  /\ \A s \in DefinitionsOf(sheets) :
       /\ SheetAccepted(s)
       /\ \A f \in Range(s.files) : Shipped(fs, f) => BlockLoads(fs, s, f)
  /\ ColumnsAgree(DefinitionsOf(sheets))

BlocksOf(fs, sheets) == Range(LoadBlocks(fs, sheets)) \ {None}

LoadDocument(fs, sheets) ==
  IF ~DocumentLoads(fs, sheets) THEN Refused
  ELSE [table |-> MergedTable(DefinitionsOf(sheets), LoadBlocks(fs, sheets)), blocks |-> BlocksOf(fs, sheets)]

LoadNamed(fs, n) == LoadDocument(fs, ParseDocument(fs[n.id].of))

(* extract: one table per document; the run fails when a document is refused (the
   CSVs written before it stay, which is of no use to an import). *)
Extraction(fs) ==
  IF Discover(fs) = Refused \/ \E n \in Named(fs) : LoadNamed(fs, n) = Refused THEN Refused
  ELSE [name \in {n.name : n \in Named(fs)} |->
          Render(LoadNamed(fs, CHOOSE n \in Named(fs) : n.name = name).table)]

Init ==
  /\ game = Client /\ csv = Extraction(Client) /\ csv # Refused /\ plan = NoPlan
  /\ pc = "edit" /\ why = "nothing" /\ todo = {} /\ work = NoWork /\ overlay = <<>>
  /\ edits = 0 /\ left = MaxEdits /\ rounds = 0

----------------------------------------------------------------------------
(* The user edits the extraction. *)

Edited(table, name) ==
  /\ pc = "edit" /\ left > 0
  /\ csv' = [csv EXCEPT ![name].rows = table] /\ edits' = edits + 1 /\ left' = left - 1
  /\ UNCHANGED <<game, plan, pc, why, todo, work, overlay, rounds>>

Retype == \E name \in DOMAIN csv, text \in NewTexts : \E r \in DOMAIN csv[name].rows :
            \E c \in DOMAIN csv[name].columns :
              Edited([csv[name].rows EXCEPT ![r][c] = Show(text)], name)
DropRow == \E name \in DOMAIN csv : \E r \in DOMAIN csv[name].rows :
             Edited([s \in DOMAIN csv[name].rows \ {r} |-> csv[name].rows[s]], name)
\* A row beside the present ones, its cells as in one of them or of one text.
AddRow == \E name \in DOMAIN csv, r \in NewRows, text \in NewTexts :
            /\ r \notin DOMAIN csv[name].rows
            /\ \E filled \in SUBSET DOMAIN csv[name].columns :
                 Edited([s \in DOMAIN csv[name].rows \cup {r} |->
                           IF s = r THEN [c \in DOMAIN csv[name].columns |->
                                            IF c \in filled THEN Show(text) ELSE <<>>]
                           ELSE csv[name].rows[s]], name)
Discard == \E name \in DOMAIN csv :
             /\ pc = "edit" /\ left > 0
             /\ csv' = [n \in DOMAIN csv \ {name} |-> csv[n]] /\ edits' = edits + 1 /\ left' = left - 1
             /\ UNCHANGED <<game, plan, pc, why, todo, work, overlay, rounds>>
WritePlan == /\ pc = "edit" /\ plan = NoPlan /\ left > 0
             /\ plan' \in Plans \ {NoPlan} /\ edits' = edits + 1 /\ left' = left - 1
             /\ UNCHANGED <<game, csv, pc, why, todo, work, overlay, rounds>>
User == Retype \/ DropRow \/ AddRow \/ Discard \/ WritePlan

----------------------------------------------------------------------------
(* The import. *)

Refuse(reason) == pc' = "refused" /\ why' = reason /\ UNCHANGED <<todo, work, overlay>>

\* The ids a plan gives the files it adds, by entry, target and part.
AddedIds(p) ==
  LET parts == UNION {{<<i, k, part>> : k \in DOMAIN p.add[i].targets, part \in {"data", "enable", "offsets"}} :
                        i \in DOMAIN p.add}
  IN [part \in parts |-> p.add[part[1]].targets[part[2]][part[3]]]

\* An added id is new, named once and non-zero; every planned CSV is present.
PlanAdmitted(fs) ==
  LET names == {n.name : n \in Named(fs)}
      occupied == DOMAIN fs \cup UNION {NamedIds(ParseDocument(fs[n.id].of)) : n \in Named(fs)}
  IN /\ plan.version \in {0, 1}
     /\ \A entry \in Range(plan.grow) \cup Range(plan.add) : entry.csv \in names \cap DOMAIN csv
     /\ \A id \in Range(AddedIds(plan)) : id # 0 /\ id \notin occupied
     /\ IsInjective(AddedIds(plan))

Begin ==
  /\ pc = "edit"
  /\ IF Discover(game) # Refused /\ PlanAdmitted(game)
        /\ DOMAIN csv \subseteq {n.name : n \in Named(game)}
     THEN pc' = "documents" /\ todo' = Named(game) /\ UNCHANGED <<why, work, overlay>>
     ELSE Refuse("plan")
  /\ UNCHANGED <<game, csv, plan, edits, left, rounds>>

(* definition_edits: a grow changes every file of its begin and must find one and
   enlarge it; an add names sheets by name and language, each exactly once. *)
GrowEdits(name, sheets) ==
  LET Own == {i \in DOMAIN plan.grow : plan.grow[i].csv = name}
      Hits(i) == {at \in UNION {{<<s, k>> : k \in DOMAIN sheets[s].files} : s \in {t \in DOMAIN sheets : sheets[t].kind = "definition"}} :
                    sheets[at[1]].files[at[2]].begin = plan.grow[i].begin}
  IN IF \E i \in Own :
          Hits(i) = {} \/ \E at \in Hits(i) : plan.grow[i].count <= sheets[at[1]].files[at[2]].count
     THEN Refused
     ELSE UNION {{[op |-> "grow", sheet |-> at[1], at |-> at[2], count |-> plan.grow[i].count,
                   data |-> sheets[at[1]].files[at[2]].data, by |-> i] : at \in Hits(i)} : i \in Own}

AddEdits(name, sheets) ==
  LET Own == {i \in DOMAIN plan.add : plan.add[i].csv = name}
      Matches(t) == {s \in DOMAIN sheets :
                       sheets[s].kind = "definition" /\ sheets[s].name = t.sheet /\ sheets[s].lang = t.lang}
      Edit(a, t, by) == [op |-> "insert", sheet |-> CHOOSE s \in Matches(t) : TRUE, by |-> by,
                         file |-> [begin |-> a.begin, count |-> a.count,
                                   data |-> t.data, enable |-> t.enable, offsets |-> t.offsets]]
  IN IF \E i \in Own : LET a == plan.add[i] IN
          \/ a.targets = <<>> \/ a.count = 0
          \/ \E t \in Range(a.targets) : Cardinality(Matches(t)) # 1
          \/ \E k, l \in DOMAIN a.targets : k # l /\ Matches(a.targets[k]) = Matches(a.targets[l])
     THEN Refused
     ELSE UNION {{Edit(plan.add[i], plan.add[i].targets[k], <<i, k>>) : k \in DOMAIN plan.add[i].targets} : i \in Own}

Covers(b, id) == id \in b.file.begin .. (b.file.begin + b.file.count - 1)

\* Which string columns of a sheet start scrambled: as in its first file's first row.
FirstFlags(first, columns) ==
  [c \in DOMAIN columns |-> \E b \in first : DOMAIN b.rows # {} /\ b.rows[Min(DOMAIN b.rows)][c].hidden]

(* The blocks after the definition edits: a grown block has its new count, an
   added block is empty; a grown block whose files are absent is left out.  What is
   planned is known by its data file, which a block can share with a grown one. *)
GrownBlock(b, changes) ==
  [b EXCEPT !.file = GrownFile(b.file, changes, b.at[1], b.at[2]),
            !.force = \E e \in changes : e.op = "grow" /\ e.data = b.file.data]

AddedBlock(sheets, blocks, e) ==
  LET s == sheets[e.sheet]
      first == {b \in blocks : b.at = <<e.sheet, 1>>}
  IN [is |-> "block", file |-> e.file, at |-> <<e.sheet, 0>>, columns |-> s.columns, index |-> s.index,
      rows |-> <<>>, data |-> <<>>, enable |-> <<>>, offsets |-> <<>>, force |-> TRUE,
      flags |-> FirstFlags(first, s.columns)]

PlannedBlocks(sheets, blocks, changes) ==
  {GrownBlock(b, changes) : b \in blocks}
    \cup {AddedBlock(sheets, blocks, e) : e \in {f \in changes : f.op = "insert"}}

(* validate_cells: a changed cell is stored by some present block and spells a
   value of its column; cells with markers stay as they are. *)
CellsValid(table, blocks, rows) ==
  \A id \in DOMAIN rows :
    /\ \E b \in blocks : Covers(b, id)
    /\ \A c \in DOMAIN table.columns :
         LET known == id \in DOMAIN table.rows
             original == IF known THEN table.rows[id][c] ELSE NoCell
             new == rows[id][c]
             stored == \E b \in blocks :
                         Covers(b, id) /\ c - 1 \in Range(b.index) /\ (id \in DOMAIN b.rows \/ ~known)
         IN \/ original.seen = {} /\ new = <<>> /\ ~stored
            \/ HasMarker(original.shown) /\ new = original.shown
            \/ /\ ~HasMarker(original.shown)
               /\ IF table.columns[c] = Absent THEN new = <<>>
                  ELSE ParseCell(new, table.columns[c], FALSE) # Refused
               /\ new # original.shown => stored

\* Faulty variant: every cell is parsed again, the unchanged ones too.
EditRowParsesAll(table, b, id, cells) ==
  [c \in DOMAIN b.columns |-> ParseCell(cells[b.index[c] + 1], b.columns[c], FALSE)]

\* The values of one row of a block, Refused where a cell cannot be stored.
EditRow(table, b, id, cells) ==
  LET known == id \in DOMAIN b.rows
      shown(c) == IF id \in DOMAIN table.rows THEN table.rows[id][b.index[c] + 1].shown ELSE <<>>
      text(c) == cells[b.index[c] + 1]
      first(c) == IF DOMAIN b.rows = {} THEN Omitted ELSE b.rows[Min(DOMAIN b.rows)][c]
      default(c) == IF first(c) = Omitted THEN b.flags[c] ELSE first(c).hidden
      New(c) == IF known /\ text(c) = shown(c) THEN b.rows[id][c]
                ELSE IF known /\ b.rows[id][c] = Omitted THEN Refused
                ELSE ParseCell(text(c), b.columns[c], IF known THEN b.rows[id][c].hidden ELSE default(c))
  IN [c \in DOMAIN b.columns |-> New(c)]

\* A row the extraction showed for another block only does not enable it here.
RowsOf(table, rows, b) ==
  {id \in DOMAIN rows : Covers(b, id) /\ (id \in DOMAIN b.rows \/ id \notin DOMAIN table.rows)}

\* The three files of a block with these rows; an omitted value is not stored.
EncodeBlock(b, values) ==
  LET f == b.file
      rows == [k \in {id - f.begin : id \in DOMAIN values} |-> Stored(values[f.begin + k])]
      count == Max({Len(b.offsets)} \cup {k + 1 : k \in DOMAIN rows})
      encoded == EncodeRows(count, rows)
      offsets == EncodeOffsets(count, encoded.ends)
  IN IF encoded = Refused \/ offsets = Refused THEN Refused
     ELSE [is |-> "edited", block |-> b, rows |-> [id \in DOMAIN values |-> Stored(values[id])],
           data |-> encoded.data, offsets |-> offsets,
           enable |-> IF DOMAIN values = DOMAIN b.rows THEN b.enable ELSE EncodeEnable(f, DOMAIN values)]

\* edit_block_with_defaults: the block after the CSV's rows, if they change it.
EditBlock(table, rows, b) ==
  LET mine == RowsOf(table, rows, b)
      values == [id \in mine |-> EditRow(table, b, id, rows[id])]
      retyped == \E id \in mine \cap DOMAIN table.rows : \E c \in Range(b.index) :
                   rows[id][c + 1] # table.rows[id][c + 1].shown
      changed == b.force \/ ~(DOMAIN b.rows \subseteq DOMAIN rows) \/ retyped \/ ~(mine \subseteq DOMAIN b.rows)
  IN IF \E id \in mine : Refused \in Range(values[id]) THEN Refused
     ELSE IF ~changed THEN None
     ELSE EncodeBlock(b, values)

\* A block's three files, with what a block or its edited form has in them.
Parts(file, has) ==
  {<<file.data, [as |-> "data", of |-> has.data]>>, <<file.enable, [as |-> "enable", of |-> has.enable]>>,
   <<file.offsets, [as |-> "offsets", of |-> has.offsets]>>}

\* Faulty variant: the first block to name a shared resource decides.
ConflictUnchecked(files, parts) == FALSE

\* Several blocks may name one resource: all must want the same file in it.
Conflict(files, parts) ==
  \/ \E p \in parts : p[1] \in DOMAIN files /\ files[p[1]] # p[2]
  \/ \E p, q \in parts : p[1] = q[1] /\ p[2] # q[2]

Register(files, parts) ==
  [id \in DOMAIN files \cup {p[1] : p \in parts} |->
     IF id \in DOMAIN files THEN files[id] ELSE (CHOOSE p \in parts : p[1] = id)[2]]

\* What a block's files have to be, edited or left alone.
Wanted(b, e) == Parts(b.file, IF e = None THEN b ELSE e)

\* Faulty variant: an edited block writes all its files.
WrittenWhole(b, e) == IF e = None THEN {} ELSE Wanted(b, e)

\* Which of them are written: those that change, and all of a planned block.
Written(b, e) == IF e = None THEN {} ELSE {p \in Wanted(b, e) : b.force \/ p \notin Parts(b.file, b)}

\* One document of the work: its definition edits, then its CSV's cells, block by block.
ImportParsed(n, table, blocks, changes, document) ==
  LET given == n.name \in DOMAIN csv
      edited == [b \in blocks |-> IF given THEN EditBlock(table, csv[n.name].rows, b) ELSE None]
      begun == IF changes = {} THEN work.resources
               ELSE Over(work.resources, [id \in {n.id} |-> [as |-> "definition", of |-> document]])
      wanted == UNION {Wanted(b, edited[b]) : b \in blocks}
      written == UNION {Written(b, edited[b]) : b \in blocks}
      Rows(b) == IF edited[b] = None THEN DOMAIN b.rows ELSE DOMAIN edited[b].rows
      check == [id |-> n.id, document |-> document, count |-> Cardinality(blocks),
                blocks |-> {<<b.file, Rows(b)>> : b \in blocks}]
  IN IF given /\ ~CellsValid(table, blocks, csv[n.name].rows) THEN Refuse("cells")
     ELSE IF Refused \in Range(edited) \/ Conflict(work.expected, wanted) \/ Conflict(begun, written)
          THEN Refuse("conflict")
     ELSE /\ todo' = todo \ {n}
          /\ work' = [resources |-> Register(begun, written), expected |-> Register(work.expected, wanted),
                      intended |-> work.intended \cup (Range(edited) \ {None}),
                      verify |-> work.verify \cup (IF changes # {} /\ given THEN {check} ELSE {})]
          /\ UNCHANGED <<pc, why, overlay>>

ImportLoaded(n, sheets, loaded, grows, adds) ==
  LET changes == grows \cup adds
      document == EditDefinition(game[n.id].of, changes)
  IN IF loaded = Refused \/ grows = Refused \/ adds = Refused \/ (changes # {} /\ document = Refused)
     THEN Refuse("document")
     ELSE ImportParsed(n, loaded.table, PlannedBlocks(sheets, loaded.blocks, changes), changes, document)

ImportDocument ==
  /\ pc = "documents"
  /\ \E n \in todo :
       /\ \A m \in todo : n.id <= m.id
       /\ LET sheets == ParseDocument(game[n.id].of)
          IN ImportLoaded(n, sheets, LoadDocument(game, sheets), GrowEdits(n.name, sheets), AddEdits(n.name, sheets))
  /\ UNCHANGED <<game, csv, plan, edits, left, rounds>>

Write ==
  /\ pc = "documents" /\ todo = {}
  /\ \/ pc' = "verify" /\ overlay' = work.resources /\ UNCHANGED <<why, todo, work>>
     \/ Refuse("io")
  /\ UNCHANGED <<game, csv, plan, edits, left, rounds>>

(* verify_written: the files a block ends up with give its intended rows. *)
BlockVerified(e) ==
  LET fs == Over(game, overlay)
      f == e.block.file
      enable == ParseEnable(fs[f.enable].of)
      offsets == ParseOffsets(fs[f.offsets].of)
      Row(t) == e.rows[f.begin + t.index]
  IN /\ enable.sound /\ offsets.sound
     /\ Len(fs[f.offsets].of) <= f.count
     /\ offsets.length = Len(fs[f.data].of)
     /\ enable.ids = DOMAIN e.rows
     /\ {f.begin + t.index : t \in offsets.slots} = DOMAIN e.rows
     /\ \A t \in offsets.slots :
          /\ RowParses(Bytes(fs[f.data].of, t), SubSeq(e.block.columns, 1, Len(Row(t))))
          /\ Bytes(fs[f.data].of, t) = Row(t)

\* A planned document is loaded again over the overlay.
DocumentVerified(v) ==
  LET fs == Over(game, overlay)
      sheets == ParseDocument(fs[v.id].of)
      blocks == BlocksOf(fs, sheets)
  IN /\ sheets = ParseDocument(v.document)
     /\ DocumentLoads(fs, sheets)
     /\ Cardinality(blocks) = v.count
     /\ \A b \in blocks : <<b.file, DOMAIN b.rows>> \in v.blocks

Verify ==
  /\ pc = "verify"
  /\ IF (\A e \in work.intended : BlockVerified(e)) /\ \A v \in work.verify : DocumentVerified(v)
     THEN pc' = "done" /\ UNCHANGED <<why, todo, work, overlay>>
     ELSE pc' = "refused" /\ why' = "verification" /\ overlay' = <<>> /\ UNCHANGED <<todo, work>>
  /\ UNCHANGED <<game, csv, plan, edits, left, rounds>>

\* Somebody installs the overlay, or starts over, and extracts again.
Again ==
  /\ pc \in {"done", "refused"} /\ rounds < MaxRounds
  /\ game' = Over(game, overlay) /\ csv' = Extraction(game') /\ csv' # Refused
  /\ plan' = NoPlan /\ pc' = "edit" /\ why' = "nothing" /\ todo' = {} /\ work' = NoWork
  /\ overlay' = <<>> /\ edits' = 0 /\ rounds' = rounds + 1 /\ UNCHANGED left

Next == User \/ Begin \/ ImportDocument \/ Write \/ Verify \/ Again
Spec == Init /\ [][Next]_vars

----------------------------------------------------------------------------
(* An extraction nobody edited is imported as no change at all: every cell the
   extraction shows is read back as the stored value, in merged, repeated and
   omitted cells too, and no block is encoded anew (edit_block_with_defaults). *)
UneditedImportsNothing ==
  edits = 0 => /\ DOMAIN work.resources = {}
               /\ pc = "refused" => why = "io"

(* After a successful import without a plan or with one, extracting the client
   with the overlay over it gives the tables that were asked for: every edited
   CSV as it was edited, every discarded one as it was (import_with_plan). *)
ImportedIsAsked ==
  LET Asked(before, after) ==
        /\ after # Refused
        /\ \A name \in DOMAIN after : after[name] = IF name \in DOMAIN csv THEN csv[name] ELSE before[name]
  IN pc = "done" => Asked(Extraction(game), Extraction(Over(game, overlay)))

(* What the encoders write, the readers accept: the verification of an overlay
   nobody else wrote to never fails (verify_written, the reload of documents). *)
VerificationAgrees == why # "verification"

(* Without a plan the import writes only resources whose bytes differ from the
   client's, and no definition document ("Write only resources whose bytes differ
   from the client", import_directory). *)
OnlyChangesWritten ==
  plan = NoPlan => \A id \in DOMAIN work.resources :
    /\ id \in DOMAIN game /\ work.resources[id] # game[id]
    /\ work.resources[id].as = game[id].as /\ game[id].as # "definition"

\* The entries of a plan that grow a file of a document of this name.
Growth(p, name, f) == {i \in DOMAIN p.grow : p.grow[i].csv = name /\ p.grow[i].begin = f.begin}

GrownAsked(p, name, f) ==
  IF Growth(p, name, f) = {} THEN f
  ELSE [f EXCEPT !.count = p.grow[CHOOSE i \in Growth(p, name, f) : TRUE].count]

AddedFile(a, t) ==
  [begin |-> a.begin, count |-> a.count, data |-> t.data, enable |-> t.enable, offsets |-> t.offsets]

\* The files that a plan's entries add to a sheet of a document of this name.
AddedTo(p, name, sheet) ==
  UNION {{AddedFile(p.add[i], t) :
            t \in {u \in Range(p.add[i].targets) : u.sheet = sheet.name /\ u.lang = sheet.lang}} :
         i \in {j \in DOMAIN p.add : p.add[j].csv = name}}

\* The files of a sheet are in order and disjoint; those of old are still there, as large or larger.
FilesKept(old, new) ==
  /\ \A i, j \in DOMAIN new : i < j => new[i].begin + new[i].count <= new[j].begin
  /\ \A f \in Range(old) : \E g \in Range(new) : g.count >= f.count /\ [g EXCEPT !.count = f.count] = f

\* The files of a sheet are the ones a plan asks for: no other, and none is missing.
FilesAsked(p, name, sheet) == {GrownAsked(p, name, f) : f \in Range(sheet.files)} \cup AddedTo(p, name, sheet)

FilesPlanned(p, name, old, new) ==
  FilesKept(old.files, new.files) /\ Range(new.files) = FilesAsked(p, name, old)

SheetsPlanned(p, name, old, new) ==
  /\ DOMAIN old = DOMAIN new
  /\ \A s \in DOMAIN new : new[s].kind = "definition" => FilesPlanned(p, name, old[s], new[s])

(* In a definition document a plan rewrote, the files of every sheet are exactly
   those shipped, each with the count the plan gives it, and those the plan adds to
   this sheet, however many entries name it and at either end; they are sorted and
   disjoint, and no shipped file has moved, shrunk or changed its resources
   (definition_edits, edit_definition). *)
PlannedDefinitions ==
  \A id \in DOMAIN work.resources : work.resources[id].as = "definition" =>
    \E n \in Named(game) :
      n.id = id /\ SheetsPlanned(plan, n.name, ParseDocument(game[id].of), ParseDocument(work.resources[id].of))
=============================================================================
