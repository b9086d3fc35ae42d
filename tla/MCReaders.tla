------------------------------ MODULE MCReaders ------------------------------
(* The extraction of a handful of small files, one or two at a time, and the *)
(* verification of what it wrote; or a resolver of fixed controls over a     *)
(* client of a few sheets in English and in German.                          *)
EXTENDS ReadersSession

Grey(n) == [r |-> n, g |-> n, b |-> n, a |-> n]
Cells(n, size, first) == Cell(size, [magic |-> "surface", cells |-> [i \in 1..n |-> Grey(first + i)]])
Dxt(first) == [c0 |-> first, c1 |-> 2, select |-> [k \in 1..16 |-> k % 4], a0 |-> first, a1 |-> 3,
               alphas |-> [k \in 1..16 |-> k % 8]]
BlockCells(size, first) == Cell(size, [magic |-> "surface", cells |-> <<Dxt(first)>>])

\* Textures: two mips, one block, another writer's opaque bytes, surfaces
\* apart from each other, six faces, and no surface table.
TwoMips == BuildGtex(4, 2, 1, <<Cells(2, 8, 0), Cells(1, 4, 7)>>)
OneBlock == BuildGtex(24, 4, 4, <<BlockCells(8, 1)>>)
Small == BuildGtex(22, 1, 1, <<Cells(1, 2, 3)>>)
Foreign == [OneBlock EXCEPT !.heads[0].opaque = <<0, 0, 2>>]
Apart ==
  LET head == [TwoMips.heads[0] EXCEPT !.base = 64]
  IN Cat([length |-> 64, heads |-> 0 :> head @@ 24 :> [magic |-> "entry", offset |-> 0, size |-> 8]
                                   @@ 32 :> [magic |-> "entry", offset |-> 12, size |-> 4]
                                   @@ 48 :> [magic |-> "kept"]],
         Join(<<Cells(2, 8, 0), Cell(4, [magic |-> "kept"]), Cells(1, 4, 7)>>))
Cube ==
  LET head == [OneBlock.heads[0] EXCEPT !.flags = 1, !.base = 80]
  IN Cat([length |-> 80, heads |-> (0 :> head) @@ [a \in {24 + 8 * i : i \in 0..5} |->
                                                     [magic |-> "entry", offset |-> a - 24, size |-> 8]]],
         Join([i \in 1..6 |-> BlockCells(8, i)]))
Bare == Cell(24, [OneBlock.heads[0] EXCEPT !.table = 0, !.base = 24])

\* A PWIB: a txb block and a type block in the directory, in either order.
Txb == Join(<<Cell(48, [magic |-> "SEDB", subtype |-> "txb", version |-> 1, endian |-> 0, header |-> 0]),
              Cell(24, [OneBlock.heads[0] EXCEPT !.base = 0]), Cell(8, [magic |-> "entry", offset |-> 4, size |-> 8])>>)
Directory(rows, names, blocks) ==
  Join(<<Cell(96, [magic |-> "SEDB", subtype |-> "RES ", version |-> 1, endian |-> 0, header |-> 64,
                   declared |-> 188, count |-> 2, repeat |-> 2, names |-> 88, rows |-> rows])>>
       \o blocks \o <<Cell(4, [magic |-> "names", names |-> names])>>)
Row(i, a, n) == [index |-> i, offset |-> a, size |-> n, kind |-> 0]
PwibOf(first) ==
  Join(<<Cell(16, [magic |-> "PWIB", first |-> 16, second |-> 204, total |-> 216]), first,
         Cell(4, [magic |-> "kept"]), BlockCells(8, 5), Pad(2)>>)
Selectable == PwibOf(Directory(<<Row(0, 0, 80), Row(1, 80, 8)>>, <<"texture", "RESOURCE_TYPE">>,
                               <<Txb, Cell(8, [magic |-> "types", types |-> <<"txb", "rt">>])>>))
MetadataFirst == PwibOf(Directory(<<Row(1, 0, 8), Row(0, 8, 80)>>, <<"texture", "RESOURCE_TYPE">>,
                                  <<Cell(8, [magic |-> "types", types |-> <<"rt", "txb">>]), Txb>>))

\* Fonts: their textures, one that no reader accepts among them, and a key table.
Chunk(tag, payload) == Cat(Cell(8, [magic |-> "chunk", tag |-> tag, size |-> payload.length]), payload)
Scalar(tag, v) == Chunk(tag, Cell(4, [magic |-> "value", value |-> v]))
Record(r) == [resource |-> r, selector |-> 0, width |-> 2, height |-> 1, word8 |-> 0, word10 |-> 1, word12 |-> 0]
Glyphs(n) == Chunk("GLYP", Cell(14 * n, [magic |-> "glyphs", glyphs |-> [i \in 1..n |-> Record(i - 1)]]))
Tables == <<Chunk("HTBL", Cell(2, [magic |-> "pages", pages |-> <<0, -1>>])),
            Chunk("LTBL", Cell(4, [magic |-> "words", words |-> <<0, 1>>]))>>
FontOf(textures) ==
  Join([i \in DOMAIN textures |-> Chunk("GTEX", textures[i])]
       \o <<Scalar("FSIZ", 8), Scalar("BSLN", 6)>> \o Tables \o <<Glyphs(2), Pad(3)>>)
Versioned ==
  Join(<<Scalar("VERS", 4), Chunk("GTEX", TwoMips), Scalar("TEXC", 0), Scalar("FSIZ", 8), Scalar("FSMX", 1),
         Scalar("BSLN", 6), Scalar("HMGN", 1)>> \o Tables \o <<Glyphs(2), Chunk("KERN", Pad(2))>>)

\* Containers: a leaf, a directory with the leaf in it, and every directory
\* of two rows of a few offsets and sizes.
Leaf == Cat(Cell(20, [magic |-> "SEDB", subtype |-> "phb", version |-> 1, endian |-> 0, header |-> 20,
                      declared |-> 24, count |-> 0, repeat |-> 0, names |-> 0, rows |-> <<>>]), Pad(4))
ResOf(rows, body, declared) ==
  Cat(Cell(64 + 16 * Len(rows),
           [magic |-> "SEDB", subtype |-> "RES ", version |-> 1, endian |-> 0, header |-> 64,
            declared |-> declared, count |-> Len(rows), repeat |-> Len(rows), names |-> 0, rows |-> rows]),
      body)
Nested == ResOf(<<Row(0, 0, 24), Row(1, 24, 112)>>,
                Join(<<Leaf, ResOf(<<Row(0, 4, 24)>>, Join(<<Pad(4), Leaf>>), 108), Pad(8)>>), 240)
Torn == ResOf(<<Row(0, 0, 24)>>, Cat(Cell(20, [Leaf.heads[0] EXCEPT !.declared = 99]), Pad(4)), 104)
Twice(a, b) == ResOf(<<Row(0, a, 24), Row(1, b, 24)>>, Join(<<Leaf, Leaf>>), 144)
Swept == {ResOf(<<Row(0, a, m), Row(1, b, n)>>, Pad(12), 108 - cut) : a, b, m, n \in {0, 4, 8}, cut \in {0, 4}}

\* Wrapped documents.
Chunk51 == LuaSignature \o <<0, 1>>
Document(n) == Signature \o [i \in 1..n |-> i]
RawLpb == WriteLpb([raw |-> TRUE, tag |-> <<1, 2, 3, 4>>, decoded |-> Chunk51], <<>>)
XorLpb(size) == WriteLpb([raw |-> FALSE, tag |-> <<1, 2, 3, 4>>, byte12 |-> 9, decoded |-> Chunk51], size)
OtherLua == WriteLpb([raw |-> TRUE, tag |-> <<1, 2, 3, 4>>, decoded |-> LuaSignature], <<>>)

File(name, id, img) == [name |-> name, id |-> id, image |-> img]
One(img) == <<File("a", 1, img)>>

MCLuaChunks == {Chunk51}
MCXmlDocuments == {Document(n) : n \in 0..3}
MCEdited ==
  {One(TwoMips), One(Selectable), One(FontOf(<<TwoMips, OneBlock>>)), One(Nested), One(RawLpb),
   <<File("a", 1, TwoMips), File("b", Absent, OneBlock)>>, <<File("a", 1, Leaf), File("s", 2, XorLpb(<<0, 0, 1, 0>>))>>}
MCDisks ==
  MCEdited \cup {One(img) : img \in Swept \cup {OneBlock, Small, Foreign, Apart, Cube, Bare, MetadataFirst,
                    FontOf(<<Pad(9), OneBlock>>), FontOf(<<>>), Versioned, Leaf, Torn, Twice(0, 0), Twice(0, 24),
                    OtherLua,
                    XorLpb(SizeWord(7)), XorLpb(<<0, 0, 1, 0>>), EncodeWithKey(Document(1), 5)}
                    \cup {EncodeScrambled(Document(n)) : n \in 0..3}
                    \cup {EncodeSqwt(Document(n), "a") : n \in 0..2}}
  \cup {One(EncodeSqwt(Document(1), "b")), <<File("a", Absent, Selectable), File("b", 3, Selectable)>>}

MCHows == {Absent, "sedb", "fdt", "lpb-bytecode"}
MCRequests == [materialize : BOOLEAN, dds : BOOLEAN, png : BOOLEAN, entry : {Absent, 0, 1}]
MCBatches == {<<1>>, <<1, 2>>, <<2, 1>>}

-----------------------------------------------------------------------------
(* The client's sheets *)

T(s) == [k |-> "text", s |-> s]
Text(s) == <<T(s)>>
Copied == [k |-> "copied", s |-> "nbsp"]
Ref(key, column) == [k |-> "sheet", s |-> Command, key |-> key, column |-> column]
RefTo(sheet, key) == [k |-> "sheet", s |-> sheet, key |-> key, column |-> 255]

\* Three files of a sheet's block, the data in two versions.
Pin(id) == [id |-> id, version |-> 0]
SheetBlock(name, types, begin, count) ==
  [pins |-> <<Pin(<<name, "data">>), Pin(<<name, "enable">>), Pin(<<name, "offsets">>)>>,
   types |-> types, begin |-> begin, count |-> count]
FilesOf(name, types, begin, count, slots, rows, other) ==
  <<name, "data", 0>> :> [types |-> types, rows |-> rows]
  @@ <<name, "data", 1>> :> [types |-> types, rows |-> other]
  @@ <<name, "enable", 0>> :> [keys |-> [i \in DOMAIN slots |-> begin + slots[i]], sound |-> TRUE]
  @@ <<name, "offsets", 0>> :> [slots |-> slots, count |-> count, rows |-> Len(rows), sound |-> TRUE]

FixedTypes == <<"u32", "str", "str", "str">>
Descriptor(category, parts) == <<category, [i \in DOMAIN parts |-> T(parts[i])], <<>>, <<>>>>
Phrase(category, rich) == <<category, <<>>, rich, rich>>
FixedSlots == <<0, 1, 2, 3, 4, 5, 6, 7, 8, 9, 10, 11>>
FixedRows(said) ==
  <<Descriptor(1, <<"@">>), Descriptor(2, <<Command>>), Descriptor(4, <<"#">>), Descriptor(3, <<Command>>),
    Descriptor(5, <<DisplayName, "noun">>), Descriptor(6, <<PlaceName, "noun">>), Descriptor(7, <<"xtx/other">>),
    Descriptor(8, <<DisplayName>>), Phrase(1, Text(said)), Descriptor(9, <<FixedPhrase>>),
    Phrase(1, <<T("said"), [k |-> "control", s |-> "c"]>>),
    Phrase(2, Text(said))>>

CommandTypes == <<"str", "s8">>
CommandRows(said) ==
  <<<<<<T("go"), Ref(1, 255), Copied>>, 0>>, <<Text(said), 0>>, <<<<Ref(2, 255)>>, 0>>, <<<<T("x"), Ref(3, 2)>>, 0>>,
    <<<<Ref(20, 255)>>, 0>>, <<<<RefTo(PlaceName, 0)>>, 0>>>>

PlaceTypes == <<"str">>
EnglishTypes == <<"str", "str", "s8", "s8", "s8">>
EnglishRows(said) ==
  <<<<Text(said), Text("plural"), 0, 0, 1>>, <<Letters(<<"one", "[", "n", "]">>), Text("plural"), 0, 0, 1>>,
    <<<<T("one"), Copied>>, Text("plural"), 1, 0, 1>>>>
GermanTypes == <<"str", "s8", "str", "s8", "s8", "s8", "s8">>
GermanRows(said) ==
  <<<<Text(said), 0, Text("plural"), 0, 0, 0, 0>>,
    <<Letters(<<"[", "[", "p", "]", "a", "]", "ding">>) \o <<Copied>>, 1, Text("plural"), 0, 0, 3, 1>>,
    <<Text(said), -27, Text("plural"), 0, 0, 0, 1>>>>
AttributiveTypes == <<"s8">> \o [i \in 1..16 |-> "str"]
ParticleTypes == <<"s8">> \o [i \in 1..6 |-> "str"]
ParticleRows(said) == <<<<0>> \o [i \in 1..6 |-> Text(said)]>>
AttributiveSlots == <<5, 24, 25, 26, 27>>
AttributiveRows(said) ==
  LET row(rich) == <<0>> \o [i \in 1..16 |-> rich]
  IN <<row(Letters(<<"der", "[", "p", "a", "]">>)), row(Text(said)), row(<<>>), row(<<>>), row(<<>>)>>

Pairs ==
  FilesOf("fixed", FixedTypes, 100, 12, FixedSlots, FixedRows("hello"), FixedRows("goodbye"))
  @@ FilesOf("command", CommandTypes, 0, 8, <<0, 1, 2, 3, 4, 5>>, CommandRows("there"), CommandRows("here"))
  @@ FilesOf("place", PlaceTypes, 0, 4, <<0>>, <<<<Text("home")>>>>, <<<<Text("away")>>>>)
  @@ FilesOf("names", EnglishTypes, 0, 4, <<0, 1, 2>>, EnglishRows("a thing"), EnglishRows("a sting"))
  @@ FilesOf("namen", GermanTypes, 0, 4, <<0, 1, 2>>, GermanRows("ding"), GermanRows("ring"))
  @@ FilesOf("articles", AttributiveTypes, 0, 30, AttributiveSlots, AttributiveRows("e"), AttributiveRows("en"))
  @@ FilesOf("particles", ParticleTypes, 0, 30, <<5>>, ParticleRows("a"), ParticleRows("an"))
  @@ FilesOf("namae", <<"str">>, 0, 4, <<0, 1>>, <<<<Text("mono")>>, <<Text("kata")>>>>, <<<<Text("mono")>>, <<Text("kana")>>>>)
  @@ [p \in {<<"settings", c, v>> : c \in {"fixed", "command", "names", "articles"}, v \in {0, 1}} |-> "settings"]
MCContents == [p \in {<<<<q[1], q[2]>>, q[3]>> : q \in DOMAIN Pairs} |-> Pairs[<<p[1][1], p[1][2], p[2]>>]]

SheetInput(blocks, fields, types, default, settings) ==
  [blocks |-> blocks, fields |-> fields, types |-> types, default |-> default,
   configuration |-> [i \in DOMAIN settings |-> Pin(<<"settings", settings[i]>>)]]
DisplayInput(name, types, attributive) ==
  LET block == SheetBlock(name, types, 0, 4)
      input == SheetInput(<<block>>, [i \in DOMAIN types |-> i], types, 1, <<"names", "command", "articles">>)
  IN [f \in DOMAIN input \cup {"target", "attributive"} |->
        CASE f = "target" -> [block EXCEPT !.count = 3] [] f = "attributive" -> attributive [] OTHER -> input[f]]
SheetInputs(column, name, types, attributive) ==
  FixedPhrase :> SheetInput(<<SheetBlock("fixed", FixedTypes, 100, 12)>>, <<column, column + 1>>, <<"str", "str">>, column, <<"fixed">>)
  @@ Command :> SheetInput(<<SheetBlock("command", CommandTypes, 0, 8)>>, <<column, column + 2>>, CommandTypes, column, <<"command">>)
  @@ PlaceName :> SheetInput(<<SheetBlock("place", PlaceTypes, 0, 4)>>, <<column>>, PlaceTypes, column, <<>>)
  @@ DisplayName :> DisplayInput(name, types, attributive)
MCInputs ==
  LET particles == SheetBlock("particles", ParticleTypes, 0, 30) IN
  "ja" :> SheetInputs(0, "namae", <<"str">>, particles)
  @@ "en" :> SheetInputs(1, "names", EnglishTypes, particles)
  @@ "de" :> SheetInputs(2, "namen", GermanTypes, SheetBlock("articles", AttributiveTypes, 0, 30))
MCSheetNames == {FixedPhrase, Command, PlaceName, DisplayName, "xtx/other"}

Question(category, key, words) == [category |-> category, key |-> key, words |-> words]
Simple(category, key) == Question(category, key, Absent)
Singular == <<0, 1, 5, 0>>
MCLookups ==
  <<Simple(0, 108), Simple(0, 110), Simple(0, 111), Simple(1, 0), Simple(1, 2), Simple(1, 3), Simple(1, 4), Simple(2, 0),
    Simple(3, 0), Simple(4, 0), Simple(4, 1), Simple(4, 2), Question(4, 0, Singular), Question(4, 1, Singular),
    Question(1, 0, Singular), Simple(5, 0), Simple(6, 0), Simple(7, 1), Simple(1, 5), Simple(7, 9), Simple(8, 108)>>
Says(question) == [k |-> "lookup", question |-> question]
Literal == [k |-> "text"]
MCMessages ==
  <<<<Literal, Says(Simple(0, 108)), Says(Simple(4, 0)), Literal>>,
    <<Says(Simple(1, 0)), Says(Simple(3, 0)), Literal, Says(Simple(4, 1)), Literal>>,
    <<Says(Simple(1, 0)), [k |-> "error"]>>, <<Literal, [k |-> "selector"]>>,
    <<Says(Simple(0, 108)), Literal, Literal, Literal, Literal, Literal>>>>
MCChanging == {<<"fixed", "data">>, <<"command", "data">>, <<"settings", "articles">>, <<"articles", "data">>}
=============================================================================
