---------------------------- MODULE MCSheetImport ----------------------------
(* A client with two definition documents of one base name and a master.  The
   first has two languages that share column 0, with a scrambled text, a merged
   cell, a row of one language only and a row without its last value; the second
   shares an enable file with the first and declares a block that is not shipped. *)
EXTENDS SheetImport

MCSpelled == [str |-> {"", "a", "b"}, u8 |-> {"0", "1"}]

File(begin, count, id) == [begin |-> begin, count |-> count, data |-> id, enable |-> id + 1, offsets |-> id + 2]
Child(tag, params, files) == [tag |-> tag, params |-> params, declared |-> Len(files), files |-> files]
Sheet(name, lang, width, columns, index, files) ==
  [tag |-> "sheet", name |-> name, lang |-> lang, width |-> width, count |-> Len(columns), infofile |-> Absent,
   children |-> <<Child("type", columns, <<>>), Child("index", index, <<>>), Child("block", <<>>, files)>>]
Document(sheets) == [as |-> "definition", of |-> [root |-> "ssd", sheets |-> sheets]]
S(text) == Value("str", text, FALSE)
H(text) == Value("str", text, TRUE)
U(text) == Value("u8", text, FALSE)
R(first, count) == [first |-> first, count |-> count]
Put(id, as, of) == id :> [as |-> as, of |-> of]

MCClient ==
     (1 :> Document(<<Sheet("A", "ja", 3, <<"str", "u8">>, <<0, 1>>, <<File(10, 3, 11)>>),
                      Sheet("A", "en", 3, <<"str", "str">>, <<0, 2>>, <<File(10, 3, 21)>>)>>))
  @@ (2 :> Document(<<Sheet("A", "ja", 1, <<"str">>, <<0>>,
                            <<[File(10, 3, 31) EXCEPT !.enable = 22], File(20, 2, 41)>>)>>))
  @@ (3 :> Document(<<[tag |-> "sheet", name |-> "A", lang |-> Absent, width |-> Absent, count |-> Absent,
                       infofile |-> 1, children |-> <<>>]>>))
  @@ Put(11, "data", <<H("a"), U("0"), S(""), U("1")>>) @@ Put(12, "enable", <<R(10, 1), R(12, 1)>>)
  @@ Put(13, "offsets", <<2, 2, 4>>)
  @@ Put(21, "data", <<S("b"), S("a"), S("")>>) @@ Put(22, "enable", <<R(10, 2)>>) @@ Put(23, "offsets", <<2, 3>>)
  @@ Put(31, "data", <<S("a"), S("b")>>) @@ Put(33, "offsets", <<1, 2, 2>>)

Grow(name, begin, count) == [version |-> 1, add |-> <<>>, grow |-> <<[csv |-> name, begin |-> begin, count |-> count]>>]
Target(lang, id) == [sheet |-> "A", lang |-> lang, data |-> id, enable |-> id + 1, offsets |-> id + 2]
Add(name, begin, count, targets) ==
  [version |-> 1, grow |-> <<>>, add |-> <<[csv |-> name, begin |-> begin, count |-> count, targets |-> targets]>>]
\* Two insertions beside what a third plan grows.
Both(one, other, third) == [version |-> 1, grow |-> third.grow, add |-> one.add \o other.add]
MCPlans ==
  {NoPlan, Grow(<<"A", 1>>, 10, 4), Grow(<<"A", 1>>, 10, 3), Grow(<<"A", 2>>, 20, 3), Grow(<<"A", 2>>, 10, 12),
   Add(<<"A", 1>>, 13, 2, <<Target("ja", 51), Target("en", 54)>>),
   Add(<<"A", 2>>, 13, 7, <<Target("ja", 51)>>), Add(<<"A", 1>>, 12, 2, <<Target("ja", 51)>>),
   Add(<<"A", 1>>, 13, 2, <<Target("ja", 31)>>), Add(<<"A", 1>>, 8, 2, <<Target("ja", 51)>>),
   Both(Add(<<"A", 1>>, 15, 1, <<Target("ja", 51)>>), Add(<<"A", 1>>, 8, 2, <<Target("ja", 54)>>),
        Grow(<<"A", 1>>, 10, 5)),
   Both(Add(<<"A", 2>>, 14, 2, <<Target("ja", 51)>>), Add(<<"A", 2>>, 16, 4, <<Target("ja", 54)>>),
        Grow(<<"A", 2>>, 10, 4)),
   Both(Add(<<"A", 1>>, 14, 1, <<Target("ja", 51)>>), Add(<<"A", 1>>, 13, 2, <<Target("ja", 54)>>), NoPlan)}
=============================================================================
