------------------------------- MODULE Registry -------------------------------
(***************************************************************************)
(* The resolver of fixed controls (initial_registry.rs): it answers from   *)
(* the client's files, each read once, pinned by its digest and kept, and  *)
(* from the registry one of them is reconstructed into; references to      *)
(* other rows in an answer are followed (sheet_reference.rs), and a        *)
(* message is answered control by control (fixed_control.rs).              *)
(*                                                                         *)
(* A rich string is a sequence of atoms: literal text, a control that is   *)
(* copied, a reference to a row, another reference or another control.     *)
(* In text the brackets and the letters of the placeholders [p], [pa], [a] *)
(* and [n] are atoms of their own.                                         *)
(* A file is a version, Absent when missing; the program pins version 0.   *)
(***************************************************************************)
EXTENDS Images

CONSTANTS
  Inputs,         \* per locale: the sheets' blocks, columns and pins
  Contents,       \* what a version of a file holds
  SheetNames,     \* names a descriptor may give, "xtx/..." all
  MaxDepth, MaxReferences, MaxOutput,   \* of an expansion
  MaxControls,    \* of a message
  MaxMessage,     \* MAX_INPUT_BYTES, in parts
  Lookups,        \* sequences of questions and of messages, asked by index
  Messages,
  Changing,       \* the files that do not stay as they are
  MaxAsks, MaxChanges

VARIABLES
  locale,      \* of the resolver, Absent while there is none
  files,       \* the version each file has now
  cache,       \* what the resolver keeps: [resources, blocks, initial]
  asked,       \* the last question and its answer, or Absent
  known,       \* the questions this resolver has answered
  changes      \* of files, so far

resolverVars == <<locale, files, cache, asked, known, changes>>

FixedPhrase == "xtx/_fixedPhrase"
PlaceName == "xtx/placeName"
DisplayName == "xtx/displayName"
Command == "xtx/command"

HasTokens(rich) == \E a \in Range(rich) : a.k # "text"

Kept(kept, value) == [cache |-> kept, value |-> value]

\* What is made of a value that was read; a refusal keeps what it had read (?).
TryKept(r, Use(_, _)) == IF r.value = Refused THEN r ELSE Use(r.cache, r.value)

EmptyCache == [resources |-> <<>>, blocks |-> <<>>, initial |-> Absent]

-----------------------------------------------------------------------------
(* Files *)

\* Faulty variant: what is on the disk is kept without comparing its digest.
ReadUnchecked(kept, pin) ==
  IF pin.id \in DOMAIN kept.resources THEN Kept(kept, kept.resources[pin.id])
  ELSE IF files[pin.id] = Absent THEN Kept(kept, Refused)
  ELSE Kept([kept EXCEPT !.resources = (pin.id :> files[pin.id]) @@ @], files[pin.id])

\* read_pin: kept from the first reading on; only pinned bytes are kept.
ReadPin(kept, pin) ==
  IF pin.id \in DOMAIN kept.resources
  THEN Kept(kept, IF kept.resources[pin.id] = pin.version THEN pin.version ELSE Refused)
  ELSE IF files[pin.id] # pin.version THEN Kept(kept, Refused)
  ELSE Kept([kept EXCEPT !.resources = (pin.id :> pin.version) @@ @], pin.version)

\* The pins in order up to the first refusal; what was read before it is kept.
ReadPins(kept, pins) ==
  LET Read(acc, pin) ==
        TryKept(acc, LAMBDA before, list :
          TryKept(ReadPin(before, pin), LAMBDA after, version :
            Kept(after, Append(list, Contents[<<pin.id, version>>]))))
  IN FoldLeft(Read, Kept(kept, <<>>), pins)

\* parse_backing: the rows under their keys, if the three files are sound and
\* agree.
ParseBacking(data, enable, offsets, block) ==
  IF \/ ~offsets.sound \/ ~enable.sound
     \/ offsets.count # block.count \/ offsets.rows # Len(data.rows)
     \/ \E k \in Range(enable.keys) : k < block.begin \/ k >= block.begin + block.count
     \/ enable.keys # [i \in DOMAIN offsets.slots |-> block.begin + offsets.slots[i]]
     \/ data.types # block.types \/ Len(data.rows) # Len(offsets.slots)
  THEN Refused
  ELSE [i \in DOMAIN data.rows |-> [key |-> enable.keys[i], values |-> data.rows[i]]]

\* load: the rows of a block, kept under its pins, columns and extent.
LoadFrom(kept, block, same) ==
  LET Fresh(after, rows) ==
        IF rows = Refused THEN Kept(after, Refused)
        ELSE Kept([after EXCEPT !.blocks = Append(@, [block |-> block, rows |-> rows])], rows)
  IN IF same # <<>> THEN Kept(kept, same[1].rows)
     ELSE TryKept(ReadPins(kept, block.pins), LAMBDA after, read :
            Fresh(after, ParseBacking(read[1], read[2], read[3], block)))

Load(kept, block) == LoadFrom(kept, block, SelectSeq(kept.blocks, LAMBDA b : b.block = block))

RowOf(rows, key) ==
  LET First(found) == IF found = <<>> THEN Absent ELSE found[1]
  IN First(SelectSeq(rows, LAMBDA r : r.key = key))

\* ItemBlock::contains
BlockOf(blocks, key) ==
  LET First(found) == IF found = <<>> THEN Absent ELSE found[1]
  IN First(SelectSeq(blocks, LAMBDA b : b.begin <= key /\ key < b.begin + b.count))

-----------------------------------------------------------------------------
(* The registry *)

\* metadata: the category number and the parts of the descriptor.
Field0(row) == row.values[1]
Parts(row) == [i \in DOMAIN row.values[2] |-> row.values[2][i].s]

\* One row with a descriptor.  Only a row that lengthens the map enters it:
\* a category passed over stays unmapped.
Registered(registry, row) ==
  LET parts == Parts(row)
      category == Field0(row) - 1
      ordinal == Len(registry.categories)
      new == parts[1] \notin {"@", "#"}
      index == CASE parts[1] = "@" -> 0 [] parts[1] = "#" -> Absent [] OTHER -> Len(registry.descriptors)
      slots == Len(registry.map)
  IN IF registry = Refused THEN Refused
     ELSE IF HasTokens(row.values[2]) THEN Refused
     ELSE IF parts = <<>> THEN registry
     ELSE IF \/ category < 0 \/ category >= 128
             \/ new /\ parts[1] \notin SheetNames
             \/ ordinal >= 128 \/ (index # Absent /\ index >= 128)
     THEN Refused
     ELSE [map |-> IF category < slots THEN registry.map
                   ELSE [c \in 1..(category + 1) |->
                           IF c <= slots THEN registry.map[c] ELSE IF c = category + 1 THEN ordinal ELSE Absent],
           categories |-> Append(registry.categories, [key |-> row.key, descriptor |-> index]),
           descriptors |-> IF new THEN Append(registry.descriptors,
                                              [sheet |-> parts[1], noun |-> "noun" \in Range(parts)])
                           ELSE registry.descriptors]

Reconstruct(rows) ==
  FoldLeft(Registered,
           [map |-> <<>>, categories |-> <<>>, descriptors |-> <<[sheet |-> FixedPhrase, noun |-> FALSE]>>],
           rows)

\* initial_rows: reconstructed once.
InitialRegistry(kept) ==
  LET Keep(after, registry) ==
        IF registry = Refused THEN Kept(after, Refused)
        ELSE Kept([after EXCEPT !.initial = registry], registry)
  IN IF kept.initial # Absent THEN Kept(kept, kept.initial)
     ELSE TryKept(Load(kept, Inputs[locale][FixedPhrase].blocks[1]), LAMBDA after, rows :
            Keep(after, Reconstruct(rows)))

\* The descriptor index of a category: from the map, if it has one at all.
UnmappedCategory == [status |-> "unmapped-category", index |-> 0]
DescriptorOf(registry, category) ==
  IF category + 1 \notin DOMAIN registry.map THEN UnmappedCategory
  ELSE IF registry.map[category + 1] = Absent THEN UnmappedCategory
  ELSE LET entry == registry.categories[registry.map[category + 1] + 1]
       IN IF entry.descriptor = Absent THEN [status |-> "dynamic-category", index |-> 0]
          ELSE [status |-> "selected", index |-> entry.descriptor]

\* declared_provider and dispatch
ProviderOf == [ja |-> 0, en |-> 1, de |-> 2, fr |-> 3]
Provider(sheet) == IF locale = "en" \/ sheet = DisplayName THEN ProviderOf[locale] ELSE Absent
Dispatch(d) == IF d.noun /\ Provider(d.sheet) = 2 THEN "noun"
               ELSE IF ~d.noun \/ Provider(d.sheet) # Absent THEN "query" ELSE "provider-dependent-noun"

-----------------------------------------------------------------------------
(* Text *)

Nothing == [status |-> "none", reason |-> "", text |-> <<>>, references |-> <<>>]
Deferred(reason) == [Nothing EXCEPT !.status = "requires-evaluation", !.reason = reason]
Resolved(text) == [Nothing EXCEPT !.status = "resolved", !.text = text]
Stream(text) ==
  IF HasTokens(text) THEN [Resolved(text) EXCEPT !.status = "resolved-control-stream"] ELSE Resolved(text)

PositionIn(fields, column) ==
  IF column \in Range(fields) THEN CHOOSE p \in DOMAIN fields : fields[p] = column ELSE Absent

\* command_query: the one sheet a reference can reach.
CommandQuery(kept, reference) ==
  LET input == Inputs[locale][Command]
      no(with, reason) == [cache |-> with, value |-> Absent, reason |-> reason]
      Value(after, row, p) ==
        IF row = Absent THEN no(after, "sheet-row-not-found")
        ELSE [cache |-> after, value |-> row.values[p], reason |-> ""]
      Found(loaded, p) ==
        IF loaded.value = Refused THEN [cache |-> loaded.cache, value |-> Refused, reason |-> ""]
        ELSE Value(loaded.cache, RowOf(loaded.value, reference.key), p)
      InBlock(block, p) ==
        IF block = Absent THEN no(kept, "sheet-row-not-found") ELSE Found(Load(kept, block), p)
      Column(p) ==
        IF p = Absent THEN no(kept, "unsupported-sheet-column")
        ELSE IF input.types[p] # "str" THEN no(kept, "unsupported-sheet-column")
        ELSE InBlock(BlockOf(input.blocks, reference.key), p)
  IN IF reference.s # Command THEN no(kept, "unsupported-sheet-target")
     ELSE Column(PositionIn(input.fields,
                            IF reference.column = 255 THEN input.default ELSE reference.column))

RECURSIVE Evaluate(_, _, _)

\* evaluate, atom by atom until one has a reason to stop or a file is refused.
Evaluate(rich, depth, output) ==
  LET stop(o, reason) == [o EXCEPT !.reason = reason]
      append(o, a) == IF Len(o.text) >= MaxOutput THEN stop(o, "sheet-expansion-limit")
                      ELSE [o EXCEPT !.text = Append(@, a)]
      answered(o, a, q) ==
        IF q.value = Refused THEN [o EXCEPT !.failed = TRUE]
        ELSE IF q.reason # "" THEN stop(o, q.reason)
        ELSE Evaluate(q.value, depth + 1, [o EXCEPT !.references = Append(@, <<a.key, a.column>>)])
      queried(o, a, q) == answered([o EXCEPT !.cache = q.cache], a, q)
      follow(o, a) == queried(o, a, CommandQuery(o.cache, a))
      step(o, a) ==
        IF o.failed \/ o.reason # "" THEN o
        ELSE CASE a.k \in {"text", "copied"} -> append(o, a)
               [] a.k = "control" -> stop(o, "embedded-controls")
               [] a.k = "expression" -> stop(o, "unsupported-sheet-expression")
               [] a.k = "sheet" -> IF depth >= MaxDepth \/ Len(o.references) >= MaxReferences
                                   THEN stop(o, "sheet-expansion-limit") ELSE follow(o, a)
  IN FoldLeft(step, output, rich)

\* sheet_reference::resolve: all of the text or none.
Expanded(kept, rich) ==
  LET Text(o) ==
        Kept(o.cache, IF o.failed THEN Refused
                      ELSE [(IF o.reason = "" THEN Stream(o.text) ELSE Deferred(o.reason))
                            EXCEPT !.references = o.references])
  IN Text(Evaluate(rich, 0, [cache |-> kept, text |-> <<>>, references |-> <<>>, reason |-> "", failed |-> FALSE]))

\* plain_text and what follows it: the default column's text, if the row has
\* that column and it is a string.
DefaultText(kept, values, types, fields, column, query) ==
  LET p == PositionIn(fields, column) IN
  IF ~query THEN Kept(kept, Deferred("provider-dependent-noun"))
  ELSE IF p \notin {i \in DOMAIN values : types[i] = "str"}
       THEN Kept(kept, [Nothing EXCEPT !.status = "unsupported-default-field"])
  ELSE IF HasTokens(values[p]) THEN Expanded(kept, values[p])
  ELSE Kept(kept, Resolved(values[p]))

\* A literal placeholder, found only where its atoms follow each other.
Letters(s) == [i \in DOMAIN s |-> [k |-> "text", s |-> s[i]]]
Needle(s, rich) == Letters(s) \in SubSeqs(rich)

\* english_noun_text
EnglishNoun(row, types, attributive, words) ==
  LET v == row.values IN
  IF words # <<0, 1, 5, 0>> THEN Deferred("unsupported-noun-inputs")
  ELSE IF attributive = Absent THEN Deferred("attributive-row-not-found")
  ELSE IF types # <<"str", "str", "s8", "s8", "s8">> THEN Deferred("unsupported-noun-row")
  ELSE IF SubSeq(v, 3, 5) # <<0, 0, 1>> THEN Deferred("unsupported-noun-row")
  ELSE IF HasTokens(v[1]) THEN Deferred("embedded-controls")
  ELSE IF Needle(<<"[", "n", "]">>, v[1]) THEN Deferred("noun-count-replacement")
  ELSE Resolved(v[1])

\* german_literal_input
Copyable(rich) == \A a \in Range(rich) : a.k \in {"text", "copied"}

\* The first occurrence is replaced until there is none, which may join the
\* text of the replacement to what is beside it: each takes one bracket away.
Replaced(rich, s, cell) ==
  FoldLeft(LAMBDA text, i : ReplaceFirstSubSeq(cell, Letters(s), text), rich, rich)

\* One placeholder and the cell it stands for.
Placeholder(acc, s, cell) ==
  IF acc.reason # "" \/ ~Needle(s, acc.text) THEN acc
  ELSE IF HasTokens(cell) THEN [acc EXCEPT !.reason = "embedded-controls"]
  ELSE IF Needle(<<"[">>, cell) THEN [acc EXCEPT !.reason = "noun-replacement"]
  ELSE [acc EXCEPT !.text = Replaced(@, s, cell)]

\* german_noun_text: a prefix, then each placeholder replaced.
GermanNoun(row, types, attributive) ==
  LET v == row.values
      key == 26 + v[2]
      position == v[6]
      cell(k) == RowOf(attributive, k).values[position + 2]
      step(acc, change) == Placeholder(acc, change[1], cell(change[2]))
      Done(done) ==
        IF done.reason # "" THEN Deferred(done.reason)
        ELSE IF Needle(<<"[", "n", "]">>, done.text) THEN Deferred("noun-replacement")
        ELSE Stream(done.text)
  IN IF types # <<"str", "s8", "str", "s8", "s8", "s8", "s8">> THEN Deferred("unsupported-noun-row")
     ELSE IF ~Copyable(v[1]) THEN Deferred("embedded-controls")
     ELSE IF key < 0 THEN Deferred("attributive-row-not-found")
     ELSE IF position < 0 \/ position >= 16 THEN Deferred("unsupported-noun-column")
     ELSE IF \E k \in {5, key, 24, 25, 26} : RowOf(attributive, k) = Absent THEN Deferred("attributive-row-not-found")
     ELSE IF cell(key) # <<>> THEN Deferred("noun-suffix")
     ELSE IF v[7] = 0 /\ ~Copyable(cell(5)) THEN Deferred("embedded-controls")
     ELSE Done(FoldLeft(step, [text |-> IF v[7] = 0 THEN cell(5) \o v[1] ELSE v[1], reason |-> ""],
                        <<<<<<"[", "p", "]">>, key>>, <<<<"[", "p", "a", "]">>, 24>>, <<<<"[", "a", "]">>, 26>>>>))

-----------------------------------------------------------------------------
(* A lookup *)

Answer(status, lookup, resolution) == [status |-> status, lookup |-> lookup, resolution |-> resolution]

\* The rows a lookup is made in, or the status it ends with.
Rows(rows, resolution) == [ends |-> "", rows |-> rows, resolution |-> resolution]
Ends(lookup) == [ends |-> lookup, rows |-> <<>>, resolution |-> Nothing]

\* A sheet whose text needs no noun: its configuration, then the key's block.
InSheet(kept, sheet, key) ==
  LET input == Inputs[locale][sheet]
      In(block) ==
        IF block = Absent THEN Kept(kept, Ends("not-found"))
        ELSE TryKept(ReadPins(kept, input.configuration), LAMBDA after, read :
               TryKept(Load(after, block), LAMBDA last, rows : Kept(last, Rows(rows, Nothing))))
  IN In(IF sheet \in {FixedPhrase, PlaceName} THEN input.blocks[1] ELSE BlockOf(input.blocks, key))

\* The noun of a row, with the attributive rows beside it.
NounText(row, types, attributive, german, words) ==
  IF row = Absent THEN Nothing
  ELSE IF german THEN GermanNoun(row, types, attributive)
  ELSE EnglishNoun(row, types, RowOf(attributive, words[3]), words)

\* displayName: with German rows or an explicit English context, the
\* attributive rows and the noun's text too.
InDisplay(kept, key, noun, words) ==
  LET input == Inputs[locale][DisplayName]
      german == locale = "de" /\ noun
      Beside(last, rows) ==
        IF ~german /\ words = Absent THEN Kept(last, Rows(rows, Nothing))
        ELSE TryKept(Load(last, input.attributive), LAMBDA after, attributive :
               Kept(after, Rows(rows, NounText(RowOf(rows, key), input.types, attributive, german, words))))
      In(block) ==
        IF block = Absent THEN Kept(kept, Ends("not-found"))
        ELSE TryKept(ReadPins(kept, SubSeq(input.configuration, 1, IF german \/ words # Absent THEN 3 ELSE 2)),
                     LAMBDA after, read : TryKept(Load(after, block), Beside))
  IN IF words # Absent /\ BlockOf(<<input.target>>, key) = Absent
     THEN Kept(kept, Ends("unsupported-noun-block"))
     ELSE In(BlockOf(input.blocks, key))

\* The row itself: a fixed phrase only if it is one of its category.
MatchedRow(kept, d, index, row, resolution, q) ==
  LET input == Inputs[locale][d.sheet]
      Shown(s) == IF index = 0 THEN SubSeq(s, 3, Len(s)) ELSE s
      Selected(lookup) == Kept(kept, Answer("selected", lookup, resolution))
  IN IF row = Absent THEN Selected("not-found")
     ELSE IF index = 0 /\ HasTokens(row.values[2]) THEN Kept(kept, Refused)
     ELSE IF index = 0 /\ ~(Field0(row) - 1 = q.category /\ row.values[2] = <<>>)
          THEN Selected("not-ordinary-phrase")
     ELSE IF d.sheet = DisplayName /\ (q.words # Absent \/ Dispatch(d) # "query") THEN Selected("matched")
     ELSE TryKept(DefaultText(kept, Shown(row.values), Shown(input.blocks[1].types), input.fields,
                              input.default, Dispatch(d) = "query"),
                  LAMBDA after, text : Kept(after, Answer("selected", "matched", text)))

Matched(kept, d, index, found, q) ==
  IF found.ends # "" THEN Kept(kept, Answer("selected", found.ends, Nothing))
  ELSE MatchedRow(kept, d, index, RowOf(found.rows, q.key), found.resolution, q)

\* The rows of the descriptor a category selects.
Through(kept, of, d, q) ==
  IF of.status # "selected" THEN Kept(kept, Answer(of.status, "", Nothing))
  ELSE IF q.words # Absent /\ (~d.noun \/ d.sheet # DisplayName)
       THEN Kept(kept, Answer("selected", "", Deferred("noun-context-not-applicable")))
  ELSE IF d.sheet \notin DOMAIN Inputs[locale]
       THEN Kept(kept, Answer("selected", "unsupported-key-association", Nothing))
  ELSE TryKept(IF d.sheet = DisplayName THEN InDisplay(kept, q.key, d.noun, q.words)
               ELSE InSheet(kept, d.sheet, q.key),
               LAMBDA after, found : Matched(after, d, of.index, found, q))

\* Resolver::resolve
Resolve(kept, q) ==
  LET Selecting(after, registry, of) == Through(after, of, registry.descriptors[of.index + 1], q)
  IN IF q.words # Absent /\ locale # "en" THEN Kept(kept, Refused)
     ELSE TryKept(InitialRegistry(kept), LAMBDA after, registry :
            Selecting(after, registry, DescriptorOf(registry, q.category)))

\* One control's answer: its text if it has one, the control itself otherwise.
Keep(o, added) == [o EXCEPT !.output = @ \o added, !.complete = FALSE]
Answered(o, part, answer) ==
  IF answer = Refused THEN [o EXCEPT !.failed = TRUE]
  ELSE IF answer.resolution.status \in {"resolved", "resolved-control-stream"}
  THEN [o EXCEPT !.output = @ \o answer.resolution.text]
  ELSE Keep(o, <<[k |-> part.k, s |-> ""]>>)

AnsweredWith(o, part, r) == Answered([o EXCEPT !.cache = r.cache, !.controls = @ + 1], part, r.value)

\* Past the limit all the rest is kept as it is.
MessagePart(parts, o, i) ==
  LET part == parts[i]
      same == <<[k |-> part.k, s |-> ""]>>
  IN IF o.failed \/ o.stopped THEN o
     ELSE IF o.controls = MaxControls /\ part.k # "text"
     THEN [Keep(o, [j \in 1..(Len(parts) - i + 1) |-> [k |-> parts[i + j - 1].k, s |-> ""]]) EXCEPT !.stopped = TRUE]
     ELSE CASE part.k = "text" -> [o EXCEPT !.output = Append(@, [k |-> "text", s |-> ""])]
            [] part.k = "lookup" -> AnsweredWith(o, part, Resolve(o.cache, part.question))
            [] part.k = "selector" -> [Keep(o, same) EXCEPT !.controls = @ + 1]
            [] part.k = "error" -> Keep(o, same)

MessageTold(o) ==
  Kept(o.cache, IF o.failed THEN Refused
                ELSE [output |-> o.output, complete |-> o.complete, controls |-> o.controls])

\* message_report, part by part.
MessageReport(kept, parts) ==
  MessageTold(FoldLeft(LAMBDA o, i : MessagePart(parts, o, i),
                       [cache |-> kept, output |-> <<>>, controls |-> 0, complete |-> TRUE,
                        stopped |-> FALSE, failed |-> FALSE], [i \in DOMAIN parts |-> i]))

\* Resolver::resolve_message
ResolveMessage(kept, parts) ==
  IF Len(parts) > MaxMessage THEN Kept(kept, Refused) ELSE MessageReport(kept, parts)

-----------------------------------------------------------------------------
(* The resolver among changing files *)

FileIds == {c[1] : c \in DOMAIN Contents}

\* Resolver::new reads nothing.
ResolverInit ==
  /\ locale \in DOMAIN Inputs
  /\ files = [id \in FileIds |-> 0]
  /\ cache = EmptyCache /\ asked = Absent /\ known = {} /\ changes = 0

Asks == IF asked = Absent THEN 0 ELSE asked.number

\* Whoever holds a resolver asks it again, after a refusal too.
Ask(kind, of, r) ==
  /\ Asks < MaxAsks
  /\ cache' = r.cache
  /\ asked' = [number |-> Asks + 1, kind |-> kind, of |-> of, answer |-> r.value, before |-> <<kind, of>> \in known]
  /\ known' = IF r.value = Refused THEN known ELSE known \cup {<<kind, of>>}
  /\ UNCHANGED <<locale, files, changes>>

AskLookup(i) == Ask("lookup", i, Resolve(cache, Lookups[i]))

AskMessage(i) == Ask("message", i, ResolveMessage(cache, Messages[i]))

\* A new resolver checks the files again.
NewResolver ==
  /\ Asks < MaxAsks /\ cache # EmptyCache
  /\ cache' = EmptyCache /\ known' = {}
  /\ UNCHANGED <<locale, files, asked, changes>>

\* Someone replaces, removes or restores one file.
ChangeClient(id, version) ==
  /\ changes < MaxChanges /\ files[id] # version
  /\ files' = [files EXCEPT ![id] = version] /\ changes' = changes + 1
  /\ UNCHANGED <<locale, cache, asked, known>>

ResolverNext ==
  \/ \E i \in DOMAIN Lookups : AskLookup(i)
  \/ \E i \in DOMAIN Messages : AskMessage(i)
  \/ NewResolver
  \/ \E id \in DOMAIN files \cap Changing, version \in {0, 1, Absent} : ChangeClient(id, version)
=============================================================================
