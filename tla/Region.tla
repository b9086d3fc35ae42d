-------------------------------- MODULE Region --------------------------------
(* The region catalog, as src/formats/src/{region,region_write}.rs read and extend
   it: a size word, a count of roots, and rows of one width, each root followed by
   the children it counts.  Operators only.

   Sizes are counted in rows.  A resource key is a number below 2^32 in the code;
   its low half is key % Low here, so that a small Low reaches the key whose low
   half has no successor.  A name is a model string. *)
EXTENDS Integers, Sequences, FiniteSets, FiniteSetsExt, SequencesExt

CONSTANTS
  Low,        \* keys per family: 0x10000
  MaxRows,    \* the most rows whose size the size word can hold
  Printable,  \* the names of 1 to 15 printable ASCII bytes
  Refused,    \* the result of an operation that fails
  Absent      \* an option that is not given

ASSUME RegionAssumption == Low \in Nat \ {0} /\ MaxRows \in Nat /\ Refused \notin Nat

\* id, dat and four words; name: what the constructors copy; ended: has a NUL.
Row(id, type, dat, children, argument, name, ended) ==
  [id |-> id, word04 |-> type, dat |-> dat, word0c |-> children, word20 |-> argument,
   name |-> name, ended |-> ended]

RowRecord == [id : Nat, word04 : Nat, dat : Nat, word0c : Nat, word20 : Nat, name : STRING, ended : BOOLEAN]

\* The size word and the count as they are written; tail: what follows the rows.
RegionFile == [size : Nat, count : Nat, rows : Seq(RowRecord), tail : Nat]

Length(file) == Len(file.rows) + file.tail

\* Rows taken after each root, every child count checked before its rows are.
Walk(file) ==
  LET taken[i \in 0 .. file.count] ==
        IF i = 0 THEN 0
        ELSE IF taken[i - 1] = Refused THEN Refused
        ELSE LET children == file.rows[taken[i - 1] + 1].word0c
                 left == Len(file.rows) - taken[i - 1] - 1
             IN IF children + (file.count - i) > left THEN Refused
                ELSE taken[i - 1] + 1 + children
  IN taken

\* The table: where the roots are among the rows, and what follows the last one.
Parse(file) ==
  IF file.count > Len(file.rows) \/ Walk(file)[file.count] = Refused THEN Refused
  ELSE LET taken == Walk(file)
       IN [size |-> file.size,
           roots |-> [i \in 1 .. file.count |-> taken[i - 1] + 1],
           rows |-> SubSeq(file.rows, 1, taken[file.count]),
           trailing |-> Length(file) - taken[file.count]]

Root(table, r) == table.rows[table.roots[r]]
Children(table, r) ==
  SubSeq(table.rows, table.roots[r] + 1, table.roots[r] + Root(table, r).word0c)
RootsWith(table, key) == {r \in DOMAIN table.roots : Root(table, r).id = key}

Family(key) == key - (key % Low)
Highest(children) == Max({0} \cup {children[i].dat % Low : i \in DOMAIN children})
Derive(first, children) == Family(first) + Highest(children) + 1

\* The key of the extra resource a root asks for, or why it asks for none.
AuxiliaryKey(table, r) ==
  LET children == Children(table, r)
      Status(why, key) == [status |-> why, key |-> key]
  IN IF Root(table, r).word20 # 0 THEN Status("nonzero-layout-argument", Absent)
     ELSE IF children = <<>> THEN Status("no-children", Absent)
     ELSE IF \E i \in DOMAIN children : children[i].dat % Low = Low - 1
          THEN Status("low-index-overflow", Absent)
     ELSE Status("derived", Derive(children[1].dat, children))

Derived(table) ==
  {AuxiliaryKey(table, r).key : r \in {s \in DOMAIN table.roots :
                                         AuxiliaryKey(table, s).status = "derived"}}

----------------------------------------------------------------------------
(* append_region_root: a root and a child after templates, and optionally the
   weather and sky children (types 0 and 1) of another root. *)

Scenery(row) == row.word04 \in {0, 1}

\* The weather and sky rows of a sequence, one after the other.
SceneryOf(rows) ==
  LET copied[i \in 0 .. Len(rows)] ==
        IF i = 0 THEN <<>>
        ELSE IF Scenery(rows[i]) THEN Append(copied[i - 1], rows[i]) ELSE copied[i - 1]
  IN copied[Len(rows)]

TemplateChild(table, r, likeChild) ==
  LET children == Children(table, r)
      eligible == {i \in DOMAIN children : ~Scenery(children[i])}
  IN IF likeChild # Absent
     THEN IF likeChild + 1 \in DOMAIN children THEN likeChild + 1 ELSE Refused
     ELSE IF eligible = {} THEN Refused ELSE Min(eligible)

\* The rows copied from the environment root; Refused when it is not one.
Environment(table, key) ==
  IF key = Absent THEN <<>>
  ELSE IF Cardinality(RootsWith(table, key)) # 1 THEN Refused
  ELSE LET copies == SceneryOf(Children(table, CHOOSE r \in RootsWith(table, key) : TRUE))
       IN IF copies = <<>> THEN Refused ELSE copies

\* Faulty variant: the keys that existing roots derive are not looked at.
OccupiedRowsOnly(table) == {table.rows[i].dat : i \in DOMAIN table.rows}

\* The resources that a new key must avoid in the catalog.
OccupiedInCatalog(table) == {table.rows[i].dat : i \in DOMAIN table.rows} \cup Derived(table)

\* Faulty variant: the names of the roots are looked at, their children's are not.
RootNamesFree(table, add) ==
  /\ {add.rootName, add.childName} \subseteq Printable
  /\ add.rootName # add.childName
  /\ \A r \in DOMAIN table.roots : Root(table, r).name \notin {add.rootName, add.childName}

NamesFree(table, add) ==
  /\ {add.rootName, add.childName} \subseteq Printable
  /\ add.rootName # add.childName
  /\ \A i \in DOMAIN table.rows : table.rows[i].name \notin {add.rootName, add.childName}

KeysFree(table, add) ==
  /\ add.rootKey \in 1 .. (Low - 1)
  /\ RootsWith(table, add.rootKey) = {}
  /\ \A i \in DOMAIN table.rows : table.rows[i].id # add.childKey

ResourceFree(table, add, environment) ==
  LET auxiliary == Derive(add.resource, <<[dat |-> add.resource]>> \o environment)
  IN /\ add.resource # 0
     /\ add.resource % Low # Low - 1
     /\ add.resource \notin OccupiedInCatalog(table)
     /\ \A i \in DOMAIN environment : environment[i].dat % Low # Low - 1
     /\ auxiliary \notin OccupiedInCatalog(table) \cup {add.resource}

\* The rows after a template root and its child, which may be Refused.
AppendRows(file, table, template, child, environment, add) ==
  LET source == Children(table, template)[child]
      type == IF add.type = Absent THEN source.word04 ELSE add.type
      rows == <<[Root(table, template) EXCEPT !.id = add.rootKey, !.ended = TRUE,
                   !.word0c = 1 + Len(environment), !.name = add.rootName],
                [source EXCEPT !.id = add.childKey, !.word04 = type, !.ended = TRUE,
                   !.dat = add.resource, !.name = add.childName]>> \o environment
  IN IF /\ table.trailing = 0 /\ table.size = Length(file)
        /\ Length(file) + 2 <= MaxRows
        /\ Root(table, template).word20 = 0
        /\ child # Refused
        /\ environment # Refused
        /\ Length(file) + 2 + Len(environment) <= MaxRows
        /\ KeysFree(table, add)
        /\ type \notin {0, 1}
        /\ NamesFree(table, add)
        /\ ResourceFree(table, add, environment)
     THEN [file EXCEPT !.size = Length(file) + Len(rows), !.count = @ + 1, !.rows = @ \o rows]
     ELSE Refused

AppendRoot(file, like, likeChild, add, environmentRoot) ==
  LET AppendAfter(table, template) ==
        AppendRows(file, table, template, TemplateChild(table, template, likeChild),
                   Environment(table, environmentRoot), add)
      In(table) == IF table = Refused THEN Refused
                   ELSE IF Cardinality(RootsWith(table, like)) # 1 THEN Refused
                   ELSE AppendAfter(table, CHOOSE r \in RootsWith(table, like) : TRUE)
  IN In(Parse(file))

\* append_region::verify_environment: what the command re-reads of its output.
TableVerified(input, output, table, add, type, auxiliary, environment) ==
  LET at == Len(input.rows) + 1
  IN /\ table # Refused
     /\ Len(output.rows) = Len(input.rows) + 2 + Len(environment)
     /\ table.trailing = 0 /\ table.size = Length(output)
     /\ output.count = input.count + 1
     /\ SubSeq(output.rows, 1, Len(input.rows)) = input.rows
     /\ table.roots[output.count] = at
     /\ Root(table, output.count).word0c = 1 + Len(environment)
     /\ output.rows[at].id = add.rootKey /\ output.rows[at].name = add.rootName
     /\ output.rows[at].ended /\ output.rows[at + 1].ended
     /\ output.rows[at + 1].id = add.childKey /\ output.rows[at + 1].name = add.childName
     /\ output.rows[at + 1].dat = add.resource /\ output.rows[at + 1].word04 = type
     /\ AuxiliaryKey(table, output.count) = [status |-> "derived", key |-> auxiliary]
     /\ SubSeq(output.rows, at + 2, Len(output.rows)) = environment

AppendVerified(input, output, add, type, auxiliary, environment) ==
  TableVerified(input, output, Parse(output), add, type, auxiliary, environment)
=============================================================================
