------------------------------ MODULE ZonePackage ------------------------------
(* Zone packages and region roots (apps/cli/src/{zone_package,append_region,
   allocation_inventory}.rs) over a client tree and the overlays the loader applies
   before it: a package allocates a layout, a model, a collision and an auxiliary
   key and registers the layout in the catalog; append-region registers a resource
   alone.  The user puts what a command made on top of the overlays, or drops it.

   One action is one command or one step of its user.  A tree does not change while
   a command runs, as the documentation asks; how the files of a package reach the
   output directory is ZonePublish, and what a package's files hold is ZoneFloor.
   A path is a key and whether it is spelled as numeric_path spells it, or Absent
   for a file the scan cannot map. *)
EXTENDS Region

CONSTANTS
  CatalogKey,   \* 0x03C00000
  Clients,      \* trees: functions from paths to contents
  Stacks,       \* overlays of the user's own, the first one first
  Packages,     \* [project, like, likeChild, add]: the layout's key is the resource to add
  Appends,      \* [like, likeChild, environment, add]
  MaxOverlays,  \* bound on what is put on top
  InputsOf(_),  \* the client files that a project pins: [path, content]
  Admits(_),    \* whether load_project takes what they hold
  FloorOf       \* what a project makes of them: [layout, model, phb], or Refused

VARIABLES
  client,     \* the client tree
  overlays,   \* what the loader looks in first: [files, made]
  ready       \* what the last command wrote

pvars == <<client, overlays, ready>>

Path(key) == [key |-> key, upper |-> TRUE]
CatalogPath == Path(CatalogKey)
OfUser == [by |-> "user"]

\* What the callers of append_region_root give of a root and its child.
Additions == [rootKey : Nat, rootName : STRING, childKey : Nat, childName : STRING,
              type : Nat \cup {Absent}, resource : Nat]
CatalogTyped(files) == CatalogPath \in DOMAIN files => files[CatalogPath] \in RegionFile

ASSUME KeysAssumption == CatalogKey \in Nat /\ Absent \notin Int
ASSUME TreesAssumption ==
  /\ \A tree \in Clients : CatalogTyped(tree)
  /\ \A stack \in Stacks :
       /\ Len(stack) \in Nat /\ DOMAIN stack = 1 .. Len(stack)
       /\ \A i \in DOMAIN stack : CatalogTyped(stack[i])
ASSUME RequestsAssumption ==
  /\ \A package \in Packages :
       /\ package.add \in Additions
       /\ {package.project.binding.newModel, package.project.binding.newPhb} \subseteq Nat
  /\ \A request \in Appends : request.add \in Additions

----------------------------------------------------------------------------
(* DatRoots and the inventory. *)

\* resolve: the first overlay that has the path, else the client.
Holders(path) == {i \in DOMAIN overlays : path \in DOMAIN overlays[i].files}
Exists(path) == Holders(path) # {} \/ path \in DOMAIN client
Resolved(path) ==
  IF Holders(path) # {} THEN overlays[Min(Holders(path))].files[path]
  ELSE IF path \in DOMAIN client THEN client[path] ELSE Refused

\* load_input: the client holds what the project pins.
Pinned(project) ==
  \A input \in InputsOf(project) : input.path \in DOMAIN client /\ client[input.path] = input.content

\* The keys of every root's numeric paths, however they are spelled.
ScannedKeys ==
  {path.key : path \in DOMAIN client \cup UNION {DOMAIN overlays[i].files : i \in DOMAIN overlays}}
    \ {Absent}

Catalog == IF Resolved(CatalogPath) = Refused THEN Refused ELSE Parse(Resolved(CatalogPath))

\* check: an allocation of a package.
KeyFree(table, key) ==
  /\ key # 0
  /\ key \notin ScannedKeys
  /\ ~Exists(Path(key))
  /\ \A i \in DOMAIN table.rows : table.rows[i].dat # key
  /\ \A r \in DOMAIN table.roots : Root(table, r).word20 # key
  /\ key \notin Derived(table)

\* Faulty variant: the overlays may hold other inputs than the pinned ones.
NotChecked(project) == TRUE

Unshadowed(project) == \A input \in InputsOf(project) : Holders(input.path) = {}

----------------------------------------------------------------------------
(* The commands. *)

PInit ==
  /\ client \in Clients
  /\ overlays \in {[i \in DOMAIN stack |-> [files |-> stack[i], made |-> OfUser]] : stack \in Stacks}
  /\ ready = Absent

\* The registration of a package's layout: the output, and what is read of it again.
Registered(input, output, table, add, auxiliary) ==
  LET last == Len(table.roots)
      type == table.rows[table.roots[last] + 1].word04
  IN /\ AuxiliaryKey(table, last) = [status |-> "derived", key |-> auxiliary]
     /\ AppendVerified(input, output, add, type, auxiliary, <<>>)

PackageFiles(output, floor, keys) ==
  [path \in {CatalogPath} \cup {Path(keys[i]) : i \in 1..3} |->
     IF path = CatalogPath THEN output
     ELSE CASE path = Path(keys[1]) -> floor.layout
            [] path = Path(keys[2]) -> floor.model
            [] path = Path(keys[3]) -> floor.phb]

\* prepare: everything a package writes, in memory.
Prepared(package, floor, input, catalog) ==
  LET project == package.project
      layoutKey == package.add.resource
      auxiliary == layoutKey + 1
      keys == <<layoutKey, project.binding.newModel, project.binding.newPhb, auxiliary>>
      Keep(output) ==
        IF output = Refused \/ ~Registered(input, output, Parse(output), package.add, auxiliary) THEN Refused
        ELSE [files |-> PackageFiles(output, floor, keys),
              made |-> [by |-> "package", claims |-> ToSet(keys), add |-> package.add,
                        auxiliary |-> auxiliary, project |-> project]]
  IN IF /\ Admits(project)
        /\ Pinned(project)
        /\ Unshadowed(project)
        /\ floor # Refused
        /\ catalog # Refused
        /\ layoutKey % Low # Low - 1
        /\ IsInjective(keys)
        /\ \A i \in DOMAIN keys : KeyFree(catalog, keys[i])
     THEN Keep(AppendRoot(input, package.like, package.likeChild, package.add, Absent))
     ELSE Refused
Prepare(package) == Prepared(package, FloorOf[package.project], Resolved(CatalogPath), Catalog)

\* A command that fails writes nothing.
Put(made) == made # Refused /\ ready' = made

\* build-zone-package; validate-zone-package says as much and writes nothing.
Build(package) ==
  /\ ready = Absent
  /\ Len(overlays) < MaxOverlays
  /\ Put(Prepare(package))
  /\ UNCHANGED <<client, overlays>>

\* append-region, of the catalog that the loader would read.
AppendTo(input, request) ==
  LET Type(table, template) ==
        IF request.add.type # Absent THEN request.add.type
        ELSE Children(table, template)[TemplateChild(table, template, request.likeChild)].word04
      Template(table) == CHOOSE r \in RootsWith(table, request.like) : TRUE
      Auxiliary(environment) == Derive(request.add.resource, <<[dat |-> request.add.resource]>> \o environment)
      Keep(output, type, auxiliary, environment) ==
        IF ~AppendVerified(input, output, request.add, type, auxiliary, environment) THEN Refused
        ELSE [files |-> [path \in {CatalogPath} |-> output],
              made |-> [by |-> "append", claims |-> {request.add.resource, auxiliary},
                        add |-> request.add, auxiliary |-> auxiliary]]
      With(table, output, environment) ==
        Keep(output, Type(table, Template(table)), Auxiliary(environment), environment)
      In(table, output) ==
        IF output = Refused THEN Refused ELSE With(table, output, Environment(table, request.environment))
  IN In(Parse(input), AppendRoot(input, request.like, request.likeChild, request.add, request.environment))

Append1(request) ==
  /\ ready = Absent
  /\ Len(overlays) < MaxOverlays
  /\ Resolved(CatalogPath) # Refused
  /\ Put(AppendTo(Resolved(CatalogPath), request))
  /\ UNCHANGED <<client, overlays>>

\* The user puts the output before the other overlays.
Deploy ==
  /\ ready # Absent
  /\ overlays' = <<ready>> \o overlays
  /\ ready' = Absent
  /\ UNCHANGED client

Drop ==
  /\ ready # Absent
  /\ ready' = Absent
  /\ UNCHANGED <<client, overlays>>

PNext ==
  \/ \E package \in Packages : Build(package)
  \/ \E request \in Appends : Append1(request)
  \/ Deploy
  \/ Drop

PSpec == PInit /\ [][PNext]_pvars

----------------------------------------------------------------------------
Made == {i \in DOMAIN overlays : overlays[i].made.by # "user"}
Built == {i \in DOMAIN overlays : overlays[i].made.by = "package"}

\* The catalog the client has without what was made.
BaseCatalog ==
  LET own == {i \in Holders(CatalogPath) : i \notin Made}
  IN IF own # {} THEN overlays[Min(own)].files[CatalogPath] ELSE client[CatalogPath]

RowsNamed(table, name) == {k \in DOMAIN table.rows : table.rows[k].name = name}
RowsWith(table, key) == {k \in DOMAIN table.rows : table.rows[k].dat = key}

\* A registered root, where the client finds it.
FoundAt(table, made, r) ==
  /\ RootsWith(table, made.add.rootKey) = {r}
  /\ Children(table, r)[1].dat = made.add.resource
  /\ AuxiliaryKey(table, r) = [status |-> "derived", key |-> made.auxiliary]
  /\ RowsNamed(table, made.add.rootName) = {table.roots[r]}
  /\ RowsNamed(table, made.add.childName) = {table.roots[r] + 1}

(* However many packages and roots are stacked, the catalog the client reads keeps
   every row it had, in place, and finds each registered root by its key alone, with
   the resource, the auxiliary key and the names it was given (append_region_root). *)
RegistrationsKept ==
  Made # {} =>
    LET table == Catalog
        base == BaseCatalog.rows
    IN /\ SubSeq(table.rows, 1, Len(base)) = base
       /\ table.size = Len(table.rows)
       /\ \A i \in Made : \E r \in DOMAIN table.roots : FoundAt(table, overlays[i].made, r)

\* What the other roots derive, or Absent.
OthersOf(table, made) ==
  {AuxiliaryKey(table, r).key : r \in {s \in DOMAIN table.roots : Root(table, s).id # made.add.rootKey}}

ApartIn(table, made) ==
  /\ Cardinality(RowsWith(table, made.add.resource)) = 1
  /\ RowsWith(table, made.auxiliary) = {}
  /\ {made.add.resource, made.auxiliary} \cap OthersOf(table, made) = {}

(* No key is claimed twice: a package's four keys are none of an older package's or
   root's, no registered resource is a row's or what any other root derives, and no
   derived key is a resource (zone_package's check and append_region_root). *)
KeysApart ==
  /\ \A i \in Built : \A j \in Made :
       i < j => overlays[i].made.claims \cap overlays[j].made.claims = {}
  /\ \A i \in Made : ApartIn(Catalog, overlays[i].made)

(* Whatever is stacked on a package later, the client still loads the package's own
   layout, model and collision, and the very inputs that it was authored and
   checked against, but for the catalog, which every package replaces (prepare's
   shadowing check and occupancy checks). *)
ScenesLoad ==
  \A i \in Built :
    /\ \A path \in DOMAIN overlays[i].files \ {CatalogPath} : Resolved(path) = overlays[i].files[path]
    /\ \A input \in InputsOf(overlays[i].made.project) :
         input.path # CatalogPath => Resolved(input.path) = input.content
=============================================================================
