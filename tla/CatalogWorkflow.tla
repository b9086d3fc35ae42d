--------------------------- MODULE CatalogWorkflow ---------------------------
(* The documented DAT workflow: `xivl catalog` inventories a tree, `xivl
   extract-catalog` extracts selected rows of that inventory, and `xivl
   verify-extraction --catalog --root` replays the sources.  The three commands
   run one after the other, for minutes, over a tree that anything (a patcher,
   the user) may edit at any moment, and each trusts what an earlier one wrote
   down.

   A source is its content: a member of Version, which says what the commands
   derive from the bytes.  Equal digests are equal contents.  How the batch gets
   on disk is BatchPublish; how a directory is read back is ExtractVerify. *)
EXTENDS Naturals, FiniteSets

CONSTANTS Sources,        \* DAT files below the root, numbered in walk order
          Version,        \* the contents a source may have
          Gone,           \* in place of a content: no such file
          RowId, FullId,  \* the resource id the root-relative and the full path name
          MaxResources, MaxSourceBytes, MaxOutputBytes,
          ManifestBytes,  \* batch manifest, without its own total, ...
          RecordBytes,    \* ... and one resource record in it
          Edits           \* bound on edits of the tree and of the output

ASSUME SourcesAssumption == Sources \in Nat \ {0}
ASSUME VersionAssumption ==
  Version \subseteq [size : Nat, out : Nat, usable : BOOLEAN, tag : Nat]
ASSUME GoneAssumption == Gone \notin Version
ASSUME LimitsAssumption ==
  {MaxResources, MaxSourceBytes, MaxOutputBytes, ManifestBytes, RecordBytes, Edits} \subseteq Nat

Source == 1..Sources
ASSUME IdsAssumption == DOMAIN RowId = Source /\ DOMAIN FullId = Source

Content == Version \cup {Gone}

VARIABLES
  tree,       \* the sources now
  rows,       \* the catalog: what each source held when its row was made
  pc,         \* the step the workflow is at
  todo,       \* sources the current pass has still to visit
  picked,     \* the selection
  data,       \* what extract-catalog read
  spent,      \* output bytes planned so far
  shelf,      \* the resource directories of the published batch
  total,      \* totals.outputBytes of the published batch manifest
  inventory,  \* the shelf as verify-extraction read it
  replayed,   \* what the verifier read back of the sources
  edits,      \* edits so far
  steady,     \* no edit since the selection was made
  watched     \* no edit since the verification began

inputs == <<tree, edits>>
extraction == <<data, spent, shelf, total>>
verification == <<inventory, replayed>>
vars == <<inputs, rows, pc, todo, picked, extraction, verification, steady, watched>>

Nothing == [s \in Source |-> Gone]
IsNext(s) == s \in todo /\ \A t \in todo : s <= t

(* What the sources add up to, one after the other. *)
Sum(amount) ==
  LET upto[s \in 0..Sources] == IF s = 0 THEN 0 ELSE upto[s - 1] + amount[s]
  IN upto[Sources]

SizesOf(contents, S) == Sum([s \in Source |-> IF s \in S THEN contents[s].size ELSE 0])
OutsOf(contents, S) == Sum([s \in Source |-> IF s \in S THEN contents[s].out ELSE 0])

Init ==
  /\ tree \in [Source -> Content]
  /\ rows = Nothing
  /\ pc = "catalog"
  /\ todo = Source
  /\ picked = {}
  /\ data = Nothing
  /\ spent = 0
  /\ shelf = Nothing
  /\ total = 0
  /\ inventory = Nothing
  /\ replayed = Nothing
  /\ edits = 0
  /\ steady = TRUE
  /\ watched = TRUE

---------------------------------------------------------------------------
(* xivl catalog: each file is read, hashed and inspected in its turn. *)

CatalogEntry(s) ==
  /\ pc = "catalog" /\ IsNext(s)
  /\ rows' = [rows EXCEPT ![s] = tree[s]]
  /\ todo' = todo \ {s}
  /\ UNCHANGED <<inputs, pc, picked, extraction, verification, steady, watched>>

Rows == {s \in Source : rows[s] # Gone}

(* parse_catalog, which refuses a catalog that is empty or names an id twice. *)
CatalogParses ==
  /\ Rows # {}
  /\ \A s, t \in Rows : RowId[s] = RowId[t] /\ s # t => RowId[s] = "none"

Stop == pc' = "refused" /\ todo' = {}

---------------------------------------------------------------------------
(* xivl extract-catalog. *)

(* The catalog is read, the selection resolved and its recorded sizes held
   against the limits, before any source is touched. *)
SelectionFits(S) ==
  /\ CatalogParses
  /\ S \subseteq Rows
  /\ Cardinality(S) <= MaxResources
  /\ SizesOf(rows, S) <= MaxSourceBytes

Select(S) ==
  /\ pc = "catalog" /\ todo = {}
  /\ picked' = S
  /\ IF SelectionFits(S) THEN pc' = "stat" /\ todo' = S ELSE Stop
  /\ steady' = TRUE
  /\ UNCHANGED <<inputs, rows, extraction, verification, watched>>

(* The row's format and options, then the file's size. *)
StatSource(s) ==
  /\ pc = "stat" /\ IsNext(s)
  /\ IF rows[s].usable /\ tree[s] # Gone /\ tree[s].size = rows[s].size
       THEN pc' = "read" /\ todo' = todo
       ELSE Stop
  /\ UNCHANGED <<inputs, rows, picked, extraction, verification, steady, watched>>

(* Mutant: the bytes are believed because their size was right. *)
ReadSourceUnhashed(s) ==
  /\ pc = "read" /\ IsNext(s)
  /\ IF tree[s] # Gone /\ spent + tree[s].out <= MaxOutputBytes
       THEN /\ data' = [data EXCEPT ![s] = tree[s]]
            /\ spent' = spent + tree[s].out
            /\ pc' = "stat" /\ todo' = todo \ {s}
       ELSE Stop /\ UNCHANGED <<data, spent>>
  /\ UNCHANGED <<inputs, rows, picked, shelf, total, verification, steady, watched>>

(* The bytes, whose digest must be the row's: the size may have been right and
   the content still be another by now.  Their extraction is planned in memory. *)
ReadSource(s) ==
  /\ pc = "read" /\ IsNext(s)
  /\ IF tree[s] = rows[s] /\ spent + tree[s].out <= MaxOutputBytes
       THEN /\ data' = [data EXCEPT ![s] = tree[s]]
            /\ spent' = spent + tree[s].out
            /\ pc' = "stat" /\ todo' = todo \ {s}
       ELSE Stop /\ UNCHANGED <<data, spent>>
  /\ UNCHANGED <<inputs, rows, picked, shelf, total, verification, steady, watched>>

(* The decimal digits of a number. *)
Digits(n) ==
  LET digits[k \in 0..n] == IF k < 10 THEN 1 ELSE 1 + digits[k \div 10]
  IN digits[n]

(* The length of a batch manifest that states the total n. *)
ManifestLength(S, n) == ManifestBytes + Cardinality(S) * RecordBytes + Digits(n)

Passes == 8

(* The manifest states a total it is itself part of.  Each pass renders it with
   the total the previous one came to. *)
Estimate(S, bytes) ==
  LET pass[k \in 0..Passes] ==
        IF k = 0 THEN bytes ELSE bytes + ManifestLength(S, pass[k - 1])
  IN pass

Stable(S, bytes) ==
  {k \in 1..Passes : Estimate(S, bytes)[k] = Estimate(S, bytes)[k - 1]}

(* Mutant: the manifest is rendered once, with the total of the files so far. *)
RenderOnce ==
  /\ pc = "stat" /\ todo = {}
  /\ total' = spent + ManifestLength(picked, spent)
  /\ IF total' <= MaxOutputBytes THEN pc' = "publish" /\ todo' = todo ELSE Stop
  /\ UNCHANGED <<inputs, rows, picked, data, spent, shelf, verification, steady, watched>>

(* Mutant: the limit is not asked again once the manifest is rendered. *)
RenderUnlimited ==
  /\ pc = "stat" /\ todo = {}
  /\ total' = Estimate(picked, spent)[Passes]
  /\ pc' = "publish" /\ todo' = todo
  /\ UNCHANGED <<inputs, rows, picked, data, spent, shelf, verification, steady, watched>>

(* Mutant: the limit itself is refused. *)
RenderBelow ==
  /\ pc = "stat" /\ todo = {}
  /\ total' = Estimate(picked, spent)[Passes]
  /\ IF total' < MaxOutputBytes THEN pc' = "publish" /\ todo' = todo ELSE Stop
  /\ UNCHANGED <<inputs, rows, picked, data, spent, shelf, verification, steady, watched>>

(* render_batch, then the limit on the whole output. *)
Render ==
  /\ pc = "stat" /\ todo = {}
  /\ total' = Estimate(picked, spent)[Passes]
  /\ IF Stable(picked, spent) # {} /\ total' <= MaxOutputBytes
       THEN pc' = "publish" /\ todo' = todo
       ELSE Stop
  /\ UNCHANGED <<inputs, rows, picked, data, spent, shelf, verification, steady, watched>>

(* write_batch_atomically: all of it or none. *)
Publish ==
  /\ pc = "publish"
  /\ shelf' = data
  /\ pc' = "published"
  /\ UNCHANGED <<inputs, rows, todo, picked, data, spent, total, verification, steady, watched>>

(* A call that fails, or a kill, ends the workflow. *)
Fails ==
  /\ pc \in {"catalog", "stat", "read", "publish", "replay"}
  /\ pc' = "failed"
  /\ UNCHANGED <<inputs, rows, todo, picked, extraction, verification, steady, watched>>

---------------------------------------------------------------------------
(* xivl verify-extraction --catalog --root. *)

Inventory ==
  /\ pc = "published"
  /\ inventory' = shelf
  /\ pc' = "replay"
  /\ todo' = picked
  /\ watched' = TRUE
  /\ UNCHANGED <<inputs, rows, picked, extraction, replayed, steady>>

(* Mutant: the source is looked at, but its digest is not compared. *)
ReplaySourceBySize(s) ==
  /\ pc = "replay" /\ IsNext(s)
  /\ IF /\ inventory[s] = rows[s]
        /\ tree[s] # Gone /\ tree[s].size = inventory[s].size
        /\ RowId[s] = FullId[s]
       THEN pc' = pc /\ todo' = todo \ {s} /\ replayed' = [replayed EXCEPT ![s] = tree[s]]
       ELSE Stop /\ replayed' = replayed
  /\ UNCHANGED <<inputs, rows, picked, extraction, inventory, steady, watched>>

(* One resource: its batch record against the catalog row (verify_catalog_record),
   the source as it is now against the nested manifest (verify_source_identity,
   verify_source), and the record against the nested manifest, whose resource id
   was taken from the source's full path. *)
ReplaySource(s) ==
  /\ pc = "replay" /\ IsNext(s)
  /\ IF /\ inventory[s] = rows[s]
        /\ tree[s] = inventory[s]
        /\ RowId[s] = FullId[s]
       THEN pc' = pc /\ todo' = todo \ {s} /\ replayed' = [replayed EXCEPT ![s] = tree[s]]
       ELSE Stop /\ replayed' = replayed
  /\ UNCHANGED <<inputs, rows, picked, extraction, inventory, steady, watched>>

(* The totals the manifest states against those of the files. *)
CheckTotals ==
  /\ pc = "replay" /\ todo = {}
  /\ pc' = IF total = OutsOf(inventory, picked) + ManifestLength(picked, total)
             THEN "accepted" ELSE "refused"
  /\ UNCHANGED <<inputs, rows, todo, picked, extraction, verification, steady, watched>>

---------------------------------------------------------------------------
(* Everyone else: a source is replaced, added or deleted; a resource directory
   of the output is replaced by the extraction of another content or deleted. *)

Edit ==
  /\ edits < Edits
  /\ edits' = edits + 1
  /\ steady' = FALSE /\ watched' = FALSE
  /\ \/ /\ \E s \in Source : \E v \in Content \ {tree[s]} : tree' = [tree EXCEPT ![s] = v]
        /\ shelf' = shelf
     \/ /\ pc \in {"published", "replay"}
        /\ \E s \in picked : \E v \in Content \ {shelf[s]} : shelf' = [shelf EXCEPT ![s] = v]
        /\ tree' = tree
  /\ UNCHANGED <<rows, pc, todo, picked, data, spent, total, verification>>

Step ==
  \/ \E s \in Source : CatalogEntry(s) \/ StatSource(s) \/ ReadSource(s) \/ ReplaySource(s)
  \/ \E S \in SUBSET Source \ {{}} : Select(S)
  \/ Render \/ Publish \/ Inventory \/ CheckTotals

Next == Step \/ Fails \/ Edit

(* The commands run to their end by themselves. *)
Fairness == WF_vars(Step)

Spec == Init /\ [][Next]_vars
FairSpec == Spec /\ Fairness

---------------------------------------------------------------------------
(* Properties. *)

ContentsOK ==
  /\ tree \in [Source -> Content] /\ rows \in [Source -> Content]
  /\ data \in [Source -> Content] /\ shelf \in [Source -> Content]
  /\ inventory \in [Source -> Content] /\ replayed \in [Source -> Content]
  /\ pc \in {"catalog", "stat", "read", "publish", "published", "replay",
             "accepted", "refused", "failed"}
  /\ todo \subseteq Source /\ picked \subseteq Source
  /\ steady \in BOOLEAN /\ watched \in BOOLEAN

TypeOK == ContentsOK /\ spent \in Nat /\ total \in Nat /\ edits \in 0..Edits

Extracting == pc \in {"stat", "read", "publish"}
Published == pc \in {"published", "replay", "accepted"}

(* What is extracted is what the catalog recorded and the user selected, and was
   fit for extraction, however the tree was edited between the catalog, the
   metadata call and the read.  (run of batch_extract.rs) *)
ExtractsTheCatalogued ==
  Published => \A s \in picked : data[s] = rows[s] /\ data[s].usable

(* The extraction in progress: the pass over the selection has taken exactly the
   sources it has passed ... *)
TakenInv ==
  Extracting =>
    /\ todo \subseteq picked
    /\ pc = "read" => \A s \in Source : IsNext(s) => rows[s].usable
    /\ pc = "publish" => todo = {}
    /\ \A s \in picked \ todo : data[s] = rows[s] /\ data[s].usable

(* ... and paid for them; what is about to be published states its own total. *)
SpentInv ==
  /\ pc = "catalog" => spent = 0
  /\ Extracting \/ Published => SelectionFits(picked)
  /\ Extracting => spent = OutsOf(data, picked \ todo)
  /\ pc = "publish" => total = spent + ManifestLength(picked, total) /\ total <= MaxOutputBytes

(* The verification in progress: what it has passed agreed, and still does unless
   something was edited. *)
ReplayInv ==
  pc \in {"replay", "accepted"} =>
    /\ todo \subseteq picked
    /\ pc = "accepted" => todo = {}
    /\ \A s \in picked \ todo : inventory[s] = rows[s] /\ replayed[s] = rows[s]
    /\ watched => shelf = inventory /\ \A s \in picked \ todo : tree[s] = rows[s]

(* As long as nothing is edited, tree, batch and inventory are one. *)
SteadyInv ==
  /\ Extracting \/ pc \in {"catalog", "published"} => inventory = Nothing
  /\ steady /\ Extracting => \A s \in picked \ todo : tree[s] = data[s]
  /\ steady /\ pc \in {"published", "replay"} => shelf = data /\ \A s \in picked : tree[s] = data[s]
  /\ steady /\ pc = "replay" => inventory = data

IInv == TypeOK /\ ExtractsTheCatalogued /\ TakenInv /\ SpentInv /\ ReplayInv /\ SteadyInv

(* The limits bound what was really read and written, manifest included, and the
   total the manifest states is exact.  (run, render_batch) *)
WithinLimits ==
  Published =>
    /\ Cardinality(picked) <= MaxResources
    /\ SizesOf(data, picked) <= MaxSourceBytes
    /\ total = OutsOf(data, picked) + ManifestLength(picked, total)
    /\ total <= MaxOutputBytes

(* An accepted replay means that output, catalog and sources agreed, each as it
   was read; and if nothing was edited meanwhile, that they still do.
   (verify_batch with --catalog and --root) *)
AcceptedAgrees ==
  pc = "accepted" =>
    /\ \A s \in picked : inventory[s] = rows[s] /\ replayed[s] = rows[s]
    /\ watched => \A s \in picked : tree[s] = rows[s] /\ shelf[s] = rows[s]

(* The verifier never refuses what extract-catalog has just published from a tree
   that nobody edits.  (docs/resource-extraction.md:33-39, the last step of the
   workflow; verify_batch against render_batch) *)
OwnOutputVerifies ==
  steady /\ pc = "refused" => inventory = Nothing

(* What may be extracted, said of the selection at once. *)
Admissible(S) ==
  /\ SelectionFits(S)
  /\ \A s \in S : rows[s].usable /\ rows[s] = tree[s]
  /\ \E n \in 0..MaxOutputBytes : n = OutsOf(rows, S) + ManifestLength(S, n)

(* An admissible selection from an undisturbed tree ends up extracted and
   verified, unless a call fails: no limit is met too early, no pass over the
   selection stops short, and the rendering settles.  (run, verify_batch) *)
AdmissibleIsVerified ==
  picked # {} /\ steady /\ Admissible(picked)
    ~> pc = "accepted" \/ pc = "failed" \/ ~steady
=============================================================================
