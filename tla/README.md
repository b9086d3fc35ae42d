# xivl-tools: a TLA+ model of what the commands do

`xivl` is a command-line program that reads an installed client's resources and
writes extractions, catalogs, overlays, rebuilt resources and zone packages.
Each command is one single-threaded process; there is no daemon, no lock file
and no shared memory. Two kinds of thing can go wrong.

* *On disk, between two system calls.* What the runs share is the file system: with
  each other (two terminals, a script started twice), with the user, and with
  their own successors after a failure. The publication modules model how each
  command checks its output, creates, fills, verifies, publishes and cleans up.
* *Between two commands, or two parts of one file.* One command reads what another
  wrote, a package is stacked on the package before, an edited sheet shares its
  files with another, a verifier recomputes what an exporter computed, a resolver
  keeps what it read once. The content modules model what the files hold, as far
  as these commands have to agree about it.

Contents: [components](#components) · [how they interact](#how-they-interact) ·
[modules](#modules) · [runs](#runs-and-bounds) · [fairness](#fairness) ·
[proofs](#proofs) · [findings](#findings) · [not modelled](#what-is-not-modelled) ·
[plan](#plan)

## Components

All paths are below `src/`. The commands are in `apps/cli/src`, the formats in
`src/formats/src`.

| component | state it keeps | operations | what makes it correct |
|---|---|---|---|
| batch publication: `extract-catalog` (`batch_extract.rs`) | a staging directory named after the process id; the output directory | check for an empty output, stage, write, check again, remove the empty output, rename, restore it on failure | the output is nothing or a whole batch; nothing of anybody's is deleted; contention alone defeats nobody |
| catalog workflow: `catalog`, `extract-catalog`, `verify-extraction` (`scan.rs`, `batch_extract.rs`, `verify_extract.rs`) | the catalog's rows, the selection, spent limits, the manifest's own total | scan, select, stat, read and hash, render to a fixed point, publish, inventory, replay of the sources | nothing stale is extracted or accepted; limits are exact; what is published verifies |
| one resource: `extract-resource`, `verify-extraction` (`resource_export.rs`, `verify_extract.rs`) | `payloads/`, a manifest in one of two formats | check, `create_dir payloads`, write payloads, write the manifest; walk, read, read the manifest again, compare | a manifest marks a complete extraction; the verdict is right though runs interleave |
| zone builders: `build-zone-project`, `build-zone-package` (`zone_project.rs`, `zone_package.rs`) | the output directory, the resources, `build-report.json.pending` | `create_dir`, create/write/sync each file, read back, probe, rename the report | a report stands over durable, complete resources, crashes and power failures included |
| single-file writers: `append-region`, `edit-staticactor`, `encode-gtex`, `pack-lpb`, `allocation-inventory`, `materialize-command-loadout`, `extract-lpb` | one new file | check, `create_new`, write, read back, remove on failure, report | nobody's file is overwritten or removed; success means a whole file |
| sheet import and extraction: `import-sheets`, `extract` (`import_sheets.rs`, `extract.rs`) | the overlay tree; `CreatedPaths`, what the run has made | extract to CSV; plan the edits of data, enable ranges, offsets and definitions; make directories, create files, verify, clean up | the overlay gives what the CSVs ask for and nothing else; the cleanup removes all and only what the run made |
| zone projects, packages, export (`zone_project.rs`, `zone_package.rs`, `zone_export.rs`) | none; over a client tree and stacked overlays | author a floor and compare it, allocate keys, register, export | no key is given twice; what was checked is what the client loads; no zone overwrites another's file |
| allocation inventory, overlays (`allocation_inventory.rs`) | none; one output file | which resource keys are taken, by client and overlays | a key it calls free is free in the tree that will be used |
| region, layout, static actors (`region.rs`, `region_write.rs`, `layout_edit.rs`, `staticactor_write.rs`) | none | counted walk, append, edit | the written file reads back as the edited one |
| zone resources (`zone.rs`, `model_import.rs`, `phb_author.rs`, `phb_tree.rs`) | none | walk a scene graph, replace a model's geometry, author and query collision | placements follow the graph's path; only the named stream changes; a query finds every triangle |
| resolver of fixed controls (`initial_registry.rs`, `sheet_reference.rs`, `fixed_control.rs`) | pinned files and parsed blocks, the reconstructed registry | look up a control, expand references, decode a message | answers come from pinned bytes only, and stay |
| sheet formats (`ssd.rs`, `ssd_edit.rs`, `sheet.rs`, `csv.rs`) | none | parse, edit, encode | exact round trip |
| containers, textures, wrappers (`sedb.rs`, `res_extents.rs`, `fdt.rs`, `lpb.rs`, `gtex_*.rs`, `dds.rs`, `texture_preview.rs`, `sqwt.rs`, `scrambled.rs`, `inspect.rs`) | none | inspect, validate, rebuild, convert | every byte is accounted for once; what is built reads back |
| phrase tables and batches (`fixed_phrase.rs`, `fixed_batch.rs`), rich strings (`richstring.rs`) | none | lookup, nested control sequences | decode and encode are inverse |
| command inspection and loadout (`command_inspect.rs`, `command_inspect/`) | none; one output file | slot assignment from a trace | every command lands in one slot |
| Lua 5.1 reader, sound banks, texture encoder, media readers, Blowfish, SHA-256 | none | sequential decoders of one input | golden tests |
| conformance runner (`apps/conformance`) | verdicts | runs cases | one failure fails the run |
| Python tools, CI actions (`tools`) | - | maintenance | outside the program |

## How they interact

* `catalog` → `extract-catalog` → `verify-extraction` hand files to each other
  over any length of time; the tree they describe may be edited in between.
* `extract-resource`'s emptiness check and its first write are separated by all of
  its reading and planning; another run or the user may be faster.
* `extract-catalog` reuses `extract-resource`'s writer inside a private staging
  directory and publishes by one `rename`.
* `build-zone-package` and `append-region` ask the client tree under its overlays
  which keys are taken; their output becomes the next overlay, which shadows all
  that was below it.
* `import-sheets` reads back the CSVs that `extract` wrote, over the same client.
* `verify-extraction` computes again, from the manifest's report or from the source,
  what `extract-resource` computed, with code of its own.
* A library user keeps one `Resolver` while the client may be patched under it.
* Every command can fail at each call, can be killed between two calls, and some
  (the zone builders) sync their files so that a power failure is answered for.

The behaviours that are hard to test are these: the order of calls of two
processes; a death between two calls; a check whose answer is old when it is
used; a cleanup that meets something it did not make; a number that is part of the
text whose length it states; a key derived from others that nobody wrote down; one
file that several documents share; a mutable path through a recursive walk; a cache
that outlives what it was read from. `PROJECT.json` lists them line by line under
`hazards`.

## Modules

Each state variable and action names the call it stands for; the file and lines of
every definition are in `PROJECT.json`, under `map`. An action is one system call
of one process (or several that touch nothing shared), with every branch the code
takes on its result. An operator marked *Faulty variant* or *Mutant* is no part of
the model: it is how the code could have been written wrongly, kept to show that
the properties notice.

### AtomicPublish (abstract)

What publication promises, in two variables: whose complete output stands at the
destination, and how each run has ended. A run starts, then wins and publishes in
one step, or loses; the user can withdraw the output; a power failure can take the
last publication back.

### BatchPublish

`write_batch_atomically`. `dir` maps the output path and each staging path to the
directory there, if any: who made it, which of its files are whole or torn, whether
something foreign is in it. A run goes

    check, plan, probe, stage, write/filling..., exists, recheck, rmdir, rename, done

with `abandon` (remove_dir_all of the staging directory, which may do any part of
its work) on a failed write or check, and `unstage`, `restore` after a failed
rename. A run gets any process id that no live run has, so that the staging path of
a dead run is met again. The user makes, fills, removes the output and sweeps
leftovers of dead runs. `AtomicPublication` maps it to `AtomicPublish`: only
a complete batch at the output counts as published, and no step of `AtomicPublish` lets
a run succeed without publishing.
Processes die; the machine does not: this code syncs nothing, and no doc says it
survives a power failure.

### ZonePublish

`new_output_directory`, `publish`, `write_new` and the two reports. Names are the
resources, the pending report and the report. A file is torn, cached (written, not
synced), synced, or wrong (a device stored something else). A package reads every
resource back before its report, a project does not. `PowerFails` loses any suffix
of the directory operations and the bytes of any unsynced file: directory
operations are assumed to reach the disk in the order they were made (journalled
metadata), file bytes are not. The user does not clear the directory away while a
run works in it; the docs ask for a new destination after a failure.

### NewFile

The one protocol that seven commands share, with their differences (`kind`): who
checks first, who reads back, who removes after a failure. `at` says whose file
stands at the path, `bytes` what each run's file holds wherever it is now, because
a user can move a file away under an open handle. The bytes a command prepares are
right or wrong, nothing more.

### OverlayPublish

`import-sheets` from the output check on: `CreatedPaths::directory` asks upwards
for a directory that exists (`Climb`) and makes the missing ones on its way back
(`MakeDir`), each resource is created exclusively, recorded and filled, everything
is read back, and on any error the recorded files and directories are removed in
reverse. Two runs may share the tree: nothing forbids it, and with disjoint
resources both succeed and their overlays are mixed. Directories and resources are
numbered in the order the code visits them (a `BTreeMap` over big-endian ids whose
bytes are the path). `misread` records that the verification has read a file of
another run in place of the client's, after which it may end either way.

### ExtractVerify

`write_to` against `verify_single`: runs with payloads and without, in both
manifest formats, each a resource of its own, in one directory with a verifier
that lists and reads the members, then reads the manifest a second time, and with
the user. An absent output and an empty one are the same to every guard, so the
model has one. A torn manifest never parses. A file that two open writes meet in
is torn and nobody's (`Mixed`): `fs::write` truncates.

### CatalogWorkflow

One `catalog`, one `extract-catalog`, one `verify-extraction --catalog --root`, in
sequence, over a tree and an output that are edited at any moment. A content is a
record of its size, of the bytes its extraction takes, whether it is usable (its
format has a reader, and the options allow it) and a tag: equal digests are equal
contents. The scan and each pass over the selection go source by source.
`Render` is the manifest's fixed point, with the decimal digits of its own total
and at most eight renderings, the last limit check included. Emptiness of the
output and its publication are `BatchPublish`'s and are one step here.
Sums over the selection and the number of digits are recursive functions, which the
proofs can unfold.

### SheetFormat, SheetImport

`SheetFormat` has the operators of the sheet formats: a definition document and its
elements, rows of typed values, enable ranges, row offsets, the CSV of a document.
A value is one unit of its data file and a text a model string; `Spelled` gives the
texts each type accepts. `SheetImport` is `extract`, then any edit of the CSVs the
bounds admit, with a block plan or without, then `import-sheets` as planned edits of
data, enable, offset and definition files and its verification, then `extract` again.
The tables are written in closed form, where the code fills them in: a column's type is
the one that all sheets declare there, a cell of the merged table is a recursive function
over the blocks in their order (`MergedCell`, one `AddValue` after the other), a document
is the concatenation of what its sheets' files load, and the registry of wanted and of
written files is a function (`Register`) beside the condition on which the code refuses
(`Conflict`). So are the files of a block: row offsets say where the last slot before each
entry ends (`EndBefore`), the data is laid slot by slot and the enable ranges row by row
(`EncodeRows`, `EncodeEnable`), and whether a document loads (`DocumentLoads`) is told
apart from what it loads (`LoadDocument`). How the overlay's files appear is
`OverlayPublish`'s and one step here.

### Region, Layout, ModelImport, PhbTree, ZoneFloor, ZonePackage, ZoneExport, ZoneTools

The zone formats and the commands on them. The first five and `ZoneExport` are
operators: the region catalog with its derived auxiliary keys, the scene graph and
its walk, a model's directory and streams with geometry put into them, the
collision author, reader and query, the floor project with its triangle comparison,
and the names `export-zones` gives. `ZonePackage` is a state machine of its own
(`PSpec`): a client, a stack of overlays, `build-zone-package` and `append-region` over
them, and the user who deploys or drops what they made. What a project pins, whether
`load_project` takes it and which three resources are made of it are its parameters
`InputsOf`, `Admits` and `FloorOf`: the registration depends on nothing else of a
floor. `ZoneTools` gives them `ZoneFloor`'s operators and adds the single operations of
the library on one asset; each of its steps is a step of `PSpec` or leaves `PSpec`'s
variables alone. A walk carries one mutable path through instances, unit trees,
groups and children exactly as the code's `WalkPath` does. Coordinates are integers:
`Q` stands for 32767, `Bias` and `Range1` for 0x4000 and 0x8000, and arithmetic is
exact where the code's is in floating point. `Low` is a family's number of keys, so
that the carry out of the low half is in reach.

### Images, Texture, Container, Font, Wrapper, Inspection

The readers, each extending the one before. An image is a length and the records at
the offsets where the code reads one, so that a slice, a patch and a concatenation
are what they are on bytes, and two images are equal exactly when their bytes are:
an image is also its own digest. `Texture` has GTEX and PWIB with their surface tables
and gaps, the GTEX writer, DDS both ways and the decoded preview; `Container` has
SEDB and RES directories, nesting, the anomalies, and the extents of one tag; `Font`
the chunk walk and the two tables from a key to a glyph; `Wrapper` the LPB, SQEX and
scrambled wrappers; `Inspection` what `inspect` and `validate` report and how a
reader is chosen. The scrambled container is modelled byte by byte; Blowfish and PNG
compression are injective and otherwise unknown.

### ResourceExport, ExtractionAudit, ExtractionReplay, Extraction

`ResourceExport` is `plan_bytes_options`: the payloads a report and the options give,
with their paths, roles, spans and links. `ExtractionAudit` is the part of
`verify_extract.rs` that recomputes a payload's place and geometry from the report;
`ExtractionReplay` is the directory as a whole, the source replay and the batch
document. `Extraction` is the session: extract one resource or a catalog's selection,
change one thing, verify with or without the source; or `validate` a file.

### Registry, ReadersSession

`Registry` is the `Resolver`: `read_pin` and `load` with what they keep, the category
map and descriptors reconstructed from the fixed phrases' rows, dispatch by sheet,
locale and noun flag, the two noun texts, `evaluate` for references, and
`message_report`. A rich string is a sequence of atoms (text, a copied control, a
reference, something else); in literal text the brackets and letters of the nouns'
placeholders are atoms, so that a replacement can form a placeholder with what is
beside it, as on the code's strings. `files` is the version each client file has now;
`Changing` says which may be replaced, removed or restored while the resolver is
kept. `known` and `asked` only record. `ReadersSession` composes the two machines
that read a client: one command at a time.

## Runs and bounds

| run | module, cfg | instance | checks |
|---|---|---|---|
| `batch_publish` | MCBatchPublish | 2 runs, 2 process ids, 2 files | `IInv`, `SomebodyWins`, `OutputNeverClobbered`, `AtomicPublication`, `EventuallyPublished` |
| `zone_publish` | MCZonePublish | a package and a project run, 2 resources | `IInv`, `OthersUntouched`, `AtomicPublication`, `EventuallyPublished` |
| `new_file` | MCNewFile | 2 runs of any kinds | `IInv`, `NoClobber`, `EventuallyWritten` |
| `overlay_publish` | MCOverlayPublish | 2 runs, any plans over 2 resources in 2 directories below the output, 1 user change | `IInv`, `OthersUntouched`, `EventuallyImported` |
| `extract_verify` | MCExtractVerify | 3 runs (YAML, JSON, without payloads), 2 payload files, 1 verifier, 1 user change | `IInv`, `VerdictIsExact`, `AcceptedStays` |
| `extract_overwrite` | MCExtractVerify, MCExtractOverwrite.cfg | one run with and one without payloads | `NoRunOverwritten`, violated: see [findings](#findings) |
| `catalog_workflow` | MCCatalogWorkflow | 2 sources, 4 contents, 2 edits | `IInv`, `WithinLimits`, `AcceptedAgrees`, `OwnOutputVerifies`, `AdmissibleIsVerified` |
| `catalog_deep_root` | MCCatalogWorkflow, MCCatalogDeepRoot.cfg | the same, root inside `data/NN`, no edits | `OwnOutputVerifies`, violated: see [findings](#findings) |
| `sheet_import` | MCSheetImport | 2 definition documents of one base name, 2 languages, a shared enable file, 12 block plans (3 of them insert two files) | `UneditedImportsNothing`, `ImportedIsAsked`, `VerificationAgrees`, `OnlyChangesWritten`, `PlannedDefinitions` |
| `zone_build` | MCZone | a catalog of 3 roots, one floor scene, up to 4 overlays, models imported into 3 times | `RegistrationsKept`, `KeysApart`, `ScenesLoad`, `FloorExact`, `PlacedByPath`, `TreeFindsTriangles`, `ModelKept`, `ExportsApart` |
| `layout_tree_in_group` | MCZone, MCZoneTreeInGroup.cfg | the same | `PlacedAsDocumented`, violated: see [findings](#findings) |
| `readers` | MCReaders | 196 inputs (textures, fonts, containers with every directory of two rows over 3 offsets and sizes, wrapped documents), one change; 21 lookups and 5 messages (one of six parts) in 3 languages, 2 questions, 2 changes of 4 files | `OwnOutputAccepted`, `AcceptedIsExtracted`, `ReadersHold`, `AnswersPinned` |

Why these are enough to be interesting:

* Two runs: every hazard is a step of one run between two steps of another, or of
  a dead run's leftover. A third adds no new neighbour, and for the safety
  properties of the publication modules the proofs speak of any number. `ExtractVerify` has
  three because two formats and the payload-free case each behave differently.
* Two files: the smallest number at which one is whole and the other is not; the
  manifest (or report) comes on top or is the last of them. In `OverlayPublish`
  the two resources are in two directories, so that runs with both in common can
  meet at either, at a directory or at a file, and one cleanup can take away a
  directory the other has found.
* Two process ids for two runs: the second can get the id of the first after its
  death, or another.
* `UserMoves` and `Edits` bound only what the program does not control. One user
  change already reaches every state in which a file or directory vanished or
  appeared under a run; two edits allow a content to be replaced and put back.
* In `catalog_workflow` two contents are equal in size and different in bytes (what
  a metadata call cannot tell), one is not usable, and `MaxOutputBytes = 101` with
  a fixed part of 10 and 4 per record puts the totals on both sides of 100, where
  the total's third digit makes it longer and the rendering goes round again; the
  limits admit one resource or two.

* In `zone_build`, `Low = 8` makes the last key of a family and the carry out of it
  reachable with three roots, and `MaxRows = 16` the size word's end with four
  overlays. Three imports in a row are the least at which padding used up by the
  first is accounted for by the second and read by the third. `MaxTrees = 2` and
  `Capacity = 8` put grids on both sides of each limit, and grids of triangles share
  edges with the boxes of their nodes.
* In `readers`, a directory of two rows is the least that can overlap, leave a gap,
  be out of order or run past the end, and all of those are enumerated; texture
  inputs have two mips, six faces, one block and opaque bytes; `MaxPreview = 64` is
  between the sizes of the surfaces. One change suffices for `AcceptedIsExtracted`
  because every kind of member, record and report field is changed by some step.
  `MaxDepth = 2` ends a row that refers to itself, `MaxControls = 2` cuts one message,
  and `MaxMessage = 5` refuses the message of six parts.
  Two questions and two changes: ask, change, ask again, or be refused, restore, ask.

All runs set `CHECK_DEADLOCK FALSE`: every command ends, and the model then
really stops.

What the publication runs show. `OutputNeverClobbered`, `OthersUntouched` and `NoClobber` say that
no step of the program changes or removes what is another's, at any interleaving
with a user who is faster than a check. `IInv` of each module contains the
statements a reader would ask for (`PublishedComplete`, `ReportComplete`,
`SuccessIsWhole`, `FailureLeavesNothing`, `ManifestLast`, `ExtractsTheCatalogued`)
with what makes them inductive. `VerdictIsExact` says both directions: a complete
extraction is accepted, and nothing else is. `SomebodyWins`, `EventuallyPublished`,
`EventuallyWritten` and `EventuallyImported` answer whether runs can defeat each
other: they cannot. For `extract-catalog` the reason is that a run which loses was
beaten by one that still stands before its rename; for `import-sheets` it is that
both write in one order. With the resources in any order (`TurnAnyOrder`) both
fail.

What the content runs show.

* *Sheets.* A CSV written by `extract` and left alone imports nothing; an edited one,
  imported and extracted again, is what was asked for, repeated, merged and omitted
  cells included, and every other resource keeps its bytes though files are shared
  between documents. A rewritten definition has exactly the files that were planned,
  two insertions into one sheet, at one end or on both sides, included. The
  verification accepts exactly that.
* *Zones.* However packages and roots are stacked, dropped and stacked again, no key
  is claimed twice, auxiliary keys that no row names included; the catalog keeps its
  rows; the client loads the inputs that were checked. A floor's three resources
  describe one surface at every placement. Each placement has the transform its path
  in the graph gives it, unless a unit tree stands under a child of a group (see
  [findings](#findings)). A query finds every triangle that the query box meets.
* *Readers.* What the exporter writes, the verifier accepts, for each format, option
  and `--as`; what the verifier accepts against the source is an extraction of that
  source, whatever single thing was changed. The readers account for every byte.
* *Resolver.* A refused lookup leaves nothing behind that a later answer could use
  wrongly, and an answered one never turns into a refusal.

## Fairness

`WF_vars` on each process's own steps: the operating system runs every process to
its end unless it dies. There is none on the user, on deaths, on power failures or
on failing calls; each liveness property allows for them (`undisturbed`,
`steady`). Once a fault has happened nothing is promised, because the code retries
nothing.

## Proofs

Eight proof modules extend the modules they speak of: `BatchPublish_proofs`,
`ZonePublish_proofs`, `NewFile_proofs`, `OverlayPublish_proofs`,
`ExtractVerify_proofs`, `CatalogWorkflow_proofs`, `ZonePackage_proofs` and
`SheetImport_proofs`. Their theorems hold for every value of the constants that satisfies
the modules' named assumptions: any number of runs, files, directories, process ids, sources, contents,
limits, edits, overlays and region roots. What a module needs of least elements, recursive
functions and sums stands at its beginning.

| theorem | says | by |
|---|---|---|
| `BatchPublish_proofs!Invariant` | `[]IInv` | induction, one lemma per action |
| `...!Completeness` | what stands at the output is one successful run's whole batch | from it |
| `...!Progress` | `[]SomebodyWins` | from `Contention` |
| `...!NoClobber` | `OutputNeverClobbered` | from `IInv`, per action |
| `...!Refinement` | `Spec => AtomicPublication` | each step maps to a step or a stutter; what stands at the output is its maker's and complete (`StandingIsTaker`) |
| `ZonePublish_proofs!Invariant`, `Completeness`, `NoOverwrite`, `Refinement` | the same for the zone builders, power failures included | likewise |
| `NewFile_proofs!Invariant`, `NothingTaken` | `[]IInv`, `NoClobber` | induction |
| `OverlayPublish_proofs!Invariant` | `[]IInv`: a failed run leaves nothing that it made, a successful one its whole plan | induction, one lemma per action |
| `...!LeavesOthers` | `OthersUntouched`, for every plan, tree of directories and interleaving | from `IInv`, per action |
| `ExtractVerify_proofs!Invariant`, `Exactness`, `Stability` | `[]IInv`, `[]VerdictIsExact`, `[]AcceptedStays` | induction; the verdict from the invariant |
| `CatalogWorkflow_proofs!Fidelity`, `ReplaySound` | nothing stale is extracted; an accepted replay means agreement | an invariant without the sums |
| `...!StableIsExact` | a rendering that repeats its own total is exact, whatever the estimate it began with | the digits of a total |
| `...!Limits`, `Invariant` | `[]WithinLimits`, `[]IInv` | sums that grow by one source at a time |
| `...!OwnOutput` | `[]OwnOutputVerifies`, where the catalog's ids are the full paths' (`RowId = FullId`); without that premise `catalog_deep_root` refutes it | the tree, the batch and the inventory are one while nothing is edited |
| `ZonePackage_proofs!Invariant` | `[]IInv` of the stack of overlays | induction over the commands and the user |
| `...!Kept`, `Apart`, `Loads` | `[]RegistrationsKept`, `[]KeysApart`, `[]ScenesLoad`, for every catalog, request and number of overlays | from `IInv` |
| `SheetImport_proofs!Changes` | `[]OnlyChangesWritten`, for every client tree, every edit of a CSV and any number of imports | what is written differs from what was loaded, and that is the client's |
| `...!Definitions` | `[]PlannedDefinitions`, for every client tree, every plan and any number of imports | a spliced element reads as its sheet with other files, which are those planned and no others (`EntriesPlanned`, `PlanKept`); files that fit do not overlap |
| `...!Unedited` | `[]UneditedImportsNothing`, for every client tree that can be extracted and any number of rounds | what a cell shows is nothing, a marker or the text of one value, and that reads back |
| `...!Agrees` | `[]VerificationAgrees`, for every client tree, every plan, every CSV and any number of rounds | readers and encoders are inverse; each resource has one content that all its blocks want |

Why the strengthenings are needed:

* *BatchPublish.* `PublishedComplete` needs `StagingInv` (what a run has staged, by
  its step), which needs `DistinctPids` (nobody shares a staging path) and
  `FreshInv`. `SomebodyWins` is far from inductive: `Contention` says who can still
  win while nobody has: some run is before its rename with the path free, or the
  empty directory is there and nobody has given up yet, or it is gone and nobody
  who has seen it is left behind.
* *ZonePublish.* `WorkInv` says what is on disk before and after the name a run is
  at; `OneInside` and `Unmixed` keep two runs' files apart; only with "synced" in
  `WorkInv` does `ReportComplete` survive `PowerFails`.
* *NewFile.* `HoldsPath`: a run at work is at work on the file at the path, unless
  a user took it away.
* *OverlayPublish.* `TreeInv` keeps the directories a tree: a file's directory stands
  and a directory's parent does. `Recorded` says that what a run has created and what
  it has recorded are the same, except for the one thing it is at; `PlaceInv` where in
  its plan it is, climbing up and back down included; `CheckedInv` what the reading
  back has established. `FailureLeavesNothing` needs all of them, since the removal goes
  by the record and stops at a directory somebody else has put something in.
* *ExtractVerify.* `PayloadsOfOneRun` (the exclusive `create_dir` is a lock held for
  ever) and `RunInv` give `ManifestLast`; `ScanInv` relates what the verifier has
  read to what is there while nothing changes.
* *CatalogWorkflow.* Three invariants proved one on top of the other: `Agreement`
  (`IInv` without sums), `Accounts` (`SpentInv`: what was spent is the sum over the
  sources done) and `Undisturbed` (`SteadyInv`: tree, batch and inventory agree until
  the first edit).
* *ZonePackage.* `IInv` is `StackInv` of what is deployed and `Fits` of what is ready to
  be. `StackInv` says that everything made lies above what the user brought
  (`MadeInv`); that the catalog on top is whole, begins with the user's own rows and
  holds every registration (`CatalogInv`); that a claimed key is registered or is a
  file's, and no later package claims it (`ClaimInv`); and that nothing above a package
  has its files and nothing its inputs (`SceneInv`). `Fits` is what the commands check,
  against exactly the stack that `Deploy` then finds: nothing is put on top between.
* *SheetImport.* `WorkInv` says where an import is: nothing is decided before it begins,
  what is still to be processed is a document that the client has and that parses, and
  nothing becomes a definition document that was none. `Quiet` says what holds until
  somebody edits: the CSVs are the extraction, no plan is there, every resource is
  expected to be what the client's file is, and nothing else is decided. The property
  alone says none of that, and the conflicts between blocks that share a resource are
  excluded only by it. `AgreesInv` adds what the verification will ask: every expected
  resource is written or the client's (`Kept`), every encoded block's files are expected
  and hold its rows (`Intended`), and every rewritten definition is to be written, with a
  check that has each of its places (`Fits`); the plan stays the one that was admitted
  until all documents are processed, and the overlay is what was decided.

How the argument about the catalog goes. `Parse` walks the rows and reads at each root
how many follow it. The walk over a table that fills its rows exactly is total
(`WholeTakes`); a table extended by one root walks as before and then takes the new
root (`TableExtends`); hence every old root keeps its place, its children and its
auxiliary key (`GrowKeeps`), and the new one has what `append_region_root` gave it
(`GrowGives`). What `AppendRegionRoot` returns is such an extension (`AppendRootAdds`)
whose reading back finds the root with its derived key among no other's
(`VerifiedRegisters`). What such a table adds to a stack keeps `StackInv`
(`PushKeeps`), and each command makes only what `Fits` (`AppendFits`, `BuildFits`).

How the argument about the sheets goes. A document's blocks are a concatenation whose
members are what its files load (`FlattenJoins`, `FlattenRange`, `BlocksAre`), and a loaded
block has rows of its sheet's types inside its range (`BlockIs`). Merging the values of the
blocks into a cell, one after the other, leaves it untouched, or with a marker, or with
the text of one of them (`AddShows`, `MergeShows`, `CellIs`). So an unedited row passes
`validate_cells` (`UneditedCells`) and encodes no block (`UneditedBlock`); names tell the
documents apart (`NamesApart`), so each document meets its own CSV (`ExtractionHas`). A
definition document that is edited reads, sheet by sheet, as the shipped one with other
files (`SplicedReads`, `EditedReads`), which are an arrangement of the shipped, the grown
and the inserted ones (`EditedEntries`, `EditedKept`). Grown and inserted files
are the plan's, entry by entry, so the files of the sheet are those the plan asks for
(`EntriesPlanned`, `FilesRange`, `PlanKept`).

That the verification agrees goes from a row to the run. Rows laid slot by slot are
read back from the offsets (`RowsReadBack`), the enable ranges of a set of rows name just
these (`EnableReadsBack`), so a block's three files, loaded or encoded, give its rows to
whoever reads them (`EncodedGood`, `FilesSound`). What is registered without conflict has
each part of each block (`RegisterHas`), and what is wanted is written or is there already
(`Wants`). For a rewritten definition, its planned blocks and the places of its files
that can be there are matched one to one (`PlannedEntry`, `OrderIs`, `PlacesCounted`):
hence the reload finds as many blocks as were decided, each with its rows. One document
keeps all this for the ones before it (`ImportAgrees`), though they share resources.

The provers have no induction over data that takes a predicate. Where a proof needs
one (the walk, the sums, the digits, a chain of overlays, blocks merged one after the
other), it takes a least
counterexample (`LeastExists`) or an element that a set of numbers has
(`LargestExists`), and unfolds a recursive function whose existence the lemma before
it shows (`WalkExists`, `SumExists`, `DigitsExist`, `JoinExists`, `MergeExists`).

Assumptions. `DirsAssumption`: directories and resources are numbered in the order the
code visits them, a parent before its children. `NamesAssumption`: runs are not the user.
`LimitsAssumption`, `VersionAssumption`, `SourcesAssumption`, `IdsAssumption`: sizes and
limits are numbers, and each source has both ids. `TreesAssumption`,
`RequestsAssumption`, `KeysAssumption`: what is at the catalog's path is a region file,
well-formed or not, and a request's fields have their types; nothing is assumed of what the
rows say, of the derived keys or of where the roots are. `MaxRowAssumption`,
`ResultAssumption`, `ClientAssumption`: the largest row identifier is a number; what stands
for an error or for nothing is no value of a column and no type; resources are numbered, and finitely
many. TLC evaluates each on its run's instance, and
checked each invariant there before it was proved; `ZonePackage_proofs!IInv` is stated
beside its proof, because no run's property needs it.

Only model-checked:

* The liveness properties (`EventuallyPublished` twice, `EventuallyWritten`,
  `EventuallyImported`, `AdmissibleIsVerified`): liveness under fairness and `ENABLED`
  are beyond the prover.
* `FloorExact`, `PlacedByPath` (in `PlacedAsDocumented` with its exception), `TreeFindsTriangles`, `ModelKept`, `ExportsApart` of
  `ZoneTools`; `OwnOutputAccepted`, `AcceptedIsExtracted`, `ReadersHold` of `Extraction`;
  `AnswersPinned` of `ReadersSession`: their modules reach recursive operators (a scene
  graph, nested containers, expanded references) or bit operations, with which the prover
  loses its arithmetic.
* `ImportedIsAsked` of `SheetImport`: beyond `Agrees`, it says that the table merged from
  the edited blocks shows in every cell what the CSV asks for. The cell is a fold of
  `AddValue` over all blocks of a document in their order, which edits and insertions
  change, and the repeated, missing and merged values have to come out alike for two
  different sequences, after which the whole client is loaded again.

## Findings

* **A batch that its own verifier refuses** (`catalog_deep_root`,
  `verify_extract.rs:2555`). With a catalog root inside `data/NN`, which
  `docs/resource-extraction.md:52-53` allows, the catalog's row has no resource id
  (its relative path is too short) and the nested manifest has one (it is named by
  the full path), and `verify-extraction --catalog --root` compares the two.
* **A manifest overwritten by another run** (`extract_overwrite`,
  `resource_export.rs:462`). `extract-resource` asks once whether the output is
  empty, long before `fs::write`, which truncates. Runs with payloads are stopped
  by the exclusive `create_dir`; one without is not. `docs/cli.md:898-900` says the
  command refuses existing output files.
* **A group's transform lost** (`layout_tree_in_group`, `zone.rs:1864`). A unit tree
  under a child of a group clears the path's groups and nothing puts them back: the
  siblings after the tree lose that group's transform, where
  `docs/formats/zone-geometry.md:58` composes every placement as
  `zone * instance * unitTree * group * child`. `PlacedByPath` excludes such trees
  (`TreeInGroup`).

Other things seen while modelling, which no run is made of:

* A file that the user puts at a report's name between the look at it and the rename
  is replaced (`zone_package.rs:409`, `420`). `OthersUntouched` has this as its one
  exception.
* A format that the exporter names and no `--as` takes (`client-lua` from
  `extract-resource --as lpb-bytecode`; `ssd-sheet` likewise) makes
  `verify-extraction --source` refuse its own tool's output
  (`verify_extract.rs:2340-2342`; `docs/resource-extraction.md:270-273`).
  `OwnOutputAccepted` excludes exactly these (`Replayable`).
* Without the source, the options of an extraction are inferred from the roles that
  are present: an extraction whose DDS or PNG disappeared together with its record is
  accepted as the smaller one. PNG pixels, and the digests of encoded surfaces and
  container entries, are compared with the report only by a replay.
* `validate` can fail its `canonical-build` check for a texture whose opaque header
  bytes differ from those the writer gives, and its round trip for a scrambled
  document under another key than its length gives; `ReadersHold` names both.
* A PWIB's visible entries are numbered by their place in the directory, so with the
  metadata first nothing is selectable.
* A model import that shrinks a stream keeps its allocation, and a later one that
  grows it adds padding again. A floor's geometry must fit its template's streams.
* `append-region` compares a new root's key with roots only, and asks nothing of
  `files` and `word_20`. Packages must be deployed on the overlays they were built
  over. `export-zones` writes with `fs::write`.

## What is not modelled

* Bytes within a record where no command has to agree about them: floating point,
  PNG compression, the block cipher, SHA-256, numbers and texts as they are spelled,
  how JSON, YAML, XML and OBJ look. The JSON-schema check of a manifest's field types
  holds of every manifest here.
* Links, aliases and case-folding (`same_file`, canonicalisation): the paths of a
  model are distinct.
* `catalog`'s own output, one `fs::write`; its two text forms.
* Decoding the bytes of a control and of a rich string; phrase tables; the loadout's
  joins; the Lua reader, sound banks, the texture encoder, skeletons, materials,
  shaders and animations; the static actor's text edit; the conformance runner. They
  are sequential, on one input, keep nothing and are reached by golden tests; a model
  would be a transliteration.
* Two `import-sheets` runs whose files are taken for the client's by each other's
  verification: `OverlayPublish` records it and allows either end.

## Plan

1. *Done:* publication and its proofs, `ExtractVerify`, `CatalogWorkflow`, the sheets,
   the zones, the readers and the resolver.
2. *Done:* the invariants of every publication and workflow module, the keys, rows
   and scenes of the stacked zone packages, what an import leaves alone, what its plan
   makes of a definition and that its verification agrees, proved.
3. `AnswersPinned`: that every kept file has its pinned version, and every kept block
   is what the pinned files give, is inductive and implies it for what is read; it wants
   the cache in a module apart from the expansion of references, which stays with TLC.
4. An abstract "what I made is what I remove" that `NewFile` and `OverlayPublish` both
   implement.
5. `ImportedIsAsked`: that a cell's text depends only on its distinct values in the
   order in which they first come, and that an edit keeps or replaces all of them.
