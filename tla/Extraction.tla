------------------------------ MODULE Extraction ------------------------------
(***************************************************************************)
(* extract-resource or extract-catalog, then verify-extraction, with at    *)
(* most one change in between: a file of the output, its manifest or the   *)
(* source.  validate reads a source and writes nothing.                    *)
(***************************************************************************)
EXTENDS ExtractionReplay

CONSTANTS Disks,      \* the source files there may be: sequences of [name, id, image]
          Edited,     \* those whose output or source someone changes
          Hows,       \* the --as arguments, Absent for none
          Requests,    \* the options of an extraction
          Batches     \* the indices extract-catalog may select, in order

VARIABLES origin,     \* the sources when the command ran
          disk,       \* the sources now
          request,    \* what was extracted: [kind, selected, how, options], or Absent
          output,     \* the output directory, or Absent
          change,     \* what was changed since
          verdict     \* of the last command, or Absent

vars == <<origin, disk, request, output, change, verdict>>

Init ==
  /\ origin \in Disks /\ disk = origin
  /\ request = Absent /\ output = Absent /\ change = "none" /\ verdict = Absent

Request(kind, selected, how, options) ==
  [kind |-> kind, selected |-> selected, how |-> how, options |-> options]

\* A refused plan leaves nothing.
Run(r, written) ==
  /\ output = Absent /\ verdict = Absent
  /\ written # Refused
  /\ request' = r /\ output' = written
  /\ UNCHANGED <<origin, disk, change, verdict>>

ExtractResource(i, how, options) ==
  Run(Request("resource", <<i>>, how, options),
      Try(Plan(disk[i], how, options), LAMBDA plan : Single(plan)))

ExtractCatalog(selected, options) ==
  Run(Request("catalog", selected, Absent, options), Batch(CatalogOf(disk), disk, selected, options))

\* validate
Validating(i, how) ==
  /\ output = Absent /\ verdict = Absent
  /\ how \notin {Absent, Refused}
  /\ verdict' = [kind |-> "validate", of |-> i, how |-> how,
                 failed |-> Validate(disk[i].image, disk[i].name, how)]
  /\ UNCHANGED <<origin, disk, request, output, change>>

ValidateFile(i, how) == Validating(i, Chosen(disk[i].image, how))

\* verify-extraction, with --source or --catalog and --root, or without.
Verify(replay) ==
  /\ output # Absent /\ verdict = Absent
  /\ verdict' =
       [kind |-> "verify", replay |-> replay,
        ok |-> IF request.kind = "catalog"
               THEN VerifyBatch(output, IF replay THEN [catalog |-> CatalogOf(origin), files |-> disk] ELSE Absent)
               ELSE VerifyOne(output, IF replay THEN disk[request.selected[1]] ELSE Absent)]
  /\ UNCHANGED <<origin, disk, request, output, change>>

-----------------------------------------------------------------------------
(* Somebody else: one change of a file, the manifest or the source *)

Between == output # Absent /\ change = "none" /\ verdict = Absent /\ origin \in Edited

Altered(img) == Put(img, 0, [magic |-> "altered"])

ChangeFile(new) ==
  /\ output' = new /\ change' = "file"
  /\ UNCHANGED <<origin, disk, request, verdict>>

AlterFile ==
  /\ Between
  /\ \E f \in DOMAIN output.files :
       \E bytes \in {Altered(output.files[f]), Cat(output.files[f], Pad(1))} :
         ChangeFile([output EXCEPT !.files[f] = bytes])

RemoveFile ==
  /\ Between
  /\ \E f \in DOMAIN output.files :
       ChangeFile([output EXCEPT !.files = [g \in DOMAIN @ \ {f} |-> @[g]]])

AddFile == Between /\ ChangeFile([output EXCEPT !.extra = @ + 1])

ChangeManifest(new) ==
  /\ output' = new /\ change' = "manifest"
  /\ UNCHANGED <<origin, disk, request, verdict>>

\* A payload and its file disappear together.
DropPayload ==
  /\ Between
  /\ \E d \in DOMAIN output.docs : \E i \in DOMAIN output.docs[d].payloads :
       LET f == PayloadFile(d, output.docs[d].payloads[i])
           left == RemoveAt(output.docs[d].payloads, i)
       IN ChangeManifest([output EXCEPT !.docs[d].payloads = left,
                                        !.files = [g \in DOMAIN @ \ {f} |-> @[g]],
                                        !.dirs = IF left = <<>> THEN @ \ {d} ELSE @])

\* A file is replaced and its size and digest with it.
ForgePayload ==
  /\ Between
  /\ \E d \in DOMAIN output.docs : \E i \in DOMAIN output.docs[d].payloads :
       LET f == PayloadFile(d, output.docs[d].payloads[i]) IN
       \E bytes \in {Altered(output.files[f]), Cat(output.files[f], Pad(1))} :
         ChangeManifest([output EXCEPT !.files[f] = bytes,
                                       !.docs[d].payloads[i] = [@ EXCEPT !.sha = bytes, !.size = bytes.length]])

\* One payload's record says something else.
EditPayload ==
  /\ Between
  /\ \E d \in DOMAIN output.docs : \E i \in DOMAIN output.docs[d].payloads :
       LET payloads == output.docs[d].payloads
           p == payloads[i]
           other == payloads[(i % Len(payloads)) + 1]
       IN \E q \in {[p EXCEPT !.role = other.role], [p EXCEPT !.entry = other.entry],
                    [p EXCEPT !.texture = other.texture], [p EXCEPT !.path = other.path],
                    [p EXCEPT !.span = other.span], [p EXCEPT !.dds = other.dds],
                    [p EXCEPT !.png = other.png]} :
            q # p /\ ChangeManifest([output EXCEPT !.docs[d].payloads[i] = q])

\* The report in a manifest, or what it says of the source, is another's.
Misreports(document, other) ==
  IF other = Refused \/ other.document.format # document.format THEN {}
  ELSE {[document EXCEPT !.parsed = other.document.parsed],
        [document EXCEPT !.anomalies = <<>>],
        [document EXCEPT !.source.name = other.document.source.name],
        [document EXCEPT !.source.entry = IF @ = Absent THEN 0 ELSE Absent],
        [document EXCEPT !.payloads = Reverse(@)]} \ {document}

EditReport ==
  /\ Between
  /\ \E d \in DOMAIN output.docs : \E file \in Range(origin) : \E how \in Hows :
       \E new \in Misreports(output.docs[d], Plan(file, how, Option(FALSE, FALSE, FALSE, Absent))) :
         ChangeManifest([output EXCEPT !.docs[d] = new])

EditBatch ==
  /\ Between /\ output.batch # Absent
  /\ \E new \in {[output.batch EXCEPT !.dds = ~@], [output.batch EXCEPT !.totals.output = @ + 1],
                 [output.batch EXCEPT !.resources = Reverse(@)],
                 [output.batch EXCEPT !.resources = Front(@), !.totals.count = @ - 1]} :
       new # output.batch /\ ChangeManifest([output EXCEPT !.batch = new])

\* The source is replaced, renamed or moved to another resource id.
EditSource ==
  /\ Between
  /\ \E i \in DOMAIN disk :
       \E file \in {[disk[i] EXCEPT !.image = Altered(@)], [disk[i] EXCEPT !.name = "renamed"],
                    [disk[i] EXCEPT !.id = 99]} :
         disk' = [disk EXCEPT ![i] = file]
  /\ change' = "source"
  /\ UNCHANGED <<origin, request, output, verdict>>

Next ==
  \/ \E i \in DOMAIN disk, how \in Hows, options \in Requests : ExtractResource(i, how, options)
  \/ \E selected \in Batches, options \in Requests : /\ Range(selected) \subseteq DOMAIN disk
                                                    /\ ExtractCatalog(selected, options)
  \/ \E i \in DOMAIN disk, how \in Hows : ValidateFile(i, how)
  \/ \E replay \in BOOLEAN : Verify(replay)
  \/ AlterFile \/ RemoveFile \/ AddFile \/ DropPayload \/ ForgePayload \/ EditPayload
  \/ EditReport \/ EditBatch \/ EditSource

Spec == Init /\ [][Next]_vars

-----------------------------------------------------------------------------
(* Properties *)

\* The manifest's format is one verify-extraction can ask a reader for.
Replayable == \A d \in DOMAIN output.docs : output.docs[d].format \in Selectors \cup {"res"}

(* What the extraction wrote is accepted, alone and against the source, as   *)
(* long as nobody changed either: the verifier's own account of every        *)
(* payload's place, geometry and digest agrees with the exporter's, for      *)
(* every format, every --as and every option.  The formats whose name no     *)
(* --as takes (client-lua) cannot be read again and are refused when         *)
(* replayed (verify_single, replay_payload, verify_batch).                   *)
OwnOutputAccepted ==
  verdict # Absent /\ verdict.kind = "verify" /\ change = "none" /\ (verdict.replay => Replayable)
    => verdict.ok

SameButId(a, b) == [a EXCEPT !.source.id = Absent] = [b EXCEPT !.source.id = Absent]

\* Some extraction of this file writes this directory, file by file.
Reproduced(dir, file) ==
  LET Writes(plan) ==
        /\ plan # Refused
        /\ SameButId(plan.document, output.docs[dir])
        /\ \A f \in DOMAIN output.files : f.dir = dir => Written(plan, dir).files[f] = output.files[f]
  IN \E how \in Hows \cup {"gtex"}, o \in Requests : Writes(Plan(file, how, o))

(* An output accepted against its source is one that an extraction of the    *)
(* source as it is now writes, byte for byte: no change of a file, of a      *)
(* record, of a report, of the batch or of the source gets through, but one  *)
(* that leaves another extraction of the same source (verify_source,         *)
(* replay_payload, verify_catalog_record).                                   *)
AcceptedIsExtracted ==
  verdict # Absent /\ verdict.kind = "verify" /\ verdict.ok /\ verdict.replay =>
    \A d \in DOMAIN output.docs :
       Reproduced(d, disk[IF output.batch = Absent THEN request.selected[1]
                          ELSE output.batch.resources[d].index])

\* What reads back as other bytes: a scrambled document under a key that is
\* not the one its length gives, and a texture whose header bytes no field holds.
RoundTrips(img, report, failed) ==
  /\ "round-trip" \in failed => report.format = "scrambled-xml" /\ ~report.container.derived
  /\ "canonical-build" \in failed => report.format = "gtex" /\ img.heads[0].opaque # <<1, 1, 2>>

\* A container and those inside it.
RECURSIVE Containers(_)
Containers(c) ==
  {c} \cup UNION {Containers(e.child) : e \in {x \in Range(c.entries) : x.child # Absent}}

\* The entries lie one after another over the whole payload; those of an
\* exact container are inside it and give its bytes back.
EntriesTile(img, c) ==
  /\ Tiles(c)
  /\ Exact(c) =>
       /\ \A e \in Range(c.entries) : End(e.span) <= End(c.span)
       /\ Join([i \in DOMAIN c.entries |-> c.entries[i].sha])
            = Slice(img, c.span.offset + c.start, c.total - c.start)

\* The leaves of a tag are apart.
LeavesApart(img, tag) ==
  LET FarApart(found) == found # Refused => Disjoint([i \in DOMAIN found.leaves |-> found.leaves[i].span])
  IN FarApart(Leaves(img, tag))

(* A reader accounts for every byte: what validate builds again is the       *)
(* input but for the two named cases, the entries of a container cover it    *)
(* without a gap or an overlap whatever its directory says, and a reader     *)
(* that follows some tags never takes a byte twice (inspect.rs validate,     *)
(* sedb.rs entries_tile_the_payload, res_extents.rs claim).                  *)
ReadersHold ==
  verdict # Absent /\ verdict.kind = "validate" /\ "parse" \notin verdict.failed =>
    LET img == disk[verdict.of].image IN
    /\ RoundTrips(img, Inspect(img, disk[verdict.of].name, verdict.how), verdict.failed)
    /\ verdict.how = "sedb" =>
         /\ \A c \in Containers(ReadContainer(img)) : EntriesTile(img, c)
         /\ LeavesApart(img, "phb")
=============================================================================
