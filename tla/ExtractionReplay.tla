--------------------------- MODULE ExtractionReplay ---------------------------
(***************************************************************************)
(* An extraction directory as a whole: its files against its manifest, the *)
(* manifest against another extraction of the source, and a catalogue's    *)
(* batch of them (verify_extract.rs, batch_extract.rs).                    *)
(*                                                                         *)
(* An output has its payload files by directory and path, its payload      *)
(* directories, its extraction manifests by directory (0 is the output     *)
(* itself, a positive number a batch's resource directory), its batch      *)
(* manifest or Absent, and the number of its other members.                *)
(***************************************************************************)
EXTENDS ExtractionAudit

Single(plan) ==
  LET w == Written(plan, 0)
  IN [files |-> w.files, dirs |-> w.dirs, docs |-> 0 :> plan.document, batch |-> Absent, extra |-> 0]

-----------------------------------------------------------------------------
(* The source again *)

\* artifact_bytes of another plan; a refused plan has none.
Replayed(source, how, options, path) ==
  Try(Plan(source, how, options), LAMBDA plan : ArtifactBytes(plan, path))

\* The reader a converted texture is made again with.
Converter(role) ==
  CASE role \in FdtLinked -> "fdt"
    [] role \in {"pwib-gtex-dds-texture", "pwib-gtex-png-preview"} -> "pwib"
    [] role \in {"gtex-dds-texture", "gtex-top-mip-png-preview"} -> "gtex"
    [] OTHER -> Absent

\* replay_payload: a conversion is made again, a slice read again.
ReplayPayload(p, bytes, source, document) ==
  LET named == [source EXCEPT !.name = document.source.name]
      how == Converter(p.role)
      dds == p.role \in DdsRoles
      img == source.image
      Holds(decoded) == decoded # Refused /\ Bytes(decoded) = bytes
  IN CASE how # Absent ->
            Replayed(named, how,
                     Option(FALSE, dds, ~dds, IF how = "pwib" THEN document.source.entry ELSE Absent),
                     p.path) = bytes
       [] p.span # Absent -> End(p.span) <= img.length /\ Sha(img, p.span) = bytes
       [] p.role = "fdt-glyph-metadata" -> ParseFdt(img) # Refused /\ GlyphBytes(img) = bytes
       [] p.role = "decoded-lua-5.1-chunk" -> Holds(Try(ExtractLpb(img), LAMBDA f : f.decoded))
       [] p.role = "decoded-xml-document" ->
            Holds(CASE document.format = "sqwt" ->
                         Try(DecodeSqwt(img, document.source.name), LAMBDA d : d.document)
                    [] document.format = "scrambled-xml" /\ Is(img, "bytes") ->
                         Try(DecodeScrambled(img), LAMBDA d : d.document)
                    [] OTHER -> Refused)
       [] OTHER -> TRUE

\* verify_source_identity
SourceIdentity(source, document) ==
  /\ document.source.size = source.image.length /\ document.source.sha = source.image
  /\ document.source.name = source.name

\* The options the manifest's roles let one infer.
Inferred(document) ==
  Option(\/ Roles(document) \cap {"gtex-encoded-surface", "pwib-gtex-encoded-surface", "fdt-gtex-payload"} # {}
         \/ \E i \in DOMAIN document.payloads : document.payloads[i].container # Absent,
         Roles(document) \cap DdsRoles # {}, Roles(document) \cap PngRoles # {}, document.source.entry)

\* The plan the manifest is compared with: "res" is no reader's name.
PlanAgain(source, document) ==
  Plan(source, IF document.format = "res" THEN "sedb" ELSE document.format, Inferred(document))

\* Faulty variant: the payload records are not compared with the new plan's.
ReportHolds(source, document) ==
  LET Agrees(plan) == plan # Refused /\ plan.document.parsed = document.parsed
                      /\ (source.id # Absent => document.source.id = source.id)
  IN Agrees(PlanAgain(source, document))

\* verify_source
SourceHolds(source, document) ==
  LET Agrees(plan) ==
        /\ plan # Refused
        /\ plan.document.format = document.format /\ plan.document.parsed = document.parsed
        /\ plan.document.anomalies = document.anomalies /\ plan.document.payloads = document.payloads
        /\ source.id # Absent => document.source.id = source.id
  IN Agrees(PlanAgain(source, document))

-----------------------------------------------------------------------------
(* The directory *)

PayloadFile(dir, p) == [dir |-> dir, path |-> p.path]

\* verify_single: every payload's file, in the manifest's order, then the source.
SingleHolds(output, dir, source) ==
  LET document == output.docs[dir]
      bytes(p) == output.files[PayloadFile(dir, p)]
  IN /\ dir \in DOMAIN output.docs
     /\ Contracts(document)
     /\ source # Absent => SourceIdentity(source, document)
     /\ IsInjective([i \in DOMAIN document.payloads |-> document.payloads[i].path])
     /\ \A i \in DOMAIN document.payloads :
          LET p == document.payloads[i] IN
          /\ PayloadFile(dir, p) \in DOMAIN output.files
          /\ FileHolds(p, bytes(p), document)
          /\ Relationship(p, document)
          /\ source # Absent => ReplayPayload(p, bytes(p), source, document)
     /\ source # Absent => SourceHolds(source, document)
     /\ Slices(document)

ExpectedFiles(dir, document) == {PayloadFile(dir, p) : p \in Range(document.payloads)}
ExpectedDirs(dir, document) == IF document.payloads = <<>> THEN {} ELSE {dir}

\* compare_membership
Membership(output, dirs) ==
  /\ DOMAIN output.docs = dirs /\ output.extra = 0
  /\ DOMAIN output.files = UNION {ExpectedFiles(d, output.docs[d]) : d \in dirs}
  /\ output.dirs = UNION {ExpectedDirs(d, output.docs[d]) : d \in dirs}

\* output_bytes: the manifest and the payload files.
DirectoryBytes(output, dir) ==
  DocumentSize(output.docs[dir])
    + Total([i \in DOMAIN output.docs[dir].payloads |->
               output.files[PayloadFile(dir, output.docs[dir].payloads[i])].length])

\* verify-extraction of one resource.
VerifyOne(output, source) ==
  /\ output.batch = Absent /\ 0 \in DOMAIN output.docs
  /\ SingleHolds(output, 0, source)
  /\ Membership(output, {0})

-----------------------------------------------------------------------------
(* A catalogue and its batch *)

\* catalog_entry: what the reader the signature names makes of a file.
CatalogRow(index, file, how, report) ==
  [index |-> index, name |-> file.name, id |-> file.id, size |-> file.image.length, sha |-> file.image,
   format |-> IF how = Absent THEN "unknown" ELSE IF report = Refused THEN how ELSE report.format,
   status |-> IF how = Absent THEN "unknown" ELSE IF report = Refused THEN "malformed" ELSE "parsed",
   anomalies |-> IF report # Refused /\ report.format \in {"sedb", "res"}
                 THEN AnomaliesOf(report.root) ELSE <<>>]

CatalogAs(index, file, how) ==
  CatalogRow(index, file, how,
             IF how = Absent THEN Refused ELSE Inspect(file.image, file.name, how))

CatalogEntry(index, file) == CatalogAs(index, file, Detect(file.image))

CatalogOf(files) == [i \in DOMAIN files |-> CatalogEntry(i, files[i])]

\* The options one selected entry is planned with.
EntryOptions(entry, options) ==
  Option(options.materialize /\ (\/ entry.format \in {"sedb", "res", "gtex"}
                                 \/ entry.format = "pwib" /\ options.entry # Absent),
         options.dds, options.png, options.entry)

\* The plan of a selected entry, from its file as it is now.
EntryPlan(entry, file, options) ==
  LET texture == entry.format = "gtex" \/ (entry.format = "pwib" /\ options.entry # Absent)
      Checked(plan) ==
        IF plan = Refused \/ plan.document.format # entry.format THEN Refused ELSE plan
  IN IF \/ entry.status # "parsed"
        \/ file.image.length # entry.size \/ file.image # entry.sha
        \/ (options.dds \/ options.png) /\ ~texture
     THEN Refused ELSE Checked(Plan(file, Absent, EntryOptions(entry, options)))

\* render_batch: a record per resource and the totals, the manifest's own
\* length among them.
BatchDocument(catalog, entries, plans, options) ==
  LET own == 10 + 4 * Len(entries)
      outputs == [i \in DOMAIN plans |-> OutputBytes(plans[i])]
  IN [catalog |-> catalog, dds |-> options.dds, png |-> options.png, entry |-> options.entry, length |-> own,
      resources |-> [i \in DOMAIN entries |->
                       [ordinal |-> i, index |-> entries[i].index, dir |-> i, name |-> entries[i].name,
                        id |-> entries[i].id, size |-> entries[i].size, sha |-> entries[i].sha,
                        format |-> entries[i].format, output |-> outputs[i]]],
      totals |-> [count |-> Len(entries), source |-> Total([i \in DOMAIN entries |-> entries[i].size]),
                  output |-> Total(outputs) + own]]

\* The directory of a batch: each resource's files under its own number.
BatchOf(catalog, entries, plans, options) ==
  [files |-> FoldLeft(LAMBDA all, i : all @@ Written(plans[i], i).files, <<>>, [i \in DOMAIN plans |-> i]),
   dirs |-> UNION {Written(plans[i], i).dirs : i \in DOMAIN plans},
   docs |-> [i \in DOMAIN plans |-> plans[i].document],
   batch |-> BatchDocument(catalog, entries, plans, options), extra |-> 0]

\* All of it or none.
BatchIf(catalog, entries, plans, options) ==
  IF Refused \in Range(plans) THEN Refused ELSE BatchOf(catalog, entries, plans, options)

\* extract-catalog of the selected indices.
Batch(catalog, files, selected, options) ==
  BatchIf(catalog, [i \in DOMAIN selected |-> catalog[selected[i]]],
          [i \in DOMAIN selected |-> EntryPlan(catalog[selected[i]], files[selected[i]], options)],
          options)

\* verify_catalog_record
CatalogRecord(r, entry) ==
  <<r.name, r.id, r.size, r.sha, r.format>> = <<entry.name, entry.id, entry.size, entry.sha, entry.format>>

\* One resource of a batch manifest, against its own manifest and files.
ResourceHolds(output, r, position, replay) ==
  LET document == output.docs[r.dir]
      roles == Roles(document)
      source == IF replay = Absent THEN Absent ELSE replay.files[r.index]
  IN /\ r.ordinal = position
     /\ replay # Absent => r.index \in DOMAIN replay.catalog /\ CatalogRecord(r, replay.catalog[r.index])
     /\ SingleHolds(output, r.dir, source)
     /\ (roles \cap (DdsRoles \ FdtLinked) # {}) = output.batch.dds
     /\ (roles \cap (PngRoles \ FdtLinked) # {}) = output.batch.png
     /\ document.source.entry = output.batch.entry
     /\ <<r.name, r.id, r.size, r.sha, r.format>>
          = <<document.source.name, document.source.id, document.source.size, document.source.sha,
              document.format>>
     /\ r.output = DirectoryBytes(output, r.dir)

\* verify-extraction of a batch, with the catalogue and its files to replay or Absent.
VerifyBatch(output, replay) ==
  LET b == output.batch
      dirs == {b.resources[i].dir : i \in DOMAIN b.resources}
  IN /\ b # Absent /\ 0 \notin DOMAIN output.docs
     /\ replay # Absent => b.catalog = replay.catalog
     /\ IsInjective([i \in DOMAIN b.resources |-> b.resources[i].index])
     /\ IsInjective([i \in DOMAIN b.resources |-> b.resources[i].dir])
     /\ \A i \in DOMAIN b.resources : ResourceHolds(output, b.resources[i], i, replay)
     /\ b.totals.count = Len(b.resources)
     /\ b.totals.source = Total([i \in DOMAIN b.resources |-> output.docs[b.resources[i].dir].source.size])
     /\ b.totals.output = b.length + Total([i \in DOMAIN b.resources |->
                                              DirectoryBytes(output, b.resources[i].dir)])
     /\ Membership(output, dirs)
=============================================================================
