---------------------------- MODULE ExtractVerify ----------------------------
(* `xivl extract-resource` runs that name the same output directory, and one
   `xivl verify-extraction` of that directory.

   An extraction is one file per payload below payloads/, then one manifest.
   Nothing is staged: the run asks once whether the directory is empty, makes
   payloads/ exclusively when it has payloads, and writes every file with
   fs::write, which truncates what it finds.  A run whose resource has no
   payload therefore meets no exclusive step at all.

   The verifier reads each member once into an inventory (size and digest),
   then reads the manifest a second time and compares it with the inventory.

   An absent and an empty output directory are the same state here: both
   commands treat them alike. *)
EXTENDS Naturals, FiniteSets

CONSTANTS Writer,    \* the extract-resource runs, each of a resource of its own
          Bare,      \* those whose extraction has no payload file
          Json,      \* those run with --format json
          Files,     \* payload files of an extraction that has any
          UserMoves, \* bound on the user's changes to the directory
          Nobody,    \* in place of a run: the user
          NoFile, NoDir

ASSUME WritersAssumption == Bare \subseteq Writer /\ Json \subseteq Writer
ASSUME NobodyAssumption == Nobody \notin Writer
ASSUME FilesAssumption == Files \in Nat \ {0}
ASSUME UserMovesAssumption == UserMoves \in Nat

Item == 1..Files
JsonDoc == Files + 1         \* extraction.json
YamlDoc == Files + 2         \* extraction.yaml
Doc == {JsonDoc, YamlDoc}
Name == Item \cup Doc

File == [by : Writer \cup {Nobody}, whole : BOOLEAN]
ASSUME NoFileAssumption == NoFile \notin File
ASSUME NoDirAssumption == NoDir \notin Writer \cup {Nobody}

Whole(w) == [by |-> w, whole |-> TRUE]
Torn(w) == [by |-> w, whole |-> FALSE]
Mixed == Torn(Nobody)        \* two open writes have met in one file
UserFile == Whole(Nobody)

VARIABLES
  pc, next,      \* an extract-resource run: its step, the file it is at
  payloads,      \* who made payloads/, or NoDir
  file,          \* the members, by name
  moves,         \* changes the user has made to the directory
  vpc,           \* the verification
  listed,        \* the names its directory reads returned
  listedDir,     \* whether payloads/ was among them
  seen,          \* its inventory
  loaded,        \* the manifest as read the second time
  verdict,       \* "none", "refused" or "accepted"
  calm           \* nothing has changed since the verification began

disk == <<payloads, file>>
runs == <<pc, next>>
verifier == <<vpc, listed, listedDir, seen, loaded, verdict>>
vars == <<runs, disk, moves, verifier, calm>>

undisturbed == moves = 0     \* the user has left the directory alone

Artifacts(w) == IF w \in Bare THEN {} ELSE Item
DocOf(w) == IF w \in Json THEN JsonDoc ELSE YamlDoc

(* Mutant: the manifest is the first file written. *)
NameAtManifestFirst(w) == IF w \in Bare \/ next[w] = 1 THEN DocOf(w) ELSE next[w] - 1

(* The file a run is at: its payloads in order, then its manifest. *)
NameAt(w) == IF next[w] <= Files THEN next[w] ELSE DocOf(w)

IsEmpty == payloads = NoDir /\ \A n \in Name : file[n] = NoFile
GoTo(w, label) == pc' = [pc EXCEPT ![w] = label]

Init ==
  /\ pc = [w \in Writer |-> "idle"]
  /\ next = [w \in Writer |-> 1]
  /\ payloads = NoDir
  /\ file = [n \in Name |-> NoFile]
  /\ moves = 0
  /\ vpc = "idle"
  /\ listed = {}
  /\ listedDir = FALSE
  /\ seen = [n \in Name |-> NoFile]
  /\ loaded = NoFile
  /\ verdict = "none"
  /\ calm = FALSE

---------------------------------------------------------------------------
(* The extraction. *)

Launch(w) ==
  /\ pc[w] = "idle"
  /\ GoTo(w, "check")
  /\ UNCHANGED <<next, disk, moves, verifier, calm>>

(* require_empty_output: asked once, before the input is even read. *)
CheckOutput(w) ==
  /\ pc[w] = "check"
  /\ GoTo(w, IF IsEmpty THEN "plan" ELSE "stopped")
  /\ UNCHANGED <<next, disk, moves, verifier, calm>>

(* The input is read and every byte of the output rendered in memory. *)
Plan(w) ==
  /\ pc[w] = "plan"
  /\ GoTo(w, IF w \in Bare THEN "open" ELSE "payloads")
  /\ next' = [next EXCEPT ![w] = IF w \in Bare THEN Files + 1 ELSE 1]
  /\ UNCHANGED <<disk, moves, verifier, calm>>

(* Mutant: payloads/ made with create_dir_all, which accepts an existing one. *)
MakePayloadsAll(w) ==
  /\ pc[w] = "payloads"
  /\ payloads' = IF payloads = NoDir THEN w ELSE payloads
  /\ GoTo(w, "open")
  /\ calm' = FALSE
  /\ UNCHANGED <<next, file, moves, verifier>>

MakePayloads(w) ==
  /\ pc[w] = "payloads"
  /\ payloads = NoDir
  /\ payloads' = w
  /\ GoTo(w, "open")
  /\ calm' = FALSE
  /\ UNCHANGED <<next, file, moves, verifier>>

PayloadsRefused(w) ==
  /\ pc[w] = "payloads"
  /\ payloads # NoDir
  /\ GoTo(w, "stopped")
  /\ UNCHANGED <<next, disk, moves, verifier, calm>>

(* fs::write opens the file, creating or truncating it ... *)
OpenFile(w) ==
  /\ pc[w] = "open"
  /\ NameAt(w) \in Item => payloads # NoDir
  /\ file' = [file EXCEPT ![NameAt(w)] = Torn(w)]
  /\ GoTo(w, "fill")
  /\ calm' = FALSE
  /\ UNCHANGED <<next, payloads, moves, verifier>>

(* ... and then writes from its start.  A file the user has since removed or
   replaced is out of the handle's reach; one that another run has opened too
   ends up as this run's bytes, or as these over a longer remainder. *)
Filled(w, f) ==
  CASE f = Torn(w) -> {Whole(w)}
    [] f = NoFile \/ f = UserFile -> {f}
    [] OTHER -> {Whole(w), Mixed}

(* The manifest comes after every payload, and ends the run. *)
FillFile(w) ==
  /\ pc[w] = "fill"
  /\ \E f \in Filled(w, file[NameAt(w)]) : file' = [file EXCEPT ![NameAt(w)] = f]
  /\ IF next[w] <= Files
       THEN next' = [next EXCEPT ![w] = @ + 1] /\ GoTo(w, "open")
       ELSE next' = next /\ GoTo(w, "done")
  /\ calm' = FALSE
  /\ UNCHANGED <<payloads, moves, verifier>>

(* Any call can fail and the process can be killed anywhere.  An error is
   returned with nothing removed, so both leave the same disk behind. *)
Stops(w) ==
  /\ pc[w] \in {"check", "plan", "payloads", "open", "fill"}
  /\ GoTo(w, "stopped")
  /\ UNCHANGED <<next, disk, moves, verifier, calm>>

Extract(w) ==
  \/ Launch(w) \/ CheckOutput(w) \/ Plan(w)
  \/ MakePayloads(w) \/ PayloadsRefused(w)
  \/ OpenFile(w) \/ FillFile(w) \/ Stops(w)

---------------------------------------------------------------------------
(* The verification. *)

Present == {n \in Name : file[n] # NoFile}
Unread == {n \in listed : seen[n] = NoFile}

Conclude(v) == verdict' = v /\ vpc' = "ended"

(* walk: the root's names are collected before any member is read. *)
ListRoot ==
  /\ vpc = "idle"
  /\ listed' = Present \cap Doc
  /\ listedDir' = (payloads # NoDir)
  /\ vpc' = "docs"
  /\ calm' = TRUE
  /\ UNCHANGED <<runs, disk, moves, seen, loaded, verdict>>

(* The members of a directory are read in the order of their names. *)
ReadMember ==
  /\ vpc \in {"docs", "items"}
  /\ \E n \in Unread :
       /\ \A m \in Unread : n <= m
       /\ IF file[n] = NoFile
            THEN Conclude("refused") /\ seen' = seen
            ELSE seen' = [seen EXCEPT ![n] = file[n]] /\ UNCHANGED <<vpc, verdict>>
  /\ UNCHANGED <<runs, disk, moves, listed, listedDir, loaded, calm>>

(* payloads/ sorts after both manifest names. *)
ListPayloads ==
  /\ vpc = "docs"
  /\ Unread = {}
  /\ IF listedDir /\ payloads = NoDir
       THEN Conclude("refused") /\ listed' = listed
       ELSE /\ vpc' = "items"
            /\ listed' = listed \cup (IF listedDir THEN Present \cap Item ELSE {})
            /\ verdict' = verdict
  /\ UNCHANGED <<runs, disk, moves, listedDir, seen, loaded, calm>>

(* detect_manifest wants exactly one manifest in the inventory;
   load_manifest reads that path again. *)
LoadManifest ==
  /\ vpc = "items"
  /\ Unread = {}
  /\ LET found == listed \cap Doc IN
       IF \E d \in Doc : found = {d} /\ file[d] # NoFile
         THEN /\ loaded' = file[CHOOSE d \in Doc : found = {d}]
              /\ vpc' = "compare"
              /\ verdict' = verdict
         ELSE Conclude("refused") /\ loaded' = loaded
  /\ UNCHANGED <<runs, disk, moves, listed, listedDir, seen, calm>>

(* Mutant: only what the manifest lists is looked at (no compare_membership). *)
AcceptsListed(w) ==
  /\ loaded = Whole(w)
  /\ \A n \in Artifacts(w) : seen[n] = Whole(w)

(* verify_single, for a manifest that parses and fits the schema, that is one
   some run wrote out in full: each payload has the size and digest listed,
   and the inventory holds nothing else. *)
Accepts(w) ==
  /\ loaded = Whole(w)
  /\ \A n \in Artifacts(w) : seen[n] = Whole(w)
  /\ listed \ Doc = Artifacts(w)
  /\ listedDir <=> Artifacts(w) # {}

Verify ==
  /\ vpc = "compare"
  /\ Conclude(IF \E w \in Writer : Accepts(w) THEN "accepted" ELSE "refused")
  /\ UNCHANGED <<runs, disk, moves, listed, listedDir, seen, loaded, calm>>

Verification == ListRoot \/ ReadMember \/ ListPayloads \/ LoadManifest \/ Verify

---------------------------------------------------------------------------
(* The user, who may change any member or clear the directory. *)

UserEdits ==
  /\ \E n \in Name : \E f \in {NoFile, UserFile} \ {file[n]} :
       /\ n \in Item => payloads # NoDir
       /\ file' = [file EXCEPT ![n] = f]
  /\ payloads' = payloads

UserClears ==
  /\ ~IsEmpty
  /\ payloads' = NoDir
  /\ file' = [n \in Name |-> NoFile]

UserMakesPayloads ==
  /\ payloads = NoDir
  /\ payloads' = Nobody
  /\ file' = file

User ==
  /\ UserEdits \/ UserClears \/ UserMakesPayloads
  /\ moves < UserMoves
  /\ moves' = moves + 1
  /\ calm' = FALSE
  /\ UNCHANGED <<runs, verifier>>

Next == User \/ Verification \/ \E w \in Writer : Extract(w)

Spec == Init /\ [][Next]_vars

---------------------------------------------------------------------------
(* Properties. *)

TypeOK ==
  /\ pc \in [Writer -> {"idle", "check", "plan", "payloads", "open", "fill",
                        "done", "stopped"}]
  /\ next \in [Writer -> 1..(Files + 1)]
  /\ payloads \in Writer \cup {Nobody, NoDir}
  /\ file \in [Name -> File \cup {NoFile}]
  /\ moves \in 0..UserMoves
  /\ vpc \in {"idle", "docs", "items", "compare", "ended"}
  /\ listed \in SUBSET Name
  /\ listedDir \in BOOLEAN
  /\ seen \in [Name -> File \cup {NoFile}]
  /\ loaded \in File \cup {NoFile}
  /\ verdict \in {"none", "refused", "accepted"}
  /\ calm \in BOOLEAN

(* While the user stays out, payloads/ is a lock: the run that made it is the
   only one past create_dir, every payload file is its own, and the whole ones
   are exactly those it has finished.  (create_dir in write_to) *)
PayloadsOfOneRun == undisturbed =>
  /\ payloads # Nobody
  /\ \A n \in Item : file[n] # NoFile => payloads \in Writer /\ file[n].by = payloads
  /\ \A w \in Writer \ Bare :
       /\ pc[w] \in {"open", "fill", "done"} \/ next[w] > 1 => payloads = w
       /\ payloads = w => \A n \in Item : n < next[w] <=> file[n] = Whole(w)
       /\ pc[w] = "fill" /\ next[w] <= Files => file[next[w]] = Torn(w)

(* A whole manifest is the mark of a complete extraction: no failure, crash or
   concurrent run leaves one whose payload files are not all there and whole.
   (write_to writes the document last) *)
ManifestLast == undisturbed =>
  \A w \in Writer : \A d \in Doc :
    file[d] = Whole(w) => \A n \in Artifacts(w) : file[n] = Whole(w)

(* Where each run is, whatever the user does: a run that has opened its
   manifest has opened it last and under its own format's name. *)
RunInv ==
  /\ \A w \in Writer :
       /\ pc[w] \in {"idle", "check", "plan", "payloads"} => next[w] = 1
       /\ w \in Bare => pc[w] # "payloads"
       /\ w \in Bare /\ pc[w] \in {"open", "fill", "done"} => next[w] = Files + 1
       /\ \A d \in Doc : file[d] # NoFile /\ file[d].by = w =>
            d = DocOf(w) /\ next[w] = Files + 1
  /\ payloads = NoDir => \A n \in Item : file[n] = NoFile

(* What a verification has read is what it listed, and, while nothing changes,
   what is there. *)
ScanInv ==
  /\ vpc = "idle" => verdict = "none" /\ ~calm /\ \A n \in Name : seen[n] = NoFile
  /\ vpc # "ended" => verdict = "none"
  /\ \A n \in Name : seen[n] # NoFile => n \in listed
  /\ undisturbed => \A n \in Item : \A w \in Writer : seen[n] = Whole(w) => file[n] = Whole(w)
  /\ verdict = "accepted" => \E w \in Writer : loaded = Whole(w)
  /\ calm =>
       /\ listedDir <=> payloads # NoDir
       /\ \A n \in Name : seen[n] # NoFile => seen[n] = file[n]
       /\ vpc = "docs" => listed = Present \cap Doc
       /\ vpc = "items" => listed = Present
       /\ vpc = "compare" =>
            /\ listed = Present
            /\ Unread = {}
            /\ \E d \in Doc : listed \cap Doc = {d} /\ loaded = file[d]

IInv == TypeOK /\ PayloadsOfOneRun /\ ManifestLast /\ RunInv /\ ScanInv

(* What a directory must hold to be an extraction, whoever is asked. *)
IsExtractionOf(w) ==
  /\ file = [n \in Name |-> IF n \in Artifacts(w) \cup {DocOf(w)} THEN Whole(w) ELSE NoFile]
  /\ payloads # NoDir <=> w \notin Bare

(* A verification during which nothing changed says "accepted" exactly when the
   directory is one run's complete extraction, and has then measured the very
   manifest it reports on.  (walk, detect_manifest, load_manifest,
   verify_single, compare_membership) *)
VerdictIsExact ==
  calm /\ vpc = "ended" =>
    /\ verdict = "accepted" <=> \E w \in Writer : IsExtractionOf(w)
    /\ verdict = "accepted" => loaded \in {seen[d] : d \in Doc}

(* Even when runs do write during the verification, what was accepted stays:
   its payload files are on disk, whole, then and ever after.
   (create_dir in write_to against verify_single's inventory) *)
AcceptedStays ==
  undisturbed /\ verdict = "accepted" =>
    \A n \in Artifacts(loaded.by) : file[n] = Whole(loaded.by)

(* No run opens, and so truncates, a file another run has put there.
   (docs/cli.md:898-900: the command refuses existing output files where
   overwriting would hide stale data) *)
NoRunOverwritten ==
  [][\A n \in Name : \A w \in Writer :
       file[n] = Whole(w) /\ file'[n] # file[n] => moves' > moves]_vars
=============================================================================
