----------------------------- MODULE ZonePublish -----------------------------
(***************************************************************************)
(* How build-zone-project (apps/cli/src/zone_project.rs) and               *)
(* build-zone-package (apps/cli/src/zone_package.rs) publish into a new    *)
(* directory: an exclusive create_dir, each resource through write_new     *)
(* (create_new, write_all, sync_all), the report under a pending name, and *)
(* the rename of the report last.  A package reads every resource back.    *)
(* There is no staging directory and no cleanup: what keeps a reader from  *)
(* taking a half-built directory for a build is the report's name alone.   *)
(*                                                                         *)
(* Several runs aim at one directory; calls fail, processes die, the power *)
(* fails, a device stores other bytes than it was given, and the user adds *)
(* files and clears leftovers.  One action is one file-system call.        *)
(***************************************************************************)
EXTENDS Naturals

CONSTANTS
  Proc,      \* runs with the same --output
  Package,   \* those of them that are build-zone-package
  Files,     \* number of resources written before the report
  Nobody,    \* no run; the user
  NoDir,     \* nothing at the output path
  NoFile     \* nothing at a name in the output directory

Item == 1..Files
Pending == Files + 1      \* build-report.json.pending
Report == Files + 2       \* build-report.json
Name == 1..(Files + 2)

\* torn: bytes missing; cached: all written, not on disk yet; synced: on disk;
\* wrong: on disk, but not the bytes that were written.
File == [by : Proc \cup {Nobody}, st : {"torn", "cached", "synced", "wrong"}]

FileOf(p, s) == [by |-> p, st |-> s]
UserFile == FileOf(Nobody, "synced")
Tree == [Name -> File \cup {NoFile}]
EmptyTree == [n \in Name |-> NoFile]

ASSUME ZoneAssumption ==
  /\ Files \in Nat \ {0}
  /\ Package \subseteq Proc
  /\ Nobody \notin Proc
  /\ NoFile \notin File
  /\ NoDir \notin Tree

VARIABLES
  pc,           \* pc[p]: the next call of run p
  next,         \* next[p]: the name it writes next
  out,          \* the output directory
  undisturbed   \* history: no fault, no death, no user step so far

vars == <<pc, next, out, undisturbed>>

Inside == {"create", "fill", "sync", "compare", "probe", "rename"}
Running == {"mkdir"} \cup Inside
Ended == {"done", "failed", "crashed"}

GoTo(p, label) == pc' = [pc EXCEPT ![p] = label]

\* An error return: nothing is cleaned up.
Fail(p) == GoTo(p, "failed") /\ UNCHANGED <<next, out>>

Present(n) == out # NoDir /\ out[n] # NoFile

\* The file at n belongs to run p.
OwnedBy(p, n) == Present(n) /\ out[n].by = p

-------------------------------------------------------------------------------
Init ==
  /\ pc = [p \in Proc |-> "idle"]
  /\ next = [p \in Proc |-> 1]
  /\ out \in {NoDir, EmptyTree}
  /\ undisturbed = (out = NoDir)

\* Preparation happens in memory; a refusal there touches no file and is the
\* same as never starting.
Launch(p) ==
  /\ pc[p] = "idle"
  /\ GoTo(p, "mkdir")
  /\ UNCHANGED <<next, out, undisturbed>>

\* new_output_directory: fs::create_dir refuses every existing entry.
MakeOutput(p) ==
  /\ pc[p] = "mkdir"
  /\ out = NoDir
  /\ out' = EmptyTree
  /\ GoTo(p, "create")
  /\ UNCHANGED <<next, undisturbed>>

OutputRefused(p) ==
  /\ pc[p] = "mkdir"
  /\ out # NoDir
  /\ Fail(p)
  /\ UNCHANGED undisturbed

\* Faulty variant: create instead of create_new truncates what is there.
CreateFileOver(p) ==
  /\ pc[p] = "create"
  /\ out # NoDir
  /\ out' = [out EXCEPT ![next[p]] = FileOf(p, "torn")]
  /\ GoTo(p, "fill")
  /\ UNCHANGED <<next, undisturbed>>

\* write_new: OpenOptions::create_new.
CreateFile(p) ==
  /\ pc[p] = "create"
  /\ out # NoDir
  /\ out[next[p]] = NoFile
  /\ out' = [out EXCEPT ![next[p]] = FileOf(p, "torn")]
  /\ GoTo(p, "fill")
  /\ UNCHANGED <<next, undisturbed>>

\* A name the user has taken.
CreateRefused(p) ==
  /\ pc[p] = "create"
  /\ Present(next[p])
  /\ Fail(p)
  /\ UNCHANGED undisturbed

\* file.write_all
FillFile(p) ==
  /\ pc[p] = "fill"
  /\ out' = [out EXCEPT ![next[p]] = FileOf(p, "cached")]
  /\ GoTo(p, "sync")
  /\ UNCHANGED <<next, undisturbed>>

\* After sync_all: a package compares a resource, the others go on.
AfterSync(p) ==
  CASE p \in Package /\ next[p] \in Item -> GoTo(p, "compare") /\ UNCHANGED next
    [] OTHER -> /\ next' = [next EXCEPT ![p] = @ + 1]
                /\ GoTo(p, IF next[p] = Pending THEN "probe" ELSE "create")

\* Faulty variant: no sync_all, so the bytes may still be in memory only.
SyncFileNot(p) ==
  /\ pc[p] = "sync"
  /\ UNCHANGED <<out, undisturbed>>
  /\ AfterSync(p)

\* Faulty variant: the files are written without advancing to the next one.
SyncFileAgain(p) ==
  /\ pc[p] = "sync"
  /\ out' = [out EXCEPT ![next[p]] = FileOf(p, "synced")]
  /\ GoTo(p, "fill")
  /\ UNCHANGED <<next, undisturbed>>

\* file.sync_all; a faulty device may have stored a resource wrongly.
SyncFile(p) ==
  /\ pc[p] = "sync"
  /\ \/ /\ out' = [out EXCEPT ![next[p]] = FileOf(p, "synced")]
        /\ UNCHANGED undisturbed
     \/ /\ next[p] \in Item
        /\ out' = [out EXCEPT ![next[p]] = FileOf(p, "wrong")]
        /\ undisturbed' = FALSE
  /\ AfterSync(p)

\* publish of zone_package.rs: read_bounded, written != *bytes.
Compare(p) ==
  /\ pc[p] = "compare"
  /\ out[next[p]].st = "synced"
  /\ next' = [next EXCEPT ![p] = @ + 1]
  /\ GoTo(p, "create")
  /\ UNCHANGED <<out, undisturbed>>

CompareRefused(p) ==
  /\ pc[p] = "compare"
  /\ out[next[p]].st # "synced"
  /\ Fail(p)
  /\ UNCHANGED undisturbed

\* Faulty variant: an earlier report is taken for this run's own.
ProbeReportAccepts(p) ==
  /\ pc[p] = "probe"
  /\ GoTo(p, IF out[Report] = NoFile THEN "rename" ELSE "done")
  /\ UNCHANGED <<next, out, undisturbed>>

\* fs::symlink_metadata(&report) must say NotFound.
ProbeReport(p) ==
  /\ pc[p] = "probe"
  /\ IF out[Report] = NoFile THEN GoTo(p, "rename") /\ UNCHANGED <<next, out>> ELSE Fail(p)
  /\ UNCHANGED undisturbed

\* fs::rename(pending, report) replaces a file that appeared meanwhile.
RenameReport(p) ==
  /\ pc[p] = "rename"
  /\ out' = [out EXCEPT ![Report] = out[Pending], ![Pending] = NoFile]
  /\ GoTo(p, "done")
  /\ UNCHANGED <<next, undisturbed>>

\* Any call may fail.
CallFails(p) ==
  /\ pc[p] \in Running
  /\ Fail(p)
  /\ undisturbed' = FALSE

Step(p) ==
  \/ MakeOutput(p) \/ OutputRefused(p) \/ CreateFile(p) \/ CreateRefused(p)
  \/ FillFile(p) \/ SyncFile(p) \/ Compare(p) \/ CompareRefused(p)
  \/ ProbeReport(p) \/ RenameReport(p) \/ CallFails(p)

-------------------------------------------------------------------------------
(* What the tool does not control. *)

Crash(p) ==
  /\ pc[p] \in Running
  /\ GoTo(p, "crashed")
  /\ undisturbed' = FALSE
  /\ UNCHANGED <<next, out>>

\* What is on disk after a power failure.  Directory operations reach the disk
\* in the order they were made (so the entries that are lost are the last ones,
\* the rename first of all); the bytes of a file are safe once synced.
Survives(after) ==
  \/ after = NoDir
  \/ /\ out # NoDir
     /\ \E kept \in 0..(Files + 2), lost \in SUBSET Name :
          LET Made(n) == Present(n) /\ out[n].by # Nobody
              Entry(n) == CASE n = Pending /\ Made(Report) /\ kept = Pending -> out[Report]
                            [] Made(n) /\ n > kept -> NoFile
                            [] OTHER -> out[n]
          IN after = [n \in Name |->
               IF Entry(n) # NoFile /\ n \in lost /\ Entry(n).st \in {"torn", "cached"}
                 THEN [Entry(n) EXCEPT !.st = "torn"]
                 ELSE Entry(n)]

PowerFails ==
  /\ Survives(out')
  /\ pc' = [p \in Proc |-> IF pc[p] \in Running THEN "crashed" ELSE pc[p]]
  /\ undisturbed' = FALSE
  /\ UNCHANGED next

\* The user puts a file of his own at a free name.
UserAdds ==
  /\ out # NoDir
  /\ \E n \in Name : out[n] = NoFile /\ out' = [out EXCEPT ![n] = UserFile]

\* The user clears the directory away; not while a run is at work in it (the
\* documentation asks for a new destination after a failure).
UserClears ==
  /\ out # NoDir
  /\ \A p \in Proc : pc[p] \notin Inside
  /\ out' = NoDir

User ==
  /\ UserAdds \/ UserClears
  /\ undisturbed' = FALSE
  /\ UNCHANGED <<pc, next>>

Next == User \/ PowerFails \/ \E p \in Proc : Launch(p) \/ Step(p) \/ Crash(p)

\* The operating system runs every process to its end unless it dies.
Fairness == \A p \in Proc : WF_vars(Launch(p) \/ Step(p))

Spec == Init /\ [][Next]_vars
FairSpec == Spec /\ Fairness

-------------------------------------------------------------------------------
(* Properties. *)

TypeOK ==
  /\ pc \in [Proc -> {"idle"} \cup Running \cup Ended]
  /\ next \in [Proc -> 1..(Files + 2)]
  /\ out \in Tree \cup {NoDir}
  /\ undisturbed \in BOOLEAN

\* create_dir lets one run at a time work in the directory.
OneInside ==
  \A p, q \in Proc : pc[p] \in Inside /\ pc[q] \in Inside => p = q

\* States of a resource of run p that p has gone past.
Settled(p) == IF p \in Package THEN {"synced"} ELSE {"synced", "wrong"}

Has(p, n, states) == OwnedBy(p, n) /\ out[n].st \in states

\* A run at work: everything before the name it writes is its own and on disk,
\* nothing after it is a run's.
WorkInv ==
  \A p \in Proc : pc[p] \in Inside =>
    /\ out # NoDir
    /\ \A n \in Item : n < next[p] => Has(p, n, Settled(p))
    /\ \A n \in Name : n > next[p] => ~Present(n) \/ out[n].by = Nobody
    /\ ~Present(Report) \/ out[Report].by = Nobody
    /\ pc[p] \in {"probe", "rename"} => next[p] = Report /\ Has(p, Pending, {"synced"})
    /\ pc[p] \notin {"probe", "rename"} => next[p] \in Item \cup {Pending}
    /\ pc[p] = "create" => ~Present(next[p]) \/ out[next[p]].by = Nobody
    /\ pc[p] = "fill" => Has(p, next[p], {"torn"})
    /\ pc[p] = "sync" => Has(p, next[p], {"cached"})
    /\ pc[p] = "compare" => Has(p, next[p], {"synced", "wrong"}) /\ next[p] \in Item

\* A run starts at its first file.
FreshInv == \A p \in Proc : pc[p] \in {"idle", "mkdir"} => next[p] = 1

\* A report is never in the directory without every resource of the same run,
\* on disk whole: neither an I/O error, a death, a power failure nor a second
\* run leaves a report beside a half-built set.  A package's resources are
\* moreover the bytes that were prepared, whatever the device did
\* (write_new's sync_all, publish's read-back, the rename last).
ReportComplete ==
  \A p \in Proc : OwnedBy(p, Report) =>
    /\ pc[p] = "done"
    /\ out[Report].st = "synced"
    /\ \A n \in Item : Has(p, n, Settled(p))

\* Two runs' files never mix in one directory, not even after a failed run.
Unmixed ==
  \A n, m \in Name : Present(n) /\ Present(m) /\ out[n].by # Nobody /\ out[m].by # Nobody
                       => out[n].by = out[m].by

\* The inductive invariant of the protocol.
IInv ==
  /\ TypeOK
  /\ OneInside
  /\ FreshInv
  /\ WorkInv
  /\ ReportComplete
  /\ Unmixed

\* A run's step never takes away, replaces or rewrites a file that is not its
\* own; the one exception is a user's file put at the report's name between the
\* check for it and the rename.
OthersUntouched ==
  [][\A p \in Proc : Step(p) => \A n \in Name :
       Present(n) /\ ~OwnedBy(p, n) /\ ~(n = Report /\ pc[p] = "rename")
         => out' # NoDir /\ out'[n] = out[n]]_vars

Published == Present(Report) /\ out[Report].by # Nobody

\* When nothing disturbs the runs, one of them publishes, although all but one
\* are refused.
EventuallyPublished == Proc # {} => <>(Published \/ ~undisturbed)

\* The protocol implements the abstract promise: the build becomes visible, as
\* a whole, when its report gets its name.  A report beside a resource that is
\* missing, torn or not yet on disk publishes nothing.
outcomeOf(p) == CASE pc[p] = "idle" -> "idle"
                  [] pc[p] = "done" -> "won"
                  [] pc[p] \in {"failed", "crashed"} -> "lost"
                  [] OTHER -> "working"

standing ==
  LET p == out[Report].by
  IN IF Published /\ out[Report].st = "synced" /\ \A n \in Item : Has(p, n, Settled(p))
     THEN p ELSE Nobody

Abstract == INSTANCE AtomicPublish WITH
  Producer <- Proc,
  Nobody <- Nobody,
  published <- standing,
  outcome <- [p \in Proc |-> outcomeOf(p)]

AtomicPublication == Abstract!Spec
===============================================================================
