----------------------------- MODULE BatchPublish -----------------------------
(***************************************************************************)
(* The publication protocol of extract-catalog                             *)
(* (apps/cli/src/batch_extract.rs: run, write_batch_atomically), with      *)
(* several runs aiming at one output directory, I/O failures, deaths of    *)
(* processes and a user who works in the same directory.                   *)
(*                                                                         *)
(* A run plans everything in memory, writes its files into a staging       *)
(* directory named after its process id beside the output, takes an empty  *)
(* output directory away and renames the staging directory over it.        *)
(* One action is one file-system call (or one in-memory phase).            *)
(***************************************************************************)
EXTENDS Naturals

CONSTANTS
  Proc,     \* runs of extract-catalog with the same --output
  Pid,      \* operating system process ids; an id is reused once its run ended
  Files,    \* number of files of a batch, its manifest included and written last
  Nobody,   \* no run
  NoDir,    \* the path names nothing
  Out       \* the name of the output directory

Item == 1..Files

Dir == [by : Proc \cup {Nobody},   \* the run that made the directory
        whole : SUBSET Item,       \* complete files of that run's plan
        torn : SUBSET Item,        \* files opened but not completely written
        foreign : BOOLEAN]         \* something that is not xivl's is inside

NewDir(maker) == [by |-> maker, whole |-> {}, torn |-> {}, foreign |-> FALSE]
EmptyDir == NewDir(Nobody)

ASSUME BatchAssumption ==
  /\ Files \in Nat \ {0}
  /\ Nobody \notin Proc
  /\ NoDir \notin Dir
  /\ Out \notin Pid

VARIABLES
  pc,           \* pc[p]: the next step of run p
  pid,          \* pid[p]: its process id
  next,         \* next[p]: the file it writes next
  existed,      \* existed[p]: the local output_existed
  dir,          \* dir[n]: the directory at the output path or at a staging path
  undisturbed   \* history: no fault, no death, no user step so far

vars == <<pc, pid, next, existed, dir, undisturbed>>

Ended == {"done", "failed", "crashed"}
Running == {"check", "plan", "probe", "stage", "write", "filling", "abandon",
            "exists", "recheck", "rmdir", "rename", "unstage", "restore"}

Live(p) == pc[p] \in Running

IsEmpty(d) == d.whole = {} /\ d.torn = {} /\ ~d.foreign

\* require_empty_output: nothing there, or a directory without members.
Vacant(d) == d # NoDir => IsEmpty(d)

Full(p) == [by |-> p, whole |-> Item, torn |-> {}, foreign |-> FALSE]

Staging(p) == dir[pid[p]]

GoTo(p, label) == pc' = [pc EXCEPT ![p] = label]

-------------------------------------------------------------------------------
Init ==
  /\ pc = [p \in Proc |-> "idle"]
  /\ pid \in [Proc -> Pid]
  /\ next = [p \in Proc |-> 1]
  /\ existed = [p \in Proc |-> FALSE]
  /\ \E d \in {NoDir, EmptyDir, [EmptyDir EXCEPT !.foreign = TRUE]} :
       /\ dir = [n \in Pid \cup {Out} |-> IF n = Out THEN d ELSE NoDir]
       /\ undisturbed = Vacant(d)

\* The system starts the process: its id differs from every running one's.
Launch(p) ==
  /\ pc[p] = "idle"
  /\ \E i \in Pid :
       /\ \A q \in Proc : Live(q) => pid[q] # i
       /\ pid' = [pid EXCEPT ![p] = i]
  /\ GoTo(p, "check")
  /\ UNCHANGED <<next, existed, dir, undisturbed>>

\* Faulty variant: refuses an existing directory although it is empty.
CheckOutputRefusesEmpty(p) ==
  /\ pc[p] = "check"
  /\ GoTo(p, IF dir[Out] = NoDir THEN "plan" ELSE "failed")
  /\ UNCHANGED <<pid, next, existed, dir, undisturbed>>

\* run: require_empty_output before anything is read.
CheckOutput(p) ==
  /\ pc[p] = "check"
  /\ GoTo(p, IF Vacant(dir[Out]) THEN "plan" ELSE "failed")
  /\ UNCHANGED <<pid, next, existed, dir, undisturbed>>

\* Everything between the check and write_batch_atomically happens in
\* memory (see CatalogWorkflow); any refusal ends the run with no output.
Plan(p) ==
  /\ pc[p] = "plan"
  /\ \/ GoTo(p, "probe") /\ UNCHANGED undisturbed
     \/ GoTo(p, "failed") /\ undisturbed' = FALSE
  /\ UNCHANGED <<pid, next, existed, dir>>

\* staging.exists(): a leftover of an earlier run with this id is refused.
ProbeStaging(p) ==
  /\ pc[p] = "probe"
  /\ IF Staging(p) = NoDir
       THEN GoTo(p, "stage") /\ UNCHANGED undisturbed
       ELSE GoTo(p, "failed") /\ undisturbed' = FALSE
  /\ UNCHANGED <<pid, next, existed, dir>>

\* fs::create_dir(&staging), exclusive.
MakeStaging(p) ==
  /\ pc[p] = "stage"
  /\ \/ /\ Staging(p) = NoDir
        /\ dir' = [dir EXCEPT ![pid[p]] = NewDir(p)]
        /\ GoTo(p, "write")
        /\ UNCHANGED undisturbed
     \/ /\ GoTo(p, "failed")
        /\ undisturbed' = FALSE
        /\ UNCHANGED dir
  /\ UNCHANGED <<pid, next, existed>>

\* fs::write of the next file, in two parts: the file appears, then its
\* bytes are complete.
OpenFile(p) ==
  /\ pc[p] = "write"
  /\ next[p] \in Item
  /\ dir' = [dir EXCEPT ![pid[p]].torn = @ \cup {next[p]}]
  /\ GoTo(p, "filling")
  /\ UNCHANGED <<pid, next, existed, undisturbed>>

\* Faulty variant: the loop over the files does not advance.
FillFileAgain(p) ==
  /\ pc[p] = "filling"
  /\ dir' = [dir EXCEPT ![pid[p]].torn = @ \ {next[p]},
                        ![pid[p]].whole = @ \cup {next[p]}]
  /\ GoTo(p, "write")
  /\ UNCHANGED <<pid, next, existed, undisturbed>>

FillFile(p) ==
  /\ pc[p] = "filling"
  /\ dir' = [dir EXCEPT ![pid[p]].torn = @ \ {next[p]},
                        ![pid[p]].whole = @ \cup {next[p]}]
  /\ next' = [next EXCEPT ![p] = @ + 1]
  /\ GoTo(p, "write")
  /\ UNCHANGED <<pid, existed, undisturbed>>

\* Faulty variant: the result of the write is dropped and the run goes on.
WriteFailsUnseen(p) ==
  /\ \/ pc[p] = "filling"
     \/ pc[p] = "write" /\ next[p] \in Item
  /\ GoTo(p, "exists")
  /\ undisturbed' = FALSE
  /\ UNCHANGED <<pid, next, existed, dir>>

\* Any create or write that fails makes write_result an error.
WriteFails(p) ==
  /\ \/ pc[p] = "filling"
     \/ pc[p] = "write" /\ next[p] \in Item
  /\ GoTo(p, "abandon")
  /\ undisturbed' = FALSE
  /\ UNCHANGED <<pid, next, existed, dir>>

\* Faulty variant: the manifest is left out of the files written.
WritesDoneEarly(p) ==
  /\ pc[p] = "write"
  /\ next[p] >= Files
  /\ GoTo(p, "exists")
  /\ UNCHANGED <<pid, next, existed, dir, undisturbed>>

\* write_result is Ok: the batch manifest was the last file.
WritesDone(p) ==
  /\ pc[p] = "write"
  /\ next[p] \notin Item
  /\ GoTo(p, "exists")
  /\ UNCHANGED <<pid, next, existed, dir, undisturbed>>

\* let output_existed = output.exists()
ProbeOutput(p) ==
  /\ pc[p] = "exists"
  /\ existed' = [existed EXCEPT ![p] = dir[Out] # NoDir]
  /\ GoTo(p, IF dir[Out] # NoDir THEN "recheck" ELSE "rename")
  /\ UNCHANGED <<pid, next, dir, undisturbed>>

\* The second require_empty_output.
Recheck(p) ==
  /\ pc[p] = "recheck"
  /\ GoTo(p, IF Vacant(dir[Out]) THEN "rmdir" ELSE "abandon")
  /\ UNCHANGED <<pid, next, existed, dir, undisturbed>>

\* Faulty variant: remove_dir_all instead of remove_dir.
RemoveOutputTree(p) ==
  /\ pc[p] = "rmdir"
  /\ dir' = [dir EXCEPT ![Out] = NoDir]
  /\ GoTo(p, "rename")
  /\ UNCHANGED <<pid, next, existed, undisturbed>>

\* fs::remove_dir(output) takes away an empty directory only.
RemoveOutput(p) ==
  /\ pc[p] = "rmdir"
  /\ \/ /\ dir[Out] # NoDir
        /\ IsEmpty(dir[Out])
        /\ dir' = [dir EXCEPT ![Out] = NoDir]
        /\ GoTo(p, "rename")
        /\ UNCHANGED undisturbed
     \/ /\ GoTo(p, "abandon")
        /\ undisturbed' = (undisturbed /\ (dir[Out] = NoDir \/ ~IsEmpty(dir[Out])))
        /\ UNCHANGED dir
  /\ UNCHANGED <<pid, next, existed>>

\* Faulty variant: the move replaces whatever stands at the destination.
RenameOver(p) ==
  /\ pc[p] = "rename"
  /\ dir' = [dir EXCEPT ![Out] = Staging(p), ![pid[p]] = NoDir]
  /\ GoTo(p, "done")
  /\ UNCHANGED <<pid, next, existed, undisturbed>>

\* fs::rename(&staging, output): replaces nothing but an empty directory
\* (POSIX; where the platform refuses even that, the call fails).
Rename(p) ==
  /\ pc[p] = "rename"
  /\ Vacant(dir[Out])
  /\ dir' = [dir EXCEPT ![Out] = Staging(p), ![pid[p]] = NoDir]
  /\ GoTo(p, "done")
  /\ UNCHANGED <<pid, next, existed, undisturbed>>

RenameFails(p) ==
  /\ pc[p] = "rename"
  /\ GoTo(p, "unstage")
  /\ undisturbed' = (undisturbed /\ ~Vacant(dir[Out]))
  /\ UNCHANGED <<pid, next, existed, dir>>

\* let _ = fs::remove_dir_all(&staging): may stop half way, unnoticed.
RemoveStaging(p, from, to) ==
  /\ pc[p] = from
  /\ \/ dir' = [dir EXCEPT ![pid[p]] = NoDir] /\ UNCHANGED undisturbed
     \/ /\ \E rest \in SUBSET Staging(p).whole :
             dir' = [dir EXCEPT ![pid[p]].whole = rest]
        /\ undisturbed' = FALSE
  /\ GoTo(p, to)
  /\ UNCHANGED <<pid, next, existed>>

Abandon(p) == RemoveStaging(p, "abandon", "failed")
Unstage(p) == RemoveStaging(p, "unstage", IF existed[p] THEN "restore" ELSE "failed")

\* if output_existed { let _ = fs::create_dir(output); }
Restore(p) ==
  /\ pc[p] = "restore"
  /\ \/ /\ dir[Out] = NoDir
        /\ dir' = [dir EXCEPT ![Out] = EmptyDir]
        /\ UNCHANGED undisturbed
     \/ /\ UNCHANGED dir
        /\ undisturbed' = (undisturbed /\ dir[Out] # NoDir)
  /\ GoTo(p, "failed")
  /\ UNCHANGED <<pid, next, existed>>

Step(p) ==
  \/ CheckOutput(p) \/ Plan(p) \/ ProbeStaging(p) \/ MakeStaging(p)
  \/ OpenFile(p) \/ FillFile(p) \/ WriteFails(p) \/ WritesDone(p)
  \/ ProbeOutput(p) \/ Recheck(p) \/ RemoveOutput(p)
  \/ Rename(p) \/ RenameFails(p) \/ Abandon(p) \/ Unstage(p) \/ Restore(p)

-------------------------------------------------------------------------------
(* What the tool does not control. *)

\* The process dies between two calls; nothing on disk is undone.
Crash(p) ==
  /\ Live(p)
  /\ GoTo(p, "crashed")
  /\ undisturbed' = FALSE
  /\ UNCHANGED <<pid, next, existed, dir>>

UserMakesOutput ==
  /\ dir[Out] = NoDir
  /\ dir' = [dir EXCEPT ![Out] = EmptyDir]

UserFillsOutput ==
  /\ dir[Out] # NoDir
  /\ ~dir[Out].foreign
  /\ dir' = [dir EXCEPT ![Out].foreign = TRUE]

UserRemovesOutput ==
  /\ dir[Out] # NoDir
  /\ dir' = [dir EXCEPT ![Out] = NoDir]

\* A leftover staging directory is the user's to delete.
UserSweeps ==
  \E i \in Pid :
    /\ dir[i] # NoDir
    /\ \A q \in Proc : Live(q) => pid[q] # i
    /\ dir' = [dir EXCEPT ![i] = NoDir]

User ==
  /\ UserMakesOutput \/ UserFillsOutput \/ UserRemovesOutput \/ UserSweeps
  /\ undisturbed' = FALSE
  /\ UNCHANGED <<pc, pid, next, existed>>

Next == User \/ \E p \in Proc : Launch(p) \/ Step(p) \/ Crash(p)

\* The operating system runs every process to its end unless it dies.
Fairness == \A p \in Proc : WF_vars(Launch(p) \/ Step(p))

Spec == Init /\ [][Next]_vars
FairSpec == Spec /\ Fairness

-------------------------------------------------------------------------------
(* Properties. *)

TypeOK ==
  /\ pc \in [Proc -> {"idle"} \cup Running \cup Ended]
  /\ pid \in [Proc -> Pid]
  /\ next \in [Proc -> 1..(Files + 1)]
  /\ existed \in [Proc -> BOOLEAN]
  /\ dir \in [Pid \cup {Out} -> Dir \cup {NoDir}]
  /\ undisturbed \in BOOLEAN

\* Where a run owns a staging directory.
Staged == {"write", "filling", "abandon", "exists", "recheck", "rmdir", "rename",
           "unstage"}

\* Two running processes never have the same id, so never the same staging path.
DistinctPids ==
  \A p, q \in Proc : Live(p) /\ Live(q) /\ pid[p] = pid[q] => p = q

\* A run's staging directory holds its own files only: what it has written so
\* far while it writes, all of its plan from then until the rename.
StagingInv ==
  \A p \in Proc :
    /\ pc[p] \in Staged =>
         /\ Staging(p) # NoDir
         /\ Staging(p).by = p
         /\ ~Staging(p).foreign
    /\ pc[p] = "write" => Staging(p).whole = 1..(next[p] - 1) /\ Staging(p).torn = {}
    /\ pc[p] = "filling" =>
         /\ next[p] \in Item
         /\ Staging(p).whole = 1..(next[p] - 1)
         /\ Staging(p).torn = {next[p]}
    /\ pc[p] \in {"exists", "recheck", "rmdir", "rename"} => Staging(p) = Full(p)

\* A run starts writing at its first file.
FreshInv == \A p \in Proc : pc[p] \in {"idle", "check", "plan", "probe", "stage"} => next[p] = 1

\* Whatever xivl puts at the output path is one run's complete batch, and that
\* run is the one that reported success: a reader of the output directory never
\* sees a batch without its manifest or a file half written, whatever fails
\* (write_batch_atomically's staging and rename).
PublishedComplete ==
  dir[Out] # NoDir /\ dir[Out].by # Nobody =>
    /\ dir[Out].whole = Item
    /\ dir[Out].torn = {}
    /\ pc[dir[Out].by] = "done"

\* Without a published batch the directory at the output path is the user's.
OutInv ==
  dir[Out] # NoDir /\ dir[Out].by = Nobody => dir[Out].whole = {} /\ dir[Out].torn = {}

Published == dir[Out] # NoDir /\ dir[Out].by # Nobody

\* Contention alone never defeats everybody: when nothing failed, nobody died
\* and the user kept away, a run that gives up was beaten by one that has
\* published or stands before its rename with the output path free.  (Each run
\* checks, removes and replaces the empty output in separate calls.)
Contention ==
  undisturbed /\ ~Published =>
    /\ Vacant(dir[Out])
    /\ \A p \in Proc : pc[p] \notin {"done", "unstage", "restore", "crashed"}
    /\ \/ \E p \in Proc : pc[p] = "rename"
       \/ dir[Out] # NoDir /\ \A p \in Proc : pc[p] \notin {"failed", "abandon"}
       \/ \A p \in Proc : pc[p] \notin {"failed", "abandon", "recheck", "rmdir"}

\* When all the runs are over and nothing but the runs themselves happened, the
\* batch stands at the output path.
SomebodyWins ==
  undisturbed /\ Proc # {} /\ (\A p \in Proc : pc[p] \in Ended) => Published

\* The inductive invariant of the protocol.
IInv ==
  /\ TypeOK
  /\ DistinctPids
  /\ FreshInv
  /\ StagingInv
  /\ PublishedComplete
  /\ OutInv
  /\ Contention

\* No step of a run touches a directory with content, except the run's own
\* staging directory: a published batch, a file the user put there (even after
\* the emptiness check) and a dead run's leftovers all survive.
OutputNeverClobbered ==
  [][User \/ \A n \in Pid \cup {Out} :
       dir[n] = NoDir \/ IsEmpty(dir[n]) \/ dir'[n] = dir[n]
         \/ (n # Out /\ pid[dir[n].by] = n /\ pc[dir[n].by] \in Staged)]_vars

\* A batch that nothing disturbed is published in the end.
EventuallyPublished == <>(Published \/ ~undisturbed)

\* The protocol implements the abstract promise.  Only a complete batch at the
\* output path counts as published there: a run that renamed a directory with a
\* file missing or torn would be done without anything published, which no step
\* of AtomicPublish allows.
outcomeOf(p) == CASE pc[p] = "idle" -> "idle"
                  [] pc[p] = "done" -> "won"
                  [] pc[p] \in {"failed", "crashed"} -> "lost"
                  [] OTHER -> "working"

standing ==
  IF Published /\ dir[Out].whole = Item /\ dir[Out].torn = {} THEN dir[Out].by ELSE Nobody

Abstract == INSTANCE AtomicPublish WITH
  Producer <- Proc,
  Nobody <- Nobody,
  published <- standing,
  outcome <- [p \in Proc |-> outcomeOf(p)]

AtomicPublication == Abstract!Spec
===============================================================================
