------------------------------- MODULE NewFile -------------------------------
(***************************************************************************)
(* The commands that write one new file: append-region, edit-staticactor,  *)
(* encode-gtex and pack-lpb (create_new, write, read back, verify, remove  *)
(* on failure), allocation-inventory (removes after a failed write),       *)
(* extract-lpb and materialize-command-loadout (no removal).               *)
(*                                                                         *)
(* Runs of any of them aim at one path.  A run writes through the handle   *)
(* it created but verifies and removes by path, and the file at the path   *)
(* need not be the one behind the handle once the user has moved it away.  *)
(* One action is one file-system call.                                     *)
(***************************************************************************)
EXTENDS Naturals

CONSTANTS
  Proc,     \* runs with the same --output
  User,     \* the user, as owner of a file at the path
  NoFile    \* nothing at the path

ASSUME OwnerAssumption ==
  /\ User \notin Proc
  /\ NoFile \notin Proc
  /\ User # NoFile

VARIABLES
  pc,           \* pc[p]: the next call of run p
  kind,         \* kind[p]: which command run p is
  at,           \* whose file stands at the path
  bytes,        \* bytes[p]: the file run p created, wherever it is now
  snatched,     \* history: the user took a file away from a run at work on it
  undisturbed   \* history: no fault, no death, no user step so far

vars == <<pc, kind, at, bytes, snatched, undisturbed>>

\* verified: the four edit commands; inventory: allocation-inventory;
\* loadout: materialize-command-loadout; plain: extract-lpb.
Kinds == {"verified", "inventory", "loadout", "plain"}

ChecksFirst(p) == kind[p] \in {"inventory", "loadout"}
Removes(p) == kind[p] \in {"verified", "inventory"}

AtWork == {"write", "verify", "remove"}
Running == {"check", "create", "report"} \cup AtWork

\* unreported: the file is complete but the summary could not be printed;
\* stuck: the failed output could not be removed.
Ended == {"done", "refused", "failed", "stuck", "unreported", "crashed"}

GoTo(p, label) == pc' = [pc EXCEPT ![p] = label]

-------------------------------------------------------------------------------
Init ==
  /\ pc = [p \in Proc |-> "idle"]
  /\ kind \in [Proc -> Kinds]
  /\ at \in {NoFile, User}
  /\ bytes = [p \in Proc |-> "none"]
  /\ snatched = FALSE
  /\ undisturbed = (at = NoFile)

\* Reading the input and preparing the bytes touch no output; a refusal there
\* is the same as never starting.
Launch(p) ==
  /\ pc[p] = "idle"
  /\ GoTo(p, IF ChecksFirst(p) THEN "check" ELSE "create")
  /\ UNCHANGED <<kind, at, bytes, snatched, undisturbed>>

\* output_path, reject_existing_output: symlink_metadata must say NotFound.
CheckOutput(p) ==
  /\ pc[p] = "check"
  /\ GoTo(p, IF at = NoFile THEN "create" ELSE "refused")
  /\ UNCHANGED <<kind, at, bytes, snatched, undisturbed>>

\* Faulty variant: create and truncate instead of create_new.
CreateOver(p) ==
  /\ pc[p] = "create"
  /\ at' = p
  /\ bytes' = [bytes EXCEPT ![p] = "torn"]
  /\ GoTo(p, "write")
  /\ UNCHANGED <<kind, snatched, undisturbed>>

\* OpenOptions::create_new
CreateNew(p) ==
  /\ pc[p] = "create"
  /\ at = NoFile
  /\ at' = p
  /\ bytes' = [bytes EXCEPT ![p] = "torn"]
  /\ GoTo(p, "write")
  /\ UNCHANGED <<kind, snatched, undisturbed>>

CreateRefused(p) ==
  /\ pc[p] = "create"
  /\ GoTo(p, "refused")
  /\ undisturbed' = (undisturbed /\ at # NoFile)
  /\ UNCHANGED <<kind, at, bytes, snatched>>

\* write_all: the device may store other bytes without saying so.
Write(p) ==
  /\ pc[p] = "write"
  /\ \/ bytes' = [bytes EXCEPT ![p] = "whole"] /\ UNCHANGED undisturbed
     \/ bytes' = [bytes EXCEPT ![p] = "wrong"] /\ undisturbed' = FALSE
  /\ GoTo(p, CASE kind[p] = "verified" -> "verify"
               [] kind[p] = "inventory" -> "done"
               [] OTHER -> "report")
  /\ UNCHANGED <<kind, at, snatched>>

\* Faulty variant: the failed write returns at once, without the removal.
WriteFailsBare(p) ==
  /\ pc[p] = "write"
  /\ GoTo(p, "failed")
  /\ undisturbed' = FALSE
  /\ UNCHANGED <<kind, at, bytes, snatched>>

WriteFails(p) ==
  /\ pc[p] = "write"
  /\ GoTo(p, IF Removes(p) THEN "remove" ELSE "failed")
  /\ undisturbed' = FALSE
  /\ UNCHANGED <<kind, at, bytes, snatched>>

\* Faulty variant: the verified output falls into the removal as well.
VerifyDiscards(p) ==
  /\ pc[p] = "verify"
  /\ GoTo(p, "remove")
  /\ UNCHANGED <<kind, at, bytes, snatched, undisturbed>>

\* read_capped(output), parse, compare with the prepared bytes.  It is the file
\* at the path that is read; another run's may or may not have the same bytes.
Verify(p) ==
  /\ pc[p] = "verify"
  /\ \/ at \in Proc /\ bytes[at] = "whole" /\ GoTo(p, "report")
     \/ ~(at = p /\ bytes[p] = "whole") /\ GoTo(p, "remove")
  /\ UNCHANGED <<kind, at, bytes, snatched, undisturbed>>

VerifyFails(p) ==
  /\ pc[p] = "verify"
  /\ GoTo(p, "remove")
  /\ undisturbed' = FALSE
  /\ UNCHANGED <<kind, at, bytes, snatched>>

\* fs::remove_file(output), by path.
Remove(p) ==
  /\ pc[p] = "remove"
  /\ at' = NoFile
  /\ GoTo(p, IF at = NoFile THEN "stuck" ELSE "failed")
  /\ UNCHANGED <<kind, bytes, snatched, undisturbed>>

\* The edit commands add the failed removal to their message; the inventory
\* ignores it.
RemoveFails(p) ==
  /\ pc[p] = "remove"
  /\ GoTo(p, "stuck")
  /\ undisturbed' = FALSE
  /\ UNCHANGED <<kind, at, bytes, snatched>>

\* The summary on stdout comes last; its failure leaves the output.
PrintReport(p) ==
  /\ pc[p] = "report"
  /\ \/ GoTo(p, "done") /\ UNCHANGED undisturbed
     \/ GoTo(p, "unreported") /\ undisturbed' = FALSE
  /\ UNCHANGED <<kind, at, bytes, snatched>>

Step(p) ==
  \/ CheckOutput(p) \/ CreateNew(p) \/ CreateRefused(p) \/ Write(p) \/ WriteFails(p)
  \/ Verify(p) \/ VerifyFails(p) \/ Remove(p) \/ RemoveFails(p) \/ PrintReport(p)

-------------------------------------------------------------------------------
(* What the tool does not control. *)

Crash(p) ==
  /\ pc[p] \in Running
  /\ GoTo(p, "crashed")
  /\ undisturbed' = FALSE
  /\ UNCHANGED <<kind, at, bytes, snatched>>

UserAdds ==
  /\ at = NoFile
  /\ at' = User
  /\ UNCHANGED snatched

\* Removing or moving away whatever stands at the path, even under a run.
UserTakes ==
  /\ at # NoFile
  /\ at' = NoFile
  /\ snatched' = (snatched \/ (at \in Proc /\ pc[at] \in AtWork))

UserActs ==
  /\ UserAdds \/ UserTakes
  /\ undisturbed' = FALSE
  /\ UNCHANGED <<pc, kind, bytes>>

Next == UserActs \/ \E p \in Proc : Launch(p) \/ Step(p) \/ Crash(p)

\* The operating system runs every process to its end unless it dies.
Fairness == \A p \in Proc : WF_vars(Launch(p) \/ Step(p))

Spec == Init /\ [][Next]_vars
FairSpec == Spec /\ Fairness

-------------------------------------------------------------------------------
(* Properties. *)

TypeOK ==
  /\ pc \in [Proc -> {"idle"} \cup Running \cup Ended]
  /\ kind \in [Proc -> Kinds]
  /\ at \in Proc \cup {User, NoFile}
  /\ bytes \in [Proc -> {"none", "torn", "whole", "wrong"}]
  /\ snatched \in BOOLEAN
  /\ undisturbed \in BOOLEAN

\* What a run has created, by where it stands.
HandleInv ==
  \A p \in Proc :
    /\ pc[p] \in {"idle", "check", "create", "refused"} => bytes[p] = "none"
    /\ pc[p] = "write" => bytes[p] = "torn"
    /\ pc[p] \in {"verify", "report", "done", "unreported"} => bytes[p] \in {"whole", "wrong"}
    /\ pc[p] \in {"verify", "remove"} => Removes(p)
    /\ at = p => bytes[p] # "none"

\* Unless the user takes the file from under it, a run at work is at work on
\* the file at the path, so at most one run is.
HoldsPath == snatched \/ \A p \in Proc : pc[p] \in AtWork => at = p

\* A file that reports success is never torn, and the edit commands' is exactly
\* what was prepared: whatever the device stored, a wrong file is not reported.
SuccessIsWhole ==
  \A p \in Proc : pc[p] \in {"report", "done", "unreported"} =>
    /\ bytes[p] # "torn"
    /\ kind[p] = "verified" /\ ~snatched => bytes[p] = "whole"

\* "A write or verification failure removes the newly created output": a failed
\* run that could remove its file has left none behind, and the only torn files
\* that stay are those of runs that died, could not remove or never do.
FailureLeavesNothing ==
  \A p \in Proc : at = p /\ ~snatched =>
    /\ pc[p] = "failed" => ~Removes(p)
    /\ bytes[p] = "torn" =>
         pc[p] \in AtWork \cup {"crashed", "stuck"} \/ (pc[p] = "failed" /\ ~Removes(p))

\* The inductive invariant of the protocol.
IInv == TypeOK /\ HandleInv /\ HoldsPath /\ SuccessIsWhole /\ FailureLeavesNothing

\* A run takes away no file but its own: not the user's, not another run's and
\* not the input named as output, unless the user took its own file before.
NoClobber ==
  [][\A p \in Proc : Step(p) /\ ~snatched /\ at # NoFile /\ at # p => at' = at]_vars

\* The user's hand apart, whoever gives up was beaten by a run whose complete
\* file stands at the path.
EventuallyWritten ==
  Proc # {} => <>(~undisturbed \/ \E p \in Proc : at = p /\ bytes[p] = "whole" /\ pc[p] = "done")
===============================================================================
