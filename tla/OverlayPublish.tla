---------------------------- MODULE OverlayPublish ----------------------------
(* How `xivl import-sheets` builds its overlay tree: each changed resource at
   its own path below the output, directories made as they are needed, every
   file created exclusively, everything read back in the end, and on any error
   the files and directories the run recorded are removed again (CreatedPaths).

   There is no staging and no lock.  Several runs may pass the check for an
   empty output and then build in one tree, with resources of their own and in
   common; calls fail, processes die, and the user adds and takes files.

   Directories are numbered in path order, so that a run, which writes its
   resources in the order of their ids, makes them in ascending order. *)
EXTENDS Naturals, FiniteSetsExt

CONSTANTS Proc,    \* import-sheets runs with the same --output
          Files,   \* resources, numbered in the order of their ids
          Dirs,    \* the output, 1, and the directories below it
          Parent,  \* of each directory; 0 is the existing parent of the output
          DirOf,   \* the directory of each resource
          UserMoves, \* bound on the user's changes to the output
          User, NoFile, NoDir

Item == 1..Files
Dir == 1..Dirs

ASSUME DirsAssumption ==
  /\ Dirs \in Nat \ {0} /\ Files \in Nat /\ UserMoves \in Nat
  /\ Parent \in [Dir -> 0..Dirs] /\ \A d \in Dir : Parent[d] < d
  /\ \A d \in Dir : Parent[d] = 0 <=> d = 1
  /\ DirOf \in [Item -> Dir] /\ \A i, j \in Item : i < j => DirOf[i] <= DirOf[j]

File == [by : Proc \cup {User}, st : {"torn", "whole", "wrong"}]
FileOf(p, s) == [by |-> p, st |-> s]

ASSUME NamesAssumption ==
  User \notin Proc /\ NoDir \notin Proc \cup {User} /\ NoFile \notin File

VARIABLES
  plan,        \* the resources each run has changed
  pc,
  next,        \* the resource a run is at; 0 while it makes the output itself
  at, need,    \* CreatedPaths::directory: where its walk up is, what it must make
  made, wrote, \* what the run has recorded as its own
  failing,     \* whether its cleanup has met an error
  tree,        \* who made each directory, or NoDir
  file,        \* the resources in the overlay
  moves,       \* changes the user has made to the output
  snatched,    \* history: the user took a run's file away
  misread,     \* history: a run's verification met a file of another's
  undisturbed  \* history: no fault, no death, no user step so far

progress == <<next, at, need, made, wrote, failing>>
inputs == <<plan, moves>>
disk == <<tree, file>>
history == <<snatched, misread, undisturbed>>
vars == <<inputs, pc, progress, disk, history>>

AtWork == {"climb", "mkdir", "create", "fill", "verify", "unfile", "undir"}
Ended == {"done", "refused", "failed", "stuck", "crashed"}
GoTo(p, label) == pc' = [pc EXCEPT ![p] = label]

IsDir(d) == d # 0 => tree[d] # NoDir
Children(d) == {c \in Dir : Parent[c] = d /\ tree[c] # NoDir}
Members(d) == {i \in Item : DirOf[i] = d /\ file[i] # NoFile}
IsEmptyDir(d) == Children(d) = {} /\ Members(d) = {}

Largest(S) == CHOOSE n \in S : \A m \in S : m <= n
Least(S) == CHOOSE n \in S : \A m \in S : n <= m
After(p, i) == {j \in plan[p] : j > i}
TargetDir(p) == IF next[p] = 0 THEN 1 ELSE DirOf[next[p]]

Init ==
  /\ plan \in [Proc -> SUBSET Item]
  /\ pc = [p \in Proc |-> "idle"]
  /\ next = [p \in Proc |-> 0]
  /\ at = [p \in Proc |-> 1]
  /\ need = [p \in Proc |-> {}]
  /\ made = [p \in Proc |-> {}]
  /\ wrote = [p \in Proc |-> {}]
  /\ failing = [p \in Proc |-> FALSE]
  /\ \E first \in {NoDir, User} : tree = [d \in Dir |-> IF d = 1 THEN first ELSE NoDir]
  /\ file = [i \in Item |-> NoFile]
  /\ moves = 0 /\ snatched = FALSE /\ misread = FALSE /\ undisturbed = TRUE

-------------------------------------------------------------------------------
(* output_path; then the reading and planning, which touch no output and may
   refuse as well. *)
CheckOutput(p) ==
  /\ pc[p] = "idle"
  /\ GoTo(p, IF tree[1] = NoDir \/ IsEmptyDir(1) THEN "climb" ELSE "refused")
  /\ UNCHANGED <<inputs, progress, disk, history>>

PlanRefused(p) ==
  /\ pc[p] = "idle"
  /\ GoTo(p, "refused")
  /\ undisturbed' = FALSE
  /\ UNCHANGED <<inputs, progress, disk, snatched, misread>>

(* CreatedPaths::directory asks upwards for the first directory there is ... *)
Climb(p) ==
  /\ pc[p] = "climb"
  /\ IF IsDir(at[p])
       THEN GoTo(p, "mkdir") /\ at' = [at EXCEPT ![p] = TargetDir(p)] /\ UNCHANGED need
       ELSE /\ need' = [need EXCEPT ![p] = @ \cup {at[p]}]
            /\ at' = [at EXCEPT ![p] = Parent[@]]
            /\ UNCHANGED pc
  /\ UNCHANGED <<inputs, next, made, wrote, failing, disk, history>>

(* ... and makes the others on its way back, recording each. *)
MakeDir(p) ==
  /\ pc[p] = "mkdir" /\ need[p] # {}
  /\ LET d == Least(need[p]) IN
       /\ IsDir(Parent[d]) /\ ~IsDir(d)
       /\ tree' = [tree EXCEPT ![d] = p]
       /\ made' = [made EXCEPT ![p] = @ \cup {d}]
       /\ need' = [need EXCEPT ![p] = @ \ {d}]
  /\ UNCHANGED <<inputs, pc, next, at, wrote, failing, file, history>>

(* The process is gone, and what it had recorded with it. *)
Exit(p, label) ==
  /\ GoTo(p, label)
  /\ next' = [next EXCEPT ![p] = 0]
  /\ at' = [at EXCEPT ![p] = 1]
  /\ need' = [need EXCEPT ![p] = {}]
  /\ made' = [made EXCEPT ![p] = {}]
  /\ wrote' = [wrote EXCEPT ![p] = {}]
  /\ failing' = [failing EXCEPT ![p] = FALSE]
  /\ UNCHANGED <<inputs, disk>>

(* An error: the cleanup starts, and where the run was no longer matters. *)
Abandon(p) ==
  /\ GoTo(p, "unfile")
  /\ next' = [next EXCEPT ![p] = 0]
  /\ at' = [at EXCEPT ![p] = 1]
  /\ need' = [need EXCEPT ![p] = {}]
  /\ UNCHANGED <<inputs, made, wrote, failing, disk>>

(* Another run has made the directory meanwhile, or removed the one above it. *)
MakeDirRefused(p) ==
  /\ pc[p] = "mkdir" /\ need[p] # {}
  /\ IsDir(Least(need[p])) \/ ~IsDir(Parent[Least(need[p])])
  /\ Abandon(p)
  /\ UNCHANGED history

\* Faulty variant: resources in no particular order, as from a HashMap.
TurnAnyOrder(p, i) ==
  IF plan[p] \ wrote[p] # {}
    THEN \E j \in plan[p] \ wrote[p] :
           /\ next' = [next EXCEPT ![p] = j]
           /\ at' = [at EXCEPT ![p] = DirOf[j]]
           /\ GoTo(p, "climb")
    ELSE /\ next' = [next EXCEPT ![p] = 1]
         /\ at' = [at EXCEPT ![p] = 1]
         /\ GoTo(p, "verify")

(* The run turns to its next resource, and after the last to the verification. *)
Turn(p, i) ==
  IF After(p, i) # {}
    THEN /\ next' = [next EXCEPT ![p] = Least(After(p, i))]
         /\ at' = [at EXCEPT ![p] = DirOf[Least(After(p, i))]]
         /\ GoTo(p, "climb")
    ELSE /\ next' = [next EXCEPT ![p] = 1]
         /\ at' = [at EXCEPT ![p] = 1]
         /\ GoTo(p, "verify")

DirReady(p) ==
  /\ pc[p] = "mkdir" /\ need[p] = {}
  /\ IF next[p] = 0 THEN Turn(p, 0) ELSE GoTo(p, "create") /\ UNCHANGED <<next, at>>
  /\ UNCHANGED <<inputs, need, made, wrote, failing, disk, history>>

\* Faulty variant: the path is not recorded.
CreateFileUnrecorded(p) ==
  /\ pc[p] = "create"
  /\ IsDir(DirOf[next[p]]) /\ file[next[p]] = NoFile
  /\ file' = [file EXCEPT ![next[p]] = FileOf(p, "torn")]
  /\ GoTo(p, "fill")
  /\ UNCHANGED <<inputs, next, at, need, made, wrote, failing, tree, history>>

(* OpenOptions::create_new, then the path is recorded. *)
CreateFile(p) ==
  /\ pc[p] = "create"
  /\ IsDir(DirOf[next[p]]) /\ file[next[p]] = NoFile
  /\ file' = [file EXCEPT ![next[p]] = FileOf(p, "torn")]
  /\ wrote' = [wrote EXCEPT ![p] = @ \cup {next[p]}]
  /\ GoTo(p, "fill")
  /\ UNCHANGED <<inputs, next, at, need, made, failing, tree, history>>

CreateRefused(p) ==
  /\ pc[p] = "create"
  /\ ~IsDir(DirOf[next[p]]) \/ file[next[p]] # NoFile
  /\ Abandon(p)
  /\ UNCHANGED history

(* write_all through the handle; a device may store other bytes. *)
Fill(p) ==
  /\ pc[p] = "fill"
  /\ \E s \in {"whole", "wrong"} :
       /\ file' = IF file[next[p]] = FileOf(p, "torn")
                    THEN [file EXCEPT ![next[p]] = FileOf(p, s)] ELSE file
       /\ undisturbed' = (undisturbed /\ s = "whole")
  /\ Turn(p, next[p])
  /\ UNCHANGED <<inputs, need, made, wrote, failing, tree, snatched, misread>>

(* verify_written and the reload of each document, resource by resource: the
   run's own from the overlay, any other from the overlay if a file is there. *)
Verify(p) ==
  /\ pc[p] = "verify" /\ next[p] \in Item
  /\ next[p] \in plan[p] => file[next[p]] = FileOf(p, "whole")
  /\ misread' = (misread \/ (next[p] \notin plan[p] /\ file[next[p]] # NoFile))
  /\ next' = [next EXCEPT ![p] = @ + 1]
  /\ UNCHANGED <<inputs, pc, at, need, made, wrote, failing, disk, snatched, undisturbed>>

VerifyRefused(p) ==
  /\ pc[p] = "verify" /\ next[p] \in Item
  /\ IF next[p] \in plan[p] THEN file[next[p]] # FileOf(p, "whole") ELSE file[next[p]] # NoFile
  /\ Abandon(p)
  /\ misread' = (misread \/ next[p] \notin plan[p])
  /\ UNCHANGED <<snatched, undisturbed>>

(* created.keep = true *)
Keep(p) ==
  /\ pc[p] = "verify" /\ next[p] \notin Item
  /\ Exit(p, "done")
  /\ UNCHANGED history

CallFails(p) ==
  /\ pc[p] \in {"mkdir", "create", "fill", "verify"}
  /\ Abandon(p)
  /\ undisturbed' = FALSE
  /\ UNCHANGED <<snatched, misread>>

(* CreatedPaths::cleanup: the files, then the directories, last made first; an
   error is kept and the loop goes on.  (When the output itself could not be
   made the cleanup is Drop's, and the error goes unreported.) *)
RemoveFile(p) ==
  /\ pc[p] = "unfile" /\ wrote[p] # {}
  /\ LET i == Largest(wrote[p]) IN
       /\ wrote' = [wrote EXCEPT ![p] = @ \ {i}]
       /\ \/ /\ file' = [file EXCEPT ![i] = NoFile]
             /\ failing' = [failing EXCEPT ![p] = @ \/ file[i] = NoFile]
             /\ undisturbed' = undisturbed
          \/ /\ file' = file
             /\ failing' = [failing EXCEPT ![p] = TRUE]
             /\ undisturbed' = FALSE
  /\ UNCHANGED <<inputs, pc, next, at, need, made, tree, snatched, misread>>

FilesRemoved(p) ==
  /\ pc[p] = "unfile" /\ wrote[p] = {}
  /\ GoTo(p, "undir")
  /\ UNCHANGED <<inputs, progress, disk, history>>

\* Faulty variant: remove_dir_all in place of remove_dir.
RemoveDirAll(p) ==
  /\ pc[p] = "undir" /\ made[p] # {}
  /\ LET d == Largest(made[p]) IN
       /\ made' = [made EXCEPT ![p] = @ \ {d}]
       /\ tree' = [c \in Dir |-> IF c = d \/ Parent[c] = d THEN NoDir ELSE tree[c]]
       /\ file' = [i \in Item |-> IF DirOf[i] = d \/ Parent[DirOf[i]] = d
                                    THEN NoFile ELSE file[i]]
  /\ UNCHANGED <<inputs, pc, next, at, need, wrote, failing, history>>

RemoveDir(p) ==
  /\ pc[p] = "undir" /\ made[p] # {}
  /\ LET d == Largest(made[p]) IN
       /\ made' = [made EXCEPT ![p] = @ \ {d}]
       /\ \/ /\ IsEmptyDir(d)
             /\ tree' = [tree EXCEPT ![d] = NoDir]
             /\ failing' = failing /\ undisturbed' = undisturbed
          \/ /\ tree' = tree
             /\ failing' = [failing EXCEPT ![p] = TRUE]
             /\ undisturbed' = (undisturbed /\ ~IsEmptyDir(d))
  /\ UNCHANGED <<inputs, pc, next, at, need, wrote, file, snatched, misread>>

CleanedUp(p) ==
  /\ pc[p] = "undir" /\ made[p] = {}
  /\ Exit(p, IF failing[p] THEN "stuck" ELSE "failed")
  /\ UNCHANGED history

Step(p) ==
  \/ CheckOutput(p) \/ PlanRefused(p)
  \/ Climb(p) \/ MakeDir(p) \/ MakeDirRefused(p) \/ DirReady(p)
  \/ CreateFile(p) \/ CreateRefused(p) \/ Fill(p)
  \/ Verify(p) \/ VerifyRefused(p) \/ Keep(p) \/ CallFails(p)
  \/ RemoveFile(p) \/ FilesRemoved(p) \/ RemoveDir(p) \/ CleanedUp(p)

-------------------------------------------------------------------------------
(* What the tool does not control. *)

Crash(p) ==
  /\ pc[p] \in AtWork
  /\ Exit(p, "crashed")
  /\ undisturbed' = FALSE
  /\ UNCHANGED <<snatched, misread>>

UserAdds ==
  /\ \E i \in Item :
       /\ IsDir(DirOf[i]) /\ file[i] = NoFile
       /\ file' = [file EXCEPT ![i] = FileOf(User, "whole")]
  /\ UNCHANGED <<tree, snatched>>

UserTakes ==
  /\ \E i \in Item :
       /\ file[i] # NoFile
       /\ file' = [file EXCEPT ![i] = NoFile]
       /\ snatched' = (snatched \/ file[i].by # User)
  /\ UNCHANGED tree

(* The user clears the output away; not while a run is at work in it. *)
UserClears ==
  /\ tree[1] # NoDir
  /\ \A p \in Proc : pc[p] \notin AtWork
  /\ tree' = [d \in Dir |-> NoDir] /\ file' = [i \in Item |-> NoFile]
  /\ snatched' = (snatched \/ \E i \in Item : file[i] # NoFile /\ file[i].by # User)

UserActs ==
  /\ UserAdds \/ UserTakes \/ UserClears
  /\ moves < UserMoves
  /\ moves' = moves + 1
  /\ undisturbed' = FALSE
  /\ UNCHANGED <<plan, pc, progress, misread>>

Next == UserActs \/ \E p \in Proc : Step(p) \/ Crash(p)

Fairness == \A p \in Proc : WF_vars(Step(p))

Spec == Init /\ [][Next]_vars
FairSpec == Spec /\ Fairness

-------------------------------------------------------------------------------
(* Properties. *)

TypeOK ==
  /\ plan \in [Proc -> SUBSET Item]
  /\ pc \in [Proc -> {"idle"} \cup AtWork \cup Ended]
  /\ next \in [Proc -> 0..(Files + 1)]
  /\ at \in [Proc -> 0..Dirs]
  /\ need \in [Proc -> SUBSET Dir]
  /\ made \in [Proc -> SUBSET Dir]
  /\ wrote \in [Proc -> SUBSET Item]
  /\ failing \in [Proc -> BOOLEAN]
  /\ tree \in [Dir -> Proc \cup {User, NoDir}]
  /\ file \in [Item -> File \cup {NoFile}]
  /\ moves \in 0..UserMoves
  /\ {snatched, misread, undisturbed} \subseteq BOOLEAN

Mine(p) == {i \in Item : file[i] # NoFile /\ file[i].by = p}
MyDirs(p) == {d \in Dir : tree[d] = p}
Cleaning == {"unfile", "undir"}
Building == AtWork \ Cleaning

(* No entry hangs in the air: every directory is in one, every file too. *)
TreeInv ==
  /\ \A d \in Dir : tree[d] # NoDir => IsDir(Parent[d])
  /\ \A i \in Item : file[i] # NoFile => IsDir(DirOf[i])

(* Where a run is in the list of its resources, and what a run that is not at
   work still knows. *)
PlaceInv ==
  \A p \in Proc :
    /\ pc[p] \in {"climb", "mkdir"} => next[p] \in {0} \cup plan[p]
    /\ pc[p] \in {"create", "fill"} => next[p] \in plan[p]
    /\ pc[p] = "verify" => next[p] # 0
    /\ pc[p] \notin AtWork => next[p] = 0 /\ made[p] = {} /\ wrote[p] = {}
    /\ pc[p] = "undir" => wrote[p] = {}

(* What a run has recorded is what it has made, and is still there unless the user
   took it: while it builds exactly, while it cleans up at least what is left but
   for reported failures.  (CreatedPaths) *)
Recorded ==
  /\ undisturbed => ~snatched
  /\ \A p \in Proc :
       /\ pc[p] \in AtWork => made[p] \subseteq MyDirs(p)
       /\ pc[p] \in AtWork /\ ~snatched => wrote[p] \subseteq Mine(p)
       /\ pc[p] \in Building => MyDirs(p) \subseteq made[p] /\ Mine(p) \subseteq wrote[p]
       /\ pc[p] \in Cleaning /\ ~failing[p] => MyDirs(p) \subseteq made[p]
       /\ pc[p] \in Cleaning /\ (undisturbed \/ ~failing[p]) => Mine(p) \subseteq wrote[p]
       /\ pc[p] \in {"idle", "refused"} => MyDirs(p) = {} /\ Mine(p) = {}

(* The verification has met every resource of the plan that it has passed, whole. *)
CheckedInv ==
  \A p \in Proc : pc[p] = "verify" /\ ~snatched =>
    \A i \in plan[p] : i < next[p] => file[i] = FileOf(p, "whole")

(* "Failures remove this run's files and directories": a run whose cleanup
   reported no error has left nothing, and one that reported an error without
   a fault had another's entry in a directory of its own.
   (docs/formats/ssd-sheet.md:718-719; cleanup) *)
FailureLeavesNothing ==
  \A p \in Proc :
    /\ pc[p] = "failed" => MyDirs(p) = {} /\ Mine(p) = {}
    /\ pc[p] = "stuck" /\ undisturbed => Mine(p) = {}

(* A run that reports success has every resource it planned in the overlay,
   whole; and no other run takes one away, ever. *)
SuccessIsWhole ==
  \A p \in Proc : pc[p] = "done" /\ ~snatched =>
    \A i \in plan[p] : file[i] = FileOf(p, "whole")

IInv ==
  /\ TypeOK /\ TreeInv /\ PlaceInv /\ Recorded /\ CheckedInv
  /\ FailureLeavesNothing /\ SuccessIsWhole

(* A run removes and rewrites nothing but what it made itself: not a file of
   another import or of the user's, not a directory it found.  (create_new,
   CreatedPaths) *)
OthersUntouched ==
  [][\A p \in Proc : Step(p) /\ ~snatched =>
       /\ \A i \in Item : file[i] # NoFile /\ file[i].by # p => file'[i] = file[i]
       /\ \A d \in Dir : tree[d] \notin {NoDir, p} => tree'[d] = tree[d]]_vars

(* Imports that contend do not all fail: when nothing failed, nobody died, the
   user kept away and no verification met another's file, one of them succeeds,
   although a cleanup may take away a directory another run had found. *)
EventuallyImported ==
  Proc # {} => <>(~undisturbed \/ misread \/ \E p \in Proc : pc[p] = "done")
===============================================================================
