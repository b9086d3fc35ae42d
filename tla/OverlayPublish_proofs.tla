------------------------- MODULE OverlayPublish_proofs -------------------------
(***************************************************************************)
(* Theorems about OverlayPublish, for every number of runs, every tree of  *)
(* directories, every number of resources and of changes by the user.      *)
(***************************************************************************)
EXTENDS OverlayPublish, WellFoundedInduction, FiniteSetTheorems, TLAPS

-------------------------------------------------------------------------------
(* A proof by induction takes the least number for which the claim fails and shows
   that there is a smaller one. *)

Less == {pair \in Nat \X Nat : pair[1] < pair[2]}

LEMMA LessIsWellFounded == IsWellFoundedOn(Less, Nat)
<1>1. Less = OpToRel(<, Nat)
  BY DEF Less, OpToRel
<1> QED
  BY <1>1, NatLessThanWellFounded

\* Every inhabited set of numbers has a least member.
LEMMA LeastExists ==
  ASSUME NEW S, S \subseteq Nat, S # {}
  PROVE  \E n \in S : \A m \in S : n <= m
<1>1. PICK n \in S : \A m \in S : ~(<<m, n>> \in Less)
  BY LessIsWellFounded, WFMin
<1>2. ASSUME NEW m \in S PROVE n <= m
  <2>1. n \in Nat /\ m \in Nat
    OBVIOUS
  <2>2. <<m, n>> \in Less <=> m < n
    BY <2>1 DEF Less
  <2> QED
    BY <1>1, <2>1, <2>2
<1> QED
  BY <1>2

\* Every inhabited set of numbers below a bound has a largest member.
LEMMA LargestExists ==
  ASSUME NEW bound \in Nat, NEW S, S \subseteq 0..bound, S # {}
  PROVE  \E n \in S : \A m \in S : m <= n
<1> DEFINE Above == {k \in 0..bound : bound - k \in S}
<1>1. ASSUME NEW m \in S PROVE bound - m \in Above
  <2>1. m \in 0..bound
    OBVIOUS
  <2>2. bound - m \in 0..bound /\ bound - (bound - m) = m
    BY <2>1
  <2> QED
    BY <2>2
<1>2. Above \subseteq Nat
  OBVIOUS
<1>3. Above # {}
  <2> HIDE DEF Above
  <2> QED
    BY <1>1
<1>4. PICK k \in Above : \A j \in Above : k <= j
  <2> HIDE DEF Above
  <2> QED
    BY <1>2, <1>3, LeastExists
<1>5. ASSUME NEW m \in S PROVE m <= bound - k
  <2>1. k <= bound - m
    BY <1>1, <1>4
  <2>2. m \in 0..bound /\ k \in 0..bound
    OBVIOUS
  <2> QED
    BY <2>1, <2>2
<1> QED
  BY <1>5

-------------------------------------------------------------------------------

\* The numbers of directories and resources.
LEMMA Numbers ==
  /\ Dir \subseteq 0..Dirs /\ Dir \subseteq Nat /\ 0 \notin Dir /\ 1 \in Dir
  /\ Item \subseteq 0..Files /\ Item \subseteq Nat /\ 0 \notin Item
  /\ \A i \in Item : DirOf[i] \in Dir
  /\ \A d \in Dir : Parent[d] \in Nat /\ Parent[d] < d /\ Parent[d] \in 0..Dirs
BY DirsAssumption DEF DirsAssumption, Dir, Item

\* The values of a file tell its writer and its state.
LEMMA FileValues ==
  /\ \A p \in Proc \cup {User} : \A s \in {"torn", "whole", "wrong"} :
       FileOf(p, s) \in File /\ FileOf(p, s) # NoFile /\ FileOf(p, s).by = p /\ FileOf(p, s).st = s
  /\ NoFile \notin File
  /\ \A f \in File : f.by \in Proc \cup {User}
BY NamesAssumption DEF NamesAssumption, FileOf, File

\* The least directory a run still needs, the next resource it turns to.
LEMMA LeastIs ==
  ASSUME NEW S, S \subseteq Nat, S # {}
  PROVE  Least(S) \in S /\ \A m \in S : Least(S) <= m
BY LeastExists DEF Least

\* The last directory or resource a run has recorded.
LEMMA LargestIs ==
  ASSUME NEW bound \in Nat, NEW S, S \subseteq 0..bound, S # {}
  PROVE  Largest(S) \in S /\ \A m \in S : m <= Largest(S)
BY LargestExists DEF Largest

-------------------------------------------------------------------------------
\* The invariant, run by run.

PlaceOf(p) ==
  /\ pc[p] \in {"climb", "mkdir"} => next[p] \in {0} \cup plan[p]
  /\ pc[p] \in {"create", "fill"} => next[p] \in plan[p]
  /\ pc[p] = "verify" => next[p] # 0
  /\ pc[p] \notin AtWork => next[p] = 0 /\ made[p] = {} /\ wrote[p] = {}
  /\ pc[p] = "undir" => wrote[p] = {}

RecordOf(p) ==
  /\ pc[p] \in AtWork => made[p] \subseteq MyDirs(p)
  /\ pc[p] \in AtWork /\ ~snatched => wrote[p] \subseteq Mine(p)
  /\ pc[p] \in Building => MyDirs(p) \subseteq made[p] /\ Mine(p) \subseteq wrote[p]
  /\ pc[p] \in Cleaning /\ ~failing[p] => MyDirs(p) \subseteq made[p]
  /\ pc[p] \in Cleaning /\ (undisturbed \/ ~failing[p]) => Mine(p) \subseteq wrote[p]
  /\ pc[p] \in {"idle", "refused"} => MyDirs(p) = {} /\ Mine(p) = {}

\* What a run that verifies, or has ended, can say of the disk.
ReportOf(p) ==
  /\ pc[p] = "verify" /\ ~snatched =>
       \A i \in plan[p] : i < next[p] => file[i] = FileOf(p, "whole")
  /\ pc[p] = "failed" => MyDirs(p) = {} /\ Mine(p) = {}
  /\ pc[p] = "stuck" /\ undisturbed => Mine(p) = {}
  /\ pc[p] = "done" /\ ~snatched => \A i \in plan[p] : file[i] = FileOf(p, "whole")

Local(p) == PlaceOf(p) /\ RecordOf(p) /\ ReportOf(p)

LEMMA RunByRun ==
  IInv <=> TypeOK /\ TreeInv /\ (undisturbed => ~snatched) /\ \A p \in Proc : Local(p)
BY DEF IInv, PlaceInv, Recorded, CheckedInv, FailureLeavesNothing, SuccessIsWhole,
       Local, PlaceOf, RecordOf, ReportOf

LEMMA RunByRunNext ==
  (TypeOK /\ TreeInv /\ (undisturbed => ~snatched) /\ \A p \in Proc : Local(p))' => IInv'
BY DEF IInv, PlaceInv, Recorded, CheckedInv, FailureLeavesNothing, SuccessIsWhole,
       Local, PlaceOf, RecordOf, ReportOf

THEOREM Initially == Init => IInv
<1> SUFFICES ASSUME Init PROVE IInv
  OBVIOUS
<1>1. TypeOK
  <2>1. /\ plan \in [Proc -> SUBSET Item] /\ pc \in [Proc -> {"idle"} \cup AtWork \cup Ended]
        /\ need \in [Proc -> SUBSET Dir] /\ made \in [Proc -> SUBSET Dir]
        /\ wrote \in [Proc -> SUBSET Item] /\ file \in [Item -> File \cup {NoFile}]
    BY DEF Init
  <2>2. /\ next \in [Proc -> 0..(Files + 1)] /\ at \in [Proc -> 0..Dirs]
        /\ tree \in [Dir -> Proc \cup {User, NoDir}] /\ moves \in 0..UserMoves
    BY DirsAssumption DEF DirsAssumption, Init
  <2>3. failing \in [Proc -> BOOLEAN] /\ {snatched, misread, undisturbed} \subseteq BOOLEAN
    BY DEF Init
  <2> QED
    BY <2>1, <2>2, <2>3 DEF TypeOK
<1>2. TreeInv
  BY Numbers, DirsAssumption DEF DirsAssumption, Init, TreeInv, IsDir
<1>3. ASSUME NEW p \in Proc PROVE Local(p)
  <2>1. pc[p] = "idle" /\ next[p] = 0 /\ made[p] = {} /\ wrote[p] = {}
    BY DEF Init
  <2>2. MyDirs(p) = {} /\ Mine(p) = {}
    BY NamesAssumption DEF NamesAssumption, Init, MyDirs, Mine
  <2> QED
    BY <2>1, <2>2 DEF Local, PlaceOf, RecordOf, ReportOf, AtWork, Building, Cleaning
<1>4. undisturbed => ~snatched
  BY DEF Init
<1> QED
  BY <1>1, <1>2, <1>3, <1>4, RunByRun

\* A run's own state is as it was.
Same(q) ==
  /\ plan'[q] = plan[q] /\ pc'[q] = pc[q] /\ next'[q] = next[q]
  /\ made'[q] = made[q] /\ wrote'[q] = wrote[q] /\ failing'[q] = failing[q]

\* Faults and the user's taking are never forgotten.
Remembers == (undisturbed' => undisturbed) /\ (snatched => snatched')

\* The claims about a run survive every step that leaves the run, its directories
\* and, unless the user has taken something, its files as they were.
LEMMA OthersKeep ==
  ASSUME NEW q \in Proc, Local(q), Same(q), Remembers,
         MyDirs(q)' = MyDirs(q), Mine(q)' \subseteq Mine(q),
         ~snatched' => Mine(q)' = Mine(q) /\ \A i \in Mine(q) : file'[i] = file[i],
         TypeOK
  PROVE  Local(q)'
<1>1. PlaceOf(q)'
  BY DEF Local, PlaceOf, Same
<1>2. RecordOf(q)'
  BY DEF Local, RecordOf, Same, Remembers
<1>3. ASSUME NEW i \in Item, file[i] = FileOf(q, "whole"), ~snatched' PROVE file'[i] = file[i]
  BY <1>3, FileValues DEF Mine
<1>4. plan[q] \subseteq Item
  BY DEF TypeOK
<1>5. ReportOf(q)'
  BY <1>3, <1>4 DEF Local, ReportOf, Same, Remembers
<1> QED
  BY <1>1, <1>2, <1>5 DEF Local

\* A step of one run that changes nothing on the disk.
LEMMA QuietKeeps ==
  ASSUME IInv, NEW p \in Proc, TypeOK', tree' = tree, file' = file,
         \A q \in Proc \ {p} : Same(q), Remembers, snatched' = snatched, Local(p)'
  PROVE  IInv'
<1>1. TypeOK /\ TreeInv /\ (undisturbed => ~snatched) /\ \A q \in Proc : Local(q)
  BY RunByRun
<1>2. TreeInv'
  BY <1>1 DEF TreeInv, IsDir
<1>3. ASSUME NEW q \in Proc PROVE MyDirs(q)' = MyDirs(q) /\ Mine(q)' = Mine(q)
  BY DEF MyDirs, Mine
<1>4. ASSUME NEW q \in Proc \ {p} PROVE Local(q)'
  BY <1>1, <1>3, OthersKeep
<1>5. undisturbed' => ~snatched'
  BY <1>1 DEF Remembers
<1> QED
  BY <1>2, <1>4, <1>5, RunByRunNext
-------------------------------------------------------------------------------
\* What the invariant gives a step of one run.
LEMMA Given ==
  ASSUME IInv, NEW p \in Proc
  PROVE  /\ TypeOK /\ TreeInv /\ (undisturbed => ~snatched) /\ Local(p)
         /\ plan[p] \subseteq Item /\ next[p] \in 0..(Files + 1) /\ at[p] \in 0..Dirs
         /\ need[p] \subseteq Dir /\ made[p] \subseteq Dir /\ wrote[p] \subseteq Item
         /\ MyDirs(p) \subseteq Dir /\ Mine(p) \subseteq Item
BY RunByRun DEF TypeOK, MyDirs, Mine

\* The shape of the state that one run's step leaves alone.
LEMMA Shaped ==
  ASSUME IInv, TypeOK,
         plan' = plan, moves' = moves, tree' = tree, file' = file,
         pc' \in [Proc -> {"idle"} \cup AtWork \cup Ended], next' \in [Proc -> 0..(Files + 1)],
         at' \in [Proc -> 0..Dirs], need' \in [Proc -> SUBSET Dir], made' \in [Proc -> SUBSET Dir],
         wrote' \in [Proc -> SUBSET Item], failing' \in [Proc -> BOOLEAN],
         snatched' \in BOOLEAN, misread' \in BOOLEAN, undisturbed' \in BOOLEAN
  PROVE  TypeOK'
BY DEF TypeOK

\* The error path: the cleanup starts with what has been recorded.
LEMMA AbandonKeeps ==
  ASSUME IInv, NEW p \in Proc, pc[p] \in {"mkdir", "create", "fill", "verify"}, Abandon(p),
         snatched' = snatched, misread' \in BOOLEAN, undisturbed' \in BOOLEAN, Remembers
  PROVE  IInv'
<1>1. TypeOK /\ Local(p)
  BY Given
<1>2. /\ plan' = plan /\ moves' = moves /\ tree' = tree /\ file' = file
      /\ made' = made /\ wrote' = wrote /\ failing' = failing
      /\ pc' = [pc EXCEPT ![p] = "unfile"] /\ next' = [next EXCEPT ![p] = 0]
      /\ at' = [at EXCEPT ![p] = 1] /\ need' = [need EXCEPT ![p] = {}]
  BY DEF Abandon, GoTo, inputs, disk
<1>3. TypeOK'
  BY <1>1, <1>2, Numbers, DirsAssumption DEF TypeOK, AtWork, DirsAssumption
<1>4. \A q \in Proc \ {p} : Same(q)
  BY <1>1, <1>2 DEF TypeOK, Same
<1>5. pc'[p] = "unfile" /\ next'[p] = 0 /\ made'[p] = made[p] /\ wrote'[p] = wrote[p]
      /\ failing'[p] = failing[p] /\ MyDirs(p)' = MyDirs(p) /\ Mine(p)' = Mine(p)
  BY <1>1, <1>2 DEF TypeOK, MyDirs, Mine
<1>6. Local(p)'
  BY <1>1, <1>5 DEF Local, PlaceOf, RecordOf, ReportOf, AtWork, Building, Cleaning
<1> QED
  BY <1>2, <1>3, <1>4, <1>6, QuietKeeps

\* A run that is over, in whichever way.
LEMMA ExitKeeps ==
  ASSUME IInv, NEW p \in Proc, NEW label \in Ended \ {"refused"}, Exit(p, label),
         snatched' = snatched, misread' = misread, undisturbed' \in BOOLEAN, Remembers,
         label = "failed" => MyDirs(p) = {} /\ Mine(p) = {},
         label = "stuck" /\ undisturbed => Mine(p) = {},
         label = "done" /\ ~snatched => \A i \in plan[p] : file[i] = FileOf(p, "whole")
  PROVE  IInv'
<1>1. TypeOK /\ Local(p)
  BY Given
<1>2. /\ plan' = plan /\ moves' = moves /\ tree' = tree /\ file' = file
      /\ made' = [made EXCEPT ![p] = {}] /\ wrote' = [wrote EXCEPT ![p] = {}]
      /\ failing' = [failing EXCEPT ![p] = FALSE]
      /\ pc' = [pc EXCEPT ![p] = label] /\ next' = [next EXCEPT ![p] = 0]
      /\ at' = [at EXCEPT ![p] = 1] /\ need' = [need EXCEPT ![p] = {}]
  BY DEF Exit, GoTo, inputs, disk
<1>3. TypeOK'
  BY <1>1, <1>2, Numbers, DirsAssumption DEF TypeOK, AtWork, DirsAssumption
<1>4. \A q \in Proc \ {p} : Same(q)
  BY <1>1, <1>2 DEF TypeOK, Same
<1>5. pc'[p] = label /\ next'[p] = 0 /\ made'[p] = {} /\ wrote'[p] = {}
      /\ MyDirs(p)' = MyDirs(p) /\ Mine(p)' = Mine(p) /\ plan'[p] = plan[p] /\ file' = file
  BY <1>1, <1>2 DEF TypeOK, MyDirs, Mine
<1>6. Local(p)'
  BY <1>5 DEF Local, PlaceOf, RecordOf, ReportOf, AtWork, Building, Cleaning, Ended, Remembers
<1> QED
  BY <1>2, <1>3, <1>4, <1>6, QuietKeeps

\* The steps that only look, or only move the run on.

LEMMA CheckOutputKeeps == ASSUME IInv, NEW p \in Proc, CheckOutput(p) PROVE IInv'
<1>1. TypeOK /\ Local(p)
  BY Given
<1>2. pc[p] = "idle" /\ pc' = [pc EXCEPT ![p] = IF tree[1] = NoDir \/ IsEmptyDir(1) THEN "climb" ELSE "refused"]
      /\ UNCHANGED <<plan, moves, next, at, need, made, wrote, failing, tree, file>>
      /\ UNCHANGED <<snatched, misread, undisturbed>>
  BY DEF CheckOutput, GoTo, inputs, progress, disk, history
<1>3. TypeOK'
  BY <1>1, <1>2 DEF TypeOK, AtWork, Ended
<1>4. (\A q \in Proc \ {p} : Same(q)) /\ Remembers
  BY <1>1, <1>2 DEF TypeOK, Same, Remembers
<1>5. pc'[p] \in {"climb", "refused"} /\ next'[p] = 0 /\ made'[p] = {} /\ wrote'[p] = {}
      /\ MyDirs(p)' = {} /\ Mine(p)' = {}
  BY <1>1, <1>2 DEF TypeOK, MyDirs, Mine, Local, PlaceOf, RecordOf, AtWork
<1>6. Local(p)'
  BY <1>5 DEF Local, PlaceOf, RecordOf, ReportOf, AtWork, Building, Cleaning
<1> QED
  BY <1>2, <1>3, <1>4, <1>6, QuietKeeps

LEMMA PlanRefusedKeeps == ASSUME IInv, NEW p \in Proc, PlanRefused(p) PROVE IInv'
<1>1. TypeOK /\ Local(p)
  BY Given
<1>2. pc[p] = "idle" /\ pc' = [pc EXCEPT ![p] = "refused"] /\ undisturbed' = FALSE
      /\ UNCHANGED <<plan, moves, next, at, need, made, wrote, failing, tree, file>>
      /\ UNCHANGED <<snatched, misread>>
  BY DEF PlanRefused, GoTo, inputs, progress, disk
<1>3. TypeOK'
  BY <1>1, <1>2 DEF TypeOK, AtWork, Ended
<1>4. (\A q \in Proc \ {p} : Same(q)) /\ Remembers
  BY <1>1, <1>2 DEF TypeOK, Same, Remembers
<1>5. pc'[p] = "refused" /\ next'[p] = 0 /\ made'[p] = {} /\ wrote'[p] = {}
      /\ MyDirs(p)' = {} /\ Mine(p)' = {}
  BY <1>1, <1>2 DEF TypeOK, MyDirs, Mine, Local, PlaceOf, RecordOf, AtWork
<1>6. Local(p)'
  BY <1>5 DEF Local, PlaceOf, RecordOf, ReportOf, AtWork, Building, Cleaning
<1> QED
  BY <1>2, <1>3, <1>4, <1>6, QuietKeeps

LEMMA ClimbKeeps == ASSUME IInv, NEW p \in Proc, Climb(p) PROVE IInv'
<1>1. TypeOK /\ Local(p) /\ at[p] \in 0..Dirs
  BY Given
<1>2. UNCHANGED <<plan, moves, next, made, wrote, failing, tree, file>>
      /\ UNCHANGED <<snatched, misread, undisturbed>> /\ pc[p] = "climb"
  BY DEF Climb, inputs, disk, history
<1>3. TypeOK' /\ pc' \in {pc, [pc EXCEPT ![p] = "mkdir"]}
  <2>1. CASE IsDir(at[p])
    <3>1. pc' = [pc EXCEPT ![p] = "mkdir"] /\ at' = [at EXCEPT ![p] = TargetDir(p)] /\ need' = need
      BY <2>1 DEF Climb, GoTo
    <3>2. TargetDir(p) \in 0..Dirs
      <4>1. next[p] = 0 \/ next[p] \in Item
        BY <1>1, <1>2 DEF Local, PlaceOf, TypeOK
      <4> QED
        BY <4>1, Numbers DEF TargetDir
    <3> QED
      BY <1>1, <1>2, <3>1, <3>2 DEF TypeOK, AtWork
  <2>2. CASE ~IsDir(at[p])
    <3>1. pc' = pc /\ need' = [need EXCEPT ![p] = @ \cup {at[p]}] /\ at' = [at EXCEPT ![p] = Parent[@]]
      BY <2>2 DEF Climb
    <3>2. at[p] \in Dir /\ Parent[at[p]] \in 0..Dirs
      BY <1>1, <2>2, DirsAssumption DEF IsDir, Dir, DirsAssumption
    <3> QED
      BY <1>1, <1>2, <3>1, <3>2 DEF TypeOK
  <2> QED
    BY <2>1, <2>2
<1>4. (\A q \in Proc \ {p} : Same(q)) /\ Remembers
  BY <1>1, <1>2, <1>3 DEF TypeOK, Same, Remembers
<1>5. pc'[p] \in {"climb", "mkdir"} /\ next'[p] = next[p] /\ made'[p] = made[p] /\ wrote'[p] = wrote[p]
      /\ plan'[p] = plan[p] /\ MyDirs(p)' = MyDirs(p) /\ Mine(p)' = Mine(p)
  BY <1>1, <1>2, <1>3 DEF TypeOK, MyDirs, Mine
<1>6. Local(p)'
  BY <1>1, <1>2, <1>5 DEF Local, PlaceOf, RecordOf, ReportOf, AtWork, Building, Cleaning
<1> QED
  BY <1>2, <1>3, <1>4, <1>6, QuietKeeps

\* Where a run turns to: a resource of its plan, or the verification.
LEMMA Turned ==
  ASSUME IInv, NEW p \in Proc, NEW i \in {0} \cup plan[p], Turn(p, i)
  PROVE  /\ pc' = [pc EXCEPT ![p] = pc'[p]] /\ next' = [next EXCEPT ![p] = next'[p]]
         /\ at' = [at EXCEPT ![p] = at'[p]] /\ at'[p] \in Dir
         /\ \/ pc'[p] = "climb" /\ next'[p] \in plan[p]
            \/ pc'[p] = "verify" /\ next'[p] = 1
<1>1. TypeOK
  BY Given
<1>2. CASE After(p, i) # {}
  <2>1. After(p, i) \subseteq Nat /\ After(p, i) \subseteq plan[p]
    BY <1>1, Numbers DEF After, TypeOK
  <2>2. Least(After(p, i)) \in plan[p] /\ Least(After(p, i)) \in Item
    BY <1>1, <1>2, <2>1, LeastIs DEF TypeOK
  <2>3. /\ pc' = [pc EXCEPT ![p] = "climb"] /\ next' = [next EXCEPT ![p] = Least(After(p, i))]
        /\ at' = [at EXCEPT ![p] = DirOf[Least(After(p, i))]]
    BY <1>2 DEF Turn, GoTo
  <2> QED
    BY <1>1, <2>2, <2>3, Numbers DEF TypeOK
<1>3. CASE After(p, i) = {}
  <2>1. /\ pc' = [pc EXCEPT ![p] = "verify"] /\ next' = [next EXCEPT ![p] = 1]
        /\ at' = [at EXCEPT ![p] = 1]
    BY <1>3 DEF Turn, GoTo
  <2> QED
    BY <1>1, <2>1, Numbers DEF TypeOK
<1> QED
  BY <1>2, <1>3

LEMMA DirReadyKeeps == ASSUME IInv, NEW p \in Proc, DirReady(p) PROVE IInv'
<1>1. TypeOK /\ Local(p) /\ plan[p] \subseteq Item
  BY Given
<1>2. UNCHANGED <<plan, moves, need, made, wrote, failing, tree, file>>
      /\ UNCHANGED <<snatched, misread, undisturbed>> /\ pc[p] = "mkdir"
  BY DEF DirReady, inputs, disk, history
<1>3. /\ pc' = [pc EXCEPT ![p] = pc'[p]] /\ next' = [next EXCEPT ![p] = next'[p]]
      /\ at' = [at EXCEPT ![p] = at'[p]] /\ at'[p] \in 0..Dirs
      /\ \/ pc'[p] \in {"climb", "create"} /\ next'[p] \in plan[p]
         \/ pc'[p] = "verify" /\ next'[p] = 1
  <2>1. CASE next[p] = 0
    BY <2>1, Turned, Numbers DEF DirReady
  <2>2. CASE next[p] # 0
    <3>1. pc' = [pc EXCEPT ![p] = "create"] /\ next' = next /\ at' = at
      BY <2>2 DEF DirReady, GoTo
    <3> QED
      BY <1>1, <1>2, <2>2, <3>1 DEF TypeOK, Local, PlaceOf
  <2> QED
    BY <2>1, <2>2
<1>4. TypeOK'
  <2>1. next'[p] \in 0..(Files + 1) /\ pc'[p] \in AtWork
    BY <1>1, <1>3, DirsAssumption DEF DirsAssumption, Item, AtWork
  <2> QED
    BY <1>1, <1>2, <1>3, <2>1 DEF TypeOK
<1>5. (\A q \in Proc \ {p} : Same(q)) /\ Remembers
  BY <1>1, <1>2, <1>3 DEF TypeOK, Same, Remembers
<1>6. made'[p] = made[p] /\ wrote'[p] = wrote[p] /\ plan'[p] = plan[p]
      /\ MyDirs(p)' = MyDirs(p) /\ Mine(p)' = Mine(p)
  BY <1>2 DEF MyDirs, Mine
<1>7. \A i \in plan[p] : ~(i < 1)
  BY <1>1, Numbers DEF Item
<1>8. Local(p)'
  <2>1. PlaceOf(p)'
    BY <1>1, <1>3, <1>6, Numbers DEF PlaceOf, AtWork
  <2>2. RecordOf(p)'
    BY <1>1, <1>2, <1>3, <1>6 DEF Local, RecordOf, AtWork, Building, Cleaning
  <2>3. ReportOf(p)'
    BY <1>3, <1>6, <1>7 DEF ReportOf
  <2> QED
    BY <2>1, <2>2, <2>3 DEF Local
<1> QED
  BY <1>2, <1>4, <1>5, <1>8, QuietKeeps

\* The verification passes a resource of the plan only when it is there, whole.
LEMMA VerifyKeeps == ASSUME IInv, NEW p \in Proc, Verify(p) PROVE IInv'
<1>1. TypeOK /\ Local(p) /\ plan[p] \subseteq Item
  BY Given
<1>2. UNCHANGED <<plan, moves, pc, at, need, made, wrote, failing, tree, file>>
      /\ UNCHANGED <<snatched, undisturbed>> /\ pc[p] = "verify" /\ next[p] \in Item
      /\ next' = [next EXCEPT ![p] = @ + 1] /\ misread' \in BOOLEAN
      /\ (next[p] \in plan[p] => file[next[p]] = FileOf(p, "whole"))
  BY DEF Verify, inputs, disk
<1>3. TypeOK'
  <2>1. next[p] + 1 \in 0..(Files + 1)
    BY <1>2, DirsAssumption DEF DirsAssumption, Item
  <2> QED
    BY <1>1, <1>2, <2>1 DEF TypeOK
<1>4. (\A q \in Proc \ {p} : Same(q)) /\ Remembers
  BY <1>1, <1>2 DEF TypeOK, Same, Remembers
<1>5. next'[p] = next[p] + 1 /\ MyDirs(p)' = MyDirs(p) /\ Mine(p)' = Mine(p)
  BY <1>1, <1>2 DEF TypeOK, MyDirs, Mine
<1>6. \A i \in Item : i < next[p] + 1 => i < next[p] \/ i = next[p]
  BY <1>2, DirsAssumption DEF DirsAssumption, Item
<1>7. Local(p)'
  <2>1. PlaceOf(p)'
    BY <1>1, <1>2, <1>5 DEF Local, PlaceOf, AtWork, Item
  <2>2. RecordOf(p)'
    BY <1>1, <1>2, <1>5 DEF Local, RecordOf
  <2>3. ReportOf(p)'
    BY <1>1, <1>2, <1>5, <1>6 DEF Local, ReportOf
  <2> QED
    BY <2>1, <2>2, <2>3 DEF Local
<1> QED
  BY <1>2, <1>3, <1>4, <1>7, QuietKeeps

LEMMA FilesRemovedKeeps == ASSUME IInv, NEW p \in Proc, FilesRemoved(p) PROVE IInv'
<1>1. TypeOK /\ Local(p)
  BY Given
<1>2. pc[p] = "unfile" /\ wrote[p] = {} /\ pc' = [pc EXCEPT ![p] = "undir"]
      /\ UNCHANGED <<plan, moves, next, at, need, made, wrote, failing, tree, file>>
      /\ UNCHANGED <<snatched, misread, undisturbed>>
  BY DEF FilesRemoved, GoTo, inputs, progress, disk, history
<1>3. TypeOK'
  BY <1>1, <1>2 DEF TypeOK, AtWork
<1>4. (\A q \in Proc \ {p} : Same(q)) /\ Remembers
  BY <1>1, <1>2 DEF TypeOK, Same, Remembers
<1>5. pc'[p] = "undir" /\ MyDirs(p)' = MyDirs(p) /\ Mine(p)' = Mine(p)
  BY <1>1, <1>2 DEF TypeOK, MyDirs, Mine
<1>6. Local(p)'
  BY <1>1, <1>2, <1>5 DEF Local, PlaceOf, RecordOf, ReportOf, AtWork, Building, Cleaning
<1> QED
  BY <1>2, <1>3, <1>4, <1>6, QuietKeeps

\* The steps that end in an error path or an exit.

LEMMA RefusalsKeep ==
  ASSUME IInv, NEW p \in Proc,
         MakeDirRefused(p) \/ CreateRefused(p) \/ VerifyRefused(p) \/ CallFails(p)
  PROVE  IInv'
<1>1. snatched \in BOOLEAN /\ misread \in BOOLEAN /\ undisturbed \in BOOLEAN
  BY DEF IInv, TypeOK
<1>2. CASE MakeDirRefused(p)
  BY <1>1, <1>2, AbandonKeeps DEF MakeDirRefused, history, Remembers
<1>3. CASE CreateRefused(p)
  BY <1>1, <1>3, AbandonKeeps DEF CreateRefused, history, Remembers
<1>4. CASE VerifyRefused(p)
  BY <1>1, <1>4, AbandonKeeps DEF VerifyRefused, Remembers
<1>5. CASE CallFails(p)
  BY <1>1, <1>5, AbandonKeeps DEF CallFails, Remembers
<1> QED
  BY <1>2, <1>3, <1>4, <1>5

LEMMA KeepKeeps == ASSUME IInv, NEW p \in Proc, Keep(p) PROVE IInv'
<1>1. Local(p) /\ plan[p] \subseteq Item /\ next[p] \in 0..(Files + 1) /\ undisturbed \in BOOLEAN
  BY Given DEF TypeOK
<1>2. pc[p] = "verify" /\ next[p] \notin Item /\ Exit(p, "done") /\ UNCHANGED <<snatched, misread, undisturbed>>
  BY DEF Keep, history
<1>3. \A i \in Item : i < next[p]
  BY <1>1, <1>2, DirsAssumption DEF Local, PlaceOf, DirsAssumption, Item
<1>4. ~snatched => \A i \in plan[p] : file[i] = FileOf(p, "whole")
  BY <1>1, <1>2, <1>3 DEF Local, ReportOf
<1> QED
  BY <1>1, <1>2, <1>4, ExitKeeps DEF Ended, Remembers

LEMMA CleanedUpKeeps == ASSUME IInv, NEW p \in Proc, CleanedUp(p) PROVE IInv'
<1>1. Local(p) /\ undisturbed \in BOOLEAN
  BY Given DEF TypeOK
<1>2. pc[p] = "undir" /\ made[p] = {} /\ UNCHANGED <<snatched, misread, undisturbed>>
      /\ Exit(p, IF failing[p] THEN "stuck" ELSE "failed")
  BY DEF CleanedUp, history
<1>3. wrote[p] = {} /\ (~failing[p] => MyDirs(p) = {}) /\ (undisturbed \/ ~failing[p] => Mine(p) = {})
  BY <1>1, <1>2 DEF Local, PlaceOf, RecordOf, Cleaning, AtWork
<1>4. CASE failing[p]
  BY <1>1, <1>2, <1>3, <1>4, ExitKeeps DEF Ended, Remembers
<1>5. CASE ~failing[p]
  BY <1>1, <1>2, <1>3, <1>5, ExitKeeps DEF Ended, Remembers
<1> QED
  BY <1>4, <1>5

LEMMA CrashKeeps == ASSUME IInv, NEW p \in Proc, Crash(p) PROVE IInv'
BY ExitKeeps DEF Crash, Ended, Remembers

-------------------------------------------------------------------------------
\* The steps that change the disk.

LEMMA DiskKeeps ==
  ASSUME IInv, NEW p \in Proc, TypeOK', TreeInv', Remembers, undisturbed' => ~snatched',
         \A q \in Proc \ {p} :
           /\ Same(q) /\ MyDirs(q)' = MyDirs(q) /\ Mine(q)' \subseteq Mine(q)
           /\ ~snatched' => Mine(q)' = Mine(q) /\ \A i \in Mine(q) : file'[i] = file[i],
         Local(p)'
  PROVE  IInv'
<1>1. TypeOK /\ \A q \in Proc : Local(q)
  BY RunByRun
<1>2. ASSUME NEW q \in Proc \ {p} PROVE Local(q)'
  BY <1>1, OthersKeep
<1> QED
  BY <1>2, RunByRunNext

LEMMA MakeDirKeeps == ASSUME IInv, NEW p \in Proc, MakeDir(p) PROVE IInv'
<1> DEFINE d == Least(need[p])
<1>1. TypeOK /\ TreeInv /\ Local(p) /\ need[p] \subseteq Dir /\ (undisturbed => ~snatched)
  BY Given
<1>2. pc[p] = "mkdir" /\ need[p] # {} /\ IsDir(Parent[d]) /\ ~IsDir(d)
      /\ tree' = [tree EXCEPT ![d] = p] /\ made' = [made EXCEPT ![p] = @ \cup {d}]
      /\ need' = [need EXCEPT ![p] = @ \ {d}]
      /\ UNCHANGED <<plan, moves, pc, next, at, wrote, failing, file>>
      /\ UNCHANGED <<snatched, misread, undisturbed>>
  BY DEF MakeDir, inputs, history
<1>3. d \in Dir /\ tree[d] = NoDir
  BY <1>1, <1>2, LeastIs, Numbers DEF IsDir
<1> HIDE DEF d
<1>4. TypeOK'
  BY <1>1, <1>2, <1>3 DEF TypeOK
<1>5. TreeInv'
  <2>1. \A e \in Dir : IsDir(e) => IsDir(e)'
    BY <1>1, <1>2, <1>3, NamesAssumption DEF IsDir, TypeOK, NamesAssumption
  <2>2. ASSUME NEW e \in Dir, IsDir(Parent[e]) PROVE IsDir(Parent[e])'
    BY <2>1, <2>2, Numbers, DirsAssumption DEF IsDir, Dir, DirsAssumption
  <2>3. \A e \in Dir : tree'[e] # NoDir => IsDir(Parent[e])
    BY <1>1, <1>2 DEF TreeInv, TypeOK
  <2>4. \A i \in Item : file[i] # NoFile => IsDir(DirOf[i])'
    BY <1>1, <2>1, Numbers DEF TreeInv
  <2> QED
    BY <1>2, <2>2, <2>3, <2>4 DEF TreeInv
<1>6. MyDirs(p)' = MyDirs(p) \cup {d} /\ Mine(p)' = Mine(p)
  BY <1>1, <1>2, <1>3, NamesAssumption DEF TypeOK, MyDirs, Mine, NamesAssumption
<1>7. ASSUME NEW q \in Proc \ {p}
      PROVE  Same(q) /\ MyDirs(q)' = MyDirs(q) /\ Mine(q)' = Mine(q) /\ file' = file
  BY <1>1, <1>2, <1>3, NamesAssumption DEF TypeOK, MyDirs, Mine, Same, NamesAssumption
<1>8. Local(p)'
  <2>1. made'[p] = made[p] \cup {d}
    BY <1>1, <1>2 DEF TypeOK
  <2> QED
    BY <1>1, <1>2, <1>6, <2>1 DEF Local, PlaceOf, RecordOf, ReportOf, AtWork, Building, Cleaning
<1> QED
  BY <1>1, <1>2, <1>4, <1>5, <1>7, <1>8, DiskKeeps DEF Remembers

LEMMA CreateFileKeeps == ASSUME IInv, NEW p \in Proc, CreateFile(p) PROVE IInv'
<1> DEFINE i == next[p]
<1>1. TypeOK /\ TreeInv /\ Local(p) /\ plan[p] \subseteq Item /\ (undisturbed => ~snatched)
  BY Given
<1>2. pc[p] = "create" /\ IsDir(DirOf[i]) /\ file[i] = NoFile
      /\ file' = [file EXCEPT ![i] = FileOf(p, "torn")]
      /\ wrote' = [wrote EXCEPT ![p] = @ \cup {i}] /\ pc' = [pc EXCEPT ![p] = "fill"]
      /\ UNCHANGED <<plan, moves, next, at, need, made, failing, tree>>
      /\ UNCHANGED <<snatched, misread, undisturbed>>
  BY DEF CreateFile, GoTo, inputs, history
<1>3. i \in plan[p] /\ i \in Item
  BY <1>1, <1>2 DEF Local, PlaceOf
<1>4. FileOf(p, "torn") \in File /\ FileOf(p, "torn") # NoFile /\ FileOf(p, "torn").by = p
  BY FileValues
<1>5. TypeOK'
  BY <1>1, <1>2, <1>3, <1>4 DEF TypeOK, AtWork
<1>6. TreeInv'
  BY <1>1, <1>2, <1>3 DEF TreeInv, IsDir, TypeOK
<1>7. MyDirs(p)' = MyDirs(p) /\ Mine(p)' = Mine(p) \cup {i}
  BY <1>1, <1>2, <1>3, <1>4 DEF TypeOK, MyDirs, Mine
<1>8. ASSUME NEW q \in Proc \ {p}
      PROVE  Same(q) /\ MyDirs(q)' = MyDirs(q) /\ Mine(q)' = Mine(q)
             /\ \A j \in Mine(q) : file'[j] = file[j]
  BY <1>1, <1>2, <1>3, <1>4 DEF TypeOK, MyDirs, Mine, Same
<1>9. Local(p)'
  <2>1. wrote'[p] = wrote[p] \cup {i} /\ pc'[p] = "fill" /\ next'[p] \in plan'[p] /\ made'[p] = made[p]
    BY <1>1, <1>2, <1>3 DEF TypeOK
  <2> QED
    BY <1>1, <1>2, <1>7, <2>1 DEF Local, PlaceOf, RecordOf, ReportOf, AtWork, Building, Cleaning
<1> QED
  BY <1>1, <1>2, <1>5, <1>6, <1>8, <1>9, DiskKeeps DEF Remembers

LEMMA FillKeeps == ASSUME IInv, NEW p \in Proc, Fill(p) PROVE IInv'
<1> DEFINE i == next[p]
<1>1. TypeOK /\ TreeInv /\ Local(p) /\ plan[p] \subseteq Item /\ (undisturbed => ~snatched)
  BY Given
<1>2. PICK s \in {"whole", "wrong"} :
        /\ file' = IF file[i] = FileOf(p, "torn") THEN [file EXCEPT ![i] = FileOf(p, s)] ELSE file
        /\ undisturbed' = (undisturbed /\ s = "whole")
  BY DEF Fill
<1>3. pc[p] = "fill" /\ Turn(p, i)
      /\ UNCHANGED <<plan, moves, need, made, wrote, failing, tree>> /\ UNCHANGED <<snatched, misread>>
  BY DEF Fill, inputs
<1>4. i \in plan[p] /\ i \in Item
  BY <1>1, <1>3 DEF Local, PlaceOf
<1>5. FileOf(p, s) \in File /\ FileOf(p, s) # NoFile /\ FileOf(p, s).by = p
      /\ FileOf(p, "torn") # NoFile /\ FileOf(p, "torn").by = p
  BY FileValues
<1>6. /\ pc' = [pc EXCEPT ![p] = pc'[p]] /\ next' = [next EXCEPT ![p] = next'[p]]
      /\ at' = [at EXCEPT ![p] = at'[p]] /\ at'[p] \in Dir
      /\ \/ pc'[p] = "climb" /\ next'[p] \in plan[p]
         \/ pc'[p] = "verify" /\ next'[p] = 1
  BY <1>3, <1>4, Turned
<1>7. TypeOK'
  <2>1. next'[p] \in 0..(Files + 1) /\ pc'[p] \in AtWork /\ at'[p] \in 0..Dirs
    BY <1>1, <1>6, DirsAssumption DEF DirsAssumption, Item, Dir, AtWork
  <2>2. file' \in [Item -> File \cup {NoFile}] /\ undisturbed' \in BOOLEAN
    BY <1>1, <1>2, <1>4, <1>5 DEF TypeOK
  <2> QED
    BY <1>1, <1>3, <1>6, <2>1, <2>2 DEF TypeOK
<1>8. TreeInv'
  BY <1>1, <1>2, <1>3, <1>4, <1>5 DEF TreeInv, IsDir, TypeOK
<1>9. MyDirs(p)' = MyDirs(p) /\ Mine(p)' = Mine(p)
  BY <1>1, <1>2, <1>3, <1>4, <1>5 DEF TypeOK, MyDirs, Mine
<1>10. ASSUME NEW q \in Proc \ {p}
      PROVE  Same(q) /\ MyDirs(q)' = MyDirs(q) /\ Mine(q)' = Mine(q)
             /\ \A j \in Mine(q) : file'[j] = file[j]
  BY <1>1, <1>2, <1>3, <1>4, <1>5, <1>6 DEF TypeOK, MyDirs, Mine, Same
<1>11. Local(p)'
  <2>1. PlaceOf(p)'
    BY <1>1, <1>3, <1>4, <1>6, Numbers DEF PlaceOf, AtWork
  <2>2. RecordOf(p)'
    BY <1>1, <1>3, <1>6, <1>9 DEF Local, RecordOf, AtWork, Building, Cleaning
  <2>3. ReportOf(p)'
    BY <1>1, <1>3, <1>6, Numbers DEF ReportOf, Item
  <2> QED
    BY <2>1, <2>2, <2>3 DEF Local
<1>12. Remembers /\ (undisturbed' => ~snatched')
  BY <1>1, <1>2, <1>3 DEF Remembers
<1> QED
  BY <1>7, <1>8, <1>10, <1>11, <1>12, DiskKeeps

LEMMA RemoveFileKeeps == ASSUME IInv, NEW p \in Proc, RemoveFile(p) PROVE IInv'
<1> DEFINE i == Largest(wrote[p])
<1>1. TypeOK /\ TreeInv /\ Local(p) /\ wrote[p] \subseteq Item /\ (undisturbed => ~snatched)
  BY Given
<1>2. pc[p] = "unfile" /\ wrote[p] # {} /\ wrote' = [wrote EXCEPT ![p] = @ \ {i}]
      /\ UNCHANGED <<plan, moves, pc, next, at, need, made, tree>> /\ UNCHANGED <<snatched, misread>>
  BY DEF RemoveFile, inputs
<1>3. \/ /\ file' = [file EXCEPT ![i] = NoFile]
         /\ failing' = [failing EXCEPT ![p] = @ \/ file[i] = NoFile]
         /\ undisturbed' = undisturbed
      \/ /\ file' = file
         /\ failing' = [failing EXCEPT ![p] = TRUE]
         /\ undisturbed' = FALSE
  BY DEF RemoveFile
<1>4. i \in wrote[p] /\ i \in Item /\ (~snatched => i \in Mine(p))
  <2>1. i \in wrote[p]
    BY <1>1, <1>2, DirsAssumption, Numbers, LargestIs DEF DirsAssumption
  <2> QED
    BY <1>1, <1>2, <2>1 DEF Local, RecordOf, AtWork
<1> HIDE DEF i
<1>5. TypeOK'
  <2>1. file' \in [Item -> File \cup {NoFile}] /\ wrote' \in [Proc -> SUBSET Item]
    BY <1>1, <1>2, <1>3 DEF TypeOK
  <2>2. failing' \in [Proc -> BOOLEAN] /\ undisturbed' \in BOOLEAN
    BY <1>1, <1>3 DEF TypeOK
  <2> QED
    BY <1>1, <1>2, <2>1, <2>2 DEF TypeOK
<1>6. TreeInv'
  BY <1>1, <1>2, <1>3 DEF TreeInv, IsDir, TypeOK
<1>7. ASSUME NEW q \in Proc PROVE MyDirs(q)' = MyDirs(q) /\ Mine(q)' \subseteq Mine(q)
  BY <1>1, <1>2, <1>3 DEF TypeOK, MyDirs, Mine
<1>8. ASSUME NEW q \in Proc \ {p}
      PROVE  /\ Same(q)
             /\ ~snatched' => Mine(q)' = Mine(q) /\ \A j \in Mine(q) : file'[j] = file[j]
  <2>1. ~snatched => i \notin Mine(q)
    BY <1>4 DEF Mine
  <2>2. ~snatched' => Mine(q)' = Mine(q) /\ \A j \in Mine(q) : file'[j] = file[j]
    BY <1>1, <1>2, <1>3, <2>1 DEF TypeOK, Mine
  <2> QED
    BY <1>1, <1>2, <1>3, <2>2 DEF TypeOK, Same
<1>9. Remembers /\ (undisturbed' => ~snatched')
  BY <1>1, <1>2, <1>3 DEF Remembers
<1>10. Local(p)'
  <2>1. wrote'[p] = wrote[p] \ {i} /\ pc'[p] = "unfile" /\ made'[p] = made[p] /\ MyDirs(p)' = MyDirs(p)
    BY <1>1, <1>2, <1>7 DEF TypeOK
  <2>2. (~failing'[p] => ~failing[p]) /\ (undisturbed' => undisturbed)
    BY <1>1, <1>3 DEF TypeOK
  <2>3. Mine(p) \ {i} \subseteq Mine(p)'
    BY <1>1, <1>2, <1>3 DEF TypeOK, Mine
  <2>4. undisturbed' \/ ~failing'[p] => Mine(p)' \subseteq Mine(p) \ {i}
    BY <1>1, <1>2, <1>3, <1>4 DEF TypeOK, Mine
  <2>5. PlaceOf(p)' /\ ReportOf(p)'
    BY <1>1, <2>1 DEF Local, PlaceOf, ReportOf, AtWork
  <2>6. RecordOf(p)'
    BY <1>1, <1>2, <2>1, <2>2, <2>3, <2>4 DEF Local, RecordOf, AtWork, Building, Cleaning
  <2> QED
    BY <2>5, <2>6 DEF Local
<1> QED
  BY <1>5, <1>6, <1>7, <1>8, <1>9, <1>10, DiskKeeps

\* A directory goes only when nothing is in it, so nothing is left in the air.
LEMMA RemoveDirKeeps == ASSUME IInv, NEW p \in Proc, RemoveDir(p) PROVE IInv'
<1> DEFINE d == Largest(made[p])
<1>1. TypeOK /\ TreeInv /\ Local(p) /\ made[p] \subseteq Dir /\ (undisturbed => ~snatched)
  BY Given
<1>2. pc[p] = "undir" /\ made[p] # {} /\ made' = [made EXCEPT ![p] = @ \ {d}]
      /\ UNCHANGED <<plan, moves, pc, next, at, need, wrote, file>> /\ UNCHANGED <<snatched, misread>>
  BY DEF RemoveDir, inputs
<1>3. \/ /\ IsEmptyDir(d) /\ tree' = [tree EXCEPT ![d] = NoDir]
         /\ failing' = failing /\ undisturbed' = undisturbed
      \/ /\ tree' = tree /\ failing' = [failing EXCEPT ![p] = TRUE]
         /\ undisturbed' = (undisturbed /\ ~IsEmptyDir(d))
  BY DEF RemoveDir
<1>4. d \in made[p] /\ d \in Dir /\ d \in MyDirs(p) /\ tree[d] = p
  <2>1. d \in made[p]
    BY <1>1, <1>2, DirsAssumption, Numbers, LargestIs DEF DirsAssumption
  <2> QED
    BY <1>1, <1>2, <2>1 DEF Local, RecordOf, AtWork, MyDirs
<1> HIDE DEF d
<1>5. TypeOK'
  <2>1. tree' \in [Dir -> Proc \cup {User, NoDir}] /\ made' \in [Proc -> SUBSET Dir]
    BY <1>1, <1>2, <1>3 DEF TypeOK
  <2>2. failing' \in [Proc -> BOOLEAN] /\ undisturbed' \in BOOLEAN
    BY <1>1, <1>3 DEF TypeOK
  <2> QED
    BY <1>1, <1>2, <2>1, <2>2 DEF TypeOK
<1>6. TreeInv'
  <2>1. CASE tree' = tree
    BY <1>1, <1>2, <2>1 DEF TreeInv, IsDir
  <2>2. CASE IsEmptyDir(d) /\ tree' = [tree EXCEPT ![d] = NoDir]
    <3>1. \A e \in Dir : tree[e] # NoDir => Parent[e] # d
      BY <2>2 DEF IsEmptyDir, Children
    <3>2. \A i \in Item : file[i] # NoFile => DirOf[i] # d
      BY <2>2 DEF IsEmptyDir, Members
    <3>3. \A e : e # d /\ e \in Dir \cup {0} /\ IsDir(e) => IsDir(e)'
      BY <1>1, <2>2, Numbers DEF IsDir, TypeOK
    <3>4. \A e \in Dir : tree'[e] # NoDir => tree[e] # NoDir
      BY <1>1, <2>2 DEF TypeOK
    <3>5. \A e \in Dir : Parent[e] \in Dir \cup {0}
      BY DirsAssumption DEF DirsAssumption, Dir
    <3> QED
      BY <1>1, <1>2, <3>1, <3>2, <3>3, <3>4, <3>5, Numbers DEF TreeInv
  <2> QED
    BY <1>3, <2>1, <2>2
<1>7. ASSUME NEW q \in Proc \ {p}
      PROVE  Same(q) /\ MyDirs(q)' = MyDirs(q) /\ Mine(q)' = Mine(q) /\ file' = file
  <2>1. d \notin MyDirs(q) /\ q # NoDir
    BY <1>4, NamesAssumption DEF MyDirs, NamesAssumption
  <2>2. MyDirs(q)' = MyDirs(q)
    BY <1>1, <1>3, <2>1 DEF TypeOK, MyDirs
  <2> QED
    BY <1>1, <1>2, <1>3, <2>2 DEF TypeOK, Mine, Same
<1>8. Remembers /\ (undisturbed' => ~snatched')
  <2>1. undisturbed' => undisturbed
    BY <1>3, Zenon
  <2> QED
    BY <1>1, <1>2, <2>1 DEF Remembers
<1>9. Local(p)'
  <2>1. wrote'[p] = {} /\ pc'[p] = "undir" /\ made'[p] = made[p] \ {d} /\ Mine(p)' = Mine(p)
    BY <1>1, <1>2 DEF TypeOK, Mine, Local, PlaceOf
  <2>2. (~failing'[p] => ~failing[p]) /\ (undisturbed' => undisturbed)
    BY <1>1, <1>3 DEF TypeOK
  <2>3. MyDirs(p) \ {d} \subseteq MyDirs(p)'
    BY <1>1, <1>3 DEF TypeOK, MyDirs
  <2>4. ~failing'[p] => MyDirs(p)' \subseteq MyDirs(p) \ {d}
    BY <1>1, <1>3, NamesAssumption DEF TypeOK, MyDirs, NamesAssumption
  <2>5. PlaceOf(p)' /\ ReportOf(p)'
    BY <1>1, <2>1 DEF Local, PlaceOf, ReportOf, AtWork
  <2>6. RecordOf(p)'
    BY <1>1, <1>2, <2>1, <2>2, <2>3, <2>4 DEF Local, PlaceOf, RecordOf, AtWork, Building, Cleaning
  <2> QED
    BY <2>5, <2>6 DEF Local
<1> QED
  BY <1>5, <1>6, <1>7, <1>8, <1>9, DiskKeeps

\* The user: what is added is the user's own, and a run's loss is remembered.
LEMMA UserKeeps == ASSUME IInv, UserActs PROVE IInv'
<1>1. TypeOK /\ TreeInv /\ (undisturbed => ~snatched) /\ \A q \in Proc : Local(q)
  BY RunByRun
<1>2. UNCHANGED <<plan, pc, next, at, need, made, wrote, failing, misread>>
      /\ undisturbed' = FALSE /\ moves < UserMoves /\ moves' = moves + 1
  BY DEF UserActs, progress
<1>3. \A q \in Proc : Same(q)
  BY <1>2 DEF Same
<1>4. moves' \in 0..UserMoves
  BY <1>1, <1>2, DirsAssumption DEF TypeOK, DirsAssumption
<1>5. SUFFICES
        /\ tree' \in [Dir -> Proc \cup {User, NoDir}] /\ file' \in [Item -> File \cup {NoFile}]
        /\ snatched' \in BOOLEAN /\ TreeInv' /\ \A q \in Proc : Local(q)'
  <2>1. undisturbed' \in BOOLEAN
    BY <1>2
  <2>2. ASSUME tree' \in [Dir -> Proc \cup {User, NoDir}], file' \in [Item -> File \cup {NoFile}],
               snatched' \in BOOLEAN
        PROVE  TypeOK'
    BY <1>1, <1>2, <1>4, <2>1, <2>2 DEF TypeOK
  <2> QED
    BY <1>2, <2>2, RunByRunNext
<1>6. CASE UserAdds
  <2>1. PICK i \in Item : /\ IsDir(DirOf[i]) /\ file[i] = NoFile
                          /\ file' = [file EXCEPT ![i] = FileOf(User, "whole")]
    BY <1>6 DEF UserAdds
  <2>2. tree' = tree /\ snatched' = snatched
    BY <1>6 DEF UserAdds
  <2>3. FileOf(User, "whole") \in File /\ FileOf(User, "whole").by = User
    BY FileValues
  <2>4. TreeInv'
    BY <1>1, <2>1, <2>2 DEF TreeInv, IsDir, TypeOK
  <2>5. ASSUME NEW q \in Proc
        PROVE  MyDirs(q)' = MyDirs(q) /\ Mine(q)' = Mine(q) /\ \A j \in Mine(q) : file'[j] = file[j]
    BY <1>1, <2>1, <2>2, <2>3, NamesAssumption DEF TypeOK, MyDirs, Mine, NamesAssumption
  <2>6. ASSUME NEW q \in Proc PROVE Local(q)'
    BY <1>1, <1>2, <1>3, <2>2, <2>5, OthersKeep DEF Remembers
  <2> QED
    BY <1>1, <2>1, <2>2, <2>3, <2>4, <2>6 DEF TypeOK
<1>7. CASE UserTakes
  <2>1. PICK i \in Item : /\ file[i] # NoFile /\ file' = [file EXCEPT ![i] = NoFile]
                          /\ snatched' = (snatched \/ file[i].by # User)
    BY <1>7 DEF UserTakes
  <2>2. tree' = tree
    BY <1>7 DEF UserTakes
  <2>3. TreeInv'
    BY <1>1, <2>1, <2>2 DEF TreeInv, IsDir, TypeOK
  <2>4. ASSUME NEW q \in Proc
        PROVE  /\ MyDirs(q)' = MyDirs(q) /\ Mine(q)' \subseteq Mine(q)
               /\ ~snatched' => Mine(q)' = Mine(q) /\ \A j \in Mine(q) : file'[j] = file[j]
    BY <1>1, <2>1, <2>2, NamesAssumption DEF TypeOK, MyDirs, Mine, NamesAssumption
  <2>5. ASSUME NEW q \in Proc PROVE Local(q)'
    BY <1>1, <1>2, <1>3, <2>1, <2>4, OthersKeep DEF Remembers
  <2> QED
    BY <1>1, <2>1, <2>2, <2>3, <2>5 DEF TypeOK
<1>8. CASE UserClears
  <2>1. /\ \A q \in Proc : pc[q] \notin AtWork
        /\ tree' = [d \in Dir |-> NoDir] /\ file' = [i \in Item |-> NoFile]
        /\ snatched' = (snatched \/ \E i \in Item : file[i] # NoFile /\ file[i].by # User)
    BY <1>8 DEF UserClears
  <2>2. TreeInv'
    BY <2>1 DEF TreeInv
  <2>3. ASSUME NEW q \in Proc PROVE Local(q)'
    <3>1. MyDirs(q)' = {} /\ Mine(q)' = {}
      BY <2>1, NamesAssumption DEF MyDirs, Mine, NamesAssumption
    <3>2. ASSUME NEW i \in plan[q], ~snatched' PROVE file[i] # FileOf(q, "whole")
      <4>1. i \in Item /\ q # User
        BY <1>1, NamesAssumption DEF TypeOK, NamesAssumption
      <4>2. FileOf(q, "whole") # NoFile /\ FileOf(q, "whole").by # User
        BY <4>1, FileValues
      <4>3. ~(file[i] # NoFile /\ file[i].by # User)
        BY <2>1, <3>2, <4>1
      <4> QED
        BY <4>2, <4>3
    <3>3. PlaceOf(q)' /\ RecordOf(q)'
      BY <1>1, <1>2, <2>1, <3>1 DEF Local, PlaceOf, RecordOf, AtWork, Building, Cleaning
    <3>4. ReportOf(q)'
      BY <1>1, <1>2, <2>1, <3>1, <3>2 DEF Local, ReportOf, AtWork
    <3> QED
      BY <3>3, <3>4 DEF Local
  <2> QED
    BY <1>1, <2>1, <2>2, <2>3 DEF TypeOK
<1> QED
  BY <1>6, <1>7, <1>8 DEF UserActs

LEMMA StutterKeeps == ASSUME IInv, UNCHANGED vars PROVE IInv'
BY DEF IInv, vars, inputs, progress, disk, history, TypeOK, TreeInv, IsDir, PlaceInv, Recorded,
       CheckedInv, FailureLeavesNothing, SuccessIsWhole, Mine, MyDirs, AtWork, Building, Cleaning, Ended

THEOREM Step_keeps_IInv == IInv /\ [Next]_vars => IInv'
<1> SUFFICES ASSUME IInv, [Next]_vars PROVE IInv'
  OBVIOUS
<1>1. ASSUME NEW p \in Proc, Step(p) PROVE IInv'
  <2>1. CASE CheckOutput(p) BY <2>1, CheckOutputKeeps
  <2>2. CASE PlanRefused(p) BY <2>2, PlanRefusedKeeps
  <2>3. CASE Climb(p) BY <2>3, ClimbKeeps
  <2>4. CASE MakeDir(p) BY <2>4, MakeDirKeeps
  <2>5. CASE DirReady(p) BY <2>5, DirReadyKeeps
  <2>6. CASE CreateFile(p) BY <2>6, CreateFileKeeps
  <2>7. CASE Fill(p) BY <2>7, FillKeeps
  <2>8. CASE Verify(p) BY <2>8, VerifyKeeps
  <2>9. CASE MakeDirRefused(p) \/ CreateRefused(p) \/ VerifyRefused(p) \/ CallFails(p)
    BY <2>9, RefusalsKeep
  <2>10. CASE Keep(p) BY <2>10, KeepKeeps
  <2>11. CASE RemoveFile(p) BY <2>11, RemoveFileKeeps
  <2>12. CASE FilesRemoved(p) BY <2>12, FilesRemovedKeeps
  <2>13. CASE RemoveDir(p) BY <2>13, RemoveDirKeeps
  <2>14. CASE CleanedUp(p) BY <2>14, CleanedUpKeeps
  <2> QED
    BY <1>1, <2>1, <2>2, <2>3, <2>4, <2>5, <2>6, <2>7, <2>8, <2>9, <2>10, <2>11, <2>12,
       <2>13, <2>14 DEF Step
<1>2. ASSUME NEW p \in Proc, Crash(p) PROVE IInv'
  BY <1>2, CrashKeeps
<1>3. CASE UserActs
  BY <1>3, UserKeeps
<1>4. CASE UNCHANGED vars
  BY <1>4, StutterKeeps
<1> QED
  BY <1>1, <1>2, <1>3, <1>4 DEF Next

\* However many runs build in one overlay, fail or die, and whatever the user
\* adds and takes meanwhile: what a run has recorded is what it has made, a
\* failed run whose cleanup reported nothing has left nothing, and a success
\* is whole as long as nobody took a file away.  (CreatedPaths)
THEOREM Invariant == Spec => []IInv
<1>1. Init => IInv
  BY Initially
<1>2. IInv /\ [Next]_vars => IInv'
  BY Step_keeps_IInv
<1> QED
  BY <1>1, <1>2, PTL DEF Spec

-------------------------------------------------------------------------------
Untouched(p) ==
  Step(p) /\ ~snatched =>
    /\ \A i \in Item : file[i] # NoFile /\ file[i].by # p => file'[i] = file[i]
    /\ \A d \in Dir : tree[d] \notin {NoDir, p} => tree'[d] = tree[d]

\* The only steps of a run that change the disk are these five.
LEMMA DiskSteps ==
  ASSUME NEW p \in Proc, Step(p)
  PROVE  \/ MakeDir(p) \/ CreateFile(p) \/ Fill(p) \/ RemoveFile(p) \/ RemoveDir(p)
         \/ UNCHANGED disk
BY DEF Step, CheckOutput, PlanRefused, Climb, MakeDirRefused, Abandon, DirReady, CreateRefused,
       Verify, VerifyRefused, Keep, Exit, CallFails, FilesRemoved, CleanedUp

LEMMA StepLeavesOthers == ASSUME IInv, NEW p \in Proc PROVE Untouched(p)
<1> SUFFICES ASSUME Step(p), ~snatched
             PROVE  /\ \A i \in Item : file[i] # NoFile /\ file[i].by # p => file'[i] = file[i]
                    /\ \A d \in Dir : tree[d] \notin {NoDir, p} => tree'[d] = tree[d]
  BY DEF Untouched
<1>1. TypeOK /\ Local(p) /\ wrote[p] \subseteq Item /\ made[p] \subseteq Dir /\ need[p] \subseteq Dir
  BY Given
<1>2. CASE MakeDir(p)
  <2> DEFINE d == Least(need[p])
  <2>1. need[p] # {} /\ ~IsDir(d) /\ tree' = [tree EXCEPT ![d] = p] /\ file' = file
    BY <1>2 DEF MakeDir
  <2>2. d \in Dir /\ tree[d] = NoDir
    BY <1>1, <2>1, LeastIs, Numbers DEF IsDir
  <2> QED
    BY <1>1, <2>1, <2>2 DEF TypeOK
<1>3. CASE CreateFile(p)
  BY <1>1, <1>3 DEF CreateFile, TypeOK
<1>4. CASE Fill(p)
  <2>1. FileOf(p, "torn").by = p
    BY FileValues
  <2>2. tree' = tree /\ \E s \in {"whole", "wrong"} :
          file' = IF file[next[p]] = FileOf(p, "torn")
                    THEN [file EXCEPT ![next[p]] = FileOf(p, s)] ELSE file
    BY <1>4 DEF Fill
  <2> QED
    BY <1>1, <2>1, <2>2 DEF TypeOK
<1>5. CASE RemoveFile(p)
  <2> DEFINE i == Largest(wrote[p])
  <2>1. pc[p] = "unfile" /\ wrote[p] # {} /\ tree' = tree /\ file' \in {file, [file EXCEPT ![i] = NoFile]}
    BY <1>5 DEF RemoveFile
  <2>2. i \in wrote[p]
    BY <1>1, <2>1, DirsAssumption, Numbers, LargestIs DEF DirsAssumption
  <2>3. i \in Item /\ file[i].by = p
    BY <1>1, <2>1, <2>2 DEF Local, RecordOf, AtWork, Mine
  <2> QED
    BY <1>1, <2>1, <2>3 DEF TypeOK
<1>6. CASE RemoveDir(p)
  <2> DEFINE d == Largest(made[p])
  <2>1. pc[p] = "undir" /\ made[p] # {} /\ file' = file /\ tree' \in {tree, [tree EXCEPT ![d] = NoDir]}
    BY <1>6 DEF RemoveDir
  <2>2. d \in made[p]
    BY <1>1, <2>1, DirsAssumption, Numbers, LargestIs DEF DirsAssumption
  <2>3. d \in Dir /\ tree[d] = p
    BY <1>1, <2>1, <2>2 DEF Local, RecordOf, AtWork, MyDirs
  <2> QED
    BY <1>1, <2>1, <2>3 DEF TypeOK
<1>7. CASE UNCHANGED disk
  BY <1>7 DEF disk
<1> QED
  BY <1>2, <1>3, <1>4, <1>5, <1>6, <1>7, DiskSteps

\* A run removes and rewrites nothing but what it made itself, as long as the
\* user took no run's file away: not a file of another import or of the user's,
\* not a directory it found.  (create_new, CreatedPaths)
THEOREM LeavesOthers == Spec => OthersUntouched
<1>1. IInv => [\A p \in Proc : Untouched(p)]_vars
  BY StepLeavesOthers
<1> QED
  BY <1>1, Invariant, PTL DEF OthersUntouched, Untouched
===============================================================================
