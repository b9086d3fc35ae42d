------------------------- MODULE BatchPublish_proofs -------------------------
(***************************************************************************)
(* Theorems about BatchPublish, for every number of runs, process ids and  *)
(* files.  One lemma per action shows that it keeps the inductive          *)
(* invariant; the theorems follow at the end.                              *)
(***************************************************************************)
EXTENDS BatchPublish, TLAPS

\* What completing file k does to the directory it is in.
Filled(s, k) == [s EXCEPT !.torn = s.torn \ {k}, !.whole = s.whole \cup {k}]

LEMMA FillRecord ==
  ASSUME NEW s \in Dir, NEW k \in Item
  PROVE  /\ Filled(s, k) \in Dir
         /\ Filled(s, k).torn = s.torn \ {k}
         /\ Filled(s, k).whole = s.whole \cup {k}
         /\ Filled(s, k).by = s.by
         /\ Filled(s, k).foreign = s.foreign
<1>1. Filled(s, k) \in Dir
  BY DEF Dir, Item, Filled
<1>2. Filled(s, k).torn = s.torn \ {k}
  BY DEF Dir, Item, Filled
<1>3. Filled(s, k).whole = s.whole \cup {k} /\ Filled(s, k).by = s.by
      /\ Filled(s, k).foreign = s.foreign
  BY DEF Dir, Item, Filled
<1> QED
  BY <1>1, <1>2, <1>3

\* The directory the user or a restoring run makes.
LEMMA EmptyRecord ==
  /\ EmptyDir \in Dir
  /\ EmptyDir # NoDir
  /\ EmptyDir.by = Nobody
  /\ EmptyDir.whole = {}
  /\ EmptyDir.torn = {}
  /\ EmptyDir.foreign = FALSE
<1>1. EmptyDir \in Dir
  BY DEF EmptyDir, NewDir, Dir
<1>2. EmptyDir.by = Nobody /\ EmptyDir.whole = {} /\ EmptyDir.torn = {}
      /\ EmptyDir.foreign = FALSE
  BY DEF EmptyDir, NewDir
<1> QED
  BY <1>1, <1>2, BatchAssumption DEF BatchAssumption


\* A new process: its id is free, nothing else changes.
LEMMA LaunchKeeps == ASSUME IInv, NEW p \in Proc, Launch(p) PROVE IInv'
<1> USE BatchAssumption DEF BatchAssumption, IInv, Launch, GoTo, Staging
<1>1. TypeOK'
  BY DEF TypeOK, Dir, Item, Running, Ended, EmptyDir
<1>2. DistinctPids'
  BY DEF DistinctPids, Live, TypeOK, Running
<1>3. StagingInv'
  BY <1>1 DEF StagingInv, DistinctPids, Live, Running, Staged, TypeOK, Item, Full
<1>4. PublishedComplete' /\ OutInv'
  BY <1>1 DEF PublishedComplete, OutInv, TypeOK, Dir, Item
<1>5. Contention'
  BY <1>1, <1>4 DEF Contention, Published, Vacant, IsEmpty, TypeOK
<1>6. FreshInv'
  BY DEF FreshInv, TypeOK
<1> QED
  BY <1>1, <1>2, <1>3, <1>4, <1>5, <1>6

\* The first emptiness check moves control only.
LEMMA CheckOutputKeeps == ASSUME IInv, NEW p \in Proc, CheckOutput(p) PROVE IInv'
<1> USE BatchAssumption DEF BatchAssumption, IInv, CheckOutput, GoTo, Staging
<1>1. TypeOK'
  BY DEF TypeOK, Dir, Item, Running, Ended, EmptyDir
<1>2. DistinctPids'
  BY DEF DistinctPids, Live, TypeOK, Running
<1>3. StagingInv'
  BY <1>1 DEF StagingInv, DistinctPids, Live, Running, Staged, TypeOK, Item, Full
<1>4. PublishedComplete' /\ OutInv'
  BY <1>1 DEF PublishedComplete, OutInv, TypeOK, Dir, Item
<1>5. Contention'
  BY <1>1, <1>4 DEF Contention, Published, Vacant, IsEmpty, TypeOK
<1>6. FreshInv'
  BY DEF FreshInv, TypeOK
<1> QED
  BY <1>1, <1>2, <1>3, <1>4, <1>5, <1>6

\* Planning moves control only; a refusal is a disturbance.
LEMMA PlanKeeps == ASSUME IInv, NEW p \in Proc, Plan(p) PROVE IInv'
<1> USE BatchAssumption DEF BatchAssumption, IInv, Plan, GoTo, Staging
<1>1. TypeOK'
  BY DEF TypeOK, Dir, Item, Running, Ended, EmptyDir
<1>2. DistinctPids'
  BY DEF DistinctPids, Live, TypeOK, Running
<1>3. StagingInv'
  BY <1>1 DEF StagingInv, DistinctPids, Live, Running, Staged, TypeOK, Item, Full
<1>4. PublishedComplete' /\ OutInv'
  BY <1>1 DEF PublishedComplete, OutInv, TypeOK, Dir, Item
<1>5. Contention'
  BY <1>1 DEF Contention, Published, Vacant, IsEmpty, TypeOK, Running
<1>6. FreshInv'
  BY DEF FreshInv, TypeOK
<1> QED
  BY <1>1, <1>2, <1>3, <1>4, <1>5, <1>6

\* A step that leaves Out alone, and is disturbed or takes its run to no place
\* where the contention shows, keeps it.
LEMMA ContentionStays ==
  ASSUME Contention, NEW p \in Proc, pc[p] # "rename", dir'[Out] = dir[Out],
         \A q \in Proc : q # p => pc'[q] = pc[q],
         undisturbed' => /\ undisturbed
                         /\ pc'[p] \notin {"done", "unstage", "restore", "crashed",
                                           "failed", "abandon", "recheck", "rmdir"}
  PROVE  Contention'
<1> SUFFICES ASSUME undisturbed', ~Published'
             PROVE  /\ Vacant(dir[Out])
                    /\ \A q \in Proc : pc'[q] \notin {"done", "unstage", "restore", "crashed"}
                    /\ \/ \E q \in Proc : pc'[q] = "rename"
                       \/ dir[Out] # NoDir /\ \A q \in Proc : pc'[q] \notin {"failed", "abandon"}
                       \/ \A q \in Proc : pc'[q] \notin {"failed", "abandon", "recheck", "rmdir"}
  BY DEF Contention, Vacant
<1>1. undisturbed /\ ~Published
  BY DEF Published
<1>2. Vacant(dir[Out]) /\ \A q \in Proc : pc'[q] \notin {"done", "unstage", "restore", "crashed"}
  BY <1>1 DEF Contention
<1>3. CASE \E q \in Proc : pc[q] = "rename"
  BY <1>2, <1>3
<1>4. CASE dir[Out] # NoDir /\ \A q \in Proc : pc[q] \notin {"failed", "abandon"}
  BY <1>2, <1>4
<1>5. CASE \A q \in Proc : pc[q] \notin {"failed", "abandon", "recheck", "rmdir"}
  BY <1>2, <1>5
<1> QED
  BY <1>1, <1>3, <1>4, <1>5 DEF Contention

\* A leftover staging directory ends the run, with a disturbance.
LEMMA ProbeStagingKeeps == ASSUME IInv, NEW p \in Proc, ProbeStaging(p) PROVE IInv'
<1> USE BatchAssumption DEF BatchAssumption, IInv, ProbeStaging, GoTo, Staging
<1>1. TypeOK'
  BY DEF TypeOK, Dir, Item, Running, Ended, EmptyDir
<1>2. DistinctPids'
  BY DEF DistinctPids, Live, TypeOK, Running
<1>3. StagingInv'
  BY <1>1 DEF StagingInv, DistinctPids, Live, Running, Staged, TypeOK, Item, Full
<1>4. PublishedComplete' /\ OutInv'
  BY <1>1 DEF PublishedComplete, OutInv, TypeOK, Dir, Item
<1>5. Contention'
  <2>1. /\ pc[p] # "rename" /\ dir'[Out] = dir[Out] /\ \A q \in Proc : q # p => pc'[q] = pc[q]
        /\ undisturbed' => undisturbed /\ pc'[p] \in {"stage", "write"}
    BY DEF TypeOK
  <2>2. Contention
    OBVIOUS
  <2> HIDE DEF IInv, ProbeStaging, GoTo
  <2> QED BY <2>1, <2>2, ContentionStays
<1>6. FreshInv'
  BY DEF FreshInv, TypeOK
<1> QED
  BY <1>1, <1>2, <1>3, <1>4, <1>5, <1>6

\* The new staging directory is the run's own and empty.
LEMMA MakeStagingKeeps == ASSUME IInv, NEW p \in Proc, MakeStaging(p) PROVE IInv'
<1> USE BatchAssumption DEF BatchAssumption, IInv, MakeStaging, GoTo, Staging
<1>a. pid[p] \in Pid /\ Out # pid[p] /\ dir[Out] \in Dir \cup {NoDir}
  BY DEF TypeOK
<1>c. dir'[Out] = dir[Out] /\ \A n \in Pid : n # pid[p] => dir'[n] = dir[n]
  BY <1>a DEF TypeOK
<1>d. \A q \in Proc : q # p /\ Live(q) => pid[q] # pid[p] /\ Staging(q)' = Staging(q)
  BY <1>a, <1>c DEF DistinctPids, Live, Running, TypeOK
<1>e. NewDir(p) \in Dir
  BY DEF Dir, NewDir
<1>f. (pc'[p] = "write" /\ Staging(p)' = NewDir(p)) \/ (pc'[p] = "failed" /\ dir' = dir)
  BY <1>a DEF TypeOK
<1>1. TypeOK'
  <2>1. pc' \in [Proc -> {"idle"} \cup Running \cup Ended]
    BY DEF TypeOK, Running, Ended
  <2>2. dir' \in [Pid \cup {Out} -> Dir \cup {NoDir}]
    BY <1>a, <1>e DEF TypeOK
  <2>3. undisturbed' \in BOOLEAN /\ UNCHANGED <<pid, next, existed>>
    BY DEF TypeOK
  <2> QED BY <2>1, <2>2, <2>3 DEF TypeOK
<1>2. DistinctPids'
  BY DEF DistinctPids, Live, TypeOK, Running
<1>3. StagingInv'
  <2> SUFFICES ASSUME NEW q \in Proc PROVE StagingInv!(q)'
    BY DEF StagingInv
  <2>1. CASE q = p
    <3>1. NewDir(p) # NoDir /\ NewDir(p).by = p /\ NewDir(p).foreign = FALSE
          /\ NewDir(p).whole = {} /\ NewDir(p).torn = {}
      BY <1>e DEF NewDir
    <3>2. next[p] = 1
      BY DEF FreshInv
    <3> QED BY <2>1, <1>f, <3>1, <3>2 DEF StagingInv, Staged
  <2>2. CASE q # p
    BY <2>2, <1>d DEF StagingInv, Staged, Live, Running, TypeOK, Full
  <2> QED BY <2>1, <2>2
<1>4. PublishedComplete' /\ OutInv'
  BY <1>c DEF PublishedComplete, OutInv, TypeOK, Dir, Item
<1>5. Contention'
  <2>1. /\ pc[p] # "rename" /\ dir'[Out] = dir[Out] /\ \A q \in Proc : q # p => pc'[q] = pc[q]
        /\ undisturbed' => undisturbed /\ pc'[p] \in {"stage", "write"}
    BY <1>c DEF TypeOK
  <2>2. Contention
    OBVIOUS
  <2> HIDE DEF IInv, MakeStaging, GoTo
  <2> QED BY <2>1, <2>2, ContentionStays
<1>6. FreshInv'
  BY DEF FreshInv, TypeOK
<1> QED
  BY <1>1, <1>2, <1>3, <1>4, <1>5, <1>6

\* A torn file appears in the run's own staging directory.
LEMMA OpenFileKeeps == ASSUME IInv, NEW p \in Proc, OpenFile(p) PROVE IInv'
<1> USE BatchAssumption DEF BatchAssumption, IInv, OpenFile, GoTo, Staging
<1>a. pid[p] \in Pid /\ Out # pid[p] /\ dir[Out] \in Dir \cup {NoDir}
  BY DEF TypeOK
<1>c. dir'[Out] = dir[Out] /\ \A n \in Pid : n # pid[p] => dir'[n] = dir[n]
  BY <1>a DEF TypeOK
<1>d. \A q \in Proc : q # p /\ Live(q) => pid[q] # pid[p] /\ Staging(q)' = Staging(q)
  BY <1>a, <1>c DEF DistinctPids, Live, Running, TypeOK
<1>e. Staging(p) \in Dir /\ Staging(p)' = [Staging(p) EXCEPT !.torn = @ \cup {next[p]}]
  BY <1>a DEF TypeOK, StagingInv, Staged
<1>f. Staging(p)' \in Dir
  BY <1>e DEF Dir, Item
<1>1. TypeOK'
  BY <1>a, <1>e, <1>f DEF TypeOK, Running, Ended
<1>2. DistinctPids'
  BY DEF DistinctPids, Live, TypeOK, Running
<1>3. StagingInv'
  <2> SUFFICES ASSUME NEW q \in Proc PROVE StagingInv!(q)'
    BY DEF StagingInv
  <2>1. CASE q = p
    <3>1. Staging(p)'.torn = {next[p]} /\ Staging(p)'.whole = 1..(next[p] - 1)
          /\ Staging(p)'.by = p /\ Staging(p)'.foreign = FALSE /\ Staging(p)' # NoDir
      BY <1>e, <1>f DEF StagingInv, Staged, Dir
    <3>2. pc'[p] = "filling" /\ next'[p] \in Item /\ next' = next
      BY DEF TypeOK
    <3> QED BY <2>1, <3>1, <3>2 DEF StagingInv, Staged
  <2>2. CASE q # p
    BY <2>2, <1>d DEF StagingInv, Staged, Live, Running, TypeOK, Full
  <2> QED BY <2>1, <2>2
<1>4. PublishedComplete' /\ OutInv'
  BY <1>c DEF PublishedComplete, OutInv, TypeOK, Dir, Item
<1>5. Contention'
  BY <1>1, <1>c DEF Contention, Published, Vacant, IsEmpty, TypeOK
<1>6. FreshInv'
  BY DEF FreshInv, TypeOK
<1> QED
  BY <1>1, <1>2, <1>3, <1>4, <1>5, <1>6

\* The torn file becomes whole.
LEMMA FillFileKeeps == ASSUME IInv, NEW p \in Proc, FillFile(p) PROVE IInv'
<1> USE BatchAssumption DEF BatchAssumption, IInv, FillFile, GoTo, Staging
<1>a. pid[p] \in Pid /\ Out # pid[p] /\ dir[Out] \in Dir \cup {NoDir}
  BY DEF TypeOK
<1>c. dir'[Out] = dir[Out] /\ \A n \in Pid : n # pid[p] => dir'[n] = dir[n]
  BY <1>a DEF TypeOK
<1>d. \A q \in Proc : q # p /\ Live(q) => pid[q] # pid[p] /\ Staging(q)' = Staging(q)
  BY <1>a, <1>c DEF DistinctPids, Live, Running, TypeOK
<1>e. Staging(p) \in Dir /\ next[p] \in Item /\ Staging(p)' = Filled(Staging(p), next[p])
  BY <1>a DEF TypeOK, StagingInv, Staged, Filled
<1>f. /\ Staging(p)' \in Dir
      /\ Staging(p)'.torn = Staging(p).torn \ {next[p]}
      /\ Staging(p)'.whole = Staging(p).whole \cup {next[p]}
      /\ Staging(p)'.by = Staging(p).by
      /\ Staging(p)'.foreign = Staging(p).foreign
  <2> DEFINE s == Staging(p) k == next[p]
  <2>1. s \in Dir /\ k \in Item
    BY <1>e
  <2> HIDE DEF s, k
  <2>2. Filled(s, k) \in Dir /\ Filled(s, k).torn = s.torn \ {k}
        /\ Filled(s, k).whole = s.whole \cup {k} /\ Filled(s, k).by = s.by
              /\ Filled(s, k).foreign = s.foreign
    BY <2>1, FillRecord
  <2>3. Staging(p)' = Filled(s, k)
    BY <1>e DEF s, k
  <2> QED BY <2>2, <2>3 DEF s, k
<1>g. next' = [next EXCEPT ![p] = next[p] + 1] /\ next[p] + 1 \in 1..(Files + 1)
  BY <1>e DEF Item
<1>1. TypeOK'
  BY <1>a, <1>e, <1>f, <1>g DEF TypeOK, Running, Ended
<1>2. DistinctPids'
  BY DEF DistinctPids, Live, TypeOK, Running
<1>3. StagingInv'
  <2> SUFFICES ASSUME NEW q \in Proc PROVE StagingInv!(q)'
    BY DEF StagingInv
  <2>1. CASE q = p
    <3>1. Staging(p)'.torn = {} /\ Staging(p)'.whole = 1..next[p]
          /\ Staging(p)'.by = p /\ Staging(p)'.foreign = FALSE /\ Staging(p)' # NoDir
       <4>0. pc[p] = "filling"
        OBVIOUS
      <4>1. Staging(p).torn = {next[p]} /\ Staging(p).whole = 1..(next[p] - 1)
        BY DEF StagingInv
      <4>2. Staging(p).torn \ {next[p]} = {} /\ Staging(p).whole \cup {next[p]} = 1..next[p]
        BY <1>e, <4>1 DEF Item
      <4>3. Staging(p).by = p /\ Staging(p).foreign = FALSE
        BY <1>e, <4>0 DEF StagingInv, Staged, Dir
      <4> QED BY <1>f, <4>2, <4>3
    <3>2. pc'[p] = "write" /\ next'[p] - 1 = next[p]
      BY <1>e, <1>g DEF TypeOK, Item
    <3> QED BY <2>1, <3>1, <3>2, ZenonT(40) DEF StagingInv, Staged
  <2>2. CASE q # p
    BY <2>2, <1>d DEF StagingInv, Staged, Live, Running, TypeOK, Full
  <2> QED BY <2>1, <2>2
<1>4. PublishedComplete' /\ OutInv'
  BY <1>c DEF PublishedComplete, OutInv, TypeOK, Dir, Item
<1>5. Contention'
  <2>1. /\ pc[p] # "rename" /\ dir'[Out] = dir[Out] /\ \A q \in Proc : q # p => pc'[q] = pc[q]
        /\ undisturbed' => undisturbed /\ pc'[p] \in {"stage", "write"}
    BY <1>c DEF TypeOK
  <2>2. Contention
    OBVIOUS
  <2> HIDE DEF IInv, FillFile, GoTo
  <2> QED BY <2>1, <2>2, ContentionStays
<1>6. FreshInv'
  BY DEF FreshInv, TypeOK
<1> QED
  BY <1>1, <1>2, <1>3, <1>4, <1>5, <1>6

\* A failed write moves control only, with a disturbance.
LEMMA WriteFailsKeeps == ASSUME IInv, NEW p \in Proc, WriteFails(p) PROVE IInv'
<1> USE BatchAssumption DEF BatchAssumption, IInv, WriteFails, GoTo, Staging
<1>1. TypeOK'
  BY DEF TypeOK, Dir, Item, Running, Ended, EmptyDir
<1>2. DistinctPids'
  BY DEF DistinctPids, Live, TypeOK, Running
<1>3. StagingInv'
  BY <1>1 DEF StagingInv, DistinctPids, Live, Running, Staged, TypeOK, Item, Full
<1>4. PublishedComplete' /\ OutInv'
  BY <1>1 DEF PublishedComplete, OutInv, TypeOK, Dir, Item
<1>5. Contention'
  BY <1>1, <1>4 DEF Contention, Published, Vacant, IsEmpty, TypeOK
<1>6. FreshInv'
  BY DEF FreshInv, TypeOK
<1> QED
  BY <1>1, <1>2, <1>3, <1>4, <1>5, <1>6

\* After the last file the staging directory holds the whole plan.
LEMMA WritesDoneKeeps == ASSUME IInv, NEW p \in Proc, WritesDone(p) PROVE IInv'
<1> USE BatchAssumption DEF BatchAssumption, IInv, WritesDone, GoTo, Staging
<1>1. TypeOK'
  BY DEF TypeOK, Dir, Item, Running, Ended, EmptyDir
<1>2. DistinctPids'
  BY DEF DistinctPids, Live, TypeOK, Running
<1>3. StagingInv'
  <2> SUFFICES ASSUME NEW q \in Proc PROVE StagingInv!(q)'
    BY DEF StagingInv
  <2>1. CASE q = p
    <3>1. next[p] = Files + 1 /\ Staging(p).whole = Item /\ Staging(p).torn = {}
      BY DEF StagingInv, TypeOK, Item
    <3>2. Staging(p) \in Dir /\ Staging(p).by = p /\ Staging(p).foreign = FALSE
      BY DEF StagingInv, TypeOK, Staged, Dir
    <3>3. Staging(p) = Full(p)
      BY <3>1, <3>2 DEF Full, Dir
    <3> QED BY <2>1, <3>2, <3>3 DEF StagingInv, Staged, TypeOK, Full
  <2>2. CASE q # p
    BY <2>2 DEF StagingInv, Staged, TypeOK, Full
  <2> QED BY <2>1, <2>2
<1>4. PublishedComplete' /\ OutInv'
  BY <1>1 DEF PublishedComplete, OutInv, TypeOK, Dir, Item
<1>5. Contention'
  BY <1>1, <1>4 DEF Contention, Published, Vacant, IsEmpty, TypeOK
<1>6. FreshInv'
  BY DEF FreshInv, TypeOK
<1> QED
  BY <1>1, <1>2, <1>3, <1>4, <1>5, <1>6

\* Looking for the output moves control only; a free output leads to the rename.
LEMMA ProbeOutputKeeps == ASSUME IInv, NEW p \in Proc, ProbeOutput(p) PROVE IInv'
<1> USE BatchAssumption DEF BatchAssumption, IInv, ProbeOutput, GoTo, Staging
<1>1. TypeOK'
  BY DEF TypeOK, Dir, Item, Running, Ended, EmptyDir
<1>2. DistinctPids'
  BY DEF DistinctPids, Live, TypeOK, Running
<1>3. StagingInv'
  BY <1>1 DEF StagingInv, DistinctPids, Live, Running, Staged, TypeOK, Item, Full
<1>4. PublishedComplete' /\ OutInv'
  BY <1>1 DEF PublishedComplete, OutInv, TypeOK, Dir, Item
<1>5. Contention'
  BY <1>1, <1>4 DEF Contention, Published, Vacant, IsEmpty, TypeOK
<1>6. FreshInv'
  BY DEF FreshInv, TypeOK
<1> QED
  BY <1>1, <1>2, <1>3, <1>4, <1>5, <1>6

\* The second emptiness check moves control only.
LEMMA RecheckKeeps == ASSUME IInv, NEW p \in Proc, Recheck(p) PROVE IInv'
<1> USE BatchAssumption DEF BatchAssumption, IInv, Recheck, GoTo, Staging
<1>1. TypeOK'
  BY DEF TypeOK, Dir, Item, Running, Ended, EmptyDir
<1>2. DistinctPids'
  BY DEF DistinctPids, Live, TypeOK, Running
<1>3. StagingInv'
  BY <1>1 DEF StagingInv, DistinctPids, Live, Running, Staged, TypeOK, Item, Full
<1>4. PublishedComplete' /\ OutInv'
  BY <1>1 DEF PublishedComplete, OutInv, TypeOK, Dir, Item, Vacant, IsEmpty
<1>5. Contention'
  BY <1>1, <1>4 DEF Contention, Published, Vacant, IsEmpty, TypeOK
<1>6. FreshInv'
  BY DEF FreshInv, TypeOK
<1> QED
  BY <1>1, <1>2, <1>3, <1>4, <1>5, <1>6

\* An empty output directory goes; without disturbance the remover stands before its rename.
LEMMA RemoveOutputKeeps == ASSUME IInv, NEW p \in Proc, RemoveOutput(p) PROVE IInv'
<1> USE BatchAssumption DEF BatchAssumption, IInv, RemoveOutput, GoTo, Staging
<1>a. Out \notin Pid /\ pid[p] \in Pid /\ \A n \in Pid : dir'[n] = dir[n]
  BY DEF TypeOK
<1>b. \A q \in Proc : Staging(q)' = Staging(q)
  BY <1>a DEF TypeOK
<1>c. Vacant(dir[Out]) => ~Published
  BY DEF PublishedComplete, Published, Vacant, IsEmpty, Item
<1>e. \/ /\ pc' = [pc EXCEPT ![p] = "rename"]
         /\ dir'[Out] = NoDir
         /\ undisturbed' = undisturbed
         /\ ~Published
      \/ /\ pc' = [pc EXCEPT ![p] = "abandon"]
         /\ dir' = dir
         /\ undisturbed' => undisturbed /\ (dir[Out] = NoDir \/ ~IsEmpty(dir[Out]))
  BY <1>c DEF TypeOK, Vacant
<1>1. TypeOK'
  BY DEF TypeOK, Dir, Item, Running, Ended, EmptyDir
<1>2. DistinctPids'
  BY DEF DistinctPids, Live, TypeOK, Running
<1>3. StagingInv'
  BY <1>1, <1>b DEF StagingInv, Running, Staged, TypeOK, Item, Full
<1>4. PublishedComplete' /\ OutInv'
  BY <1>1 DEF PublishedComplete, OutInv, TypeOK, Dir, Item
<1>5. Contention'
  <2>1. CASE dir'[Out] = NoDir /\ pc' = [pc EXCEPT ![p] = "rename"]
        /\ undisturbed' = undisturbed /\ ~Published
    <3>1. ~Published' /\ Vacant(dir'[Out])
      BY <2>1 DEF Published, Vacant
    <3>2. pc'[p] = "rename" /\ \A q \in Proc : q # p => pc'[q] = pc[q]
      BY <2>1 DEF TypeOK
    <3>3. undisturbed =>
            \A q \in Proc : pc[q] \notin {"done", "unstage", "restore", "crashed"}
      BY <2>1 DEF Contention
    <3> QED BY <2>1, <3>1, <3>2, <3>3 DEF Contention
  <2>2. CASE dir' = dir /\ pc' = [pc EXCEPT ![p] = "abandon"]
        /\ (undisturbed' => undisturbed /\ (dir[Out] = NoDir \/ ~IsEmpty(dir[Out])))
    <3>1. SUFFICES ASSUME undisturbed', ~Published'
                   PROVE Contention'
      BY DEF Contention
    <3>2. ~Published /\ undisturbed /\ dir[Out] = NoDir
      BY <2>2, <3>1 DEF Published, Contention, Vacant
    <3>3. \E q \in Proc : pc[q] = "rename"
      BY <3>2 DEF Contention
    <3>4. \A q \in Proc : pc'[q] = IF q = p THEN "abandon" ELSE pc[q]
      BY <2>2 DEF TypeOK
    <3> QED BY <2>2, <3>2, <3>3, <3>4 DEF Contention, Vacant
  <2> QED BY <1>e, <2>1, <2>2
<1>6. FreshInv'
  BY DEF FreshInv, TypeOK
<1> QED
  BY <1>1, <1>2, <1>3, <1>4, <1>5, <1>6

\* The commit point: the staged batch becomes the output.
LEMMA RenameKeeps == ASSUME IInv, NEW p \in Proc, Rename(p) PROVE IInv'
<1> USE BatchAssumption DEF BatchAssumption, IInv, Rename, GoTo, Staging
<1>a. pid[p] \in Pid /\ Out # pid[p] /\ dir[Out] \in Dir \cup {NoDir}
  BY DEF TypeOK
<1>b. dir'[Out] = Full(p) /\ dir'[pid[p]] = NoDir
      /\ \A n \in Pid : n # pid[p] => dir'[n] = dir[n]
  BY <1>a DEF TypeOK, StagingInv
<1>d. \A q \in Proc : q # p /\ Live(q) => pid[q] # pid[p] /\ Staging(q)' = Staging(q)
  BY <1>a, <1>b DEF DistinctPids, Live, Running, TypeOK
<1>e. Full(p) \in Dir /\ Full(p) # NoDir /\ Full(p).by = p /\ Full(p).whole = Item
      /\ Full(p).torn = {}
  <2>1. Full(p) \in Dir
    BY DEF Full, Dir
  <2>2. Full(p).by = p /\ Full(p).whole = Item /\ Full(p).torn = {}
    BY DEF Full
  <2> QED BY <2>1, <2>2
<1>f. pc'[p] = "done" /\ \A q \in Proc : q # p => pc'[q] = pc[q]
  BY DEF TypeOK
<1>1. TypeOK'
  BY <1>a, <1>b, <1>e DEF TypeOK, Running, Ended
<1>2. DistinctPids'
  BY DEF DistinctPids, Live, TypeOK, Running
<1>3. StagingInv'
  BY <1>d, <1>f DEF StagingInv, Live, Running, Staged, TypeOK, Item, Full
<1>4. PublishedComplete' /\ OutInv'
  BY <1>b, <1>e, <1>f, ZenonT(40) DEF PublishedComplete, OutInv
<1>5. Contention'
  BY <1>b, <1>e DEF Contention, Published
<1>6. FreshInv'
  BY DEF FreshInv, TypeOK
<1> QED
  BY <1>1, <1>2, <1>3, <1>4, <1>5, <1>6

\* A rename fails over content, or it is a disturbance.
LEMMA RenameFailsKeeps == ASSUME IInv, NEW p \in Proc, RenameFails(p) PROVE IInv'
<1> USE BatchAssumption DEF BatchAssumption, IInv, RenameFails, GoTo, Staging
<1>1. TypeOK'
  BY DEF TypeOK, Dir, Item, Running, Ended, EmptyDir
<1>2. DistinctPids'
  BY DEF DistinctPids, Live, TypeOK, Running
<1>3. StagingInv'
  BY <1>1 DEF StagingInv, DistinctPids, Live, Running, Staged, TypeOK, Item, Full
<1>4. PublishedComplete' /\ OutInv'
  BY <1>1 DEF PublishedComplete, OutInv, TypeOK, Dir, Item
<1>5. Contention'
  BY <1>1, <1>4 DEF Contention, Published, Vacant, IsEmpty, TypeOK, PublishedComplete, Item
<1>6. FreshInv'
  BY DEF FreshInv, TypeOK
<1> QED
  BY <1>1, <1>2, <1>3, <1>4, <1>5, <1>6

\* The staging directory goes, or what is left of it stays behind a failed run.
LEMMA AbandonKeeps == ASSUME IInv, NEW p \in Proc, Abandon(p) PROVE IInv'
<1> USE BatchAssumption DEF BatchAssumption, IInv, Abandon, RemoveStaging, GoTo, Staging
<1>a. pid[p] \in Pid /\ Out # pid[p] /\ dir[Out] \in Dir \cup {NoDir}
  BY DEF TypeOK
<1>c. dir'[Out] = dir[Out] /\ \A n \in Pid : n # pid[p] => dir'[n] = dir[n]
  BY <1>a DEF TypeOK
<1>d. \A q \in Proc : q # p /\ Live(q) => pid[q] # pid[p] /\ Staging(q)' = Staging(q)
  BY <1>a, <1>c DEF DistinctPids, Live, Running, TypeOK
<1>e. Staging(p) \in Dir
  BY <1>a DEF TypeOK, StagingInv, Staged
<1>f. \A rest \in SUBSET Staging(p).whole : [Staging(p) EXCEPT !.whole = rest] \in Dir
  BY <1>e DEF Dir, Item
<1>g. pc' = [pc EXCEPT ![p] = "failed"]
  OBVIOUS
<1>1. TypeOK'
  <2>1. dir' \in [Pid \cup {Out} -> Dir \cup {NoDir}]
    BY <1>a, <1>e, <1>f DEF TypeOK
  <2> QED BY <1>g, <2>1 DEF TypeOK, Running, Ended
<1>2. DistinctPids'
  BY DEF DistinctPids, Live, TypeOK, Running
<1>3. StagingInv'
  BY <1>d, <1>g DEF StagingInv, Live, Running, Staged, TypeOK, Item, Full
<1>4. PublishedComplete' /\ OutInv'
  BY <1>c DEF PublishedComplete, OutInv, TypeOK, Dir, Item
<1>5. Contention'
  BY <1>1, <1>c, <1>g DEF Contention, Published, Vacant, IsEmpty, TypeOK
<1>6. FreshInv'
  BY DEF FreshInv, TypeOK
<1> QED
  BY <1>1, <1>2, <1>3, <1>4, <1>5, <1>6

\* The staging directory goes, or what is left of it stays behind a failed run.
LEMMA UnstageKeeps == ASSUME IInv, NEW p \in Proc, Unstage(p) PROVE IInv'
<1> USE BatchAssumption DEF BatchAssumption, IInv, Unstage, RemoveStaging, GoTo, Staging
<1>a. pid[p] \in Pid /\ Out # pid[p] /\ dir[Out] \in Dir \cup {NoDir}
  BY DEF TypeOK
<1>c. dir'[Out] = dir[Out] /\ \A n \in Pid : n # pid[p] => dir'[n] = dir[n]
  BY <1>a DEF TypeOK
<1>d. \A q \in Proc : q # p /\ Live(q) => pid[q] # pid[p] /\ Staging(q)' = Staging(q)
  BY <1>a, <1>c DEF DistinctPids, Live, Running, TypeOK
<1>e. Staging(p) \in Dir
  BY <1>a DEF TypeOK, StagingInv, Staged
<1>f. \A rest \in SUBSET Staging(p).whole : [Staging(p) EXCEPT !.whole = rest] \in Dir
  BY <1>e DEF Dir, Item
<1>g. pc' = [pc EXCEPT ![p] = IF existed[p] THEN "restore" ELSE "failed"]
  OBVIOUS
<1>1. TypeOK'
  <2>1. dir' \in [Pid \cup {Out} -> Dir \cup {NoDir}]
    BY <1>a, <1>e, <1>f DEF TypeOK
  <2> QED BY <1>g, <2>1 DEF TypeOK, Running, Ended
<1>2. DistinctPids'
  BY DEF DistinctPids, Live, TypeOK, Running
<1>3. StagingInv'
  BY <1>d, <1>g DEF StagingInv, Live, Running, Staged, TypeOK, Item, Full
<1>4. PublishedComplete' /\ OutInv'
  BY <1>c DEF PublishedComplete, OutInv, TypeOK, Dir, Item
<1>5. Contention'
  BY <1>1, <1>c, <1>g DEF Contention, Published, Vacant, IsEmpty, TypeOK
<1>6. FreshInv'
  BY DEF FreshInv, TypeOK
<1> QED
  BY <1>1, <1>2, <1>3, <1>4, <1>5, <1>6

\* The emptied output directory comes back if its path is free.
LEMMA RestoreKeeps == ASSUME IInv, NEW p \in Proc, Restore(p) PROVE IInv'
<1> USE BatchAssumption DEF BatchAssumption, IInv, Restore, GoTo, Staging
<1>a. Out \notin Pid /\ pid[p] \in Pid /\ \A n \in Pid : dir'[n] = dir[n]
  BY DEF TypeOK
<1>b. \A q \in Proc : Staging(q)' = Staging(q)
  BY <1>a DEF TypeOK
<1>e. EmptyDir \in Dir /\ EmptyDir # NoDir /\ EmptyDir.by = Nobody
      /\ EmptyDir.whole = {} /\ EmptyDir.torn = {} /\ EmptyDir.foreign = FALSE
  BY EmptyRecord
<1>f. pc'[p] = "failed" /\ \A q \in Proc : q # p => pc'[q] = pc[q]
  BY DEF TypeOK
<1>g. dir'[Out] = dir[Out] \/ (dir[Out] = NoDir /\ dir'[Out] = EmptyDir)
  BY DEF TypeOK
<1>1. TypeOK'
  <2>1. dir' \in [Pid \cup {Out} -> Dir \cup {NoDir}]
    BY <1>e DEF TypeOK
  <2> QED BY <2>1 DEF TypeOK, Running, Ended
<1>2. DistinctPids'
  BY DEF DistinctPids, Live, TypeOK, Running
<1>3. StagingInv'
  BY <1>1, <1>b DEF StagingInv, Running, Staged, TypeOK, Item, Full
<1>4. PublishedComplete' /\ OutInv'
  BY <1>1, <1>e, <1>f, <1>g DEF PublishedComplete, OutInv, TypeOK, Dir, Item
<1>5. Contention'
  <2>1. SUFFICES ASSUME undisturbed', ~Published'
                 PROVE Contention'
    BY DEF Contention
  <2>2. undisturbed /\ ~Published
    BY <1>e, <1>g, <2>1 DEF Published
  <2> QED BY <2>2 DEF Contention
<1>6. FreshInv'
  BY DEF FreshInv, TypeOK
<1> QED
  BY <1>1, <1>2, <1>3, <1>4, <1>5, <1>6

\* A death leaves every directory as it is.
LEMMA CrashKeeps == ASSUME IInv, NEW p \in Proc, Crash(p) PROVE IInv'
<1> USE BatchAssumption DEF BatchAssumption, IInv, Crash, GoTo, Staging
<1>1. TypeOK'
  BY DEF TypeOK, Dir, Item, Running, Ended, EmptyDir
<1>2. DistinctPids'
  BY DEF DistinctPids, Live, TypeOK, Running
<1>3. StagingInv'
  BY <1>1 DEF StagingInv, DistinctPids, Live, Running, Staged, TypeOK, Item, Full
<1>4. PublishedComplete' /\ OutInv'
  BY <1>1 DEF PublishedComplete, OutInv, TypeOK, Dir, Item, Live, Running
<1>5. Contention'
  BY <1>1, <1>4 DEF Contention, Published, Vacant, IsEmpty, TypeOK
<1>6. FreshInv'
  BY DEF FreshInv, TypeOK
<1> QED
  BY <1>1, <1>2, <1>3, <1>4, <1>5, <1>6


\* A directory the user has put something into.
Marked(d) == [d EXCEPT !.foreign = TRUE]

\* The user works at the output path and sweeps dead runs' staging directories.
LEMMA UserKeeps == ASSUME IInv, User PROVE IInv'
<1> USE BatchAssumption DEF BatchAssumption, IInv, Staging
<1>1. undisturbed' = FALSE /\ UNCHANGED <<pc, pid, next, existed>>
  BY DEF User
<1>2. /\ dir' \in [Pid \cup {Out} -> Dir \cup {NoDir}]
      /\ \A q \in Proc : Live(q) => Staging(q)' = Staging(q)
      /\ \/ dir'[Out] \in {dir[Out], NoDir, EmptyDir}
         \/ dir[Out] \in Dir /\ dir'[Out] = Marked(dir[Out])
  <2>0. \A q \in Proc : pid[q] \in Pid /\ pid'[q] = pid[q] /\ pid[q] # Out
    BY <1>1 DEF TypeOK
  <2>1. CASE UserMakesOutput
    <3>1. dir' = [dir EXCEPT ![Out] = EmptyDir] /\ EmptyDir \in Dir
      BY <2>1, EmptyRecord DEF UserMakesOutput
    <3>2. dir' \in [Pid \cup {Out} -> Dir \cup {NoDir}]
      BY <3>1 DEF TypeOK
    <3>3. \A q \in Proc : Staging(q)' = Staging(q)
      BY <2>0, <3>1
    <3>4. dir'[Out] \in {dir[Out], NoDir, EmptyDir}
      BY <3>1 DEF TypeOK
    <3> QED BY <3>2, <3>3, <3>4
  <2>2. CASE UserFillsOutput
    <3>1. dir[Out] \in Dir /\ Marked(dir[Out]) \in Dir
      BY <2>2 DEF UserFillsOutput, TypeOK, Dir, Marked
    <3>2. dir' = [dir EXCEPT ![Out] = Marked(dir[Out])]
      BY <2>2 DEF UserFillsOutput, Marked
    <3> QED BY <3>1, <3>2, <1>1 DEF TypeOK
  <2>3. CASE UserRemovesOutput
    BY <2>3, <1>1 DEF UserRemovesOutput, TypeOK
  <2>4. CASE UserSweeps
    <3>1. PICK i \in Pid : /\ \A q \in Proc : Live(q) => pid[q] # i
                           /\ dir' = [dir EXCEPT ![i] = NoDir]
      BY <2>4 DEF UserSweeps
    <3>2. dir'[Out] = dir[Out]
      BY <3>1 DEF TypeOK
    <3>3. dir' \in [Pid \cup {Out} -> Dir \cup {NoDir}]
      BY <3>1 DEF TypeOK
    <3>4. \A q \in Proc : Live(q) => Staging(q)' = Staging(q)
      <4>1. \A n \in Pid : n # i => dir'[n] = dir[n]
        BY <3>1 DEF TypeOK
      <4> QED BY <2>0, <3>1, <4>1
    <3> QED BY <3>2, <3>3, <3>4
  <2> QED BY <2>1, <2>2, <2>3, <2>4 DEF User
<1>3. TypeOK'
  BY <1>1, <1>2 DEF TypeOK
<1>4. DistinctPids' /\ FreshInv'
  BY <1>1 DEF DistinctPids, Live, FreshInv
<1>5. StagingInv'
  BY <1>1, <1>2 DEF StagingInv, Staged, Live, Running, Full, TypeOK
<1>6. PublishedComplete' /\ OutInv'
  <2>1. CASE dir'[Out] \in {dir[Out], NoDir}
    BY <2>1, <1>1 DEF PublishedComplete, OutInv
  <2>2. CASE dir'[Out] = EmptyDir
    BY <2>2, EmptyRecord DEF PublishedComplete, OutInv
  <2>3. CASE dir[Out] \in Dir /\ dir'[Out] = Marked(dir[Out])
    <3>1. dir'[Out].by = dir[Out].by /\ dir'[Out].whole = dir[Out].whole
          /\ dir'[Out].torn = dir[Out].torn
      BY <2>3 DEF Dir, Marked
    <3> QED BY <2>3, <3>1, <1>1 DEF PublishedComplete, OutInv
  <2> QED BY <1>2, <2>1, <2>2, <2>3
<1>7. Contention'
  BY <1>1 DEF Contention
<1> QED
  BY <1>3, <1>4, <1>5, <1>6, <1>7

\* The invariant holds when nothing has run yet.
LEMMA InitHolds == ASSUME Init PROVE IInv
<1> USE BatchAssumption DEF BatchAssumption
<1> PICK d \in {NoDir, EmptyDir, [EmptyDir EXCEPT !.foreign = TRUE]} :
      /\ dir = [n \in Pid \cup {Out} |-> IF n = Out THEN d ELSE NoDir]
      /\ undisturbed = Vacant(d)
  BY DEF Init
<1>1. d = NoDir \/ (d \in Dir /\ d.by = Nobody /\ d.whole = {} /\ d.torn = {})
  BY EmptyRecord DEF Dir
<1>2. undisturbed \in BOOLEAN
  BY DEF Vacant, IsEmpty
<1>3. TypeOK
  BY <1>1, <1>2 DEF Init, TypeOK
<1>4. DistinctPids /\ FreshInv /\ StagingInv
  BY DEF Init, DistinctPids, FreshInv, StagingInv, Live, Running, Staged
<1>5. PublishedComplete /\ OutInv
  BY <1>1 DEF PublishedComplete, OutInv
<1>6. Contention
  BY <1>1 DEF Init, Contention, Published
<1> QED
  BY <1>3, <1>4, <1>5, <1>6 DEF IInv

LEMMA NextKeeps == IInv /\ [Next]_vars => IInv'
<1> SUFFICES ASSUME IInv, [Next]_vars PROVE IInv'
  OBVIOUS
<1>1. CASE UNCHANGED vars
  BY <1>1 DEF vars, IInv, TypeOK, DistinctPids, FreshInv, StagingInv, PublishedComplete,
      OutInv,
              Contention, Published, Live, Staging
<1>2. CASE User
  BY <1>2, UserKeeps
<1>3. ASSUME NEW p \in Proc, Launch(p) \/ Step(p) \/ Crash(p) PROVE IInv'
  BY <1>3, LaunchKeeps, CheckOutputKeeps, PlanKeeps, ProbeStagingKeeps, MakeStagingKeeps,
     OpenFileKeeps, FillFileKeeps, WriteFailsKeeps, WritesDoneKeeps, ProbeOutputKeeps,
     RecheckKeeps, RemoveOutputKeeps, RenameKeeps, RenameFailsKeeps, AbandonKeeps,
     UnstageKeeps, RestoreKeeps, CrashKeeps DEF Step
<1> QED
  BY <1>1, <1>2, <1>3 DEF Next

\* The inductive invariant: what the staging directories and the output path
\* hold at every point of every interleaving, fault and death.
THEOREM Invariant == Spec => []IInv
<1>1. Init => IInv
  BY InitHolds
<1> QED
  BY <1>1, NextKeeps, PTL DEF Spec

\* The output path never holds a partial batch.
THEOREM Completeness == Spec => []PublishedComplete
<1>1. IInv => PublishedComplete
  BY DEF IInv
<1> QED
  BY <1>1, Invariant, PTL

\* Contention alone never leaves every run without a result.
THEOREM Progress == Spec => []SomebodyWins
<1>1. IInv => SomebodyWins
  <2> SUFFICES ASSUME IInv, undisturbed, NEW p \in Proc, \A q \in Proc : pc[q] \in Ended
               PROVE Published
    BY DEF SomebodyWins
  <2>1. CASE ~Published
    <3>1. pc[p] = "failed" /\ \A q \in Proc : pc[q] # "rename"
      BY <2>1 DEF IInv, Contention, Ended
    <3> QED BY <2>1, <3>1 DEF IInv, Contention
  <2> QED BY <2>1
<1> QED
  BY <1>1, Invariant, PTL

\* What a step of a run may do to each directory, and to the abstract state.
LEMMA StepEffect ==
  ASSUME IInv, NEW p \in Proc, Launch(p) \/ Step(p) \/ Crash(p)
  PROVE  /\ \A n \in Pid : dir'[n] = dir[n] \/ dir[n] = NoDir
                             \/ (n = pid[p] /\ pc[p] \in Staged)
         /\ dir'[Out] = dir[Out] \/ Vacant(dir[Out])
         /\ \A q \in Proc : q # p => pc'[q] = pc[q]
         /\ pc[p] \notin Ended /\ pc'[p] # "idle"
         /\ pc'[p] = "done" => dir'[Out] = Full(p) /\ ~Published
         /\ pc'[p] # "done" => dir'[Out] \in {dir[Out], NoDir, EmptyDir}
<1> USE BatchAssumption DEF BatchAssumption, GoTo, Staging
<1>0. Out \notin Pid /\ pid[p] \in Pid /\ pid[p] # Out /\ TypeOK
  BY DEF IInv, TypeOK
<1>1. CASE Launch(p) \/ CheckOutput(p) \/ Plan(p) \/ ProbeStaging(p) \/ WriteFails(p)
           \/ WritesDone(p) \/ ProbeOutput(p) \/ Recheck(p) \/ RenameFails(p) \/ Crash(p)
  BY <1>0, <1>1 DEF TypeOK, Launch, CheckOutput, Plan, ProbeStaging, WriteFails, WritesDone,
     ProbeOutput, Recheck, RenameFails, Crash, Live, Running, Ended
<1>2. CASE MakeStaging(p)
  BY <1>0, <1>2 DEF TypeOK, MakeStaging, Ended
<1>3. CASE OpenFile(p) \/ FillFile(p)
  BY <1>0, <1>3 DEF TypeOK, OpenFile, FillFile, Ended, Staged
<1>4. CASE RemoveOutput(p)
  BY <1>0, <1>4 DEF TypeOK, RemoveOutput, Ended, Vacant
<1>5. CASE Rename(p)
  <2>1. Staging(p) = Full(p)
    BY <1>5 DEF IInv, StagingInv, Rename
  <2>2. ~Published
    <3>1. Item # {}
      <4>1. 1 \in Item
        BY DEF Item
      <4> QED BY <4>1
    <3>2. Vacant(dir[Out]) /\ PublishedComplete
      BY <1>5 DEF Rename, IInv
    <3> QED BY <3>1, <3>2 DEF PublishedComplete, Published, Vacant, IsEmpty
  <2> QED BY <1>0, <1>5, <2>1, <2>2 DEF TypeOK, Rename, Ended, Staged
<1>6. CASE Abandon(p) \/ Unstage(p)
  <2>1. pc[p] \in {"abandon", "unstage"} /\ dir'[Out] = dir[Out]
        /\ \A n \in Pid : dir'[n] = dir[n] \/ n = pid[p]
    BY <1>0, <1>6 DEF TypeOK, Abandon, Unstage, RemoveStaging
  <2>2. pc'[p] \in {"failed", "restore"} /\ \A q \in Proc : q # p => pc'[q] = pc[q]
    BY <1>0, <1>6 DEF TypeOK, Abandon, Unstage, RemoveStaging
  <2> QED BY <2>1, <2>2 DEF Staged, Ended
<1>7. CASE Restore(p)
  BY <1>0, <1>7 DEF TypeOK, Restore, Ended, Vacant
<1> QED
  BY <1>1, <1>2, <1>3, <1>4, <1>5, <1>6, <1>7 DEF Step

\* A directory with content is touched by its own run while staged, or by the
\* user, and by nothing else.
THEOREM NoClobber == Spec => OutputNeverClobbered
<1> DEFINE Safe == \A n \in Pid \cup {Out} :
       dir[n] = NoDir \/ IsEmpty(dir[n]) \/ dir'[n] = dir[n]
         \/ (n # Out /\ pid[dir[n].by] = n /\ pc[dir[n].by] \in Staged)
<1>1. IInv /\ [Next]_vars => [User \/ Safe]_vars
  <2> SUFFICES ASSUME IInv, NEW p \in Proc, Launch(p) \/ Step(p) \/ Crash(p) PROVE Safe
    BY DEF Next
  <2>1. Out \notin Pid
    BY BatchAssumption DEF BatchAssumption
  <2>2. pc[p] \in Staged => dir[pid[p]].by = p
    BY DEF IInv, StagingInv, Staging
  <2> QED BY <2>1, <2>2, StepEffect DEF Vacant
<1> QED
  BY <1>1, Invariant, PTL DEF Spec, OutputNeverClobbered

\* Who made the directory at the output path, whatever is in it.
Taker == IF Published THEN dir[Out].by ELSE Nobody

\* Whoever made the directory at the output path has published: it is complete.
LEMMA StandingIsTaker ==
  /\ IInv => standing = Taker
  /\ IInv' => standing' = Taker'
BY DEF IInv, PublishedComplete, Published, standing, Taker

\* The staging-and-rename protocol implements AtomicPublish: at the output path
\* a batch appears whole, in one step, over nothing.
THEOREM Refinement == Spec => AtomicPublication
<1> USE BatchAssumption DEF BatchAssumption
<1>1. Init => Abstract!Init
  <2> SUFFICES ASSUME Init PROVE Abstract!Init
    OBVIOUS
  <2>1. dir[Out] = NoDir \/ dir[Out].by = Nobody
    BY EmptyRecord DEF Init, Dir
  <2>2. \A p \in Proc : outcomeOf(p) = "idle"
    BY DEF Init, outcomeOf
  <2>3. standing = Taker
    BY InitHolds, StandingIsTaker
  <2> QED BY <2>1, <2>2, <2>3 DEF Abstract!Init, Taker, Published
<1>2. IInv /\ [Next]_vars => [Abstract!Next]_(Abstract!vars)
  <2> SUFFICES ASSUME IInv, [Next]_vars PROVE [Abstract!Next]_(Abstract!vars)
    OBVIOUS
  <2>0. standing = Taker /\ standing' = Taker'
    BY NextKeeps, StandingIsTaker
  <2>1. CASE UNCHANGED vars
    BY <2>0, <2>1 DEF vars, Abstract!vars, Taker, Published, outcomeOf
  <2>2. CASE User
    <3>1. pc' = pc /\ \A p \in Proc : outcomeOf(p)' = outcomeOf(p)
      BY <2>2 DEF User, outcomeOf
    <3>2. standing' = standing \/ (standing # Nobody /\ standing' = Nobody)
      <4>1. dir'[Out] \in {dir[Out], NoDir, EmptyDir} \/ (dir[Out] \in Dir
            /\ dir'[Out] = [dir[Out] EXCEPT !.foreign = TRUE])
        BY <2>2 DEF User, UserMakesOutput, UserFillsOutput, UserRemovesOutput,
            UserSweeps, IInv, TypeOK
      <4>2. CASE dir'[Out] \in {dir[Out], NoDir, EmptyDir}
        BY <2>0, <4>2, EmptyRecord DEF Taker, Published
      <4>3. CASE dir[Out] \in Dir /\ dir'[Out] = [dir[Out] EXCEPT !.foreign = TRUE]
        <5>1. dir'[Out] \in Dir /\ dir'[Out].by = dir[Out].by
          BY <4>3 DEF Dir
        <5> QED BY <2>0, <4>3, <5>1 DEF Taker, Published
      <4> QED BY <4>1, <4>2, <4>3
    <3> QED BY <3>1, <3>2 DEF Abstract!Next, Abstract!Withdraw, Abstract!vars
  <2>3. ASSUME NEW p \in Proc, Launch(p) \/ Step(p) \/ Crash(p)
        PROVE [Abstract!Next]_(Abstract!vars)
    <3>1. \A q \in Proc : q # p => outcomeOf(q)' = outcomeOf(q)
      BY <2>3, StepEffect DEF outcomeOf
    <3>a. CASE Launch(p)
      <4>1. outcomeOf(p) = "idle" /\ outcomeOf(p)' = "working" /\ standing' = standing
        BY <2>0, <3>a DEF Launch, GoTo, outcomeOf, Taker, Published, IInv, TypeOK
      <4>2. Abstract!Start(p)
        BY <3>1, <4>1 DEF Abstract!Start
      <4> QED BY <4>2 DEF Abstract!Next
    <3>b. CASE ~Launch(p)
      <4>0. pc[p] # "idle"
        BY <2>3, <3>b DEF Step, CheckOutput, Plan, ProbeStaging, MakeStaging, OpenFile,
           FillFile, WriteFails, WritesDone, ProbeOutput, Recheck, RemoveOutput, Rename,
           RenameFails, Abandon, Unstage, RemoveStaging, Restore, Crash, Live, Running
      <4>1. outcomeOf(p) = "working"
        BY <2>3, <4>0, StepEffect DEF outcomeOf, Ended
      <4>2. CASE pc'[p] = "done"
        <5>1. standing = Nobody /\ standing' = p /\ outcomeOf(p)' = "won"
          <6>1. dir'[Out] = Full(p) /\ ~Published
            BY <2>3, <4>2, StepEffect
          <6>2. Full(p) \in Dir /\ Full(p).by = p
            BY DEF Full, Dir
          <6> QED BY <2>0, <4>2, <6>1, <6>2 DEF Taker, Published, outcomeOf
        <5>2. Abstract!Publish(p)
          BY <3>1, <4>1, <5>1 DEF Abstract!Publish
        <5> QED BY <5>2 DEF Abstract!Next
      <4>3. CASE pc'[p] # "done"
        <5>1. standing' = standing
          <6>1. dir'[Out] = dir[Out] \/ (Vacant(dir[Out]) /\ dir'[Out] \in {NoDir, EmptyDir})
            BY <2>3, <4>3, StepEffect
          <6>2. CASE Vacant(dir[Out]) /\ dir'[Out] \in {NoDir, EmptyDir}
            BY <2>0, <6>2, EmptyRecord
                  DEF Taker, Published, Vacant, IsEmpty, IInv, PublishedComplete, Item
          <6> QED BY <2>0, <6>1, <6>2 DEF Taker, Published
        <5>2. outcomeOf(p)' \in {"working", "lost"}
          BY <2>3, <4>3, StepEffect DEF outcomeOf
        <5>3. Abstract!Lose(p) \/ UNCHANGED Abstract!vars
          BY <3>1, <4>1, <5>1, <5>2 DEF Abstract!Lose, Abstract!vars
        <5> QED BY <5>3 DEF Abstract!Next
      <4> QED BY <4>2, <4>3
    <3> QED BY <3>a, <3>b
  <2> QED BY <2>1, <2>2, <2>3 DEF Next
<1> QED
  BY <1>1, <1>2, Invariant, PTL DEF Spec, AtomicPublication, Abstract!Spec

===============================================================================
