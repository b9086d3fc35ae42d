------------------------- MODULE ZonePublish_proofs -------------------------
(***************************************************************************)
(* Theorems about ZonePublish, for every set of runs and every number of   *)
(* resources: the inductive invariant, one lemma per action, and what      *)
(* follows from it.                                                        *)
(***************************************************************************)
EXTENDS ZonePublish, TLAPS

\* Names are pairwise distinct: resources before the pending report before the report.
LEMMA NameFacts ==
  /\ Item \subseteq Name /\ Pending \in Name /\ Report \in Name
  /\ Pending \notin Item /\ Report \notin Item /\ Pending # Report
  /\ Item \cup {Pending, Report} = Name
  /\ \A n \in Name : n \in Nat
  /\ \A n \in Item : n < Pending /\ n < Report
  /\ 1 \in Item
BY ZoneAssumption DEF ZoneAssumption, Item, Pending, Report, Name

\* Files of a run and of the user.
LEMMA FileFacts ==
  /\ UserFile \in File /\ UserFile.by = Nobody /\ UserFile # NoFile
  /\ \A p \in Proc, s \in {"torn", "cached", "synced", "wrong"} :
       /\ FileOf(p, s) \in File
       /\ FileOf(p, s) # NoFile
       /\ FileOf(p, s).by = p
       /\ FileOf(p, s).st = s
<1>1. UserFile \in File /\ UserFile.by = Nobody
  BY DEF UserFile, FileOf, File
<1>2. \A p \in Proc, s \in {"torn", "cached", "synced", "wrong"} :
        FileOf(p, s) \in File /\ FileOf(p, s).by = p /\ FileOf(p, s).st = s
  BY DEF FileOf, File
<1> QED
  BY <1>1, <1>2, ZoneAssumption DEF ZoneAssumption

\* A run begins; nothing on disk changes.
LEMMA LaunchKeeps ==
  ASSUME IInv, NEW p \in Proc, Launch(p)
  PROVE  IInv'
<1> USE ZoneAssumption DEF ZoneAssumption, IInv, Launch, GoTo, Fail
<1>1. TypeOK'
  BY NameFacts DEF TypeOK, Running, Inside, Ended, Item, Pending
<1>2. OneInside' /\ FreshInv'
  BY DEF OneInside, FreshInv, TypeOK, Inside
<1>3. WorkInv'
  BY NameFacts
   DEF WorkInv, TypeOK, Inside, Running, OwnedBy, Present, Has, Settled, OneInside, FreshInv,
       Item, Pending
<1>4. ReportComplete' /\ Unmixed'
  BY DEF ReportComplete, Unmixed, WorkInv, Inside, Running, TypeOK, OwnedBy, Present, Has,
      Settled
<1> HIDE DEF Launch
<1> QED
  BY <1>1, <1>2, <1>3, <1>4

\* An existing destination ends the run.
LEMMA OutputRefusedKeeps ==
  ASSUME IInv, NEW p \in Proc, OutputRefused(p)
  PROVE  IInv'
<1> USE ZoneAssumption DEF ZoneAssumption, IInv, OutputRefused, GoTo, Fail
<1>1. TypeOK'
  BY NameFacts DEF TypeOK, Running, Inside, Ended, Item, Pending
<1>2. OneInside' /\ FreshInv'
  BY DEF OneInside, FreshInv, TypeOK, Inside
<1>3. WorkInv'
  BY NameFacts
   DEF WorkInv, TypeOK, Inside, Running, OwnedBy, Present, Has, Settled, OneInside, FreshInv,
       Item, Pending
<1>4. ReportComplete' /\ Unmixed'
  BY DEF ReportComplete, Unmixed, WorkInv, Inside, Running, TypeOK, OwnedBy, Present, Has,
      Settled
<1> HIDE DEF OutputRefused
<1> QED
  BY <1>1, <1>2, <1>3, <1>4

\* A taken name ends the run.
LEMMA CreateRefusedKeeps ==
  ASSUME IInv, NEW p \in Proc, CreateRefused(p)
  PROVE  IInv'
<1> USE ZoneAssumption DEF ZoneAssumption, IInv, CreateRefused, GoTo, Fail
<1>1. TypeOK'
  BY NameFacts DEF TypeOK, Running, Inside, Ended, Item, Pending
<1>2. OneInside' /\ FreshInv'
  BY DEF OneInside, FreshInv, TypeOK, Inside
<1>3. WorkInv'
  BY NameFacts
   DEF WorkInv, TypeOK, Inside, Running, OwnedBy, Present, Has, Settled, OneInside, FreshInv,
       Item, Pending
<1>4. ReportComplete' /\ Unmixed'
  BY DEF ReportComplete, Unmixed, WorkInv, Inside, Running, TypeOK, OwnedBy, Present, Has,
      Settled
<1> HIDE DEF CreateRefused
<1> QED
  BY <1>1, <1>2, <1>3, <1>4

\* The read-back agrees.
LEMMA CompareKeeps ==
  ASSUME IInv, NEW p \in Proc, Compare(p)
  PROVE  IInv'
<1> USE ZoneAssumption DEF ZoneAssumption, IInv, Compare, GoTo, Fail
<1>1. TypeOK'
  BY NameFacts DEF WorkInv, TypeOK, Running, Inside, Ended, Item, Pending
<1>2. OneInside' /\ FreshInv'
  BY DEF OneInside, FreshInv, TypeOK, Inside
<1>3. WorkInv'
  BY NameFacts
   DEF WorkInv, TypeOK, Inside, Running, OwnedBy, Present, Has, Settled, OneInside, FreshInv,
       Item, Pending
<1>4. ReportComplete' /\ Unmixed'
  BY DEF ReportComplete, Unmixed, WorkInv, Inside, Running, TypeOK, OwnedBy, Present, Has,
      Settled
<1> HIDE DEF Compare
<1> QED
  BY <1>1, <1>2, <1>3, <1>4

\* The read-back differs: the run ends.
LEMMA CompareRefusedKeeps ==
  ASSUME IInv, NEW p \in Proc, CompareRefused(p)
  PROVE  IInv'
<1> USE ZoneAssumption DEF ZoneAssumption, IInv, CompareRefused, GoTo, Fail
<1>1. TypeOK'
  BY NameFacts DEF TypeOK, Running, Inside, Ended, Item, Pending
<1>2. OneInside' /\ FreshInv'
  BY DEF OneInside, FreshInv, TypeOK, Inside
<1>3. WorkInv'
  BY NameFacts
   DEF WorkInv, TypeOK, Inside, Running, OwnedBy, Present, Has, Settled, OneInside, FreshInv,
       Item, Pending
<1>4. ReportComplete' /\ Unmixed'
  BY DEF ReportComplete, Unmixed, WorkInv, Inside, Running, TypeOK, OwnedBy, Present, Has,
      Settled
<1> HIDE DEF CompareRefused
<1> QED
  BY <1>1, <1>2, <1>3, <1>4

\* The report's name is free, or the run ends.
LEMMA ProbeReportKeeps ==
  ASSUME IInv, NEW p \in Proc, ProbeReport(p)
  PROVE  IInv'
<1> USE ZoneAssumption DEF ZoneAssumption, IInv
<1>0. /\ pc[p] = "probe"
      /\ UNCHANGED <<next, out, undisturbed>>
      /\ \/ out[Report] = NoFile /\ pc' = [pc EXCEPT ![p] = "rename"]
         \/ pc' = [pc EXCEPT ![p] = "failed"]
  BY DEF ProbeReport, GoTo, Fail
<1>1. TypeOK'
  BY <1>0, NameFacts DEF TypeOK, Running, Inside, Ended, Item, Pending
<1>2. OneInside' /\ FreshInv'
  BY <1>0 DEF OneInside, FreshInv, TypeOK, Inside
<1>3. WorkInv'
  BY <1>0, NameFacts
   DEF WorkInv, TypeOK, Inside, Running, OwnedBy, Present, Has, Settled, OneInside, FreshInv,
       Item, Pending
<1>4. ReportComplete' /\ Unmixed'
  BY <1>0 DEF ReportComplete, Unmixed, WorkInv, Inside, Running, TypeOK, OwnedBy, Present,
      Has, Settled
<1> QED
  BY <1>1, <1>2, <1>3, <1>4

\* A failed call ends the run.
LEMMA CallFailsKeeps ==
  ASSUME IInv, NEW p \in Proc, CallFails(p)
  PROVE  IInv'
<1> USE ZoneAssumption DEF ZoneAssumption, IInv, CallFails, GoTo, Fail
<1>1. TypeOK'
  BY NameFacts DEF TypeOK, Running, Inside, Ended, Item, Pending
<1>2. OneInside' /\ FreshInv'
  BY DEF OneInside, FreshInv, TypeOK, Inside
<1>3. WorkInv'
  BY NameFacts
   DEF WorkInv, TypeOK, Inside, Running, OwnedBy, Present, Has, Settled, OneInside, FreshInv,
       Item, Pending
<1>4. ReportComplete' /\ Unmixed'
  BY DEF ReportComplete, Unmixed, WorkInv, Inside, Running, TypeOK, OwnedBy, Present, Has,
      Settled
<1> HIDE DEF CallFails
<1> QED
  BY <1>1, <1>2, <1>3, <1>4

\* A death leaves the directory as it is.
LEMMA CrashKeeps ==
  ASSUME IInv, NEW p \in Proc, Crash(p)
  PROVE  IInv'
<1> USE ZoneAssumption DEF ZoneAssumption, IInv, Crash, GoTo, Fail
<1>1. TypeOK'
  BY NameFacts DEF TypeOK, Running, Inside, Ended, Item, Pending
<1>2. OneInside' /\ FreshInv'
  BY DEF OneInside, FreshInv, TypeOK, Inside
<1>3. WorkInv'
  BY NameFacts
   DEF WorkInv, TypeOK, Inside, Running, OwnedBy, Present, Has, Settled, OneInside, FreshInv,
       Item, Pending
<1>4. ReportComplete' /\ Unmixed'
  BY DEF ReportComplete, Unmixed, WorkInv, Inside, Running, TypeOK, OwnedBy, Present, Has,
      Settled
<1> HIDE DEF Crash
<1> QED
  BY <1>1, <1>2, <1>3, <1>4

\* A torn file of the run appears at a free name.
LEMMA CreateFileKeeps == ASSUME IInv, NEW p \in Proc, CreateFile(p) PROVE IInv'
<1> USE ZoneAssumption DEF ZoneAssumption, IInv
<1>a. /\ pc[p] \in Inside /\ out \in Tree /\ next[p] \in Item \cup {Pending}
      /\ next[p] \in Name /\ next[p] # Report /\ next[p] \in Nat
  BY NameFacts DEF WorkInv, TypeOK, Inside, CreateFile
<1>b. \A q \in Proc : q # p => pc[q] \notin Inside /\ pc'[q] = pc[q]
  BY <1>a DEF OneInside, TypeOK, CreateFile, GoTo
<1>c. /\ pc[p] = "create" /\ pc'[p] = "fill" /\ next'[p] = next[p] /\ next' = next
      /\ out'[next[p]] = FileOf(p, "torn")
  BY <1>a, FileFacts DEF CreateFile, GoTo, TypeOK, Tree
<1>d. /\ out' # NoDir /\ out' \in Tree
      /\ \A n \in Name : n # next[p] => out'[n] = out[n]
  BY <1>a, <1>c, FileFacts DEF Tree, CreateFile
<1>1. TypeOK'
  BY <1>a, <1>c, <1>d, NameFacts DEF TypeOK, Running, Inside, Item, Pending, CreateFile, GoTo
<1>2. OneInside' /\ FreshInv'
  BY <1>a, <1>b, <1>c DEF OneInside, FreshInv, TypeOK, Inside
<1>3. WorkInv'
  <2> SUFFICES ASSUME NEW q \in Proc, pc'[q] \in Inside PROVE WorkInv!(q)!2'
    BY DEF WorkInv
  <2>1. q = p
    BY <1>b
  <2>2. WorkInv!(p)!2
    BY <1>a DEF WorkInv
  <2> QED
    BY <2>1, <2>2, <1>a, <1>c, <1>d, NameFacts, FileFacts
    DEF Inside, OwnedBy, Present, Has, Settled
<1>4. ReportComplete'
  BY <1>a, <1>b, <1>c, <1>d, NameFacts DEF ReportComplete, WorkInv, Present, OwnedBy
<1>5. Unmixed'
  <2>1. \A n \in Name : n # next[p] /\ Present(n) /\ out[n].by # Nobody => out[n].by = p
    BY <1>a, NameFacts DEF WorkInv, Has, OwnedBy, Present, Name
  <2> QED
    BY <2>1, <1>a, <1>c, <1>d, FileFacts DEF Unmixed, Present
<1> QED
  BY <1>1, <1>2, <1>3, <1>4, <1>5

\* The bytes are complete, in memory.
LEMMA FillFileKeeps == ASSUME IInv, NEW p \in Proc, FillFile(p) PROVE IInv'
<1> USE ZoneAssumption DEF ZoneAssumption, IInv
<1>a. /\ pc[p] \in Inside /\ out \in Tree /\ next[p] \in Item \cup {Pending}
      /\ next[p] \in Name /\ next[p] # Report /\ next[p] \in Nat
  BY NameFacts DEF WorkInv, TypeOK, Inside, FillFile
<1>b. \A q \in Proc : q # p => pc[q] \notin Inside /\ pc'[q] = pc[q]
  BY <1>a DEF OneInside, TypeOK, FillFile, GoTo
<1>c. /\ pc[p] = "fill" /\ pc'[p] = "sync" /\ next'[p] = next[p] /\ next' = next
      /\ out'[next[p]] = FileOf(p, "cached")
  BY <1>a, FileFacts DEF FillFile, GoTo, TypeOK, Tree
<1>d. /\ out' # NoDir /\ out' \in Tree
      /\ \A n \in Name : n # next[p] => out'[n] = out[n]
  BY <1>a, <1>c, FileFacts DEF Tree, FillFile
<1>1. TypeOK'
  BY <1>a, <1>c, <1>d, NameFacts DEF TypeOK, Running, Inside, Item, Pending, FillFile, GoTo
<1>2. OneInside' /\ FreshInv'
  BY <1>a, <1>b, <1>c DEF OneInside, FreshInv, TypeOK, Inside
<1>3. WorkInv'
  <2> SUFFICES ASSUME NEW q \in Proc, pc'[q] \in Inside PROVE WorkInv!(q)!2'
    BY DEF WorkInv
  <2>1. q = p
    BY <1>b
  <2>2. WorkInv!(p)!2
    BY <1>a DEF WorkInv
  <2> QED
    BY <2>1, <2>2, <1>a, <1>c, <1>d, NameFacts, FileFacts
    DEF Inside, OwnedBy, Present, Has, Settled
<1>4. ReportComplete'
  BY <1>a, <1>b, <1>c, <1>d, NameFacts DEF ReportComplete, WorkInv, Present, OwnedBy
<1>5. Unmixed'
  <2>1. \A n \in Name : n # next[p] /\ Present(n) /\ out[n].by # Nobody => out[n].by = p
    BY <1>a, NameFacts DEF WorkInv, Has, OwnedBy, Present, Name
  <2> QED
    BY <2>1, <1>a, <1>c, <1>d, FileFacts DEF Unmixed, Present
<1> QED
  BY <1>1, <1>2, <1>3, <1>4, <1>5

\* The directory is new, so it holds nothing of anybody's.
LEMMA MakeOutputKeeps ==
  ASSUME IInv, NEW p \in Proc, MakeOutput(p)
  PROVE  IInv'
<1> USE ZoneAssumption DEF ZoneAssumption, IInv
<1>a. /\ pc[p] = "mkdir" /\ out = NoDir /\ out' = EmptyTree /\ next' = next /\ next[p] = 1
      /\ pc' = [pc EXCEPT ![p] = "create"] /\ undisturbed' = undisturbed
  BY DEF MakeOutput, GoTo, FreshInv
<1>b. EmptyTree \in Tree /\ EmptyTree # NoDir /\ \A n \in Name : EmptyTree[n] = NoFile
  BY DEF EmptyTree, Tree
<1>c. \A q \in Proc : pc[q] \notin Inside
  BY <1>a DEF WorkInv
<1>d. \A n \in Name : ~Present(n)'
  BY <1>a, <1>b DEF Present
<1>1. TypeOK'
  BY <1>a, <1>b DEF TypeOK, Running, Inside
<1>2. OneInside' /\ FreshInv'
  BY <1>a, <1>c DEF OneInside, FreshInv, TypeOK, Inside
<1>3. WorkInv'
  <2> SUFFICES ASSUME NEW q \in Proc, pc'[q] \in Inside PROVE WorkInv!(q)!2'
    BY DEF WorkInv
  <2>1. q = p /\ pc'[q] = "create"
    BY <1>a, <1>c DEF TypeOK
  <2>2. next'[q] = 1 /\ 1 \in Name /\ \A n \in Item : ~(n < 1)
    BY <2>1, <1>a, NameFacts DEF Item
  <2> QED
    BY <2>1, <2>2, <1>a, <1>b, <1>d, NameFacts DEF Inside
<1>4. ReportComplete' /\ Unmixed'
  BY <1>d, NameFacts DEF ReportComplete, Unmixed, OwnedBy
<1> QED
  BY <1>1, <1>2, <1>3, <1>4

\* The file is on disk; a package compares it first, others take the next name.
LEMMA SyncFileKeeps ==
  ASSUME IInv, NEW p \in Proc, SyncFile(p)
  PROVE  IInv'
<1> USE ZoneAssumption DEF ZoneAssumption, IInv
<1>a. /\ pc[p] = "sync" /\ pc[p] \in Inside /\ out \in Tree /\ next[p] \in Item \cup {Pending}
      /\ next[p] \in Name /\ next[p] # Report /\ next[p] \in Nat
  BY NameFacts DEF WorkInv, TypeOK, Inside, SyncFile
<1>b. \A q \in Proc : q # p => pc[q] \notin Inside /\ pc'[q] = pc[q] /\ next'[q] = next[q]
  BY <1>a DEF OneInside, TypeOK, SyncFile, AfterSync, GoTo
<1>c. /\ \/ out'[next[p]] = FileOf(p, "synced")
         \/ next[p] \in Item /\ out'[next[p]] = FileOf(p, "wrong")
      /\ undisturbed' \in BOOLEAN
  BY <1>a DEF SyncFile, TypeOK, Tree
<1>d. /\ out' # NoDir /\ out' \in Tree
      /\ \A n \in Name : n # next[p] => out'[n] = out[n]
  BY <1>a, <1>c, FileFacts DEF Tree, SyncFile
<1>e. \/ p \in Package /\ next[p] \in Item /\ pc'[p] = "compare" /\ next'[p] = next[p]
      \/ /\ p \notin Package \/ next[p] = Pending
         /\ next'[p] = next[p] + 1
         /\ pc'[p] = IF next[p] = Pending THEN "probe" ELSE "create"
  BY <1>a, NameFacts DEF SyncFile, AfterSync, GoTo, TypeOK
<1>1. TypeOK'
  <2>1. pc' \in [Proc -> {"idle"} \cup Running \cup Ended] /\ next' \in [Proc -> 1..(Files + 2)]
    BY <1>a, NameFacts DEF SyncFile, AfterSync, GoTo, TypeOK, Running, Inside, Item, Pending
  <2> QED
    BY <2>1, <1>c, <1>d DEF TypeOK
<1>2. OneInside' /\ FreshInv'
  BY <1>a, <1>b, <1>e DEF OneInside, FreshInv, TypeOK, Inside
<1>3. WorkInv'
  <2> SUFFICES ASSUME NEW q \in Proc, pc'[q] \in Inside PROVE WorkInv!(q)!2'
    BY DEF WorkInv
  <2>1. q = p
    BY <1>b
  <2>2. WorkInv!(p)!2
    BY <1>a DEF WorkInv
  <2> PICK k \in Name : k = next[p]
    BY <1>a
  <2>3. Has(p, k, {"synced", "wrong"})' /\ (k = Pending => Has(p, k, {"synced"})')
    BY <1>a, <1>c, <1>d, NameFacts, FileFacts DEF Has, OwnedBy, Present
  <2>4. /\ \A n \in Item : n < k => Has(p, n, Settled(p))'
        /\ \A n \in Name : n > k => ~Present(n)' \/ out'[n].by = Nobody
        /\ ~Present(Report)' \/ out'[Report].by = Nobody
    BY <2>2, <1>a, <1>d, NameFacts DEF Has, OwnedBy, Present, Settled
  <2>5. CASE p \in Package /\ k \in Item /\ pc'[p] = "compare" /\ next'[p] = k
    BY <2>1, <2>3, <2>4, <2>5, <1>d, NameFacts
  <2>6. CASE k = Pending /\ next'[p] = Report /\ pc'[p] = "probe"
    <3>1. \A n \in Name : ~(n > Report)
      BY NameFacts DEF Name, Report
    <3>2. \A n \in Item : Has(p, n, Settled(p))'
      BY <2>4, <2>6, NameFacts
    <3>3. Has(p, Pending, {"synced"})'
      BY <2>3, <2>6
    <3> QED
      BY <2>1, <2>4, <2>6, <3>1, <3>2, <3>3, <1>d
  <2>7. CASE p \notin Package /\ k \in Item /\ next'[p] = k + 1 /\ pc'[p] = "create"
    <3> DEFINE m == k + 1
    <3>1. Has(p, k, Settled(p))'
      BY <2>3, <2>7 DEF Settled, Has
    <3>2. m \in Item \cup {Pending} /\ m \in Name /\ m > k /\ \A n \in Item : n < m => n < k \/ n = k
      BY <2>7, NameFacts DEF Item, Pending, Name
    <3>3. \A n \in Name : n > m => n > k
      BY <2>7, NameFacts DEF Name, Item
    <3> HIDE DEF m
    <3>4. \A n \in Item : n < m => Has(p, n, Settled(p))'
      BY <2>4, <3>1, <3>2
    <3>5. /\ \A n \in Name : n > m => ~Present(n)' \/ out'[n].by = Nobody
          /\ ~Present(m)' \/ out'[m].by = Nobody
      BY <2>4, <3>2, <3>3
    <3>6. next'[p] = m
      BY <2>7 DEF m
    <3> QED
      BY <2>1, <2>4, <2>7, <3>2, <3>4, <3>5, <3>6, <1>d
  <2>8. Pending + 1 = Report
    BY DEF Pending, Report
  <2> QED
    BY <2>5, <2>6, <2>7, <2>8, <1>a, <1>e, NameFacts
<1>4. ReportComplete'
  BY <1>a, <1>b, <1>d, NameFacts DEF ReportComplete, WorkInv, Present, OwnedBy
<1>5. Unmixed'
  <2>1. \A n \in Name : n # next[p] /\ Present(n) /\ out[n].by # Nobody => out[n].by = p
    BY <1>a, NameFacts DEF WorkInv, Has, OwnedBy, Present, Name
  <2> QED
    BY <2>1, <1>a, <1>c, <1>d, FileFacts DEF Unmixed, Present
<1> QED
  BY <1>1, <1>2, <1>3, <1>4, <1>5

\* The commit point: the report gets its name when every resource is on disk.
LEMMA RenameReportKeeps ==
  ASSUME IInv, NEW p \in Proc, RenameReport(p)
  PROVE  IInv'
<1> USE ZoneAssumption DEF ZoneAssumption, IInv
<1>a. /\ pc[p] = "rename" /\ pc[p] \in Inside /\ out \in Tree /\ next[p] = Report
      /\ WorkInv!(p)!2
  BY NameFacts DEF WorkInv, TypeOK, Inside, RenameReport
<1>b. \A q \in Proc : q # p => pc[q] \notin Inside /\ pc'[q] = pc[q]
  BY <1>a DEF OneInside, TypeOK, RenameReport, GoTo
<1>c. /\ pc'[p] = "done" /\ next' = next /\ undisturbed' = undisturbed
      /\ pc' \in [Proc -> {"idle"} \cup Running \cup Ended]
  BY DEF RenameReport, GoTo, TypeOK, Ended
<1>d. /\ out' # NoDir /\ out' \in Tree
      /\ out'[Report] = out[Pending] /\ out'[Pending] = NoFile
      /\ \A n \in Item : out'[n] = out[n]
  BY <1>a, NameFacts DEF Tree, RenameReport
<1>1. TypeOK'
  BY <1>c, <1>d DEF TypeOK
<1>2. OneInside' /\ FreshInv'
  BY <1>a, <1>b, <1>c DEF OneInside, FreshInv, TypeOK, Inside
<1>3. WorkInv'
  BY <1>b, <1>c DEF WorkInv, Inside
<1>4. Has(p, Report, {"synced"})' /\ \A n \in Item : Has(p, n, Settled(p))'
  <2>1. Has(p, Pending, {"synced"}) /\ \A n \in Item : Has(p, n, Settled(p))
    BY <1>a, NameFacts
  <2> QED
    BY <2>1, <1>d DEF Has, OwnedBy, Present, Settled
<1>5. ReportComplete'
  BY <1>4, <1>c DEF ReportComplete, Has, OwnedBy
<1>6. Unmixed'
  BY <1>4, <1>d, NameFacts DEF Unmixed, Has, OwnedBy, Present
<1> QED
  BY <1>1, <1>2, <1>3, <1>5, <1>6

\* The user's files are free-standing, and he stays away from a run at work.
LEMMA UserKeeps ==
  ASSUME IInv, User
  PROVE  IInv'
<1> USE ZoneAssumption DEF ZoneAssumption, IInv
<1>1. UNCHANGED <<pc, next>> /\ undisturbed' = FALSE
  BY DEF User
<1>2. CASE UserAdds
  <2>1. PICK n \in Name : out[n] = NoFile /\ out' = [out EXCEPT ![n] = UserFile]
    BY <1>2 DEF UserAdds
  <2>2. /\ out # NoDir /\ out \in Tree /\ out' \in Tree /\ out' # NoDir
        /\ out'[n] = UserFile /\ \A m \in Name : m # n => out'[m] = out[m]
    BY <1>2, <2>1, FileFacts DEF UserAdds, TypeOK, Tree
  <2>3. TypeOK' /\ OneInside' /\ FreshInv'
    BY <1>1, <2>2 DEF TypeOK, OneInside, FreshInv
  <2>4. \A m \in Name : /\ Present(m)' /\ out'[m].by # Nobody => Present(m) /\ out'[m] = out[m]
                        /\ Present(m) => Present(m)' /\ out'[m] = out[m]
    BY <2>1, <2>2, FileFacts DEF Present
  <2>5. WorkInv'
    <3> SUFFICES ASSUME NEW q \in Proc, pc[q] \in Inside PROVE WorkInv!(q)!2'
      BY <1>1 DEF WorkInv
    <3>1. WorkInv!(q)!2 /\ next'[q] = next[q] /\ pc'[q] = pc[q] /\ next[q] \in Name
      BY <1>1 DEF WorkInv, TypeOK, Name
    <3>2. \A m \in Name, states \in SUBSET {"torn", "cached", "synced", "wrong"} :
             Has(q, m, states) => Has(q, m, states)'
      BY <2>4 DEF Has, OwnedBy
    <3>3. \A m \in Name : ~Present(m) \/ out[m].by = Nobody => ~Present(m)' \/ out'[m].by = Nobody
      BY <2>4
    <3>4. /\ Settled(q) \in SUBSET {"torn", "cached", "synced", "wrong"}
          /\ Settled(q)' = Settled(q)
      BY DEF Settled
    <3> QED
      BY <3>1, <3>2, <3>3, <3>4, <2>2, NameFacts
  <2>6. ReportComplete' /\ Unmixed'
    BY <1>1, <2>4, NameFacts DEF ReportComplete, Unmixed, OwnedBy, Has, Settled
  <2> QED
    BY <2>3, <2>5, <2>6
<1>3. CASE UserClears
  BY <1>1, <1>3 DEF UserClears, TypeOK, OneInside, FreshInv, WorkInv, ReportComplete, Unmixed,
     OwnedBy, Present
<1> QED
  BY <1>2, <1>3 DEF User

\* Bytes a power failure tears: those that were not synced.
Torn(f) == [f EXCEPT !.st = "torn"]

LEMMA TornFacts ==
  ASSUME NEW f \in File
  PROVE  Torn(f) \in File /\ Torn(f) # NoFile /\ Torn(f).by = f.by
<1>1. Torn(f) \in File /\ Torn(f).by = f.by
  BY DEF Torn, File
<1> QED
  BY <1>1, ZoneAssumption DEF ZoneAssumption

\* What the disk holds after a power failure was there before, by the same run;
\* what was synced is unchanged, and a report is there only with everything
\* else.
LEMMA SurvivesEffect ==
  ASSUME TypeOK, NEW after, Survives(after), after # NoDir
  PROVE  /\ out # NoDir
         /\ after \in Tree
         /\ \A n \in Name : after[n] # NoFile =>
              \E m \in Name : out[m] # NoFile /\ after[n].by = out[m].by
         /\ after[Report] # NoFile /\ after[Report].by # Nobody =>
              \A n \in Name : out[n] # NoFile /\ out[n].st \in {"synced", "wrong"}
                                => after[n] = out[n]
         /\ after[Report] # NoFile /\ after[Report].by # Nobody =>
              out[Report] # NoFile /\ after[Report].by = out[Report].by
<1> USE ZoneAssumption DEF ZoneAssumption
<1> DEFINE Made(n) == Present(n) /\ out[n].by # Nobody
<1>1. out # NoDir /\ out \in Tree
  BY DEF Survives, TypeOK
<1>2. PICK kept \in 0..(Files + 2), lost \in SUBSET Name :
        after = [n \in Name |->
          LET e == CASE n = Pending /\ Made(Report) /\ kept = Pending -> out[Report]
                     [] Made(n) /\ n > kept -> NoFile
                     [] OTHER -> out[n]
          IN IF e # NoFile /\ n \in lost /\ e.st \in {"torn", "cached"} THEN Torn(e) ELSE e]
  BY DEF Survives, Torn
<1> DEFINE Entry(n) == CASE n = Pending /\ Made(Report) /\ kept = Pending -> out[Report]
                         [] Made(n) /\ n > kept -> NoFile
                         [] OTHER -> out[n]
<1>3. \A n \in Name : after[n] =
        IF Entry(n) # NoFile /\ n \in lost /\ Entry(n).st \in {"torn", "cached"}
                                   THEN Torn(Entry(n)) ELSE Entry(n)
  BY <1>2
<1>4. \A n \in Name : Entry(n) \in {out[Report], out[n], NoFile}
  OBVIOUS
<1>5. \A n \in Name : Entry(n) \in File \cup {NoFile}
  BY <1>1, <1>4, NameFacts DEF Tree
<1>6. Entry(Report) = IF Made(Report) /\ Report > kept THEN NoFile ELSE out[Report]
  BY NameFacts
<1>7. Made(Report) /\ ~(Report > kept) => \A n \in Name : Entry(n) = out[n]
  BY NameFacts DEF Pending, Report, Name
<1> HIDE DEF Entry
<1>8. \A n \in Name : /\ after[n] \in File \cup {NoFile}
                      /\ after[n] = NoFile <=> Entry(n) = NoFile
                      /\ after[n] # NoFile => after[n].by = Entry(n).by
  BY <1>3, <1>5, TornFacts
<1>9. after \in Tree
  BY <1>2, <1>8 DEF Tree
<1>10. \A n \in Name : after[n] # NoFile =>
         \E m \in Name : out[m] # NoFile /\ after[n].by = out[m].by
  BY <1>4, <1>8, NameFacts
<1>11. ASSUME after[Report] # NoFile, after[Report].by # Nobody
       PROVE  /\ \A n \in Name : Entry(n) = out[n]
              /\ out[Report] # NoFile /\ after[Report].by = out[Report].by
  <2>1. Entry(Report) # NoFile /\ Entry(Report).by # Nobody
    BY <1>8, <1>11, NameFacts
  <2>2. Entry(Report) = out[Report] /\ Made(Report) /\ ~(Report > kept)
    BY <2>1, <1>1, <1>6 DEF Present
  <2> QED
    BY <2>1, <2>2, <1>7, <1>8, <1>11, NameFacts
<1>12. ASSUME after[Report] # NoFile, after[Report].by # Nobody
       PROVE  \A n \in Name : out[n] # NoFile /\ out[n].st \in {"synced", "wrong"}
                                => after[n] = out[n]
  BY <1>3, <1>11, <1>12
<1> QED
  BY <1>1, <1>9, <1>10, <1>11, <1>12

\* A power failure may take the report away, never leave it without the rest.
LEMMA PowerFailsKeeps ==
  ASSUME IInv, PowerFails
  PROVE  IInv'
<1> USE ZoneAssumption DEF ZoneAssumption, IInv
<1>1. /\ Survives(out') /\ next' = next /\ undisturbed' = FALSE
      /\ pc' = [p \in Proc |-> IF pc[p] \in Running THEN "crashed" ELSE pc[p]]
  BY DEF PowerFails
<1>2. \A p \in Proc : pc'[p] \notin Running /\ (pc'[p] = "idle" => pc[p] = "idle")
                        /\ (pc[p] = "done" => pc'[p] = "done")
  BY <1>1 DEF Running, Inside
<1>3. out' # NoDir => /\ out # NoDir
                      /\ out' \in Tree
                      /\ \A n \in Name : out'[n] # NoFile =>
                           \E m \in Name : out[m] # NoFile /\ out'[n].by = out[m].by
                      /\ out'[Report] # NoFile /\ out'[Report].by # Nobody =>
                           /\ \A n \in Name :
                                out[n] # NoFile /\ out[n].st \in {"synced", "wrong"}
                                  => out'[n] = out[n]
                           /\ out[Report] # NoFile /\ out'[Report].by = out[Report].by
  BY <1>1, SurvivesEffect
<1>4. TypeOK'
  <2>1. pc' \in [Proc -> {"idle"} \cup Running \cup Ended]
    BY <1>1 DEF TypeOK, Ended
  <2> QED
    BY <2>1, <1>1, <1>3 DEF TypeOK
<1>5. OneInside' /\ FreshInv' /\ WorkInv'
  BY <1>1, <1>2 DEF OneInside, FreshInv, WorkInv, Running
<1>6. ReportComplete'
  <2> SUFFICES ASSUME NEW p \in Proc, OwnedBy(p, Report)' PROVE ReportComplete!(p)!2'
    BY DEF ReportComplete
  <2>1. /\ out' # NoDir /\ out'[Report] # NoFile /\ out'[Report].by = p
    BY DEF OwnedBy, Present
  <2>2. /\ \A n \in Name :
             out[n] # NoFile /\ out[n].st \in {"synced", "wrong"} => out'[n] = out[n]
        /\ OwnedBy(p, Report)
    BY <2>1, <1>3 DEF OwnedBy, Present
  <2>3. pc[p] = "done" /\ out[Report].st = "synced" /\ \A n \in Item : Has(p, n, Settled(p))
    BY <2>2 DEF ReportComplete
  <2>4. \A n \in Item : Has(p, n, Settled(p))'
    BY <2>1, <2>2, <2>3, NameFacts DEF Has, OwnedBy, Present, Settled
  <2> QED
    BY <2>1, <2>2, <2>3, <2>4, <1>2, NameFacts DEF OwnedBy, Present
<1>7. Unmixed'
  <2> SUFFICES ASSUME NEW n \in Name, NEW m \in Name, Present(n)', Present(m)',
                      out'[n].by # Nobody, out'[m].by # Nobody
               PROVE  out'[n].by = out'[m].by
    BY DEF Unmixed
  <2>1. PICK i \in Name : out[i] # NoFile /\ out'[n].by = out[i].by
    BY <1>3 DEF Present
  <2>2. PICK j \in Name : out[j] # NoFile /\ out'[m].by = out[j].by
    BY <1>3 DEF Present
  <2> QED
    BY <2>1, <2>2, <1>3 DEF Unmixed, Present
<1> QED
  BY <1>4, <1>5, <1>6, <1>7

\* Nothing has run yet.
LEMMA InitHolds == ASSUME Init PROVE IInv
<1> USE ZoneAssumption DEF ZoneAssumption
<1>1. EmptyTree \in Tree /\ \A n \in Name : EmptyTree[n] = NoFile
  BY DEF EmptyTree, Tree
<1>2. \A n \in Name : ~Present(n)
  BY <1>1 DEF Init, Present
<1>3. TypeOK
  BY <1>1 DEF Init, TypeOK
<1> QED
  BY <1>2, <1>3, NameFacts
   DEF Init, IInv, OneInside, FreshInv, WorkInv, ReportComplete, Unmixed,
     OwnedBy, Inside

LEMMA NextKeeps == IInv /\ [Next]_vars => IInv'
<1> SUFFICES ASSUME IInv, [Next]_vars PROVE IInv'
  OBVIOUS
<1>1. CASE UNCHANGED vars
  BY <1>1 DEF vars, IInv, TypeOK, OneInside, FreshInv, WorkInv, ReportComplete, Unmixed,
     Has, OwnedBy, Present, Settled
<1>2. CASE User \/ PowerFails
  BY <1>2, UserKeeps, PowerFailsKeeps
<1>3. ASSUME NEW p \in Proc, Launch(p) \/ Step(p) \/ Crash(p) PROVE IInv'
  BY <1>3, LaunchKeeps, MakeOutputKeeps, OutputRefusedKeeps, CreateFileKeeps,
      CreateRefusedKeeps,
     FillFileKeeps, SyncFileKeeps, CompareKeeps, CompareRefusedKeeps, ProbeReportKeeps,
     RenameReportKeeps, CallFailsKeeps, CrashKeeps DEF Step
<1> QED
  BY <1>1, <1>2, <1>3 DEF Next

\* The inductive invariant: who is at work in the directory and what is in it,
\* through faults, deaths and power failures.
THEOREM Invariant == Spec => []IInv
<1>1. Init => IInv
  BY InitHolds
<1> QED
  BY <1>1, NextKeeps, PTL DEF Spec

\* A report is never there without every resource of its run, on disk.
THEOREM Completeness == Spec => []ReportComplete
<1>1. IInv => ReportComplete
  BY DEF IInv
<1> QED
  BY <1>1, Invariant, PTL

\* The effect of a step of a run on the names and on the report.
LEMMA StepEffect ==
  ASSUME IInv, NEW p \in Proc, Step(p) \/ Crash(p)
  PROVE  /\ pc[p] \in Running /\ \A q \in Proc : q # p => pc'[q] = pc[q]
         /\ pc'[p] \in Running \cup Ended
         /\ \A n \in Name : Present(n) /\ ~OwnedBy(p, n) /\ ~(n = Report /\ pc[p] = "rename")
              => out' # NoDir /\ out'[n] = out[n]
         /\ pc'[p] = "done" => /\ ~Published
                               /\ out' # NoDir /\ out'[Report] # NoFile /\ out'[Report].by = p
         /\ pc'[p] # "done" => Published' = Published
                               /\ (Published => out'[Report] = out[Report])
<1> USE ZoneAssumption DEF ZoneAssumption, GoTo, Fail
<1>0. TypeOK /\ WorkInv
  BY DEF IInv
<1>1. CASE OutputRefused(p) \/ CreateRefused(p) \/ Compare(p) \/ CompareRefused(p)
           \/ CallFails(p)
           \/ Crash(p)
  BY <1>0, <1>1
   DEF TypeOK, OutputRefused, CreateRefused, Compare, CompareRefused, CallFails, Crash,
     Running, Inside, Ended, Published, Present
<1>2. CASE ProbeReport(p)
  <2>1. /\ pc[p] = "probe" /\ out' = out
        /\ pc' = [pc EXCEPT ![p] = "rename"] \/ pc' = [pc EXCEPT ![p] = "failed"]
    BY <1>2 DEF ProbeReport
  <2> QED
    BY <1>0, <2>1 DEF TypeOK, Running, Inside, Ended, Published, Present
<1>3. CASE MakeOutput(p)
  BY <1>0, <1>3, NameFacts
   DEF TypeOK, MakeOutput, Running, Inside, Published, Present, EmptyTree, Tree
<1>4. CASE CreateFile(p) \/ FillFile(p) \/ SyncFile(p)
  <2>1. /\ pc[p] \in {"create", "fill", "sync"}
        /\ out \in Tree /\ next[p] \in Item \cup {Pending}
        /\ \A q \in Proc : q # p => pc'[q] = pc[q]
        /\ pc'[p] \in Inside
    BY <1>0, <1>4, NameFacts
     DEF TypeOK, WorkInv, CreateFile, FillFile, SyncFile, AfterSync, Inside
  <2>2. /\ pc[p] = "create" => out[next[p]] = NoFile
        /\ pc[p] \in {"fill", "sync"} => OwnedBy(p, next[p])
    BY <1>0, <1>4, <2>1 DEF WorkInv, CreateFile, FillFile, SyncFile, Has, Inside
  <2>3. out' # NoDir /\ \A n \in Name : n # next[p] => out'[n] = out[n]
    <3>1. PICK s \in {"torn", "cached", "synced", "wrong"} :
            out' = [out EXCEPT ![next[p]] = FileOf(p, s)]
      BY <1>4 DEF CreateFile, FillFile, SyncFile
    <3>a. FileOf(p, s) \in File
      BY FileFacts
    <3>2. out' \in Tree
      BY <2>1, <3>1, <3>a DEF Tree
    <3> QED
      BY <2>1, <3>1, <3>2 DEF Tree
  <2> QED
    BY <2>1, <2>2, <2>3, NameFacts DEF Running, Inside, Ended, Published, Present, OwnedBy
<1>5. CASE RenameReport(p)
  <2>1. pc[p] = "rename" /\ out \in Tree /\ Has(p, Pending, {"synced"})
        /\ (~Present(Report) \/ out[Report].by = Nobody)
    BY <1>0, <1>5 DEF TypeOK, WorkInv, RenameReport, Inside
  <2>2. /\ out' # NoDir /\ out'[Report] = out[Pending] /\ \A n \in Item : out'[n] = out[n]
        /\ pc' = [pc EXCEPT ![p] = "done"]
    BY <1>5, <2>1, NameFacts DEF RenameReport, Tree
  <2> QED
    BY <1>0, <2>1, <2>2, NameFacts
     DEF TypeOK, Running, Inside, Ended, Published, Present, OwnedBy, Has
<1> QED
  BY <1>1, <1>2, <1>3, <1>4, <1>5 DEF Step

\* Exclusive creation protects every file that is not the run's own.
THEOREM NoOverwrite == Spec => OthersUntouched
<1> DEFINE Safe == \A p \in Proc : Step(p) => \A n \in Name :
       Present(n) /\ ~OwnedBy(p, n) /\ ~(n = Report /\ pc[p] = "rename")
         => out' # NoDir /\ out'[n] = out[n]
<1>1. IInv /\ [Next]_vars => [Safe]_vars
  BY StepEffect
<1> QED
  BY <1>1, Invariant, PTL DEF Spec, OthersUntouched

\* Whose report is in the directory, whatever stands beside it.
Taker == IF Published THEN out[Report].by ELSE Nobody

\* Whoever's report is in the directory has published: its resources are there.
LEMMA StandingIsTaker ==
  /\ IInv => standing = Taker
  /\ IInv' => standing' = Taker'
<1> USE NameFacts
<1>1. IInv => standing = Taker
  <2> SUFFICES ASSUME IInv, Published PROVE standing = Taker
    BY DEF standing, Taker
  <2>1. PICK p \in Proc : p = out[Report].by
    BY DEF Published, Present, IInv, TypeOK, Tree, File
  <2>2. out[Report].st = "synced" /\ \A n \in Item : Has(p, n, Settled(p))
    BY <2>1 DEF Published, OwnedBy, IInv, ReportComplete
  <2> QED
    BY <2>1, <2>2 DEF standing, Taker
<1>2. IInv' => standing' = Taker'
  <2> SUFFICES ASSUME IInv', Published' PROVE standing' = Taker'
    BY DEF standing, Taker
  <2>1. PICK p \in Proc : p = out'[Report].by
    BY DEF Published, Present, IInv, TypeOK, Tree, File
  <2>2. out'[Report].st = "synced" /\ \A n \in Item : Has(p, n, Settled(p))'
    BY <2>1 DEF Published, OwnedBy, IInv, ReportComplete
  <2> QED
    BY <2>1, <2>2 DEF standing, Taker
<1> QED
  BY <1>1, <1>2

\* The pending name and the rename implement AtomicPublish: a build is visible
\* as a whole or not at all.
THEOREM Refinement == Spec => AtomicPublication
<1> USE ZoneAssumption DEF ZoneAssumption
<1>1. Init => Abstract!Init
  <2> SUFFICES ASSUME Init PROVE Abstract!Init
    OBVIOUS
  <2>1. ~Published
    BY NameFacts DEF Init, Published, Present, EmptyTree
  <2>2. \A p \in Proc : outcomeOf(p) = "idle"
    BY DEF Init, outcomeOf
  <2>3. standing = Taker
    BY InitHolds, StandingIsTaker
  <2> QED
    BY <2>1, <2>2, <2>3 DEF Abstract!Init, Taker
<1>2. IInv /\ [Next]_vars => [Abstract!Next]_(Abstract!vars)
  <2> SUFFICES ASSUME IInv, [Next]_vars PROVE [Abstract!Next]_(Abstract!vars)
    OBVIOUS
  <2>0. standing = Taker /\ standing' = Taker'
    BY NextKeeps, StandingIsTaker
  <2>1. CASE UNCHANGED vars
    BY <2>0, <2>1 DEF vars, Abstract!vars, Taker, Published, Present, outcomeOf
  <2>2. CASE User
    <3>1. \A p \in Proc : outcomeOf(p)' = outcomeOf(p)
      BY <2>2 DEF User, outcomeOf
    <3>2. standing' = standing \/ (standing # Nobody /\ standing' = Nobody)
      <4>1. CASE UserClears
        BY <2>0, <4>1 DEF UserClears, Taker, Published, Present
      <4>2. CASE UserAdds
        <5>1. PICK n \in Name : out # NoDir /\ out[n] = NoFile /\ out' = [out EXCEPT ![n] = UserFile]
          BY <4>2 DEF UserAdds
        <5>2. out \in Tree /\ out' # NoDir
          BY <5>1, FileFacts DEF IInv, TypeOK, Tree
        <5>3. CASE n = Report
          BY <2>0, <5>1, <5>2, <5>3, FileFacts, NameFacts DEF Taker, Published, Present, Tree
        <5>4. CASE n # Report
          BY <2>0, <5>1, <5>2, <5>4, NameFacts DEF Taker, Published, Present, Tree
        <5> QED
          BY <5>3, <5>4
      <4> QED
        BY <2>2, <4>1, <4>2 DEF User
    <3> QED
      BY <3>1, <3>2 DEF Abstract!Next, Abstract!Withdraw, Abstract!vars
  <2>3. CASE PowerFails
    <3>1. \A p \in Proc : outcomeOf(p)' = IF outcomeOf(p) = "working" THEN "lost" ELSE outcomeOf(p)
      BY <2>3 DEF PowerFails, outcomeOf, IInv, TypeOK, Running, Inside, Ended
    <3>2. standing' \in {standing, Nobody}
      <4>1. Survives(out') /\ TypeOK
        BY <2>3 DEF PowerFails, IInv
      <4> QED
        BY <2>0, <4>1, SurvivesEffect DEF Taker, Published, Present
    <3>3. Abstract!PowerFails
      BY <3>1, <3>2 DEF Abstract!PowerFails
    <3> QED
      BY <3>3 DEF Abstract!Next
  <2>4. ASSUME NEW p \in Proc, Launch(p) PROVE [Abstract!Next]_(Abstract!vars)
    <3>1. /\ outcomeOf(p) = "idle" /\ outcomeOf(p)' = "working" /\ standing' = standing
          /\ \A q \in Proc : q # p => outcomeOf(q)' = outcomeOf(q)
      BY <2>0, <2>4 DEF Launch, GoTo, outcomeOf, Taker, Published, Present, IInv, TypeOK
    <3>2. Abstract!Start(p)
      BY <3>1 DEF Abstract!Start
    <3> QED
      BY <3>2 DEF Abstract!Next
  <2>5. ASSUME NEW p \in Proc, Step(p) \/ Crash(p) PROVE [Abstract!Next]_(Abstract!vars)
    <3>1. outcomeOf(p) = "working" /\ \A q \in Proc : q # p => outcomeOf(q)' = outcomeOf(q)
      BY <2>5, StepEffect DEF outcomeOf, Running, Inside
    <3>2. CASE pc'[p] = "done"
      <4>1. standing = Nobody /\ standing' = p /\ outcomeOf(p)' = "won"
        BY <2>0, <2>5, <3>2, StepEffect DEF Taker, Published, Present, outcomeOf
      <4>2. Abstract!Publish(p)
        BY <3>1, <4>1 DEF Abstract!Publish
      <4> QED
        BY <4>2 DEF Abstract!Next
    <3>3. CASE pc'[p] # "done"
      <4>1. standing' = standing
        BY <2>0, <2>5, <3>3, StepEffect DEF Taker
      <4>2. outcomeOf(p)' \in {"working", "lost"}
        BY <2>5, <3>3, StepEffect DEF outcomeOf, Running, Inside, Ended
      <4>3. Abstract!Lose(p) \/ UNCHANGED Abstract!vars
        BY <3>1, <4>1, <4>2 DEF Abstract!Lose, Abstract!vars
      <4> QED
        BY <4>3 DEF Abstract!Next
    <3> QED
      BY <3>2, <3>3
  <2> QED
    BY <2>1, <2>2, <2>3, <2>4, <2>5 DEF Next
<1> QED
  BY <1>1, <1>2, Invariant, PTL DEF Spec, AtomicPublication, Abstract!Spec
===============================================================================
