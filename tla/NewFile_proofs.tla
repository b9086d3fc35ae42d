--------------------------- MODULE NewFile_proofs ---------------------------
(***************************************************************************)
(* Theorems about NewFile, for every number of runs of every kind.         *)
(***************************************************************************)
EXTENDS NewFile, TLAPS

\* Where a run's step leads, what it does to the path and to the bytes.
LEMMA StepKeeps ==
  ASSUME IInv, NEW p \in Proc, Launch(p) \/ Step(p) \/ Crash(p)
  PROVE  IInv'
<1> USE OwnerAssumption DEF OwnerAssumption, IInv, GoTo
<1>1. CASE Launch(p) \/ CheckOutput(p) \/ CreateRefused(p)
  <2>1. TypeOK'
    BY <1>1 DEF Launch, CheckOutput, CreateRefused, TypeOK, ChecksFirst, Removes, AtWork, Running, Ended, Kinds
  <2>2. HandleInv' /\ HoldsPath'
    BY <1>1 DEF Launch, CheckOutput, CreateRefused, TypeOK, HandleInv, HoldsPath, ChecksFirst, Removes, AtWork, Running,
       Ended
  <2>3. SuccessIsWhole' /\ FailureLeavesNothing'
    BY <1>1 DEF Launch, CheckOutput, CreateRefused, TypeOK, HandleInv, HoldsPath, SuccessIsWhole, FailureLeavesNothing,
       ChecksFirst, Removes, AtWork, Running, Ended
  <2> QED
    BY <2>1, <2>2, <2>3
<1>8. CASE Crash(p)
  <2>1. TypeOK'
    BY <1>8 DEF Crash, TypeOK, ChecksFirst, Removes, AtWork, Running, Ended, Kinds
  <2>2. HandleInv' /\ HoldsPath'
    BY <1>8 DEF Crash, TypeOK, HandleInv, HoldsPath, ChecksFirst, Removes, AtWork, Running,
       Ended
  <2>3. SuccessIsWhole' /\ FailureLeavesNothing'
    BY <1>8 DEF Crash, TypeOK, HandleInv, HoldsPath, SuccessIsWhole, FailureLeavesNothing,
       ChecksFirst, Removes, AtWork, Running, Ended
  <2> QED
    BY <2>1, <2>2, <2>3
<1>2. CASE CreateNew(p)
  BY <1>2 DEF CreateNew, TypeOK, HandleInv, HoldsPath, SuccessIsWhole, FailureLeavesNothing,
     Removes, AtWork, Running, Ended
<1>3. CASE Write(p)
  <2>1. /\ pc[p] = "write" /\ UNCHANGED <<kind, at, snatched>>
        /\ \E next \in {"verify", "done", "report"} :
             /\ pc' = [pc EXCEPT ![p] = next]
             /\ next = "verify" <=> kind[p] = "verified"
        /\ \E b \in {"whole", "wrong"} : bytes' = [bytes EXCEPT ![p] = b]
        /\ undisturbed' \in BOOLEAN
    BY <1>3 DEF Write, TypeOK
  <2> QED
    BY <2>1 DEF TypeOK, HandleInv, HoldsPath, SuccessIsWhole, FailureLeavesNothing, Removes,
       AtWork, Running, Ended
<1>4. CASE WriteFails(p)
  BY <1>4 DEF WriteFails, TypeOK, HandleInv, HoldsPath, SuccessIsWhole, FailureLeavesNothing,
     Removes, AtWork, Running, Ended
<1>5. CASE Verify(p)
  BY <1>5 DEF Verify, TypeOK, HandleInv, HoldsPath, SuccessIsWhole, FailureLeavesNothing,
     Removes, AtWork, Running, Ended
<1>6. CASE VerifyFails(p) \/ RemoveFails(p)
  <2>1. TypeOK'
    BY <1>6 DEF VerifyFails, RemoveFails, TypeOK, ChecksFirst, Removes, AtWork, Running, Ended, Kinds
  <2>2. HandleInv' /\ HoldsPath'
    BY <1>6 DEF VerifyFails, RemoveFails, TypeOK, HandleInv, HoldsPath, ChecksFirst, Removes, AtWork, Running,
       Ended
  <2>3. SuccessIsWhole' /\ FailureLeavesNothing'
    BY <1>6 DEF VerifyFails, RemoveFails, TypeOK, HandleInv, HoldsPath, SuccessIsWhole, FailureLeavesNothing,
       ChecksFirst, Removes, AtWork, Running, Ended
  <2> QED
    BY <2>1, <2>2, <2>3
<1>9. CASE PrintReport(p)
  <2>1. TypeOK'
    BY <1>9 DEF PrintReport, TypeOK, ChecksFirst, Removes, AtWork, Running, Ended, Kinds
  <2>2. HandleInv' /\ HoldsPath'
    BY <1>9 DEF PrintReport, TypeOK, HandleInv, HoldsPath, ChecksFirst, Removes, AtWork, Running,
       Ended
  <2>3. SuccessIsWhole' /\ FailureLeavesNothing'
    BY <1>9 DEF PrintReport, TypeOK, HandleInv, HoldsPath, SuccessIsWhole, FailureLeavesNothing,
       ChecksFirst, Removes, AtWork, Running, Ended
  <2> QED
    BY <2>1, <2>2, <2>3
<1>7. CASE Remove(p)
  BY <1>7 DEF Remove, TypeOK, HandleInv, HoldsPath, SuccessIsWhole, FailureLeavesNothing,
     Removes, AtWork, Running, Ended
<1> QED
  BY <1>1, <1>2, <1>3, <1>4, <1>5, <1>6, <1>7, <1>8, <1>9 DEF Step

\* The user changes the path only; under a run at work that is recorded.
LEMMA UserKeeps == ASSUME IInv, UserActs PROVE IInv'
<1> USE OwnerAssumption DEF OwnerAssumption, IInv
<1>1. UNCHANGED <<pc, kind, bytes>> /\ undisturbed' = FALSE
  BY DEF UserActs
<1>2. CASE UserAdds
  BY <1>1, <1>2 DEF UserAdds, TypeOK, HandleInv, HoldsPath, SuccessIsWhole, FailureLeavesNothing,
     Removes
<1>3. CASE UserTakes
  <2>1. TypeOK' /\ HandleInv' /\ SuccessIsWhole' /\ FailureLeavesNothing'
    BY <1>1, <1>3 DEF UserTakes, TypeOK, HandleInv, SuccessIsWhole, FailureLeavesNothing, Removes
  <2>2. HoldsPath'
    BY <1>1, <1>3 DEF UserTakes, TypeOK, HoldsPath
  <2> QED
    BY <2>1, <2>2
<1> QED
  BY <1>2, <1>3 DEF UserActs

\* The inductive invariant of the single-file protocol; with it, success is
\* never torn and failure leaves nothing.
THEOREM Invariant == Spec => []IInv
<1>1. Init => IInv
  BY OwnerAssumption DEF OwnerAssumption, Init, IInv, TypeOK, HandleInv, HoldsPath, SuccessIsWhole,
     FailureLeavesNothing, AtWork
<1>2. IInv /\ [Next]_vars => IInv'
  <2> SUFFICES ASSUME IInv, [Next]_vars PROVE IInv'
    OBVIOUS
  <2>1. CASE UNCHANGED vars
    BY <2>1 DEF vars, IInv, TypeOK, HandleInv, HoldsPath, SuccessIsWhole, FailureLeavesNothing, Removes
  <2> QED
    BY <2>1, UserKeeps, StepKeeps DEF Next
<1> QED
  BY <1>1, <1>2, PTL DEF Spec

\* Exclusive creation and removal by path never take a file from its owner.
THEOREM NothingTaken == Spec => NoClobber
<1> DEFINE Safe == \A p \in Proc : Step(p) /\ ~snatched /\ at # NoFile /\ at # p => at' = at
<1>1. IInv /\ [Next]_vars => [Safe]_vars
  <2> SUFFICES ASSUME IInv, NEW p \in Proc, Step(p), ~snatched, at # NoFile, at # p PROVE at' = at
    OBVIOUS
  <2>1. ~Remove(p)
    BY DEF Remove, IInv, HoldsPath, AtWork
  <2> QED
    BY <2>1 DEF Step, CheckOutput, CreateNew, CreateRefused, Write, WriteFails, Verify, VerifyFails,
       RemoveFails, PrintReport
<1> QED
  BY <1>1, Invariant, PTL DEF Spec, NoClobber
===============================================================================
