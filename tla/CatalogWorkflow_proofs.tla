------------------------ MODULE CatalogWorkflow_proofs ------------------------
(***************************************************************************)
(* Theorems about CatalogWorkflow, for every tree, every set of contents,  *)
(* every limit and every number of edits.                                  *)
(***************************************************************************)
EXTENDS CatalogWorkflow, WellFoundedInduction, FiniteSetTheorems, TLAPS

-------------------------------------------------------------------------------
(* A proof by induction takes the least number for which the claim fails and shows
   that there is a smaller one. *)

Less == {pair \in Nat \X Nat : pair[1] < pair[2]}

LEMMA LessIsWellFounded == IsWellFoundedOn(Less, Nat)
<1>1. Less = OpToRel(<, Nat)
  BY DEF Less, OpToRel
<1> QED
  BY <1>1, NatLessThanWellFounded

\* Every inhabited set of numbers has a least member.
LEMMA LeastExists ==
  ASSUME NEW S, S \subseteq Nat, S # {}
  PROVE  \E n \in S : \A m \in S : n <= m
<1>1. PICK n \in S : \A m \in S : ~(<<m, n>> \in Less)
  BY LessIsWellFounded, WFMin
<1>2. ASSUME NEW m \in S PROVE n <= m
  <2>1. n \in Nat /\ m \in Nat
    OBVIOUS
  <2>2. <<m, n>> \in Less <=> m < n
    BY <2>1 DEF Less
  <2> QED
    BY <1>1, <2>1, <2>2
<1> QED
  BY <1>2

\* A set that holds every number it holds the predecessors of.
LEMMA InductionTo ==
  ASSUME NEW n \in Nat, NEW S, \A k \in 0..n : 0..(k - 1) \subseteq S => k \in S
  PROVE  0..n \subseteq S
<1> SUFFICES ASSUME ~(0..n \subseteq S) PROVE FALSE
  OBVIOUS
<1> DEFINE Bad == {k \in 0..n : k \notin S}
<1>1. Bad \subseteq Nat /\ Bad # {}
  OBVIOUS
<1>2. PICK k \in Bad : \A j \in Bad : k <= j
  <2> HIDE DEF Bad
  <2> QED
    BY <1>1, LeastExists
<1>3. \A j \in 0..(k - 1) : j \in S
  BY <1>2
<1> QED
  BY <1>2, <1>3

\* The same, one number after the other.
LEMMA StepsTo ==
  ASSUME NEW n \in Nat, NEW S, 0 \in S, \A k \in 1..n : k - 1 \in S => k \in S
  PROVE  0..n \subseteq S
<1>1. ASSUME NEW k \in 0..n, 0..(k - 1) \subseteq S PROVE k \in S
  BY <1>1
<1> QED
  BY <1>1, InductionTo

Iterates(f, n, base, step) == f[0] = base /\ \A k \in 1..n : f[k] = step[<<k, f[k - 1]>>]

\* What a loop computes exists: a function that a number of steps determine.
LEMMA IterationExists ==
  ASSUME NEW T, NEW base \in T, NEW n \in Nat, NEW step \in [(1..n) \X T -> T]
  PROVE  \E f \in [0..n -> T] : Iterates(f, n, base, step)
<1> DEFINE Good == {m \in 0..n : \E f \in [0..m -> T] :
                      f[0] = base /\ \A k \in 1..m : f[k] = step[<<k, f[k - 1]>>]}
<1>1. 0 \in Good
  <2> DEFINE f == [k \in 0..0 |-> base]
  <2>1. f \in [0..0 -> T] /\ f[0] = base /\ \A k \in 1..0 : f[k] = step[<<k, f[k - 1]>>]
    OBVIOUS
  <2> HIDE DEF f
  <2> QED
    BY <2>1
<1>2. ASSUME NEW m \in 1..n, m - 1 \in Good PROVE m \in Good
  <2>1. PICK f \in [0..(m - 1) -> T] :
          f[0] = base /\ \A k \in 1..(m - 1) : f[k] = step[<<k, f[k - 1]>>]
    BY <1>2
  <2> DEFINE g == [k \in 0..m |-> IF k < m THEN f[k] ELSE step[<<m, f[m - 1]>>]]
  <2>2. f[m - 1] \in T /\ step[<<m, f[m - 1]>>] \in T
    BY <2>1
  <2>3. g \in [0..m -> T]
    BY <2>1, <2>2
  <2>4. g[0] = base
    BY <2>1
  <2>5. ASSUME NEW k \in 1..m PROVE g[k] = step[<<k, g[k - 1]>>]
    <3>1. CASE k = m
      <4>1. m \in 0..m /\ m - 1 \in 0..m /\ m - 1 < m /\ ~(m < m)
        OBVIOUS
      <4>2. g[m] = step[<<m, f[m - 1]>>] /\ g[m - 1] = f[m - 1]
        BY <4>1
      <4> HIDE DEF g
      <4> QED
        BY <3>1, <4>2
    <3>2. CASE k # m
      <4>1. k \in 1..(m - 1) /\ k \in 0..m /\ k - 1 \in 0..m /\ k < m /\ k - 1 < m
        BY <3>2
      <4>2. g[k] = f[k] /\ g[k - 1] = f[k - 1]
        BY <4>1
      <4> HIDE DEF g
      <4> QED
        BY <2>1, <4>1, <4>2
    <3> QED
      BY <3>1, <3>2
  <2> HIDE DEF g
  <2> QED
    BY <2>3, <2>4, <2>5
<1>3. n \in Good
  <2> HIDE DEF Good
  <2> QED
    BY <1>1, <1>2, StepsTo
<1> QED
  BY <1>3 DEF Iterates

-------------------------------------------------------------------------------
(* What a list of amounts adds up to. *)

SumUpTo(f, n, amount) == f = [k \in 0..n |-> IF k = 0 THEN 0 ELSE f[k - 1] + amount[k]]

LEMMA SumExists ==
  ASSUME NEW n \in Nat, NEW amount \in [1..n -> Nat]
  PROVE  \E f : SumUpTo(f, n, amount)
<1> DEFINE step == [pair \in (1..n) \X Nat |-> pair[2] + amount[pair[1]]]
           Number == Nat
           zero == 0
<1>1. step \in [(1..n) \X Number -> Number] /\ zero \in Number
  OBVIOUS
<1>2. \E f \in [0..n -> Number] : Iterates(f, n, zero, step)
  <2> HIDE DEF step, Number, zero
  <2> QED
    BY <1>1, IterationExists
<1>3. PICK f \in [0..n -> Nat] : f[0] = 0 /\ \A k \in 1..n : f[k] = step[<<k, f[k - 1]>>]
  <2> HIDE DEF step
  <2> QED
    BY <1>2 DEF Iterates
<1>4. ASSUME NEW k \in 1..n PROVE f[k] = f[k - 1] + amount[k]
  <2>1. f[k - 1] \in Nat
    BY <1>3
  <2>2. step[<<k, f[k - 1]>>] = f[k - 1] + amount[k]
    BY <2>1
  <2> HIDE DEF step
  <2> QED
    BY <1>3, <2>2
<1> HIDE DEF step
<1>5. f = [k \in 0..n |-> IF k = 0 THEN 0 ELSE f[k - 1] + amount[k]]
  BY <1>3, <1>4
<1> QED
  BY <1>5 DEF SumUpTo

\* The digits of a number, from those of its tenth.
DigitsUpTo(f, n) == f = [k \in 0..n |-> IF k < 10 THEN 1 ELSE 1 + f[k \div 10]]

LEMMA DigitsExist ==
  ASSUME NEW n \in Nat
  PROVE  \E f : DigitsUpTo(f, n)
<1> DEFINE Found(m, f) == f \in [0..m -> Nat] /\ \A k \in 0..m : f[k] = IF k < 10 THEN 1 ELSE 1 + f[k \div 10]
           S == {m \in 0..n : \E f : Found(m, f)}
<1>1. 0 \in S
  <2> DEFINE f == [k \in 0..0 |-> 1]
  <2>1. Found(0, f)
    OBVIOUS
  <2> HIDE DEF Found
  <2> QED
    BY <2>1
<1>2. ASSUME NEW m \in 1..n, m - 1 \in S PROVE m \in S
  <2>1. PICK f : Found(m - 1, f)
    BY <1>2
  <2> DEFINE last == IF m < 10 THEN 1 ELSE 1 + f[m \div 10]
             g == [k \in 0..m |-> IF k < m THEN f[k] ELSE last]
  <2>2. last \in Nat
    <3>1. m >= 10 => m \div 10 \in 0..(m - 1)
      OBVIOUS
    <3> QED
      BY <2>1, <3>1
  <2> HIDE DEF last
  <2>3. g \in [0..m -> Nat]
    BY <2>1, <2>2
  <2>4. ASSUME NEW k \in 0..m PROVE g[k] = IF k < 10 THEN 1 ELSE 1 + g[k \div 10]
    <3>1. k >= 10 => k \div 10 \in 0..m /\ k \div 10 < k /\ k \div 10 < m
      OBVIOUS
    <3>2. k >= 10 => g[k \div 10] = f[k \div 10]
      BY <3>1
    <3>3. CASE k < m
      <4>1. k \in 0..(m - 1) /\ g[k] = f[k]
        BY <3>3
      <4> HIDE DEF g
      <4> QED
        BY <2>1, <3>2, <4>1
    <3>4. CASE ~(k < m)
      <4>1. k = m /\ g[k] = last
        BY <3>4
      <4> HIDE DEF g
      <4> QED
        BY <3>2, <4>1 DEF last
    <3> QED
      BY <3>3, <3>4
  <2>5. Found(m, g)
    <3> HIDE DEF g
    <3> QED
      BY <2>3, <2>4
  <2> HIDE DEF Found, g
  <2> QED
    BY <2>5
<1>3. n \in S
  <2> HIDE DEF S
  <2> QED
    BY <1>1, <1>2, StepsTo
<1>4. PICK f : Found(n, f)
  BY <1>3
<1>5. f = [k \in 0..n |-> IF k < 10 THEN 1 ELSE 1 + f[k \div 10]]
  BY <1>4
<1> QED
  BY <1>5 DEF DigitsUpTo

LEMMA DigitsType ==
  ASSUME NEW n \in Nat, NEW f, DigitsUpTo(f, n)
  PROVE  f[n] \in Nat
<1> DEFINE S == {k \in 0..n : f[k] \in Nat}
<1>1. ASSUME NEW k \in 0..n, 0..(k - 1) \subseteq S PROVE k \in S
  <2>1. f[k] = IF k < 10 THEN 1 ELSE 1 + f[k \div 10]
    BY DEF DigitsUpTo
  <2>2. k >= 10 => k \div 10 \in 0..(k - 1)
    OBVIOUS
  <2>3. k >= 10 => f[k \div 10] \in Nat
    BY <1>1, <2>2
  <2> QED
    BY <2>1, <2>3
<1>2. 0..n \subseteq S
  <2> HIDE DEF S
  <2> QED
    BY <1>1, InductionTo
<1> QED
  BY <1>2

LEMMA SumIs ==
  ASSUME NEW n \in Nat, NEW amount, NEW f, SumUpTo(f, n, amount)
  PROVE  f[0] = 0 /\ \A k \in 1..n : f[k] = f[k - 1] + amount[k]
BY DEF SumUpTo

LEMMA SumType ==
  ASSUME NEW n \in Nat, NEW amount \in [1..n -> Nat], NEW f, SumUpTo(f, n, amount)
  PROVE  f[n] \in Nat
<1> DEFINE S == {k \in 0..n : f[k] \in Nat}
<1>1. 0 \in S
  BY SumIs
<1>2. ASSUME NEW k \in 1..n, k - 1 \in S PROVE k \in S
  <2>1. f[k - 1] \in Nat /\ k \in 0..n /\ amount[k] \in Nat
    BY <1>2
  <2>2. f[k] = f[k - 1] + amount[k]
    BY SumIs
  <2> QED
    BY <2>1, <2>2
<1>3. 0..n \subseteq S
  <2> HIDE DEF S
  <2> QED
    BY <1>1, <1>2, StepsTo
<1> QED
  BY <1>3

\* The amounts b are the amounts a but for one, which is more by `extra`.
MoreAt(a, b, n, at, extra) ==
  /\ n \in Nat /\ extra \in Nat /\ a \in [1..n -> Nat] /\ b \in [1..n -> Nat]
  /\ at \in 1..n /\ b[at] = a[at] + extra /\ \A k \in 1..n : k # at => b[k] = a[k]

\* One amount more by `extra`, and the sum is more by as much.
LEMMA SumMore ==
  ASSUME NEW n, NEW a, NEW b, NEW f, NEW g, NEW at, NEW extra,
         SumUpTo(f, n, a), SumUpTo(g, n, b), MoreAt(a, b, n, at, extra)
  PROVE  g[n] = f[n] + extra
<1>0. /\ n \in Nat /\ extra \in Nat /\ a \in [1..n -> Nat] /\ b \in [1..n -> Nat]
      /\ at \in 1..n /\ b[at] = a[at] + extra /\ \A k \in 1..n : k # at => b[k] = a[k]
  BY DEF MoreAt
<1> USE <1>0
<1> DEFINE S == {k \in 0..n : f[k] \in Nat /\ g[k] = f[k] + (IF at <= k THEN extra ELSE 0)}
<1>1. 0 \in S
  BY SumIs
<1>2. ASSUME NEW k \in 1..n, k - 1 \in S PROVE k \in S
  <2>1. f[k - 1] \in Nat /\ g[k - 1] = f[k - 1] + (IF at <= k - 1 THEN extra ELSE 0)
    BY <1>2
  <2>2. f[k] = f[k - 1] + a[k] /\ g[k] = g[k - 1] + b[k] /\ a[k] \in Nat /\ b[k] \in Nat
    BY DEF SumUpTo
  <2>3. CASE k = at
    <3>1. ~(at <= k - 1) /\ at <= k
      BY <2>3
    <3> QED
      BY <2>1, <2>2, <2>3, <3>1, SMTT(20)
  <2>4. CASE k # at
    <3>1. (at <= k - 1) <=> (at <= k)
      BY <2>4
    <3>2. b[k] = a[k] /\ k \in 0..n
      BY <2>4
    <3>3. CASE at <= k
      BY <2>1, <2>2, <3>1, <3>2, <3>3, SMTT(20)
    <3>4. CASE ~(at <= k)
      BY <2>1, <2>2, <3>1, <3>2, <3>4
    <3> QED
      BY <3>3, <3>4
  <2> QED
    BY <2>3, <2>4
<1>3. 0..n \subseteq S
  <2> HIDE DEF S
  <2> QED
    BY <1>1, <1>2, StepsTo
<1> QED
  BY <1>3

LEMMA SumNothing ==
  ASSUME NEW n \in Nat, NEW f, SumUpTo(f, n, [k \in 1..n |-> 0])
  PROVE  f[n] = 0
<1> DEFINE S == {k \in 0..n : f[k] = 0}
<1>1. 0 \in S
  BY SumIs
<1>2. ASSUME NEW k \in 1..n, k - 1 \in S PROVE k \in S
  <2>1. f[k - 1] = 0 /\ k \in 0..n
    BY <1>2
  <2>2. f[k] = f[k - 1] + 0
    BY SumIs
  <2> QED
    BY <2>1, <2>2
<1>3. 0..n \subseteq S
  <2> HIDE DEF S
  <2> QED
    BY <1>1, <1>2, StepsTo
<1> QED
  BY <1>3

-------------------------------------------------------------------------------
(* The workflow, but for the sizes. *)

USE SourcesAssumption, VersionAssumption, GoneAssumption

\* The part of IInv that does not sum sizes.
Agreement == ContentsOK /\ ExtractsTheCatalogued /\ TakenInv /\ ReplayInv

LEMMA InitAgreement == Init => Agreement
<1> SUFFICES ASSUME Init PROVE Agreement
  OBVIOUS
<1>1. Nothing \in [Source -> Content]
  BY DEF Nothing, Content
<1>2. ContentsOK
  BY <1>1 DEF Init, ContentsOK
<1> QED
  BY <1>2 DEF Init, Agreement, ExtractsTheCatalogued, Published, TakenInv, Extracting, ReplayInv

\* The inventory pass and the choice of a selection.
LEMMA CatalogKeeps ==
  ASSUME Agreement,
         (\E s \in Source : CatalogEntry(s)) \/ (\E S \in SUBSET Source \ {{}} : Select(S))
  PROVE  Agreement'
<1> USE DEF Agreement
<1>1. ASSUME NEW s \in Source, CatalogEntry(s)
      PROVE  Agreement'
  <2>1. ContentsOK'
    BY <1>1 DEF CatalogEntry, ContentsOK, inputs, extraction, verification
  <2> QED
    BY <1>1, <2>1 DEF CatalogEntry, ExtractsTheCatalogued, Published, TakenInv, Extracting, ReplayInv
<1>2. ASSUME NEW S \in SUBSET Source, Select(S)
      PROVE  Agreement'
  <2>1. /\ picked' = S /\ pc = "catalog" /\ steady' = TRUE
        /\ \/ pc' = "stat" /\ todo' = S
           \/ pc' = "refused" /\ todo' = {}
        /\ UNCHANGED <<inputs, rows, extraction, verification, watched>>
    BY <1>2 DEF Select, Stop
  <2>2. ContentsOK'
    BY <2>1 DEF ContentsOK, inputs, extraction, verification
  <2> QED
    BY <2>1, <2>2 DEF ExtractsTheCatalogued, Published, TakenInv, Extracting, ReplayInv
<1> QED
  BY <1>1, <1>2

LEMMA ExtractKeeps ==
  ASSUME Agreement,
         (\E s \in Source : StatSource(s) \/ ReadSource(s)) \/ Render \/ Publish
  PROVE  Agreement'
<1> USE DEF Agreement
<1>1. ASSUME NEW s \in Source, StatSource(s)
      PROVE  Agreement'
  <2>1. /\ pc = "stat" /\ IsNext(s)
        /\ \/ pc' = "read" /\ todo' = todo /\ rows[s].usable
           \/ pc' = "refused" /\ todo' = {}
        /\ UNCHANGED <<inputs, rows, picked, extraction, verification, steady, watched>>
    BY <1>1 DEF StatSource, Stop
  <2>2. ContentsOK'
    BY <2>1 DEF ContentsOK, inputs, extraction, verification
  <2>3. \A t \in Source : todo' = todo /\ IsNext(t) => t = s
    BY <2>1 DEF IsNext, Source
  <2> QED
    BY <2>1, <2>2, <2>3 DEF ExtractsTheCatalogued, Published, TakenInv, Extracting, ReplayInv,
       extraction, IsNext
<1>2. ASSUME NEW s \in Source, ReadSource(s)
      PROVE  Agreement'
  <2>1. /\ pc = "read" /\ IsNext(s)
        /\ \/ /\ pc' = "stat" /\ todo' = todo \ {s} /\ tree[s] = rows[s]
              /\ data' = [data EXCEPT ![s] = tree[s]]
           \/ pc' = "refused" /\ todo' = {} /\ data' = data
        /\ UNCHANGED <<inputs, rows, picked, shelf, verification, steady, watched>>
    BY <1>2 DEF ReadSource, Stop
  <2>2. ContentsOK'
    BY <2>1 DEF ContentsOK, inputs, verification
  <2>3. rows[s].usable
    BY <2>1 DEF TakenInv, Extracting
  <2>4. TakenInv'
    BY <2>1, <2>3 DEF TakenInv, Extracting, ContentsOK
  <2> QED
    BY <2>1, <2>2, <2>4 DEF ExtractsTheCatalogued, Published, ReplayInv
<1>3. CASE Render
  <2>1. /\ pc = "stat" /\ todo = {} /\ todo' = {} /\ pc' \in {"publish", "refused"}
        /\ UNCHANGED <<inputs, rows, picked, data, shelf, verification, steady, watched>>
    BY <1>3 DEF Render, Stop
  <2>2. ContentsOK'
    BY <2>1 DEF ContentsOK, inputs, verification
  <2> QED
    BY <2>1, <2>2 DEF ExtractsTheCatalogued, Published, TakenInv, Extracting, ReplayInv
<1>4. CASE Publish
  <2>1. ContentsOK'
    BY <1>4 DEF Publish, ContentsOK, inputs, verification
  <2> QED
    BY <1>4, <2>1 DEF Publish, ExtractsTheCatalogued, Published, TakenInv, Extracting, ReplayInv
<1> QED
  BY <1>1, <1>2, <1>3, <1>4

LEMMA VerifyKeeps ==
  ASSUME Agreement,
         Inventory \/ (\E s \in Source : ReplaySource(s)) \/ CheckTotals
  PROVE  Agreement'
<1> USE DEF Agreement
<1>1. CASE Inventory
  <2>1. ContentsOK'
    BY <1>1 DEF Inventory, ContentsOK, inputs, extraction
  <2> QED
    BY <1>1, <2>1 DEF Inventory, ExtractsTheCatalogued, Published, TakenInv, Extracting, ReplayInv,
       extraction
<1>2. ASSUME NEW s \in Source, ReplaySource(s)
      PROVE  Agreement'
  <2>1. /\ pc = "replay" /\ IsNext(s)
        /\ \/ /\ pc' = pc /\ todo' = todo \ {s} /\ inventory[s] = rows[s]
              /\ tree[s] = inventory[s] /\ replayed' = [replayed EXCEPT ![s] = tree[s]]
           \/ pc' = "refused" /\ todo' = {} /\ replayed' = replayed
        /\ UNCHANGED <<inputs, rows, picked, extraction, inventory, steady, watched>>
    BY <1>2 DEF ReplaySource, Stop
  <2>2. ContentsOK'
    BY <2>1 DEF ContentsOK, inputs, extraction
  <2>3. ReplayInv'
    BY <2>1 DEF ReplayInv, ContentsOK, inputs, extraction
  <2> QED
    BY <2>1, <2>2, <2>3 DEF ExtractsTheCatalogued, Published, TakenInv, Extracting, extraction
<1>3. CASE CheckTotals
  <2>1. /\ pc = "replay" /\ todo = {} /\ pc' \in {"accepted", "refused"}
        /\ UNCHANGED <<inputs, rows, todo, picked, extraction, verification, steady, watched>>
    BY <1>3 DEF CheckTotals
  <2>2. ContentsOK'
    BY <2>1 DEF ContentsOK, inputs, extraction, verification
  <2> QED
    BY <2>1, <2>2 DEF ExtractsTheCatalogued, Published, TakenInv, Extracting, ReplayInv, inputs,
       extraction, verification
<1> QED
  BY <1>1, <1>2, <1>3

LEMMA OthersKeep ==
  ASSUME Agreement, Fails \/ Edit
  PROVE  Agreement'
<1> USE DEF Agreement
<1>1. CASE Fails
  <2>1. ContentsOK'
    BY <1>1 DEF Fails, ContentsOK, inputs, extraction, verification
  <2> QED
    BY <1>1, <2>1 DEF Fails, ExtractsTheCatalogued, Published, TakenInv, Extracting, ReplayInv
<1>2. CASE Edit
  <2>1. tree' \in [Source -> Content] /\ shelf' \in [Source -> Content]
    BY <1>2 DEF Edit, ContentsOK
  <2>2. /\ watched' = FALSE /\ steady' = FALSE
        /\ UNCHANGED <<rows, pc, todo, picked, data, verification>>
    BY <1>2 DEF Edit
  <2>3. ContentsOK'
    BY <2>1, <2>2 DEF ContentsOK, verification
  <2> QED
    BY <2>2, <2>3 DEF ExtractsTheCatalogued, Published, TakenInv, Extracting, ReplayInv, IsNext,
       verification
<1> QED
  BY <1>1, <1>2

LEMMA NextAgreement == Agreement /\ [Next]_vars => Agreement'
<1> SUFFICES ASSUME Agreement, [Next]_vars PROVE Agreement'
  OBVIOUS
<1>1. CASE Next
  BY <1>1, CatalogKeeps, ExtractKeeps, VerifyKeeps, OthersKeep DEF Next, Step
<1>2. CASE UNCHANGED vars
  BY <1>2 DEF vars, inputs, extraction, verification, Agreement, ContentsOK, TakenInv, Extracting,
     ExtractsTheCatalogued, Published, ReplayInv, IsNext
<1> QED
  BY <1>1, <1>2

\* Whatever happens to the tree meanwhile, a published batch holds what the
\* catalog recorded, of resources fit for extraction.
THEOREM Fidelity == Spec => []ExtractsTheCatalogued
<1>1. Agreement => ExtractsTheCatalogued
  BY DEF Agreement
<1> QED
  BY <1>1, InitAgreement, NextAgreement, PTL DEF Spec

\* An accepted replay means that output, catalog and sources agreed, and still
\* do if nothing was edited meanwhile (AcceptedAgrees).
THEOREM ReplaySound == Spec => []AcceptedAgrees
<1>1. Agreement => AcceptedAgrees
  BY DEF Agreement, ReplayInv, AcceptedAgrees
<1> QED
  BY <1>1, InitAgreement, NextAgreement, PTL DEF Spec

-------------------------------------------------------------------------------
(* What the selection costs: sums over the sources, digits, and the passes of the
   rendering. *)

Sizes(contents, S) == [s \in Source |-> IF s \in S THEN contents[s].size ELSE 0]
Outs(contents, S) == [s \in Source |-> IF s \in S THEN contents[s].out ELSE 0]

LEMMA SumOf ==
  ASSUME NEW amount \in [Source -> Nat]
  PROVE  \E f : SumUpTo(f, Sources, amount) /\ Sum(amount) = f[Sources]
<1> DEFINE f == CHOOSE f : f = [s \in 0..Sources |-> IF s = 0 THEN 0 ELSE f[s - 1] + amount[s]]
<1>1. Sum(amount) = f[Sources]
  BY DEF Sum
<1>2. \E g : g = [s \in 0..Sources |-> IF s = 0 THEN 0 ELSE g[s - 1] + amount[s]]
  BY SumExists DEF SumUpTo, Source
<1>3. f = [s \in 0..Sources |-> IF s = 0 THEN 0 ELSE f[s - 1] + amount[s]]
  BY <1>2
<1> QED
  BY <1>1, <1>3 DEF SumUpTo

LEMMA SumNat ==
  ASSUME NEW amount \in [Source -> Nat]
  PROVE  Sum(amount) \in Nat
BY SumOf, SumType DEF Source

LEMMA SumGrows ==
  ASSUME NEW a \in [Source -> Nat], NEW b \in [Source -> Nat], NEW s \in Source, NEW extra \in Nat,
         b[s] = a[s] + extra, \A t \in Source : t # s => b[t] = a[t]
  PROVE  Sum(b) = Sum(a) + extra
<1>1. PICK n \in Nat : n = Sources
  OBVIOUS
<1>2. Source = 1..n
  BY <1>1 DEF Source
<1>3. PICK f : SumUpTo(f, n, a) /\ Sum(a) = f[n]
  BY <1>1, SumOf
<1>4. PICK g : SumUpTo(g, n, b) /\ Sum(b) = g[n]
  BY <1>1, SumOf
<1>5. a \in [1..n -> Nat] /\ b \in [1..n -> Nat] /\ MoreAt(a, b, n, s, extra)
  BY <1>2 DEF MoreAt
<1>6. g[n] = f[n] + extra
  BY <1>3, <1>4, <1>5, SumMore
<1> QED
  BY <1>3, <1>4, <1>6

LEMMA NoOutput == ASSUME NEW contents PROVE OutsOf(contents, {}) = 0
<1>1. Outs(contents, {}) = [s \in 1..Sources |-> 0] /\ Outs(contents, {}) \in [Source -> Nat]
  BY DEF Outs, Source
<1>2. PICK f : SumUpTo(f, Sources, Outs(contents, {})) /\ Sum(Outs(contents, {})) = f[Sources]
  BY <1>1, SumOf
<1> QED
  BY <1>1, <1>2, SumNothing DEF OutsOf, Outs

LEMMA DigitsNat == ASSUME NEW n \in Nat PROVE Digits(n) \in Nat
<1> DEFINE f == CHOOSE f : f = [k \in 0..n |-> IF k < 10 THEN 1 ELSE 1 + f[k \div 10]]
<1>1. Digits(n) = f[n]
  BY DEF Digits
<1>2. \E g : g = [k \in 0..n |-> IF k < 10 THEN 1 ELSE 1 + g[k \div 10]]
  BY DigitsExist DEF DigitsUpTo
<1>3. f = [k \in 0..n |-> IF k < 10 THEN 1 ELSE 1 + f[k \div 10]]
  BY <1>2
<1> HIDE DEF f
<1> QED
  BY <1>1, <1>3, DigitsType DEF DigitsUpTo

LEMMA SourcesFinite == \A S \in SUBSET Source : IsFiniteSet(S) /\ Cardinality(S) \in Nat
<1>1. IsFiniteSet(Source)
  BY FS_Interval DEF Source
<1> QED
  BY <1>1, FS_Subset, FS_CardinalityType

LEMMA ManifestNat ==
  ASSUME NEW S \in SUBSET Source, NEW n \in Nat
  PROVE  ManifestLength(S, n) \in Nat
<1>1. Cardinality(S) \in Nat /\ Digits(n) \in Nat /\ ManifestBytes \in Nat /\ RecordBytes \in Nat
  BY SourcesFinite, DigitsNat, LimitsAssumption DEF LimitsAssumption
<1> QED
  BY <1>1 DEF ManifestLength

\* The passes: each adds the manifest of the total before it.
LEMMA EstimateIs ==
  ASSUME NEW S \in SUBSET Source, NEW bytes \in Nat
  PROVE  /\ Estimate(S, bytes) \in [0..Passes -> Nat]
         /\ \A k \in 1..Passes :
              Estimate(S, bytes)[k] = bytes + ManifestLength(S, Estimate(S, bytes)[k - 1])
<1> DEFINE Number == Nat
           start == bytes
           grow == [pair \in (1..Passes) \X Number |-> bytes + ManifestLength(S, pair[2])]
           pass == CHOOSE pass : pass = [k \in 0..Passes |->
                     IF k = 0 THEN bytes ELSE bytes + ManifestLength(S, pass[k - 1])]
<1>1. grow \in [(1..Passes) \X Number -> Number] /\ start \in Number /\ Passes \in Nat
  BY ManifestNat DEF Passes
<1>2. \E f \in [0..Passes -> Number] : Iterates(f, Passes, start, grow)
  <2> HIDE DEF grow, Number, start, pass
  <2> QED
    BY <1>1, IterationExists
<1>3. PICK f \in [0..Passes -> Nat] : f[0] = bytes /\ \A k \in 1..Passes : f[k] = grow[<<k, f[k - 1]>>]
  <2> HIDE DEF grow
  <2> QED
    BY <1>2 DEF Iterates
<1>4. ASSUME NEW k \in 1..Passes PROVE f[k] = bytes + ManifestLength(S, f[k - 1])
  <2>1. f[k - 1] \in Nat
    BY <1>3 DEF Passes
  <2>2. grow[<<k, f[k - 1]>>] = bytes + ManifestLength(S, f[k - 1])
    BY <2>1
  <2> HIDE DEF grow
  <2> QED
    BY <1>3, <2>2
<1> HIDE DEF grow
<1>5. f = [k \in 0..Passes |-> IF k = 0 THEN bytes ELSE bytes + ManifestLength(S, f[k - 1])]
  BY <1>3, <1>4 DEF Passes
<1>6. pass = [k \in 0..Passes |-> IF k = 0 THEN bytes ELSE bytes + ManifestLength(S, pass[k - 1])]
  BY <1>5
<1>7. Estimate(S, bytes) = pass
  BY DEF Estimate
<1> HIDE DEF pass
<1>8. pass[0] = bytes /\ \A k \in 1..Passes : pass[k] = bytes + ManifestLength(S, pass[k - 1])
  BY <1>6 DEF Passes
<1>9. pass \in [0..Passes -> Nat]
  <2> DEFINE Good == {k \in 0..Passes : pass[k] \in Nat}
  <2>1. 0 \in Good
    BY <1>8 DEF Passes
  <2>2. ASSUME NEW k \in 1..Passes, k - 1 \in Good PROVE k \in Good
    <3>1. pass[k - 1] \in Nat /\ k \in 0..Passes /\ pass[k] = bytes + ManifestLength(S, pass[k - 1])
      BY <1>8, <2>2
    <3>2. ManifestLength(S, pass[k - 1]) \in Nat
      BY <3>1, ManifestNat
    <3> QED
      BY <3>1, <3>2
  <2>3. 0..Passes \subseteq Good
    <3> HIDE DEF Good
    <3> QED
      BY <2>1, <2>2, StepsTo DEF Passes
  <2>4. pass \in [0..Passes -> {pass[k] : k \in 0..Passes}]
    BY <1>6
  <2> QED
    BY <2>3, <2>4
<1> QED
  BY <1>7, <1>8, <1>9

\* Once two passes agree the later ones do, so the last one states its own total.
LEMMA StableIsExact ==
  ASSUME NEW S \in SUBSET Source, NEW bytes \in Nat, Stable(S, bytes) # {}
  PROVE  Estimate(S, bytes)[Passes] = bytes + ManifestLength(S, Estimate(S, bytes)[Passes])
<1> DEFINE pass == Estimate(S, bytes)
<1>1. PICK k \in 1..Passes : pass[k] = pass[k - 1]
  BY DEF Stable
<1>2. \A j \in 1..Passes : pass[j] = bytes + ManifestLength(S, pass[j - 1])
  BY EstimateIs
<1> HIDE DEF pass
<1> DEFINE Good == {j \in 0..Passes : j >= k => pass[j] = pass[k - 1]}
<1>3. 0 \in Good
  BY <1>1 DEF Passes
<1>4. ASSUME NEW j \in 1..Passes, j - 1 \in Good PROVE j \in Good
  <2>1. CASE j = k
    BY <1>1, <2>1
  <2>2. CASE j > k
    <3>1. pass[j - 1] = pass[k - 1]
      BY <1>4, <2>2
    <3>2. pass[j] = pass[k]
      BY <1>2, <3>1
    <3> QED
      BY <1>1, <3>2
  <2>3. CASE j < k
    BY <2>3
  <2> QED
    BY <2>1, <2>2, <2>3
<1>5. Passes \in Good
  <2> HIDE DEF Good
  <2> QED
    BY <1>3, <1>4, StepsTo DEF Passes
<1>6. pass[Passes] = pass[k - 1] /\ pass[Passes] = pass[k]
  BY <1>1, <1>5 DEF Passes
<1>7. pass[Passes] = bytes + ManifestLength(S, pass[Passes])
  BY <1>2, <1>6
<1> QED
  BY <1>7 DEF pass

-------------------------------------------------------------------------------
(* The accounts: what has been read and planned is what the limits were held
   against, and the total that is stated is the total that is written. *)

Accounts ==
  /\ spent \in Nat /\ total \in Nat /\ edits \in 0..Edits
  /\ SpentInv /\ WithinLimits

\* The contents of chosen sources that are there have a size and an output.
LEMMA Amounts ==
  ASSUME NEW contents \in [Source -> Content], NEW S \in SUBSET Source,
         \A s \in S : contents[s] # Gone
  PROVE  /\ Outs(contents, S) \in [Source -> Nat] /\ OutsOf(contents, S) \in Nat
         /\ OutsOf(contents, S) = Sum(Outs(contents, S))
<1>1. \A s \in S : contents[s].out \in Nat
  BY DEF Content
<1>2. Outs(contents, S) \in [Source -> Nat]
  BY <1>1 DEF Outs
<1>3. OutsOf(contents, S) = Sum(Outs(contents, S))
  BY DEF OutsOf, Outs
<1> QED
  BY <1>2, <1>3, SumNat

LEMMA SameSums ==
  ASSUME NEW a, NEW b, NEW S, \A s \in S : a[s] = b[s]
  PROVE  SizesOf(a, S) = SizesOf(b, S) /\ OutsOf(a, S) = OutsOf(b, S)
<1>1. [s \in Source |-> IF s \in S THEN a[s].size ELSE 0] = [s \in Source |-> IF s \in S THEN b[s].size ELSE 0]
  OBVIOUS
<1>2. [s \in Source |-> IF s \in S THEN a[s].out ELSE 0] = [s \in Source |-> IF s \in S THEN b[s].out ELSE 0]
  OBVIOUS
<1> QED
  BY <1>1, <1>2 DEF SizesOf, OutsOf

\* With v as the content of s the sources S of `old` become S and s of `new`.
Takes(old, new, S, s, v) ==
  /\ old \in [Source -> Content] /\ S \in SUBSET Source /\ s \in Source \ S /\ v \in Version
  /\ \A t \in S : old[t] # Gone
  /\ new = [old EXCEPT ![s] = v]

\* The source just read is the only one added to the sum.
LEMMA OneMore ==
  ASSUME NEW old, NEW new, NEW S, NEW s, NEW v, Takes(old, new, S, s, v)
  PROVE  OutsOf(new, S \cup {s}) = OutsOf(old, S) + v.out
<1> USE DEF Takes
<1> DEFINE a == Outs(old, S)
           b == Outs(new, S \cup {s})
<1>1. new \in [Source -> Content] /\ v # Gone /\ v.out \in Nat
  BY DEF Content
<1>2. \A t \in S \cup {s} : new[t] # Gone
  BY <1>1
<1>3. a \in [Source -> Nat] /\ OutsOf(old, S) = Sum(a)
  BY Amounts
<1>4. b \in [Source -> Nat] /\ OutsOf(new, S \cup {s}) = Sum(b)
  BY <1>1, <1>2, Amounts, ZenonT(40)
<1>5. b[s] = a[s] + v.out
  BY <1>1 DEF Outs
<1>6. \A t \in Source : t # s => b[t] = a[t]
  BY DEF Outs
<1> HIDE DEF a, b
<1>7. Sum(b) = Sum(a) + v.out
  BY <1>1, <1>3, <1>4, <1>5, <1>6, SumGrows
<1> QED
  BY <1>3, <1>4, <1>7

LEMMA InitAccounts == Init => Accounts
BY LimitsAssumption DEF LimitsAssumption, Init, Accounts, SpentInv, WithinLimits, Extracting, Published

LEMMA NextAccounts == Agreement /\ Accounts /\ [Next]_vars => Accounts'
<1> SUFFICES ASSUME Agreement, Accounts, [Next]_vars PROVE Accounts'
  OBVIOUS
<1>0. /\ ContentsOK /\ TakenInv /\ ExtractsTheCatalogued
      /\ spent \in Nat /\ total \in Nat /\ edits \in 0..Edits /\ SpentInv /\ WithinLimits
  BY DEF Agreement, Accounts
<1>1. ASSUME NEW s \in Source, CatalogEntry(s) PROVE Accounts'
  BY <1>0, <1>1 DEF CatalogEntry, inputs, extraction, Accounts, SpentInv, WithinLimits, Extracting, Published
<1>2. ASSUME NEW S \in SUBSET Source, Select(S) PROVE Accounts'
  <2>1. /\ picked' = S /\ pc = "catalog" /\ UNCHANGED <<edits, rows, data, spent, total>>
        /\ \/ SelectionFits(S) /\ pc' = "stat" /\ todo' = S
           \/ pc' = "refused"
    BY <1>2 DEF Select, Stop, inputs, extraction
  <2>2. todo' = S => picked' \ todo' = {}
    BY <2>1
  <2>3. SelectionFits(S) => SelectionFits(S)'
    BY <2>1 DEF SelectionFits, CatalogParses, Rows
  <2>4. SpentInv'
    BY <1>0, <2>1, <2>2, <2>3, NoOutput DEF SpentInv, Extracting, Published
  <2> QED
    BY <1>0, <2>1, <2>4 DEF Accounts, WithinLimits, Published
<1>3. ASSUME NEW s \in Source, StatSource(s) PROVE Accounts'
  <2>1. /\ pc = "stat" /\ UNCHANGED <<edits, rows, picked, data, spent, total>>
        /\ \/ pc' = "read" /\ todo' = todo
           \/ pc' = "refused"
    BY <1>3 DEF StatSource, Stop, inputs, extraction
  <2>2. SpentInv'
    BY <1>0, <2>1 DEF SpentInv, Extracting, Published, SelectionFits, CatalogParses, Rows
  <2> QED
    BY <1>0, <2>1, <2>2 DEF Accounts, WithinLimits, Published
<1>4. ASSUME NEW s \in Source, ReadSource(s) PROVE Accounts'
  <2>1. /\ pc = "read" /\ s \in todo /\ UNCHANGED <<edits, rows, picked, total>>
        /\ \/ /\ pc' = "stat" /\ todo' = todo \ {s} /\ tree[s] = rows[s]
              /\ data' = [data EXCEPT ![s] = tree[s]] /\ spent' = spent + tree[s].out
           \/ pc' = "refused" /\ spent' = spent
    BY <1>4 DEF ReadSource, Stop, inputs, IsNext
  <2>2. CASE pc' = "refused" /\ spent' = spent
    BY <1>0, <2>1, <2>2 DEF Accounts, SpentInv, WithinLimits, Extracting, Published
  <2>3. CASE /\ pc' = "stat" /\ todo' = todo \ {s} /\ tree[s] = rows[s]
             /\ data' = [data EXCEPT ![s] = tree[s]] /\ spent' = spent + tree[s].out
    <3>1. SelectionFits(picked) /\ spent = OutsOf(data, picked \ todo) /\ todo \subseteq picked
      BY <1>0, <2>1 DEF SpentInv, TakenInv, Extracting
    <3>2. picked \subseteq Rows /\ picked \subseteq Source
      BY <1>0, <3>1 DEF SelectionFits, ContentsOK
    <3>3. tree[s] \in Version
      BY <1>0, <2>1, <2>3, <3>1, <3>2 DEF Rows, ContentsOK, Content
    <3>4. \A t \in picked \ todo : data[t] # Gone
      BY <1>0, <2>1, <3>2 DEF TakenInv, Extracting, Rows
    <3>5. /\ picked \ todo \in SUBSET Source /\ s \in Source \ (picked \ todo)
          /\ picked' \ todo' = (picked \ todo) \cup {s} /\ data \in [Source -> Content]
      BY <1>0, <2>1, <2>3, <3>1, <3>2 DEF ContentsOK
    <3>6. OutsOf(data', picked' \ todo') = OutsOf(data, picked \ todo) + tree[s].out
      <4> DEFINE taken == picked \ todo
      <4>1. taken \in SUBSET Source /\ s \in Source \ taken /\ \A t \in taken : data[t] # Gone
        BY <3>4, <3>5
      <4> HIDE DEF taken
      <4>2. Takes(data, data', taken, s, tree[s])
        BY <2>3, <3>3, <3>5, <4>1 DEF Takes
      <4>3. OutsOf(data', taken \cup {s}) = OutsOf(data, taken) + tree[s].out
        BY <4>2, OneMore
      <4> QED
        BY <3>5, <4>3 DEF taken
    <3>7. tree[s].out \in Nat
      BY <3>3
    <3>8. SelectionFits(picked)'
      BY <2>1, <3>1 DEF SelectionFits, CatalogParses, Rows
    <3>9. SpentInv'
      BY <2>3, <3>1, <3>6, <3>8 DEF SpentInv
    <3> QED
      BY <1>0, <2>1, <2>3, <3>7, <3>9 DEF Accounts, WithinLimits, Published
  <2> QED
    BY <2>1, <2>2, <2>3
<1>5. CASE Render
  <2>1. /\ pc = "stat" /\ todo = {} /\ total' = Estimate(picked, spent)[Passes]
        /\ UNCHANGED <<edits, rows, picked, data, spent>> /\ todo' = {}
        /\ \/ Stable(picked, spent) # {} /\ total' <= MaxOutputBytes /\ pc' = "publish"
           \/ pc' = "refused"
    BY <1>5 DEF Render, Stop, inputs
  <2>2. picked \in SUBSET Source
    BY <1>0 DEF ContentsOK
  <2>3. total' \in Nat
    BY <1>0, <2>1, <2>2, EstimateIs DEF Passes
  <2>4. pc' = "publish" => total' = spent + ManifestLength(picked, total')
    BY <1>0, <2>1, <2>2, StableIsExact
  <2>5. SpentInv'
    BY <1>0, <2>1, <2>4 DEF SpentInv, Extracting, Published, SelectionFits, CatalogParses, Rows
  <2> QED
    BY <1>0, <2>1, <2>3, <2>5 DEF Accounts, WithinLimits, Published
<1>6. CASE Publish
  <2>1. /\ pc = "publish" /\ pc' = "published" /\ UNCHANGED <<edits, rows, todo, picked, data, spent, total>>
    BY <1>6 DEF Publish, inputs
  <2>2. /\ SelectionFits(picked) /\ spent = OutsOf(data, picked \ todo) /\ todo = {}
        /\ total = spent + ManifestLength(picked, total) /\ total <= MaxOutputBytes
        /\ \A s \in picked : data[s] = rows[s]
    BY <1>0, <2>1 DEF SpentInv, TakenInv, Extracting
  <2>3. picked \ todo = picked
    BY <2>2
  <2>4. SizesOf(data, picked) = SizesOf(rows, picked)
    BY <2>2, SameSums
  <2>5. WithinLimits'
    BY <2>1, <2>2, <2>3, <2>4 DEF WithinLimits, SelectionFits
  <2>6. SpentInv'
    BY <2>1, <2>2 DEF SpentInv, Extracting, Published, SelectionFits, CatalogParses, Rows
  <2> QED
    BY <1>0, <2>1, <2>5, <2>6 DEF Accounts
<1>7. CASE Inventory \/ (\E s \in Source : ReplaySource(s)) \/ CheckTotals
  <2>1. /\ pc \in {"published", "replay"} /\ pc' \in {"replay", "accepted", "refused"}
        /\ UNCHANGED <<edits, rows, picked, data, spent, total>>
    BY <1>7 DEF Inventory, ReplaySource, CheckTotals, Stop, inputs, extraction
  <2>2. SpentInv'
    BY <1>0, <2>1 DEF SpentInv, Extracting, Published, SelectionFits, CatalogParses, Rows
  <2>3. WithinLimits'
    BY <1>0, <2>1 DEF WithinLimits, Published
  <2> QED
    BY <1>0, <2>1, <2>2, <2>3 DEF Accounts
<1>8. CASE Fails
  BY <1>0, <1>8 DEF Fails, inputs, extraction, Accounts, SpentInv, WithinLimits, Extracting, Published
<1>9. CASE Edit
  <2>1. UNCHANGED <<rows, pc, todo, picked, data, spent, total>> /\ edits < Edits /\ edits' = edits + 1
    BY <1>9 DEF Edit
  <2>2. edits' \in 0..Edits
    BY <1>0, <2>1, LimitsAssumption DEF LimitsAssumption
  <2>3. SpentInv'
    BY <1>0, <2>1 DEF SpentInv, Extracting, Published, SelectionFits, CatalogParses, Rows
  <2> QED
    BY <1>0, <2>1, <2>2, <2>3 DEF Accounts, WithinLimits, Published
<1>10. CASE UNCHANGED vars
  <2>1. UNCHANGED <<rows, pc, todo, picked, data, spent, total, edits>>
    BY <1>10 DEF vars, inputs, extraction
  <2>2. SpentInv'
    BY <1>0, <2>1 DEF SpentInv, Extracting, Published, SelectionFits, CatalogParses, Rows
  <2> QED
    BY <1>0, <2>1, <2>2 DEF Accounts, WithinLimits, Published
<1> QED
  BY <1>1, <1>2, <1>3, <1>4, <1>5, <1>6, <1>7, <1>8, <1>9, <1>10 DEF Next, Step

\* The limits bound what was read and written, manifest included, and the total
\* the manifest states is exact (run, render_batch).
THEOREM Limits == Spec => []WithinLimits
<1>1. Agreement /\ Accounts /\ [Next]_vars => Agreement' /\ Accounts'
  BY NextAgreement, NextAccounts
<1>2. Init => Agreement /\ Accounts
  BY InitAgreement, InitAccounts
<1>3. Agreement /\ Accounts => WithinLimits
  BY DEF Accounts
<1> QED
  BY <1>1, <1>2, <1>3, PTL DEF Spec

-------------------------------------------------------------------------------
(* The workflow nobody disturbs. *)

Undisturbed == SteadyInv /\ (RowId = FullId => OwnOutputVerifies)

LEMMA InitUndisturbed == Init => Undisturbed
BY DEF Init, Undisturbed, SteadyInv, OwnOutputVerifies, Extracting

LEMMA NextUndisturbed == Agreement /\ Accounts /\ Undisturbed /\ [Next]_vars => Undisturbed'
<1> SUFFICES ASSUME Agreement, Accounts, Undisturbed, [Next]_vars PROVE Undisturbed'
  OBVIOUS
<1>0. ContentsOK /\ TakenInv /\ ReplayInv /\ ExtractsTheCatalogued /\ SteadyInv /\ WithinLimits
      /\ (RowId = FullId => OwnOutputVerifies)
  BY DEF Agreement, Accounts, Undisturbed
<1>1. ASSUME NEW s \in Source, CatalogEntry(s) PROVE Undisturbed'
  <2>1. pc = "catalog" /\ UNCHANGED <<tree, pc, picked, data, shelf, inventory, steady>>
    BY <1>1 DEF CatalogEntry, inputs, extraction, verification
  <2> QED
    BY <1>0, <2>1 DEF Undisturbed, SteadyInv, OwnOutputVerifies, Extracting
<1>2. ASSUME NEW S \in SUBSET Source, Select(S) PROVE Undisturbed'
  <2>1. /\ picked' = S /\ pc = "catalog" /\ inventory' = inventory
        /\ \/ pc' = "stat" /\ todo' = S
           \/ pc' = "refused"
    BY <1>2 DEF Select, Stop, verification
  <2>2. todo' = S => picked' \ todo' = {}
    BY <2>1
  <2> QED
    BY <1>0, <2>1, <2>2 DEF Undisturbed, SteadyInv, OwnOutputVerifies, Extracting
<1>3. ASSUME NEW s \in Source, StatSource(s) PROVE Undisturbed'
  <2>1. /\ pc = "stat" /\ UNCHANGED <<tree, picked, data, shelf, inventory, steady>>
        /\ \/ pc' = "read" /\ todo' = todo
           \/ pc' = "refused"
    BY <1>3 DEF StatSource, Stop, inputs, extraction, verification
  <2> QED
    BY <1>0, <2>1 DEF Undisturbed, SteadyInv, OwnOutputVerifies, Extracting
<1>4. ASSUME NEW s \in Source, ReadSource(s) PROVE Undisturbed'
  <2>1. /\ pc = "read" /\ UNCHANGED <<tree, picked, shelf, inventory, steady>>
        /\ \/ pc' = "stat" /\ todo' = todo \ {s} /\ data' = [data EXCEPT ![s] = tree[s]]
           \/ pc' = "refused"
    BY <1>4 DEF ReadSource, Stop, inputs, verification
  <2> QED
    BY <1>0, <2>1 DEF Undisturbed, SteadyInv, OwnOutputVerifies, Extracting, ContentsOK
<1>5. CASE Render
  <2>1. /\ pc = "stat" /\ todo = {} /\ UNCHANGED <<tree, picked, data, shelf, inventory, steady>>
        /\ todo' = {} /\ pc' \in {"publish", "refused"}
    BY <1>5 DEF Render, Stop, inputs, verification
  <2> QED
    BY <1>0, <2>1 DEF Undisturbed, SteadyInv, OwnOutputVerifies, Extracting
<1>6. CASE Publish
  <2>1. /\ pc = "publish" /\ pc' = "published" /\ shelf' = data
        /\ UNCHANGED <<tree, picked, todo, data, inventory, steady>>
    BY <1>6 DEF Publish, inputs, verification
  <2>2. picked \ todo = picked
    BY <1>0, <2>1 DEF TakenInv, Extracting
  <2> QED
    BY <1>0, <2>1, <2>2 DEF Undisturbed, SteadyInv, OwnOutputVerifies, Extracting
<1>7. CASE Inventory
  <2>1. /\ pc = "published" /\ pc' = "replay" /\ inventory' = shelf
        /\ UNCHANGED <<tree, picked, data, shelf, steady>>
    BY <1>7 DEF Inventory, inputs, extraction
  <2> QED
    BY <1>0, <2>1 DEF Undisturbed, SteadyInv, OwnOutputVerifies, Extracting
<1>8. ASSUME NEW s \in Source, ReplaySource(s) PROVE Undisturbed'
  <2>1. /\ pc = "replay" /\ s \in todo /\ UNCHANGED <<tree, picked, data, shelf, inventory, steady>>
        /\ \/ pc' = "replay"
           \/ pc' = "refused" /\ ~(inventory[s] = rows[s] /\ tree[s] = inventory[s] /\ RowId[s] = FullId[s])
    BY <1>8 DEF ReplaySource, Stop, inputs, extraction, IsNext
  <2>2. s \in picked /\ data[s] = rows[s]
    BY <1>0, <2>1 DEF ReplayInv, ExtractsTheCatalogued, Published
  <2>3. steady /\ RowId = FullId => pc' # "refused"
    BY <1>0, <2>1, <2>2 DEF SteadyInv
  <2> QED
    BY <1>0, <2>1, <2>3 DEF Undisturbed, SteadyInv, OwnOutputVerifies, Extracting
<1>9. CASE CheckTotals
  <2>1. /\ pc = "replay" /\ UNCHANGED <<tree, picked, data, shelf, inventory, steady>>
        /\ pc' = IF total = OutsOf(inventory, picked) + ManifestLength(picked, total)
                   THEN "accepted" ELSE "refused"
    BY <1>9 DEF CheckTotals, inputs, extraction, verification
  <2>2. total = OutsOf(data, picked) + ManifestLength(picked, total)
    BY <1>0, <2>1 DEF WithinLimits, Published
  <2>3. steady => pc' = "accepted"
    BY <1>0, <2>1, <2>2 DEF SteadyInv
  <2> QED
    BY <1>0, <2>1, <2>3 DEF Undisturbed, SteadyInv, OwnOutputVerifies, Extracting
<1>10. CASE Fails
  <2>1. pc' = "failed" /\ UNCHANGED <<tree, picked, data, shelf, inventory, steady>>
    BY <1>10 DEF Fails, inputs, extraction, verification
  <2> QED
    BY <1>0, <2>1 DEF Undisturbed, SteadyInv, OwnOutputVerifies, Extracting
<1>11. CASE Edit
  <2>1. steady' = FALSE /\ UNCHANGED <<pc, picked, data, inventory>>
    BY <1>11 DEF Edit, verification
  <2> QED
    BY <1>0, <2>1 DEF Undisturbed, SteadyInv, OwnOutputVerifies, Extracting
<1>12. CASE UNCHANGED vars
  <2>1. UNCHANGED <<tree, pc, todo, picked, data, shelf, inventory, steady>>
    BY <1>12 DEF vars, inputs, extraction, verification
  <2> QED
    BY <1>0, <2>1 DEF Undisturbed, SteadyInv, OwnOutputVerifies, Extracting
<1> QED
  BY <1>1, <1>2, <1>3, <1>4, <1>5, <1>6, <1>7, <1>8, <1>9, <1>10, <1>11, <1>12 DEF Next, Step

\* The protocol of the three commands, every part of it, for every tree, every
\* selection, every limit and every number of edits.
THEOREM Invariant == Spec => []IInv
<1>1. Init => Agreement /\ Accounts /\ Undisturbed
  BY InitAgreement, InitAccounts, InitUndisturbed
<1>2. Agreement /\ Accounts /\ Undisturbed /\ [Next]_vars => Agreement' /\ Accounts' /\ Undisturbed'
  BY NextAgreement, NextAccounts, NextUndisturbed
<1>3. Agreement /\ Accounts /\ Undisturbed => IInv
  BY DEF Agreement, Accounts, Undisturbed, IInv, TypeOK
<1> QED
  BY <1>1, <1>2, <1>3, PTL DEF Spec

\* Where the paths below the root name the same resource ids as the full paths,
\* what extract-catalog publishes from a tree that nobody edits is never refused
\* by verify-extraction.  (verify_batch against render_batch.  Without the premise
\* the run catalog_deep_root refutes it.)
THEOREM OwnOutput == ASSUME RowId = FullId PROVE Spec => []OwnOutputVerifies
<1>1. Init => Agreement /\ Accounts /\ Undisturbed
  BY InitAgreement, InitAccounts, InitUndisturbed
<1>2. Agreement /\ Accounts /\ Undisturbed /\ [Next]_vars => Agreement' /\ Accounts' /\ Undisturbed'
  BY NextAgreement, NextAccounts, NextUndisturbed
<1>3. Agreement /\ Accounts /\ Undisturbed => OwnOutputVerifies
  BY DEF Undisturbed
<1> QED
  BY <1>1, <1>2, <1>3, PTL DEF Spec
===============================================================================
