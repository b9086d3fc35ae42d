-------------------------- MODULE ZonePackage_proofs --------------------------
(***************************************************************************)
(* What the stacked packages and region roots promise the client, for any  *)
(* catalogs, requests and number of overlays.  The sections follow the     *)
(* code: how a catalog is read (Parse's walk), what a root more does to a  *)
(* table, what append_region_root writes, the stack that the loader looks  *)
(* through, and the commands.                                              *)
(***************************************************************************)
EXTENDS ZonePackage, WellFoundedInduction, FiniteSetTheorems, TLAPS

-------------------------------------------------------------------------------
(* A proof by induction takes the least number for which the claim fails and shows
   that there is a smaller one. *)

Less == {pair \in Nat \X Nat : pair[1] < pair[2]}

LEMMA LessIsWellFounded == IsWellFoundedOn(Less, Nat)
<1>1. Less = OpToRel(<, Nat)
  BY DEF Less, OpToRel
<1> QED
  BY <1>1, NatLessThanWellFounded

\* Every inhabited set of numbers has a least member.
LEMMA LeastExists ==
  ASSUME NEW S, S \subseteq Nat, S # {}
  PROVE  \E n \in S : \A m \in S : n <= m
<1>1. PICK n \in S : \A m \in S : ~(<<m, n>> \in Less)
  BY LessIsWellFounded, WFMin
<1>2. ASSUME NEW m \in S PROVE n <= m
  <2>1. n \in Nat /\ m \in Nat
    OBVIOUS
  <2>2. <<m, n>> \in Less <=> m < n
    BY <2>1 DEF Less
  <2> QED
    BY <1>1, <2>1, <2>2
<1> QED
  BY <1>2

\* Every inhabited set of numbers below a bound has a largest member.
LEMMA LargestExists ==
  ASSUME NEW bound \in Nat, NEW S, S \subseteq 0..bound, S # {}
  PROVE  \E n \in S : \A m \in S : m <= n
<1> DEFINE Above == {k \in 0..bound : bound - k \in S}
<1>1. ASSUME NEW m \in S PROVE bound - m \in Above
  <2>1. m \in 0..bound
    OBVIOUS
  <2>2. bound - m \in 0..bound /\ bound - (bound - m) = m
    BY <2>1
  <2> QED
    BY <2>2
<1>2. Above \subseteq Nat
  OBVIOUS
<1>3. Above # {}
  <2> HIDE DEF Above
  <2> QED
    BY <1>1
<1>4. PICK k \in Above : \A j \in Above : k <= j
  <2> HIDE DEF Above
  <2> QED
    BY <1>2, <1>3, LeastExists
<1>5. ASSUME NEW m \in S PROVE m <= bound - k
  <2>1. k <= bound - m
    BY <1>1, <1>4
  <2>2. m \in 0..bound /\ k \in 0..bound
    OBVIOUS
  <2> QED
    BY <2>1, <2>2
<1> QED
  BY <1>5

\* A set that holds every number it holds the predecessors of.
LEMMA InductionTo ==
  ASSUME NEW n \in Nat, NEW S, \A k \in 0..n : 0..(k - 1) \subseteq S => k \in S
  PROVE  0..n \subseteq S
<1> SUFFICES ASSUME ~(0..n \subseteq S) PROVE FALSE
  OBVIOUS
<1> DEFINE Bad == {k \in 0..n : k \notin S}
<1>1. Bad \subseteq Nat /\ Bad # {}
  OBVIOUS
<1>2. PICK k \in Bad : \A j \in Bad : k <= j
  <2> HIDE DEF Bad
  <2> QED
    BY <1>1, LeastExists
<1>3. \A j \in 0..(k - 1) : j \in S
  BY <1>2
<1> QED
  BY <1>2, <1>3

\* The same, one number after the other.
LEMMA StepsTo ==
  ASSUME NEW n \in Nat, NEW S, 0 \in S, \A k \in 1..n : k - 1 \in S => k \in S
  PROVE  0..n \subseteq S
<1>1. ASSUME NEW k \in 0..n, 0..(k - 1) \subseteq S PROVE k \in S
  BY <1>1
<1> QED
  BY <1>1, InductionTo

Iterates(f, n, base, step) == f[0] = base /\ \A k \in 1..n : f[k] = step[<<k, f[k - 1]>>]

\* What a loop computes exists: a function that a number of steps determine.
LEMMA IterationExists ==
  ASSUME NEW T, NEW base \in T, NEW n \in Nat, NEW step \in [(1..n) \X T -> T]
  PROVE  \E f \in [0..n -> T] : Iterates(f, n, base, step)
<1> DEFINE Good == {m \in 0..n : \E f \in [0..m -> T] :
                      f[0] = base /\ \A k \in 1..m : f[k] = step[<<k, f[k - 1]>>]}
<1>1. 0 \in Good
  <2> DEFINE f == [k \in 0..0 |-> base]
  <2>1. f \in [0..0 -> T] /\ f[0] = base /\ \A k \in 1..0 : f[k] = step[<<k, f[k - 1]>>]
    OBVIOUS
  <2> HIDE DEF f
  <2> QED
    BY <2>1
<1>2. ASSUME NEW m \in 1..n, m - 1 \in Good PROVE m \in Good
  <2>1. PICK f \in [0..(m - 1) -> T] :
          f[0] = base /\ \A k \in 1..(m - 1) : f[k] = step[<<k, f[k - 1]>>]
    BY <1>2
  <2> DEFINE g == [k \in 0..m |-> IF k < m THEN f[k] ELSE step[<<m, f[m - 1]>>]]
  <2>2. f[m - 1] \in T /\ step[<<m, f[m - 1]>>] \in T
    BY <2>1
  <2>3. g \in [0..m -> T]
    BY <2>1, <2>2
  <2>4. g[0] = base
    BY <2>1
  <2>5. ASSUME NEW k \in 1..m PROVE g[k] = step[<<k, g[k - 1]>>]
    <3>1. CASE k = m
      <4>1. m \in 0..m /\ m - 1 \in 0..m /\ m - 1 < m /\ ~(m < m)
        OBVIOUS
      <4>2. g[m] = step[<<m, f[m - 1]>>] /\ g[m - 1] = f[m - 1]
        BY <4>1
      <4> HIDE DEF g
      <4> QED
        BY <3>1, <4>2
    <3>2. CASE k # m
      <4>1. k \in 1..(m - 1) /\ k \in 0..m /\ k - 1 \in 0..m /\ k < m /\ k - 1 < m
        BY <3>2
      <4>2. g[k] = f[k] /\ g[k - 1] = f[k - 1]
        BY <4>1
      <4> HIDE DEF g
      <4> QED
        BY <2>1, <4>1, <4>2
    <3> QED
      BY <3>1, <3>2
  <2> HIDE DEF g
  <2> QED
    BY <2>3, <2>4, <2>5
<1>3. n \in Good
  <2> HIDE DEF Good
  <2> QED
    BY <1>1, <1>2, StepsTo
<1> QED
  BY <1>3 DEF Iterates

-------------------------------------------------------------------------------
(* The walk over the rows. *)

\* One step of Walk, from what the steps before have taken.
WalkNext(file, i, before) ==
  IF before = Refused THEN Refused
  ELSE LET children == file.rows[before + 1].word0c
           left == Len(file.rows) - before - 1
       IN IF children + (file.count - i) > left THEN Refused ELSE before + 1 + children

\* There is a row for each root that is still to come.
WalkFits(file, i, at) == at = Refused \/ (at \in Nat /\ at + (file.count - i) <= Len(file.rows))

LEMMA FileType ==
  ASSUME NEW file \in RegionFile
  PROVE  /\ file.size \in Nat /\ file.count \in Nat /\ file.tail \in Nat
         /\ file.rows \in Seq(RowRecord) /\ Len(file.rows) \in Nat
         /\ \A k \in 1..Len(file.rows) :
              /\ file.rows[k] \in RowRecord
              /\ file.rows[k].dat \in Nat /\ file.rows[k].word0c \in Nat
<1>1. /\ file.size \in Nat /\ file.count \in Nat /\ file.tail \in Nat
      /\ file.rows \in Seq(RowRecord)
  BY DEF RegionFile
<1>2. ASSUME NEW row \in RowRecord PROVE row.dat \in Nat /\ row.word0c \in Nat
  BY DEF RowRecord
<1> QED
  BY <1>1, <1>2

LEMMA WalkNextFits ==
  ASSUME NEW file \in RegionFile, NEW i \in 1..file.count, NEW before, WalkFits(file, i - 1, before)
  PROVE  /\ WalkFits(file, i, WalkNext(file, i, before))
         /\ WalkNext(file, i, before) # Refused =>
              /\ before \in Nat /\ before + 1 \in 1..Len(file.rows)
              /\ WalkNext(file, i, before) = before + 1 + file.rows[before + 1].word0c
<1>1. CASE before = Refused
  BY <1>1 DEF WalkNext, WalkFits
<1>2. CASE before # Refused
  <2>1. before \in Nat /\ before + (file.count - (i - 1)) <= Len(file.rows) /\ file.count \in Nat /\ Len(file.rows) \in Nat
    BY <1>2, FileType DEF WalkFits
  <2>2. before + 1 \in 1..Len(file.rows)
    BY <2>1
  <2>3. file.rows[before + 1].word0c \in Nat
    BY <2>2, FileType
  <2>4. CASE file.rows[before + 1].word0c + (file.count - i) > Len(file.rows) - before - 1
    BY <1>2, <2>4 DEF WalkNext, WalkFits
  <2>5. CASE ~(file.rows[before + 1].word0c + (file.count - i) > Len(file.rows) - before - 1)
    <3>1. WalkNext(file, i, before) = before + 1 + file.rows[before + 1].word0c
      BY <1>2, <2>5 DEF WalkNext
    <3>2. WalkFits(file, i, before + 1 + file.rows[before + 1].word0c)
      <4> DEFINE children == file.rows[before + 1].word0c
                 length == Len(file.rows)
                 count == file.count
      <4>1. before + 1 + children \in Nat /\ before + 1 + children + (count - i) <= length
        <5>1. /\ before \in Nat /\ children \in Nat /\ length \in Nat /\ count \in Nat /\ i \in 1..count
              /\ ~(children + (count - i) > length - before - 1)
          BY <2>1, <2>3, <2>5
        <5> HIDE DEF children, length, count
        <5> QED
          BY <5>1
      <4> QED
        BY <4>1 DEF WalkFits
    <3> QED
      BY <2>1, <2>2, <3>1, <3>2
  <2> QED
    BY <2>4, <2>5
<1> QED
  BY <1>1, <1>2

\* Where each step follows the walk as long as there are rows, there always are.
LEMMA WalkStays ==
  ASSUME NEW file \in RegionFile, NEW f, f[0] = 0, file.count <= Len(file.rows),
         \A i \in 1..file.count : WalkFits(file, i - 1, f[i - 1]) => f[i] = WalkNext(file, i, f[i - 1])
  PROVE  \A i \in 0..file.count : WalkFits(file, i, f[i])
<1> DEFINE S == {i \in 0..file.count : WalkFits(file, i, f[i])}
<1>0. file.count \in Nat /\ Len(file.rows) \in Nat
  BY FileType
<1>1. 0 \in S
  BY <1>0 DEF WalkFits
<1>2. ASSUME NEW k \in 1..file.count, k - 1 \in S PROVE k \in S
  BY <1>2, WalkNextFits, <1>0
<1>3. 0..file.count \subseteq S
  <2> HIDE DEF S
  <2> QED
    BY <1>0, <1>1, <1>2, StepsTo
<1> QED
  BY <1>3

Walks(f, file) ==
  f = [i \in 0..file.count |-> IF i = 0 THEN 0 ELSE WalkNext(file, i, f[i - 1])]

LEMMA WalkExists ==
  ASSUME NEW file \in RegionFile, file.count <= Len(file.rows)
  PROVE  \E f : Walks(f, file)
<1> DEFINE T == {Refused} \cup Nat
           n == file.count
           zero == 0
           step == [pair \in (1..n) \X T |->
                      IF WalkFits(file, pair[1] - 1, pair[2]) THEN WalkNext(file, pair[1], pair[2]) ELSE Refused]
<1>0. n \in Nat /\ zero \in T
  BY FileType
<1>1. step \in [(1..n) \X T -> T]
  <2>1. ASSUME NEW i \in 1..n, NEW before \in T, WalkFits(file, i - 1, before)
        PROVE  WalkNext(file, i, before) \in T
    BY <2>1, WalkNextFits DEF WalkFits
  <2> HIDE DEF T, n
  <2>2. ASSUME NEW pair \in (1..n) \X T
        PROVE  (IF WalkFits(file, pair[1] - 1, pair[2]) THEN WalkNext(file, pair[1], pair[2]) ELSE Refused) \in T
    BY <2>1 DEF T
  <2> QED
    BY <2>2
<1>2. PICK f \in [0..n -> T] : Iterates(f, n, zero, step)
  <2> HIDE DEF T, n, zero, step
  <2> QED
    BY <1>0, <1>1, IterationExists
<1>3. f[0] = 0 /\ \A i \in 1..n : f[i - 1] \in T /\ f[i] = step[<<i, f[i - 1]>>]
  <2>1. \A i \in 1..n : i - 1 \in 0..n
    BY <1>0
  <2> HIDE DEF step
  <2> QED
    BY <1>0, <1>2, <2>1 DEF Iterates
<1>4. ASSUME NEW i \in 1..n, WalkFits(file, i - 1, f[i - 1]) PROVE f[i] = WalkNext(file, i, f[i - 1])
  <2>1. <<i, f[i - 1]>> \in (1..n) \X T
    BY <1>3
  <2>2. step[<<i, f[i - 1]>>] = WalkNext(file, i, f[i - 1])
    BY <1>4, <2>1
  <2> HIDE DEF step
  <2> QED
    BY <1>3, <2>2
<1>5. \A i \in 0..n : WalkFits(file, i, f[i])
  <2> HIDE DEF step
  <2> QED
    BY <1>3, <1>4, WalkStays
<1>6. \A i \in 1..n : f[i] = WalkNext(file, i, f[i - 1])
  <2> HIDE DEF step
  <2>1. \A i \in 1..n : i - 1 \in 0..n
    BY <1>0
  <2> QED
    BY <1>4, <1>5, <2>1
<1>7. f = [i \in 0..n |-> IF i = 0 THEN 0 ELSE WalkNext(file, i, f[i - 1])]
  <2> HIDE DEF step, T
  <2> QED
    BY <1>0, <1>2, <1>3, <1>6
<1> QED
  BY <1>7 DEF Walks

LEMMA WalkIs ==
  ASSUME NEW file \in RegionFile, file.count <= Len(file.rows)
  PROVE  /\ Walk(file)[0] = 0
         /\ \A i \in 0..file.count : WalkFits(file, i, Walk(file)[i])
         /\ \A i \in 1..file.count : Walk(file)[i] = WalkNext(file, i, Walk(file)[i - 1])
<1>1. Walk(file) = CHOOSE f : Walks(f, file)
  BY Zenon DEF Walk, Walks, WalkNext
<1> DEFINE f == Walk(file)
<1>2. Walks(f, file)
  <2> HIDE DEF f
  <2>1. f = CHOOSE g : Walks(g, file)
    BY <1>1 DEF f
  <2> QED
    BY <2>1, WalkExists
<1>0. file.count \in Nat
  BY FileType
<1> HIDE DEF f
<1>3. f[0] = 0 /\ \A i \in 1..file.count : f[i] = WalkNext(file, i, f[i - 1])
  BY <1>0, <1>2 DEF Walks
<1>4. \A i \in 0..file.count : WalkFits(file, i, f[i])
  BY <1>3, WalkStays
<1> QED
  BY <1>3, <1>4 DEF f

\* A file whose rows are all taken, with nothing after them.
Whole(file) == file \in RegionFile /\ Parse(file) # Refused /\ Parse(file).trailing = 0

\* What the walk has taken after each root.
Takes(taken, file) ==
  /\ taken[0] = 0 /\ taken[file.count] = Len(file.rows)
  /\ \A i \in 0..file.count : taken[i] \in Nat
  /\ \A i \in 1..file.count :
       /\ taken[i - 1] + 1 \in 1..Len(file.rows)
       /\ taken[i] = taken[i - 1] + 1 + file.rows[taken[i - 1] + 1].word0c

LEMMA WholeTakes ==
  ASSUME NEW file, Whole(file)
  PROVE  Takes(Walk(file), file) /\ file.tail = 0
<1> DEFINE n == file.count
           taken == Walk(file)
<1>0. file \in RegionFile /\ n \in Nat /\ Len(file.rows) \in Nat /\ file.tail \in Nat
  BY FileType DEF Whole
<1>1. n <= Len(file.rows) /\ taken[n] # Refused /\ Length(file) - taken[n] = 0
  <2>1. ~(file.count > Len(file.rows) \/ Walk(file)[file.count] = Refused)
    BY DEF Whole, Parse
  <2>2. Parse(file).trailing = Length(file) - Walk(file)[file.count]
    BY <2>1 DEF Parse
  <2> QED
    BY <1>0, <2>1, <2>2 DEF Whole
<1>2. /\ taken[0] = 0
      /\ \A i \in 0..n : WalkFits(file, i, taken[i])
      /\ \A i \in 1..n : taken[i] = WalkNext(file, i, taken[i - 1])
  BY <1>0, <1>1, WalkIs
<1> HIDE DEF n, taken
<1>3. ASSUME NEW i \in 0..n PROVE taken[i] # Refused
  <2> SUFFICES ASSUME taken[i] = Refused PROVE FALSE
    OBVIOUS
  <2> DEFINE S == {j \in 0..n : j < i \/ taken[j] = Refused}
  <2>1. 0 \in S
    BY <1>0
  <2>2. ASSUME NEW k \in 1..n, k - 1 \in S PROVE k \in S
    <3>1. CASE k - 1 < i /\ k # i
      BY <3>1, <1>0
    <3>2. CASE k = i
      BY <3>2
    <3>3. CASE taken[k - 1] = Refused
      BY <3>3, <1>2 DEF WalkNext
    <3> QED
      BY <2>2, <3>1, <3>2, <3>3
  <2>3. 0..n \subseteq S
    <3> HIDE DEF S
    <3> QED
      BY <1>0, <2>1, <2>2, StepsTo
  <2> QED
    BY <1>0, <1>1, <2>3
<1>4. \A i \in 0..n : taken[i] \in Nat /\ taken[i] + (n - i) <= Len(file.rows)
  BY <1>2, <1>3 DEF WalkFits, n
<1>5. ASSUME NEW i \in 1..n
      PROVE  /\ taken[i - 1] + 1 \in 1..Len(file.rows)
             /\ taken[i] = taken[i - 1] + 1 + file.rows[taken[i - 1] + 1].word0c
  <2>1. i \in 0..n /\ i - 1 \in 0..n
    BY <1>0
  <2>2. WalkNext(file, i, taken[i - 1]) # Refused
    BY <1>2, <1>3, <2>1
  <2> QED
    BY <1>0, <1>2, <2>1, <2>2, WalkNextFits DEF n
<1>6. taken[n] = Len(file.rows) /\ file.tail = 0
  <2>1. taken[n] \in Nat /\ taken[n] <= Len(file.rows)
    BY <1>0, <1>4
  <2>2. (Len(file.rows) + file.tail) - taken[n] = 0
    BY <1>1 DEF Length
  <2> HIDE DEF taken
  <2> QED
    BY <1>0, <2>1, <2>2
<1> QED
  BY <1>2, <1>4, <1>5, <1>6 DEF Takes, n, taken

\* The table of such a file: its roots, and where they are.
LEMMA WholeTable ==
  ASSUME NEW file, Whole(file)
  PROVE  /\ Parse(file).rows = file.rows /\ Parse(file).size = file.size
         /\ Parse(file).roots = [r \in 1..file.count |-> Walk(file)[r - 1] + 1]
         /\ Len(Parse(file).roots) = file.count
<1>1. ~(file.count > Len(file.rows) \/ Walk(file)[file.count] = Refused)
  BY DEF Whole, Parse
<1>2. /\ Parse(file).rows = SubSeq(file.rows, 1, Walk(file)[file.count])
      /\ Parse(file).size = file.size
      /\ Parse(file).roots = [r \in 1..file.count |-> Walk(file)[r - 1] + 1]
  BY <1>1 DEF Parse
<1>3. file.rows \in Seq(RowRecord) /\ file.count \in Nat
  BY FileType DEF Whole
<1>4. SubSeq(file.rows, 1, Walk(file)[file.count]) = file.rows
  <2>1. Walk(file)[file.count] = Len(file.rows)
    BY WholeTakes DEF Takes
  <2> QED
    BY <1>3, <2>1
<1>5. Len(Parse(file).roots) = file.count
  <2> DEFINE at(r) == Walk(file)[r - 1] + 1
  <2> HIDE DEF at
  <2>1. Len([r \in 1..file.count |-> at(r)]) = file.count
    BY <1>3
  <2> QED
    BY <1>2, <2>1 DEF at
<1> QED
  BY <1>2, <1>4, <1>5

LEMMA TakesGrows ==
  ASSUME NEW file, Whole(file)
  PROVE  \A i, j \in 0..file.count : i <= j => Walk(file)[i] <= Walk(file)[j]
<1> DEFINE taken == Walk(file)
           n == file.count
           S == {j \in 0..n : \A i \in 0..j : taken[i] <= taken[j]}
<1>0. n \in Nat /\ \A k \in 1..Len(file.rows) : file.rows[k].word0c \in Nat
  BY FileType DEF Whole
<1>1. Takes(taken, file)
  BY WholeTakes
<1> HIDE DEF taken
<1>2. 0 \in S
  BY <1>0, <1>1 DEF Takes
<1>3. ASSUME NEW k \in 1..n, k - 1 \in S PROVE k \in S
  <2>1. taken[k - 1] <= taken[k] /\ taken[k] \in Nat /\ taken[k - 1] \in Nat
    <3>1. taken[k] \in Nat /\ taken[k - 1] \in Nat
      BY <1>0, <1>1 DEF Takes
    <3>2. taken[k] = taken[k - 1] + 1 + file.rows[taken[k - 1] + 1].word0c /\ file.rows[taken[k - 1] + 1].word0c \in Nat
      BY <1>0, <1>1 DEF Takes
    <3> DEFINE children == file.rows[taken[k - 1] + 1].word0c
    <3> HIDE DEF children
    <3>3. taken[k] = taken[k - 1] + 1 + children /\ children \in Nat
      BY <3>2 DEF children
    <3> QED
      BY <3>1, <3>3
  <2>2. ASSUME NEW i \in 0..k PROVE taken[i] <= taken[k]
    <3>1. CASE i = k
      BY <3>1, <2>1
    <3>2. CASE i # k
      <4>1. i \in 0..(k - 1)
        BY <3>2
      <4>2. taken[i] <= taken[k - 1]
        BY <1>3, <4>1
      <4>3. taken[i] \in Nat
        BY <1>0, <1>1 DEF Takes
      <4> QED
        BY <2>1, <4>2, <4>3
    <3> QED
      BY <3>1, <3>2
  <2> QED
    BY <1>0, <2>2
<1>4. 0..n \subseteq S
  <2> HIDE DEF S
  <2> QED
    BY <1>0, <1>2, <1>3, StepsTo
<1>5. ASSUME NEW i \in 0..n, NEW j \in 0..n, i <= j PROVE taken[i] <= taken[j]
  BY <1>0, <1>4, <1>5
<1> QED
  BY <1>5 DEF taken

\* The rows of the table are those of its roots, one after the other.
Counted(table) ==
  /\ table.rows \in Seq(RowRecord)
  /\ Len(table.roots) \in Nat /\ DOMAIN table.roots = 1..Len(table.roots)
  /\ \A r \in DOMAIN table.roots :
       /\ table.roots[r] \in 1..Len(table.rows)
       /\ Root(table, r).word0c \in Nat
       /\ table.roots[r] + Root(table, r).word0c <= Len(table.rows)
       /\ \A s \in DOMAIN table.roots : r < s => table.roots[r] + Root(table, r).word0c < table.roots[s]

LEMMA WholeIsCounted ==
  ASSUME NEW file, Whole(file)
  PROVE  Counted(Parse(file))
<1> DEFINE taken == Walk(file)
           n == file.count
           table == Parse(file)
<1>0. n \in Nat /\ file.rows \in Seq(RowRecord) /\ \A k \in 1..Len(file.rows) : file.rows[k].word0c \in Nat
  BY FileType DEF Whole
<1>1. Takes(taken, file) /\ \A i, j \in 0..n : i <= j => taken[i] <= taken[j]
  BY WholeTakes, TakesGrows
<1>2. table.rows = file.rows /\ table.roots = [r \in 1..n |-> taken[r - 1] + 1] /\ Len(table.roots) = n
  BY WholeTable
<1> HIDE DEF taken, table
<1>3. DOMAIN table.roots = 1..n
  BY <1>2
<1>4. ASSUME NEW r \in 1..n
      PROVE  /\ table.roots[r] \in 1..Len(table.rows)
             /\ Root(table, r).word0c \in Nat
             /\ table.roots[r] + Root(table, r).word0c = taken[r]
             /\ taken[r] \in Nat /\ taken[r] <= Len(table.rows)
  <2>1. table.roots[r] = taken[r - 1] + 1
    BY <1>2
  <2>2. /\ taken[r - 1] + 1 \in 1..Len(file.rows)
        /\ taken[r] = taken[r - 1] + 1 + file.rows[taken[r - 1] + 1].word0c
    BY <1>1 DEF Takes
  <2>3. r \in 0..n /\ n \in 0..n
    BY <1>0
  <2>4. taken[r] <= taken[n] /\ taken[r] \in Nat
    BY <1>0, <1>1, <2>3 DEF Takes
  <2>5. taken[n] = Len(file.rows)
    BY <1>1 DEF Takes
  <2> QED
    BY <1>0, <1>2, <2>1, <2>2, <2>4, <2>5 DEF Root
<1>5. ASSUME NEW r \in 1..n, NEW s \in 1..n, r < s
      PROVE  table.roots[r] + Root(table, r).word0c < table.roots[s]
  <2>1. r \in 0..n /\ s - 1 \in 0..n /\ r <= s - 1
    BY <1>0, <1>5
  <2>2. taken[r] <= taken[s - 1] /\ taken[r] \in Nat /\ taken[s - 1] \in Nat
    BY <1>1, <2>1 DEF Takes
  <2>3. table.roots[s] = taken[s - 1] + 1 /\ table.roots[r] + Root(table, r).word0c = taken[r]
    BY <1>2, <1>4
  <2> QED
    BY <2>2, <2>3
<1>6. ASSUME NEW r \in 1..n PROVE table.roots[r] + Root(table, r).word0c <= Len(table.rows)
  BY <1>4
<1>7. table.rows \in Seq(RowRecord) /\ Len(table.roots) \in Nat /\ DOMAIN table.roots = 1..Len(table.roots)
  BY <1>0, <1>2, <1>3
<1> QED
  BY <1>3, <1>4, <1>5, <1>6, <1>7 DEF Counted, table

-------------------------------------------------------------------------------
(* A catalog with a root more. *)

\* The rows of the old file come first, and the walk over them is what it was.
LEMMA WalkExtends ==
  ASSUME NEW input, NEW output, Whole(input), Whole(output),
         output.count = input.count + 1, Len(input.rows) <= Len(output.rows),
         \A k \in 1..Len(input.rows) : output.rows[k] = input.rows[k]
  PROVE  \A i \in 0..input.count : Walk(output)[i] = Walk(input)[i]
<1> DEFINE f == Walk(input)
           g == Walk(output)
           n == input.count
           S == {i \in 0..n : g[i] = f[i]}
<1>0. n \in Nat
  BY FileType DEF Whole
<1>1. Takes(f, input) /\ Takes(g, output)
  BY WholeTakes
<1> HIDE DEF f, g
<1>2. 0 \in S
  BY <1>0, <1>1 DEF Takes
<1>3. ASSUME NEW k \in 1..n, k - 1 \in S PROVE k \in S
  <2>1. k \in 1..output.count /\ g[k - 1] = f[k - 1] /\ k \in 0..n
    BY <1>0, <1>3
  <2>2. f[k - 1] + 1 \in 1..Len(input.rows) /\ f[k] = f[k - 1] + 1 + input.rows[f[k - 1] + 1].word0c
    BY <1>1 DEF Takes
  <2>3. g[k] = g[k - 1] + 1 + output.rows[g[k - 1] + 1].word0c
    BY <1>1, <2>1 DEF Takes
  <2>4. output.rows[f[k - 1] + 1] = input.rows[f[k - 1] + 1]
    BY <2>2
  <2> QED
    BY <2>1, <2>2, <2>3, <2>4
<1>4. 0..n \subseteq S
  <2> HIDE DEF S
  <2> QED
    BY <1>0, <1>2, <1>3, StepsTo
<1> QED
  BY <1>4 DEF f, g

Extended(old, new) ==
  /\ Counted(old) /\ Counted(new)
  /\ Len(new.roots) = Len(old.roots) + 1
  /\ Len(old.rows) < Len(new.rows)
  /\ \A k \in 1..Len(old.rows) : new.rows[k] = old.rows[k]
  /\ \A r \in DOMAIN old.roots : new.roots[r] = old.roots[r]
  /\ new.roots[Len(new.roots)] = Len(old.rows) + 1

LEMMA TableExtends ==
  ASSUME NEW input, NEW output, Whole(input), Whole(output),
         output.count = input.count + 1, Len(input.rows) <= Len(output.rows),
         \A k \in 1..Len(input.rows) : output.rows[k] = input.rows[k]
  PROVE  Extended(Parse(input), Parse(output))
<1> DEFINE old == Parse(input)
           new == Parse(output)
           n == input.count
<1>0. n \in Nat /\ Len(input.rows) \in Nat /\ Len(output.rows) \in Nat
  BY FileType DEF Whole
<1>1. Counted(old) /\ Counted(new)
  BY WholeIsCounted
<1>2. /\ old.rows = input.rows /\ old.roots = [r \in 1..n |-> Walk(input)[r - 1] + 1] /\ Len(old.roots) = n
      /\ new.rows = output.rows /\ Len(new.roots) = n + 1
      /\ new.roots = [r \in 1..(n + 1) |-> Walk(output)[r - 1] + 1]
  BY WholeTable
<1>3. \A i \in 0..n : Walk(output)[i] = Walk(input)[i]
  BY WalkExtends
<1> HIDE DEF old, new
<1>4. ASSUME NEW r \in 1..n PROVE new.roots[r] = old.roots[r]
  <2>1. r - 1 \in 0..n /\ r \in 1..(n + 1)
    BY <1>0
  <2> QED
    BY <1>2, <1>3, <2>1
<1>5. new.roots[n + 1] = Len(old.rows) + 1
  <2>1. new.roots[n + 1] = Walk(output)[n] + 1
    BY <1>0, <1>2
  <2>2. Walk(output)[n] = Walk(input)[n]
    BY <1>0, <1>3
  <2>3. Walk(input)[n] = Len(input.rows)
    BY WholeTakes DEF Takes
  <2> QED
    BY <1>2, <2>1, <2>2, <2>3
<1>6. Len(old.rows) < Len(new.rows)
  <2>1. n + 1 \in DOMAIN new.roots
    BY <1>0, <1>2
  <2>2. new.roots[n + 1] \in 1..Len(new.rows)
    BY <1>1, <2>1 DEF Counted
  <2> QED
    BY <1>0, <1>2, <1>5, <2>2
<1>7. DOMAIN old.roots = 1..n
  BY <1>2
<1>8. \A k \in 1..Len(old.rows) : new.rows[k] = old.rows[k]
  BY <1>2
<1> QED
  BY <1>1, <1>2, <1>4, <1>5, <1>6, <1>7, <1>8 DEF Extended, old, new

\* The children of a root are rows of the table, and none of them is a root.
LEMMA ChildrenOf ==
  ASSUME NEW table, Counted(table), NEW r \in DOMAIN table.roots
  PROVE  /\ Children(table, r) \in Seq(RowRecord)
         /\ Len(Children(table, r)) = Root(table, r).word0c
         /\ \A c \in 1..Root(table, r).word0c :
              /\ table.roots[r] + c \in 1..Len(table.rows)
              /\ Children(table, r)[c] = table.rows[table.roots[r] + c]
              /\ \A s \in DOMAIN table.roots : table.roots[r] + c # table.roots[s]
<1> DEFINE at == table.roots[r]
           count == Root(table, r).word0c
           rows == table.rows
<1>1. /\ rows \in Seq(RowRecord) /\ Len(rows) \in Nat
      /\ at \in 1..Len(rows) /\ count \in Nat /\ at + count <= Len(rows)
  BY DEF Counted
<1>2. \A s \in DOMAIN table.roots :
        /\ table.roots[s] \in 1..Len(table.rows) /\ Root(table, s).word0c \in Nat
        /\ r < s => at + count < table.roots[s]
        /\ s < r => table.roots[s] + Root(table, s).word0c < at
  BY DEF Counted
<1>3. \A s \in DOMAIN table.roots : s \in Nat /\ r \in Nat
  BY DEF Counted
<1>4. Children(table, r) = SubSeq(rows, at + 1, at + count)
  BY DEF Children
<1> HIDE DEF at, count, rows
<1>5. /\ SubSeq(rows, at + 1, at + count) \in Seq(RowRecord)
      /\ Len(SubSeq(rows, at + 1, at + count)) = count
      /\ \A c \in 1..count : at + c \in 1..Len(rows) /\ SubSeq(rows, at + 1, at + count)[c] = rows[at + c]
  <2>1. SubSeq(rows, at + 1, at + count) = [c \in 1..((at + count) - (at + 1) + 1) |-> rows[at + 1 + c - 1]]
    BY <1>1 DEF SubSeq
  <2>2. (at + count) - (at + 1) + 1 = count
    BY <1>1
  <2>3. \A c \in 1..count : at + c \in 1..Len(rows) /\ at + 1 + c - 1 = at + c
    BY <1>1
  <2>4. SubSeq(rows, at + 1, at + count) = [c \in 1..count |-> rows[at + 1 + c - 1]]
    BY <2>1, <2>2
  <2>5. \A c \in 1..count : rows[at + c] \in RowRecord
    BY <1>1, <2>3
  <2>6. SubSeq(rows, at + 1, at + count) = [c \in 1..count |-> rows[at + c]]
    BY <2>3, <2>4
  <2> DEFINE children == [c \in 1..count |-> rows[at + c]]
  <2>7. children \in Seq(RowRecord) /\ Len(children) = count /\ \A c \in 1..count : children[c] = rows[at + c]
    BY <1>1, <2>5
  <2> HIDE DEF children
  <2> QED
    BY <2>3, <2>6, <2>7 DEF children
<1>6. ASSUME NEW c \in 1..count, NEW s \in DOMAIN table.roots PROVE at + c # table.roots[s]
  <2>1. CASE r < s
    BY <1>1, <1>2, <1>3, <2>1 DEF rows
  <2>2. CASE s < r
    BY <1>1, <1>2, <1>3, <2>2 DEF rows
  <2>3. CASE s = r
    BY <1>1, <2>3 DEF at
  <2> QED
    BY <1>3, <2>1, <2>2, <2>3
<1> QED
  BY <1>4, <1>5, <1>6 DEF at, count, rows

AuxiliaryFrom(argument, children) ==
  IF argument # 0 THEN [status |-> "nonzero-layout-argument", key |-> Absent]
  ELSE IF children = <<>> THEN [status |-> "no-children", key |-> Absent]
  ELSE IF \E i \in DOMAIN children : children[i].dat % Low = Low - 1
       THEN [status |-> "low-index-overflow", key |-> Absent]
  ELSE [status |-> "derived", key |-> Derive(children[1].dat, children)]

LEMMA AuxiliaryIs ==
  ASSUME NEW table, NEW r
  PROVE  AuxiliaryKey(table, r) = AuxiliaryFrom(Root(table, r).word20, Children(table, r))
BY Zenon DEF AuxiliaryKey, AuxiliaryFrom

LEMMA AuxiliaryForm ==
  ASSUME NEW table, NEW r \in DOMAIN table.roots
  PROVE  AuxiliaryKey(table, r).key \in Derived(table) \cup {Absent}
<1>1. AuxiliaryKey(table, r).status = "derived" \/ AuxiliaryKey(table, r).key = Absent
  BY AuxiliaryIs DEF AuxiliaryFrom
<1>2. AuxiliaryKey(table, r).status = "derived" => AuxiliaryKey(table, r).key \in Derived(table)
  BY DEF Derived
<1> QED
  BY <1>1, <1>2

\* The old roots are where they were, with the children that they had.
LEMMA OldRoots ==
  ASSUME NEW old, NEW new, Extended(old, new), NEW r \in DOMAIN old.roots
  PROVE  /\ r \in DOMAIN new.roots /\ r # Len(new.roots) /\ new.roots[r] = old.roots[r]
         /\ Root(new, r) = Root(old, r) /\ Children(new, r) = Children(old, r)
         /\ AuxiliaryKey(new, r) = AuxiliaryKey(old, r)
<1>1. /\ Counted(old) /\ Counted(new) /\ new.roots[r] = old.roots[r]
      /\ Len(new.roots) = Len(old.roots) + 1
      /\ \A k \in 1..Len(old.rows) : new.rows[k] = old.rows[k]
  BY DEF Extended
<1>2. r \in DOMAIN new.roots /\ r # Len(new.roots)
  BY <1>1 DEF Counted
<1>3. Root(new, r) = Root(old, r)
  BY <1>1 DEF Root, Counted
<1>4. Children(new, r) = Children(old, r)
  <2>1. /\ Children(old, r) \in Seq(RowRecord) /\ Children(new, r) \in Seq(RowRecord)
        /\ Len(Children(new, r)) = Len(Children(old, r))
    BY <1>1, <1>2, <1>3, ChildrenOf
  <2>2. ASSUME NEW c \in 1..Len(Children(old, r)) PROVE Children(new, r)[c] = Children(old, r)[c]
    <3>1. Children(old, r)[c] = old.rows[old.roots[r] + c] /\ old.roots[r] + c \in 1..Len(old.rows)
      BY <1>1, <2>2, ChildrenOf
    <3>2. Children(new, r)[c] = new.rows[new.roots[r] + c]
      BY <1>1, <1>2, <1>3, <2>1, <2>2, ChildrenOf
    <3> QED
      BY <1>1, <3>1, <3>2
  <2> DEFINE a == Children(old, r)
             b == Children(new, r)
  <2> HIDE DEF a, b
  <2>3. a \in Seq(RowRecord) /\ b \in Seq(RowRecord) /\ Len(b) = Len(a) /\ \A c \in 1..Len(a) : b[c] = a[c]
    BY <2>1, <2>2 DEF a, b
  <2>4. a = b
    BY <2>3
  <2> QED
    BY <2>4 DEF a, b
<1>5. AuxiliaryKey(new, r) = AuxiliaryKey(old, r)
  BY <1>3, <1>4, AuxiliaryIs
<1> QED
  BY <1>1, <1>2, <1>3, <1>4, <1>5

LEMMA NewRoots ==
  ASSUME NEW old, NEW new, Extended(old, new)
  PROVE  /\ Len(old.rows) \in Nat /\ Len(new.rows) \in Nat
         /\ DOMAIN old.rows = 1..Len(old.rows) /\ DOMAIN new.rows = 1..Len(new.rows)
         /\ DOMAIN new.roots = DOMAIN old.roots \cup {Len(new.roots)}
         /\ Len(new.roots) \notin DOMAIN old.roots
         /\ Len(old.rows) + 1 \in 1..Len(new.rows)
         /\ Root(new, Len(new.roots)) = new.rows[Len(old.rows) + 1]
<1>1. /\ old.rows \in Seq(RowRecord) /\ Len(old.roots) \in Nat /\ DOMAIN old.roots = 1..Len(old.roots)
      /\ new.rows \in Seq(RowRecord) /\ DOMAIN new.roots = 1..Len(new.roots)
      /\ Len(new.roots) = Len(old.roots) + 1 /\ Len(old.rows) < Len(new.rows)
      /\ new.roots[Len(new.roots)] = Len(old.rows) + 1
  BY DEF Extended, Counted
<1>2. 1..(Len(old.roots) + 1) = (1..Len(old.roots)) \cup {Len(old.roots) + 1} /\ Len(old.roots) + 1 \notin 1..Len(old.roots)
  BY <1>1
<1>3. Len(old.rows) + 1 \in 1..Len(new.rows)
  BY <1>1
<1> QED
  BY <1>1, <1>2, <1>3 DEF Root

\* A root with the key, the names, the resource and the auxiliary key it was given.
HoldsAt(table, add, auxiliary, r) ==
  LET at == table.roots[r]
  IN /\ add.resource \in Int /\ auxiliary \in Int
     /\ \A s \in DOMAIN table.roots : (Root(table, s).id = add.rootKey) <=> (s = r)
     /\ Root(table, r).word0c >= 1 /\ ~Scenery(table.rows[at + 1])
     /\ AuxiliaryKey(table, r) = [status |-> "derived", key |-> auxiliary]
     /\ \A s \in DOMAIN table.roots : s # r => AuxiliaryKey(table, s).key \notin {add.resource, auxiliary}
     /\ \A k \in DOMAIN table.rows :
          /\ (table.rows[k].name = add.rootName) <=> (k = at)
          /\ (table.rows[k].name = add.childName) <=> (k = at + 1)
          /\ (table.rows[k].dat = add.resource) <=> (k = at + 1)
          /\ table.rows[k].dat # auxiliary

Holds(table, add, auxiliary) == \E r \in DOMAIN table.roots : HoldsAt(table, add, auxiliary, r)

\* What an accepted addition makes of a table.
FreshNames(old, add) ==
  /\ add.rootName # add.childName
  /\ \A k \in DOMAIN old.rows : old.rows[k].name # add.rootName /\ old.rows[k].name # add.childName
FreshKeys(old, add, auxiliary) ==
  /\ add.resource \in Int /\ auxiliary \in Int /\ add.resource # auxiliary
  /\ \A k \in DOMAIN old.rows : old.rows[k].dat # add.resource /\ old.rows[k].dat # auxiliary
  /\ add.resource \notin Derived(old) /\ auxiliary \notin Derived(old)
  /\ \A s \in DOMAIN old.roots : Root(old, s).id # add.rootKey
NewRows(old, new, add, auxiliary) ==
  LET at == Len(old.rows) + 1
      last == Len(new.roots)
  IN /\ Root(new, last).id = add.rootKey /\ new.rows[at].name = add.rootName /\ Root(new, last).word0c >= 1
     /\ \E t \in DOMAIN old.roots : new.rows[at].dat = Root(old, t).dat
     /\ new.rows[at + 1].name = add.childName /\ new.rows[at + 1].dat = add.resource
     /\ ~Scenery(new.rows[at + 1])
     /\ AuxiliaryKey(new, last) = [status |-> "derived", key |-> auxiliary]
     /\ \A k \in (at + 2)..Len(new.rows) :
          /\ Scenery(new.rows[k])
          /\ \E j \in DOMAIN old.rows : new.rows[k] = old.rows[j] /\ \A s \in DOMAIN old.roots : j # old.roots[s]

Registers(old, new, add, auxiliary) ==
  /\ Extended(old, new) /\ FreshNames(old, add) /\ FreshKeys(old, add, auxiliary)
  /\ NewRows(old, new, add, auxiliary)

\* Each row of the new table is an old one, the new root, its child, or a copy of scenery.
LEMMA RowCases ==
  ASSUME NEW old, NEW new, Extended(old, new), NEW k \in DOMAIN new.rows
  PROVE  \/ k \in DOMAIN old.rows /\ new.rows[k] = old.rows[k] /\ k # Len(old.rows) + 1 /\ k # Len(old.rows) + 2
         \/ k = Len(old.rows) + 1 /\ k \notin DOMAIN old.rows
         \/ k = (Len(old.rows) + 1) + 1 /\ k \notin DOMAIN old.rows
         \/ k \in ((Len(old.rows) + 1) + 2)..Len(new.rows) /\ k \notin DOMAIN old.rows
<1>1. /\ Len(old.rows) \in Nat /\ Len(new.rows) \in Nat
      /\ DOMAIN old.rows = 1..Len(old.rows) /\ DOMAIN new.rows = 1..Len(new.rows)
  BY NewRoots
<1>2. k \in 1..Len(old.rows) => new.rows[k] = old.rows[k]
  BY DEF Extended
<1> QED
  BY <1>1, <1>2

\* What was registered stays registered.
LEMMA GrowKeeps ==
  ASSUME NEW old, NEW new, NEW add, NEW auxiliary, Registers(old, new, add, auxiliary),
         NEW a, NEW x, Holds(old, a, x)
  PROVE  Holds(new, a, x)
<1>0. /\ Extended(old, new) /\ Counted(old) /\ FreshNames(old, add) /\ FreshKeys(old, add, auxiliary)
      /\ NewRows(old, new, add, auxiliary)
  BY DEF Registers, Extended
<1>1. PICK r \in DOMAIN old.roots : HoldsAt(old, a, x, r)
  BY DEF Holds
<1> DEFINE at == old.roots[r]
           fresh == Len(old.rows) + 1
           last == Len(new.roots)
<1>2. /\ r \in DOMAIN new.roots /\ new.roots[r] = at
      /\ Root(new, r) = Root(old, r) /\ AuxiliaryKey(new, r) = AuxiliaryKey(old, r)
  BY <1>0, OldRoots
<1>3. /\ a.resource \in Int /\ x \in Int
      /\ \A s \in DOMAIN old.roots : (Root(old, s).id = a.rootKey) <=> (s = r)
      /\ Root(old, r).word0c >= 1 /\ ~Scenery(old.rows[at + 1])
      /\ AuxiliaryKey(old, r) = [status |-> "derived", key |-> x]
      /\ \A s \in DOMAIN old.roots : s # r => AuxiliaryKey(old, s).key \notin {a.resource, x}
      /\ \A k \in DOMAIN old.rows :
           /\ (old.rows[k].name = a.rootName) <=> (k = at)
           /\ (old.rows[k].name = a.childName) <=> (k = at + 1)
           /\ (old.rows[k].dat = a.resource) <=> (k = at + 1)
           /\ old.rows[k].dat # x
  BY <1>1 DEF HoldsAt
<1>4. /\ at \in DOMAIN old.rows /\ at + 1 \in DOMAIN old.rows
      /\ \A s \in DOMAIN old.roots : at + 1 # old.roots[s] /\ old.roots[s] \in DOMAIN old.rows
  <2>1. /\ at \in 1..Len(old.rows) /\ Root(old, r).word0c \in Nat
        /\ \A s \in DOMAIN old.roots : old.roots[s] \in 1..Len(old.rows)
    BY <1>0 DEF Counted
  <2>2. 1 \in 1..Root(old, r).word0c
    BY <1>3, <2>1
  <2>3. at + 1 \in 1..Len(old.rows) /\ \A s \in DOMAIN old.roots : at + 1 # old.roots[s]
    BY <1>0, <2>2, ChildrenOf
  <2> QED
    BY <1>0, <2>1, <2>3, NewRoots
<1>5. /\ a.rootName # add.rootName /\ a.rootName # add.childName
      /\ a.childName # add.rootName /\ a.childName # add.childName
      /\ a.resource # add.resource /\ a.resource # auxiliary /\ a.rootKey # add.rootKey
      /\ x # add.resource /\ x # auxiliary
  <2>1. /\ a.rootName = old.rows[at].name /\ a.childName = old.rows[at + 1].name
        /\ a.resource = old.rows[at + 1].dat
    BY <1>3, <1>4
  <2>2. x \in Derived(old)
    BY <1>3 DEF Derived
  <2>3. Root(old, r).id = a.rootKey
    BY <1>3
  <2> QED
    BY <1>0, <1>4, <2>1, <2>2, <2>3 DEF FreshNames, FreshKeys
<1>6. ASSUME NEW s \in DOMAIN new.roots
      PROVE  /\ (Root(new, s).id = a.rootKey) <=> (s = r)
             /\ s # r => AuxiliaryKey(new, s).key \notin {a.resource, x}
  <2>1. CASE s \in DOMAIN old.roots
    <3>1. Root(new, s) = Root(old, s) /\ AuxiliaryKey(new, s) = AuxiliaryKey(old, s)
      BY <1>0, <2>1, OldRoots
    <3> QED
      BY <1>3, <2>1, <3>1
  <2>2. CASE s = last
    <3>1. Root(new, s).id = add.rootKey /\ AuxiliaryKey(new, s).key = auxiliary
      BY <1>0, <2>2 DEF NewRows
    <3>2. s # r
      BY <1>0, <2>2, NewRoots
    <3> QED
      BY <1>5, <3>1, <3>2
  <2> QED
    BY <1>0, <2>1, <2>2, NewRoots
<1>7. ASSUME NEW k \in DOMAIN new.rows
      PROVE  /\ (new.rows[k].name = a.rootName) <=> (k = at)
             /\ (new.rows[k].name = a.childName) <=> (k = at + 1)
             /\ (new.rows[k].dat = a.resource) <=> (k = at + 1)
             /\ new.rows[k].dat # x
  <2>1. CASE k \in DOMAIN old.rows /\ new.rows[k] = old.rows[k]
    BY <1>3, <2>1
  <2>2. CASE k = fresh /\ k \notin DOMAIN old.rows
    <3>1. PICK t \in DOMAIN old.roots : new.rows[k].dat = Root(old, t).dat
      BY <1>0, <2>2 DEF NewRows
    <3>2. new.rows[k].dat = old.rows[old.roots[t]].dat /\ old.roots[t] \in DOMAIN old.rows /\ old.roots[t] # at + 1
      BY <1>4, <3>1 DEF Root
    <3>3. new.rows[k].name = add.rootName
      BY <1>0, <2>2 DEF NewRows
    <3>4. k # at /\ k # at + 1
      BY <1>4, <2>2
    <3> QED
      BY <1>3, <1>5, <3>2, <3>3, <3>4
  <2>3. CASE k = fresh + 1 /\ k \notin DOMAIN old.rows
    <3>1. new.rows[k].name = add.childName /\ new.rows[k].dat = add.resource
      BY <1>0, <2>3 DEF NewRows
    <3>2. k # at /\ k # at + 1
      BY <1>4, <2>3
    <3> QED
      BY <1>5, <3>1, <3>2
  <2>4. CASE k \in (fresh + 2)..Len(new.rows) /\ k \notin DOMAIN old.rows
    <3>1. PICK j \in DOMAIN old.rows : new.rows[k] = old.rows[j] /\ \A s \in DOMAIN old.roots : j # old.roots[s]
      BY <1>0, <2>4 DEF NewRows
    <3>2. Scenery(new.rows[k])
      BY <1>0, <2>4 DEF NewRows
    <3>3. j # at /\ j # at + 1
      BY <1>3, <3>1, <3>2
    <3>4. k # at /\ k # at + 1
      BY <1>4, <2>4
    <3> QED
      BY <1>3, <3>1, <3>3, <3>4
  <2> QED
    BY <1>0, <2>1, <2>2, <2>3, <2>4, RowCases
<1>8. ~Scenery(new.rows[at + 1])
  <2>1. new.rows[at + 1] = old.rows[at + 1]
    BY <1>0, <1>4, NewRoots DEF Extended
  <2> QED
    BY <1>3, <2>1
<1>9. HoldsAt(new, a, x, r)
  BY <1>2, <1>3, <1>6, <1>7, <1>8 DEF HoldsAt
<1> QED
  BY <1>2, <1>9 DEF Holds

\* The new root is registered.
LEMMA GrowGives ==
  ASSUME NEW old, NEW new, NEW add, NEW auxiliary, Registers(old, new, add, auxiliary)
  PROVE  Holds(new, add, auxiliary)
<1>0. /\ Extended(old, new) /\ FreshNames(old, add) /\ FreshKeys(old, add, auxiliary)
      /\ NewRows(old, new, add, auxiliary)
  BY DEF Registers
<1> DEFINE at == Len(old.rows) + 1
           last == Len(new.roots)
<1>1. new.roots[last] = at /\ Root(new, last) = new.rows[at] /\ last \in DOMAIN new.roots
  BY <1>0, NewRoots DEF Extended
<1>2. /\ add.resource \in Int /\ auxiliary \in Int /\ add.resource # auxiliary /\ add.rootName # add.childName
  BY <1>0 DEF FreshKeys, FreshNames
<1>3. /\ Root(new, last).id = add.rootKey /\ new.rows[at].name = add.rootName /\ Root(new, last).word0c >= 1
      /\ new.rows[at + 1].name = add.childName /\ new.rows[at + 1].dat = add.resource
      /\ ~Scenery(new.rows[at + 1])
      /\ AuxiliaryKey(new, last) = [status |-> "derived", key |-> auxiliary]
  BY <1>0 DEF NewRows
<1>4. ASSUME NEW s \in DOMAIN new.roots
      PROVE  /\ (Root(new, s).id = add.rootKey) <=> (s = last)
             /\ s # last => AuxiliaryKey(new, s).key \notin {add.resource, auxiliary}
  <2>1. CASE s \in DOMAIN old.roots
    <3>1. Root(new, s) = Root(old, s) /\ AuxiliaryKey(new, s) = AuxiliaryKey(old, s) /\ s # last
      BY <1>0, <2>1, OldRoots
    <3>2. AuxiliaryKey(old, s).key \in Derived(old) \cup {Absent}
      BY <2>1, AuxiliaryForm
    <3>3. Root(old, s).id # add.rootKey /\ add.resource \notin Derived(old) /\ auxiliary \notin Derived(old)
      BY <1>0, <2>1 DEF FreshKeys
    <3>4. add.resource # Absent /\ auxiliary # Absent
      BY <1>2, KeysAssumption
    <3> QED
      BY <3>1, <3>2, <3>3, <3>4
  <2>2. CASE s = last
    BY <1>3, <2>2
  <2> QED
    BY <1>0, <2>1, <2>2, NewRoots
<1>5. Len(old.rows) \in Nat /\ \A k \in DOMAIN old.rows : k # at /\ k # at + 1
  BY <1>0, NewRoots
<1>6. ASSUME NEW k \in DOMAIN old.rows
      PROVE  /\ old.rows[k].name # add.rootName /\ old.rows[k].name # add.childName
             /\ old.rows[k].dat # add.resource /\ old.rows[k].dat # auxiliary
  BY <1>0 DEF FreshKeys, FreshNames
<1>7. ASSUME NEW k \in DOMAIN new.rows
      PROVE  /\ (new.rows[k].name = add.rootName) <=> (k = at)
             /\ (new.rows[k].name = add.childName) <=> (k = at + 1)
             /\ (new.rows[k].dat = add.resource) <=> (k = at + 1)
             /\ new.rows[k].dat # auxiliary
  <2>1. CASE k \in DOMAIN old.rows /\ new.rows[k] = old.rows[k]
    BY <1>5, <1>6, <2>1
  <2>2. CASE k = at
    <3>1. PICK t \in DOMAIN old.roots : new.rows[k].dat = Root(old, t).dat
      BY <1>0, <2>2 DEF NewRows
    <3>2. old.roots[t] \in DOMAIN old.rows
      BY <1>0, NewRoots DEF Extended, Counted
    <3>3. new.rows[k].dat # add.resource /\ new.rows[k].dat # auxiliary
      BY <1>6, <3>1, <3>2 DEF Root
    <3>4. k # at + 1
      BY <1>5, <2>2
    <3> QED
      BY <1>2, <1>3, <2>2, <3>3, <3>4
  <2>3. CASE k = at + 1
    <3>1. k # at
      BY <1>5, <2>3
    <3> QED
      BY <1>2, <1>3, <2>3, <3>1
  <2>4. CASE k \in (at + 2)..Len(new.rows) /\ k \notin DOMAIN old.rows
    <3>1. PICK j \in DOMAIN old.rows : new.rows[k] = old.rows[j]
      BY <1>0, <2>4 DEF NewRows
    <3>2. k # at /\ k # at + 1
      BY <1>5, <2>4
    <3> QED
      BY <1>6, <3>1, <3>2
  <2> QED
    BY <1>0, <2>1, <2>2, <2>3, <2>4, RowCases
<1>8. HoldsAt(new, add, auxiliary, last)
  BY <1>1, <1>2, <1>3, <1>4, <1>7 DEF HoldsAt
<1> QED
  BY <1>1, <1>8 DEF Holds

-------------------------------------------------------------------------------
(* append_region_root. *)

SceneryUpTo(f, rows) ==
  f = [i \in 0..Len(rows) |-> IF i = 0 THEN <<>>
                              ELSE IF Scenery(rows[i]) THEN Append(f[i - 1], rows[i]) ELSE f[i - 1]]

LEMMA SceneryExists ==
  ASSUME NEW rows \in Seq(RowRecord)
  PROVE  \E f : SceneryUpTo(f, rows)
<1> DEFINE T == Seq(RowRecord)
           n == Len(rows)
           empty == <<>>
           step == [pair \in (1..n) \X T |->
                      IF Scenery(rows[pair[1]]) THEN Append(pair[2], rows[pair[1]]) ELSE pair[2]]
<1>0. n \in Nat /\ empty \in T
  OBVIOUS
<1>1. step \in [(1..n) \X T -> T]
  <2>1. ASSUME NEW i \in 1..n, NEW taken \in T PROVE Append(taken, rows[i]) \in T
    OBVIOUS
  <2> HIDE DEF T, n
  <2>2. ASSUME NEW pair \in (1..n) \X T
        PROVE  (IF Scenery(rows[pair[1]]) THEN Append(pair[2], rows[pair[1]]) ELSE pair[2]) \in T
    BY <2>1
  <2> QED
    BY <2>2
<1>2. PICK f \in [0..n -> T] : Iterates(f, n, empty, step)
  <2> HIDE DEF T, n, empty, step
  <2> QED
    BY <1>0, <1>1, IterationExists
<1> HIDE DEF T
<1>3. ASSUME NEW i \in 1..n
      PROVE  f[i] = IF Scenery(rows[i]) THEN Append(f[i - 1], rows[i]) ELSE f[i - 1]
  <2>1. f[i - 1] \in T /\ <<i, f[i - 1]>> \in (1..n) \X T
    BY <1>0, <1>2, SMTT(20)
  <2>2. step[<<i, f[i - 1]>>] = IF Scenery(rows[i]) THEN Append(f[i - 1], rows[i]) ELSE f[i - 1]
    BY <2>1
  <2>3. f[i] = step[<<i, f[i - 1]>>]
    <3> HIDE DEF step
    <3> QED
      BY <1>2 DEF Iterates
  <2> QED
    BY <2>2, <2>3
<1>4. f = [i \in 0..n |-> IF i = 0 THEN <<>>
                          ELSE IF Scenery(rows[i]) THEN Append(f[i - 1], rows[i]) ELSE f[i - 1]]
  <2>1. f[0] = <<>>
    <3> HIDE DEF step
    <3> QED
      BY <1>2 DEF Iterates
  <2> HIDE DEF step
  <2> QED
    BY <1>0, <1>2, <1>3, <2>1
<1> QED
  BY <1>4 DEF SceneryUpTo

\* Copies of rows of the sequence, each of them of the weather or the sky.
Copies(copied, rows) ==
  /\ copied \in Seq(RowRecord)
  /\ \A k \in 1..Len(copied) : Scenery(copied[k]) /\ \E i \in 1..Len(rows) : copied[k] = rows[i]

LEMMA SceneryCopies ==
  ASSUME NEW rows \in Seq(RowRecord)
  PROVE  Copies(SceneryOf(rows), rows)
<1> DEFINE n == Len(rows)
<1>1. PICK f : f = (CHOOSE g : SceneryUpTo(g, rows)) /\ SceneryOf(rows) = f[n]
  BY Zenon DEF SceneryOf, SceneryUpTo
<1>2. SceneryUpTo(f, rows)
  BY <1>1, SceneryExists
<1> DEFINE S == {i \in 0..n : Copies(f[i], rows)}
<1>3. n \in Nat /\ f[0] = <<>> /\ \A i \in 1..n : f[i] = IF Scenery(rows[i]) THEN Append(f[i - 1], rows[i]) ELSE f[i - 1]
  <2>0. n \in Nat
    OBVIOUS
  <2> HIDE DEF n
  <2>1. f = [i \in 0..n |-> IF i = 0 THEN <<>>
                           ELSE IF Scenery(rows[i]) THEN Append(f[i - 1], rows[i]) ELSE f[i - 1]]
    BY <1>2 DEF SceneryUpTo, n
  <2>2. ASSUME NEW i \in 1..n
        PROVE  f[i] = IF Scenery(rows[i]) THEN Append(f[i - 1], rows[i]) ELSE f[i - 1]
    <3>1. i \in 0..n /\ i # 0
      BY <2>0
    <3> QED
      BY <2>1, <3>1
  <2>3. f[0] = <<>>
    <3>1. 0 \in 0..n
      BY <2>0
    <3> QED
      BY <2>1, <3>1
  <2> QED
    BY <2>0, <2>2, <2>3
<1>4. 0 \in S
  <2>1. Copies(<<>>, rows)
    BY DEF Copies
  <2> QED
    BY <1>3, <2>1
<1>5. ASSUME NEW k \in 1..n, k - 1 \in S PROVE k \in S
  <2>1. Copies(f[k - 1], rows) /\ rows[k] \in RowRecord /\ k \in 0..n
    BY <1>5
  <2>2. ASSUME NEW copied, Copies(copied, rows), Scenery(rows[k]) PROVE Copies(Append(copied, rows[k]), rows)
    <3>1. copied \in Seq(RowRecord) /\ Append(copied, rows[k]) \in Seq(RowRecord)
          /\ Len(Append(copied, rows[k])) = Len(copied) + 1
          /\ Len(copied) \in Nat
      BY <2>1, <2>2 DEF Copies
    <3>2. ASSUME NEW j \in 1..(Len(copied) + 1)
          PROVE  Scenery(Append(copied, rows[k])[j]) /\ \E i \in 1..n : Append(copied, rows[k])[j] = rows[i]
      <4>1. CASE j = Len(copied) + 1
        BY <2>1, <2>2, <3>1, <4>1
      <4>2. CASE j # Len(copied) + 1
        <5>1. j \in 1..Len(copied) /\ Append(copied, rows[k])[j] = copied[j]
          BY <3>1, <4>2
        <5> QED
          BY <2>2, <5>1 DEF Copies
      <4> QED
        BY <4>1, <4>2
    <3> QED
      BY <3>1, <3>2 DEF Copies
  <2> QED
    BY <1>3, <2>1, <2>2
<1>6. 0..n \subseteq S
  <2> HIDE DEF S
  <2> QED
    BY <1>3, <1>4, <1>5, StepsTo
<1> QED
  BY <1>1, <1>3, <1>6

LEMMA SomeRoot ==
  ASSUME NEW table, NEW key, Cardinality(RootsWith(table, key)) = 1
  PROVE  (CHOOSE r \in RootsWith(table, key) : TRUE) \in DOMAIN table.roots
<1>1. RootsWith(table, key) # {}
  BY FS_EmptySet
<1> QED
  BY <1>1 DEF RootsWith

\* What is copied from another root: scenery, from among the children of a root.
CopiedFrom(table, environment) ==
  /\ environment \in Seq(RowRecord)
  /\ \A k \in 1..Len(environment) :
       /\ Scenery(environment[k])
       /\ \E j \in DOMAIN table.rows :
            environment[k] = table.rows[j] /\ \A s \in DOMAIN table.roots : j # table.roots[s]

LEMMA EnvironmentCopies ==
  ASSUME NEW table, Counted(table), NEW key, Environment(table, key) # Refused
  PROVE  CopiedFrom(table, Environment(table, key))
<1>1. CASE key = Absent
  BY <1>1 DEF Environment, CopiedFrom
<1>2. CASE key # Absent
  <2> DEFINE r == CHOOSE s \in RootsWith(table, key) : TRUE
             rows == Children(table, r)
  <2>1. /\ Cardinality(RootsWith(table, key)) = 1
        /\ Environment(table, key) = SceneryOf(rows)
    BY <1>2, Zenon DEF Environment
  <2>2. r \in DOMAIN table.roots
    BY <2>1, SomeRoot
  <2> HIDE DEF r
  <2>3. /\ rows \in Seq(RowRecord) /\ Len(rows) = Root(table, r).word0c
        /\ \A c \in 1..Len(rows) :
             /\ table.roots[r] + c \in 1..Len(table.rows)
             /\ rows[c] = table.rows[table.roots[r] + c]
             /\ \A s \in DOMAIN table.roots : table.roots[r] + c # table.roots[s]
    BY <2>2, ChildrenOf
  <2> HIDE DEF rows
  <2>4. Copies(SceneryOf(rows), rows)
    BY <2>3, SceneryCopies
  <2>5. DOMAIN table.rows = 1..Len(table.rows)
    BY DEF Counted
  <2>6. ASSUME NEW k \in 1..Len(SceneryOf(rows))
        PROVE  /\ Scenery(SceneryOf(rows)[k])
               /\ \E j \in DOMAIN table.rows :
                    SceneryOf(rows)[k] = table.rows[j] /\ \A s \in DOMAIN table.roots : j # table.roots[s]
    <3>1. PICK i \in 1..Len(rows) : SceneryOf(rows)[k] = rows[i]
      BY <2>4 DEF Copies
    <3> DEFINE j == table.roots[r] + i
    <3>2. j \in DOMAIN table.rows /\ rows[i] = table.rows[j] /\ \A s \in DOMAIN table.roots : j # table.roots[s]
      BY <2>3, <2>5
    <3>3. Scenery(SceneryOf(rows)[k])
      BY <2>4 DEF Copies
    <3> HIDE DEF j
    <3> QED
      BY <3>1, <3>2, <3>3
  <2> QED
    BY <2>1, <2>4, <2>6 DEF CopiedFrom, Copies
<1> QED
  BY <1>1, <1>2

LEMMA TemplateChildIs ==
  ASSUME NEW table, Counted(table), NEW r \in DOMAIN table.roots, NEW likeChild,
         TemplateChild(table, r, likeChild) # Refused
  PROVE  TemplateChild(table, r, likeChild) \in DOMAIN Children(table, r)
<1> DEFINE children == Children(table, r)
           eligible == {i \in DOMAIN children : ~Scenery(children[i])}
<1>1. CASE likeChild # Absent
  BY <1>1 DEF TemplateChild
<1>2. CASE likeChild = Absent
  <2>1. eligible # {} /\ TemplateChild(table, r, likeChild) = Min(eligible)
    BY <1>2, Zenon DEF TemplateChild
  <2>2. DOMAIN children \subseteq Nat
    <3>1. children \in Seq(RowRecord)
      BY ChildrenOf
    <3> QED
      BY <3>1
  <2> HIDE DEF children
  <2>3. eligible \subseteq Nat
    BY <2>2
  <2>4. Min(eligible) \in eligible
    <3> HIDE DEF eligible
    <3>1. \E x \in eligible : \A y \in eligible : x =< y
      BY <2>1, <2>3, LeastExists
    <3> QED
      BY <3>1 DEF Min
  <2> QED
    BY <2>1, <2>4 DEF children
<1> QED
  BY <1>1, <1>2

\* The two rows that are made of a template root and its child.
NewRoot(row, environment, add) ==
  [row EXCEPT !.id = add.rootKey, !.ended = TRUE, !.word0c = 1 + Len(environment), !.name = add.rootName]
NewChild(row, add) ==
  [row EXCEPT !.id = add.childKey, !.word04 = IF add.type = Absent THEN row.word04 ELSE add.type,
              !.ended = TRUE, !.dat = add.resource, !.name = add.childName]
NewType(row, add) == IF add.type = Absent THEN row.word04 ELSE add.type
AddedRows(table, template, child, environment, add) ==
  <<NewRoot(Root(table, template), environment, add), NewChild(Children(table, template)[child], add)>>
    \o environment
Extend(file, rows) ==
  [file EXCEPT !.size = Length(file) + Len(rows), !.count = @ + 1, !.rows = @ \o rows]

LEMMA AppendRowsIs ==
  ASSUME NEW file, NEW table, NEW template, NEW child, NEW environment, NEW add,
         AppendRows(file, table, template, child, environment, add) # Refused
  PROVE  /\ table.trailing = 0 /\ table.size = Length(file)
         /\ child # Refused /\ environment # Refused
         /\ KeysFree(table, add) /\ NamesFree(table, add) /\ ResourceFree(table, add, environment)
         /\ NewType(Children(table, template)[child], add) \notin {0, 1}
         /\ AppendRows(file, table, template, child, environment, add)
              = Extend(file, AddedRows(table, template, child, environment, add))
BY Zenon DEF AppendRows, NewRoot, NewChild, NewType, AddedRows, Extend

LEMMA AppendRootIs ==
  ASSUME NEW file, NEW like, NEW likeChild, NEW add, NEW environmentRoot,
         AppendRoot(file, like, likeChild, add, environmentRoot) # Refused
  PROVE  /\ Parse(file) # Refused
         /\ \E template \in DOMAIN Parse(file).roots :
              AppendRoot(file, like, likeChild, add, environmentRoot)
                = AppendRows(file, Parse(file), template, TemplateChild(Parse(file), template, likeChild),
                             Environment(Parse(file), environmentRoot), add)
<1> DEFINE table == Parse(file)
           template == CHOOSE r \in RootsWith(table, like) : TRUE
<1>1. /\ table # Refused /\ Cardinality(RootsWith(table, like)) = 1
      /\ AppendRoot(file, like, likeChild, add, environmentRoot)
           = AppendRows(file, table, template, TemplateChild(table, template, likeChild),
                        Environment(table, environmentRoot), add)
  BY Zenon DEF AppendRoot
<1>2. template \in DOMAIN table.roots
  BY <1>1, SomeRoot
<1> QED
  BY <1>1, <1>2

LEMMA NewRowsType ==
  ASSUME NEW root \in RowRecord, NEW source \in RowRecord, NEW add \in Additions, NEW environment,
         environment \in Seq(RowRecord)
  PROVE  /\ NewRoot(root, environment, add) \in RowRecord
         /\ NewRoot(root, environment, add).id = add.rootKey
         /\ NewRoot(root, environment, add).name = add.rootName
         /\ NewRoot(root, environment, add).dat = root.dat
         /\ NewRoot(root, environment, add).word0c >= 1
         /\ NewChild(source, add) \in RowRecord
         /\ NewChild(source, add).name = add.childName
         /\ NewChild(source, add).dat = add.resource
         /\ NewChild(source, add).word04 = NewType(source, add)
<1>1. /\ add.rootKey \in Nat /\ add.rootName \in STRING /\ add.childKey \in Nat /\ add.childName \in STRING
      /\ add.type \in Nat \cup {Absent} /\ add.resource \in Nat
  BY DEF Additions
<1>2. Len(environment) \in Nat
  OBVIOUS
<1>3. ASSUME NEW children \in Nat, NEW key \in Nat, NEW name \in STRING
      PROVE  [root EXCEPT !.id = key, !.ended = TRUE, !.word0c = children, !.name = name] \in RowRecord
  BY DEF RowRecord
<1>4. ASSUME NEW type \in Nat, NEW key \in Nat, NEW name \in STRING, NEW resource \in Nat
      PROVE  [source EXCEPT !.id = key, !.word04 = type, !.ended = TRUE, !.dat = resource, !.name = name] \in RowRecord
  BY DEF RowRecord
<1>5. NewType(source, add) \in Nat
  BY <1>1 DEF NewType, RowRecord
<1>6. NewRoot(root, environment, add) \in RowRecord
  <2> DEFINE children == 1 + Len(environment)
  <2>1. children \in Nat
    BY <1>2
  <2> HIDE DEF children
  <2>2. [root EXCEPT !.id = add.rootKey, !.ended = TRUE, !.word0c = children, !.name = add.rootName] \in RowRecord
    BY <1>1, <1>3, <2>1
  <2> QED
    BY <2>2 DEF NewRoot, children
<1>7. NewChild(source, add) \in RowRecord
  BY <1>1, <1>4, <1>5 DEF NewChild, NewType
<1>8. /\ NewRoot(root, environment, add).id = add.rootKey
      /\ NewRoot(root, environment, add).name = add.rootName
      /\ NewRoot(root, environment, add).dat = root.dat
      /\ NewRoot(root, environment, add).word0c = 1 + Len(environment)
  BY DEF NewRoot, RowRecord
<1>9. /\ NewChild(source, add).name = add.childName
      /\ NewChild(source, add).dat = add.resource
      /\ NewChild(source, add).word04 = NewType(source, add)
  BY DEF NewChild, NewType, RowRecord
<1> QED
  BY <1>2, <1>6, <1>7, <1>8, <1>9

\* What the addition writes, of a catalog that it accepts: the rows it had, the
\* new root and its child, and the copies of scenery.
Addition(input, output, add, environment) ==
  LET old == Parse(input)
      at == Len(old.rows) + 1
  IN /\ Whole(input) /\ old.size = Len(old.rows) /\ output \in RegionFile
     /\ output.count = input.count + 1
     /\ FreshNames(old, add)
     /\ add.resource \in Int /\ add.resource \notin Derived(old)
     /\ \A k \in DOMAIN old.rows : old.rows[k].dat # add.resource
     /\ \A s \in DOMAIN old.roots : Root(old, s).id # add.rootKey
     /\ environment # Refused /\ CopiedFrom(old, environment)
     /\ ResourceFree(old, add, environment)
     /\ Len(output.rows) = Len(input.rows) + 2 + Len(environment)
     /\ \A k \in 1..Len(input.rows) : output.rows[k] = input.rows[k]
     /\ output.rows[at].id = add.rootKey /\ output.rows[at].name = add.rootName
     /\ output.rows[at].word0c >= 1
     /\ \E t \in DOMAIN old.roots : output.rows[at].dat = Root(old, t).dat
     /\ output.rows[at + 1].name = add.childName /\ output.rows[at + 1].dat = add.resource
     /\ ~Scenery(output.rows[at + 1])
     /\ \A k \in 1..Len(environment) : output.rows[(at + 1) + k] = environment[k]

LEMMA ConcatIs ==
  ASSUME NEW S, NEW a \in Seq(S), NEW b \in Seq(S)
  PROVE  /\ a \o b \in Seq(S) /\ Len(a \o b) = Len(a) + Len(b)
         /\ \A k \in 1..Len(a) : (a \o b)[k] = a[k]
         /\ \A k \in 1..Len(b) : (a \o b)[Len(a) + k] = b[k]
<1>1. a \o b \in Seq(S) /\ Len(a \o b) = Len(a) + Len(b)
  OBVIOUS
<1>2. \A k \in 1..Len(a) : (a \o b)[k] = a[k]
  OBVIOUS
<1>3. \A k \in 1..Len(b) : (a \o b)[Len(a) + k] = b[k]
  OBVIOUS
<1> QED
  BY <1>1, <1>2, <1>3

RowsAfter(old, root, child, environment, new, rows) ==
  /\ new \in Seq(RowRecord) /\ Len(new) = 2 + Len(environment)
  /\ rows \in Seq(RowRecord) /\ Len(rows) = Len(old) + 2 + Len(environment)
  /\ \A k \in 1..Len(old) : rows[k] = old[k]
  /\ rows[Len(old) + 1] = root /\ rows[(Len(old) + 1) + 1] = child
  /\ \A k \in 1..Len(environment) : rows[((Len(old) + 1) + 1) + k] = environment[k]

LEMMA AppendedRows ==
  ASSUME NEW old \in Seq(RowRecord), NEW root \in RowRecord, NEW child \in RowRecord,
         NEW environment \in Seq(RowRecord), NEW new, new = <<root, child>> \o environment,
         NEW rows, rows = old \o new
  PROVE  RowsAfter(old, root, child, environment, new, rows)
<1> DEFINE pair == <<root, child>>
           m == Len(old)
           n == Len(environment)
<1>0. m \in Nat /\ n \in Nat /\ pair \in Seq(RowRecord) /\ Len(pair) = 2
  OBVIOUS
<1>1. pair[1] = root /\ pair[2] = child
  OBVIOUS
<1> HIDE DEF pair
<1>2. new = pair \o environment
  BY DEF pair
<1>3. /\ new \in Seq(RowRecord) /\ Len(new) = 2 + n
      /\ \A k \in 1..2 : new[k] = pair[k]
      /\ \A k \in 1..n : new[2 + k] = environment[k]
  BY <1>0, <1>2, ConcatIs
<1>4. /\ rows \in Seq(RowRecord) /\ Len(rows) = m + (2 + n)
      /\ \A k \in 1..m : rows[k] = old[k]
      /\ \A k \in 1..(2 + n) : rows[m + k] = new[k]
  BY <1>3, ConcatIs
<1> HIDE DEF m, n
<1>7. rows[m + 1] = root /\ rows[(m + 1) + 1] = child
  <2>1. 1 \in 1..(2 + n) /\ 2 \in 1..(2 + n) /\ (m + 1) + 1 = m + 2
    BY <1>0
  <2>2. rows[m + 1] = new[1] /\ rows[m + 2] = new[2]
    BY <1>4, <2>1
  <2>3. new[1] = root /\ new[2] = child
    BY <1>1, <1>3
  <2> QED
    BY <2>1, <2>2, <2>3
<1>8. ASSUME NEW k \in 1..n PROVE rows[((m + 1) + 1) + k] = environment[k]
  <2>1. ((m + 1) + 1) + k = m + (2 + k) /\ 2 + k \in 1..(2 + n)
    BY <1>0
  <2>2. rows[m + (2 + k)] = new[2 + k]
    BY <1>4, <2>1
  <2> QED
    BY <1>3, <2>1, <2>2
<1>9. Len(rows) = m + 2 + n
  BY <1>0, <1>4
<1> QED
  BY <1>3, <1>4, <1>7, <1>8, <1>9 DEF m, n, RowsAfter

LEMMA ExtendIs ==
  ASSUME NEW file \in RegionFile, NEW rows \in Seq(RowRecord), file.rows \o rows \in Seq(RowRecord)
  PROVE  /\ Extend(file, rows) \in RegionFile /\ Extend(file, rows).count = file.count + 1
         /\ Extend(file, rows).rows = file.rows \o rows
<1>1. Length(file) + Len(rows) \in Nat /\ file.count + 1 \in Nat
  BY FileType DEF Length
<1> DEFINE size == Length(file) + Len(rows)
           count == file.count + 1
           all == file.rows \o rows
<1>3. Extend(file, rows) = [file EXCEPT !.size = size, !.count = count, !.rows = all]
  BY DEF Extend
<1>4. size \in Nat /\ count \in Nat /\ all \in Seq(RowRecord)
  BY <1>1
<1> HIDE DEF size, count, all
<1>5. Extend(file, rows) \in RegionFile /\ Extend(file, rows).count = count /\ Extend(file, rows).rows = all
  BY <1>3, <1>4 DEF RegionFile
<1> QED
  BY <1>5 DEF count, all

LEMMA AppendRowsAdds ==
  ASSUME NEW input \in RegionFile, NEW old, old = Parse(input), old # Refused, NEW add \in Additions,
         NEW template \in DOMAIN old.roots, NEW child, NEW environment, NEW output,
         output = AppendRows(input, old, template, child, environment, add), output # Refused,
         Counted(old) /\ child # Refused => child \in DOMAIN Children(old, template),
         Counted(old) /\ environment # Refused => CopiedFrom(old, environment)
  PROVE  Addition(input, output, add, environment)
<1>1. PICK source : source = Children(old, template)[child]
  OBVIOUS
<1>2. PICK root : root = NewRoot(Root(old, template), environment, add)
  OBVIOUS
<1>3. PICK row : row = NewChild(source, add)
  OBVIOUS
<1>4. PICK rows : rows = AddedRows(old, template, child, environment, add)
  OBVIOUS
<1>5. /\ old.trailing = 0 /\ old.size = Length(input)
      /\ child # Refused /\ environment # Refused
      /\ KeysFree(old, add) /\ NamesFree(old, add) /\ ResourceFree(old, add, environment)
      /\ NewType(source, add) \notin {0, 1}
      /\ output = Extend(input, rows)
  BY <1>1, <1>4, AppendRowsIs
<1>6. Whole(input) /\ Counted(old)
  <2>1. Whole(input)
    BY <1>5 DEF Whole
  <2> QED
    BY <2>1, WholeIsCounted
<1>7. old.rows = input.rows /\ input.rows \in Seq(RowRecord) /\ input.tail = 0
  BY <1>6, WholeTable, WholeTakes, FileType
<1>8. old.size = Len(old.rows)
  BY <1>5, <1>7 DEF Length
<1>9. CopiedFrom(old, environment) /\ environment \in Seq(RowRecord)
  <2>1. CopiedFrom(old, environment)
    BY <1>5, <1>6
  <2> QED
    BY <2>1 DEF CopiedFrom
<1>10. source \in RowRecord /\ Root(old, template) \in RowRecord
  <2>1. child \in DOMAIN Children(old, template)
    BY <1>5, <1>6
  <2>2. Children(old, template) \in Seq(RowRecord)
    BY <1>6, ChildrenOf
  <2>3. Root(old, template) \in RowRecord
    BY <1>6 DEF Counted, Root
  <2> QED
    BY <1>1, <2>1, <2>2, <2>3
<1>11. /\ root \in RowRecord /\ root.id = add.rootKey /\ root.name = add.rootName
       /\ root.dat = Root(old, template).dat /\ root.word0c >= 1
       /\ row \in RowRecord /\ row.name = add.childName /\ row.dat = add.resource
       /\ row.word04 = NewType(source, add)
  BY <1>2, <1>3, <1>9, <1>10, NewRowsType
<1>12. ~Scenery(row)
  BY <1>5, <1>11 DEF Scenery
<1>13. rows = <<root, row>> \o environment
  BY <1>1, <1>2, <1>3, <1>4 DEF AddedRows
<1>14. PICK all : all = input.rows \o rows
  OBVIOUS
<1>15. /\ rows \in Seq(RowRecord)
       /\ all \in Seq(RowRecord)
       /\ Len(all) = Len(input.rows) + 2 + Len(environment)
       /\ \A k \in 1..Len(input.rows) : all[k] = input.rows[k]
       /\ all[Len(input.rows) + 1] = root /\ all[(Len(input.rows) + 1) + 1] = row
       /\ \A k \in 1..Len(environment) : all[((Len(input.rows) + 1) + 1) + k] = environment[k]
  <2>1. /\ input.rows \in Seq(RowRecord) /\ root \in RowRecord /\ row \in RowRecord
        /\ environment \in Seq(RowRecord)
    BY <1>7, <1>9, <1>11
  <2>2. RowsAfter(input.rows, root, row, environment, rows, all)
    BY <2>1, <1>13, <1>14, AppendedRows
  <2> QED
    BY <2>2 DEF RowsAfter
<1>16. output \in RegionFile /\ output.count = input.count + 1 /\ output.rows = all
  <2>1. rows \in Seq(RowRecord) /\ input.rows \o rows \in Seq(RowRecord)
    BY <1>14, <1>15
  <2>2. /\ Extend(input, rows) \in RegionFile /\ Extend(input, rows).count = input.count + 1
        /\ Extend(input, rows).rows = input.rows \o rows
    BY <2>1, ExtendIs, Zenon
  <2>3. output = Extend(input, rows)
    BY <1>5
  <2> QED
    BY <1>14, <2>2, <2>3
<1>17. /\ FreshNames(old, add)
       /\ add.resource \in Int /\ add.resource \notin Derived(old)
       /\ \A k \in DOMAIN old.rows : old.rows[k].dat # add.resource
       /\ \A s \in DOMAIN old.roots : Root(old, s).id # add.rootKey
  <2>1. FreshNames(old, add)
    BY <1>5 DEF NamesFree, FreshNames
  <2>2. add.resource \notin OccupiedInCatalog(old)
    BY <1>5 DEF ResourceFree
  <2>3. RootsWith(old, add.rootKey) = {}
    BY <1>5 DEF KeysFree
  <2>4. add.resource \in Int
    BY DEF Additions
  <2> QED
    BY <2>1, <2>2, <2>3, <2>4 DEF OccupiedInCatalog, RootsWith
<1> QED
  BY <1>5, <1>6, <1>7, <1>8, <1>9, <1>11, <1>12, <1>15, <1>16, <1>17, SMTT(20) DEF Addition

LEMMA AppendRootAdds ==
  ASSUME NEW input \in RegionFile, NEW like, NEW likeChild, NEW add \in Additions, NEW environmentRoot,
         AppendRoot(input, like, likeChild, add, environmentRoot) # Refused
  PROVE  Addition(input, AppendRoot(input, like, likeChild, add, environmentRoot), add,
                  Environment(Parse(input), environmentRoot))
<1>1. PICK old : old = Parse(input)
  OBVIOUS
<1>2. old # Refused
  BY <1>1, AppendRootIs
<1>3. PICK template \in DOMAIN old.roots :
        AppendRoot(input, like, likeChild, add, environmentRoot)
          = AppendRows(input, old, template, TemplateChild(old, template, likeChild),
                       Environment(old, environmentRoot), add)
  BY <1>1, AppendRootIs
<1>4. Counted(old) /\ TemplateChild(old, template, likeChild) # Refused
        => TemplateChild(old, template, likeChild) \in DOMAIN Children(old, template)
  BY TemplateChildIs
<1>5. Counted(old) /\ Environment(old, environmentRoot) # Refused
        => CopiedFrom(old, Environment(old, environmentRoot))
  BY EnvironmentCopies
<1> QED
  BY <1>1, <1>2, <1>3, <1>4, <1>5, AppendRowsAdds

LEMMA DeriveType ==
  ASSUME NEW first \in Int, NEW children, \A i \in DOMAIN children : children[i].dat \in Nat
  PROVE  Derive(first, children) \in Int
<1> DEFINE S == {0} \cup {children[i].dat % Low : i \in DOMAIN children}
           top == Low - 1
<1>1. top \in Nat
  BY RegionAssumption
<1>2. ASSUME NEW n \in Nat PROVE n % Low \in 0..(Low - 1)
  BY RegionAssumption
<1>3. S \subseteq 0..top /\ S # {}
  BY <1>1, <1>2
<1>4. Highest(children) = Max(S)
  BY DEF Highest
<1>5. Max(S) \in S
  <2> HIDE DEF S, top
  <2>1. PICK n \in S : \A m \in S : m <= n
    BY <1>1, <1>3, LargestExists
  <2>2. \E x \in S : \A y \in S : x >= y
    BY <1>1, <1>3, <2>1
  <2> QED
    BY <2>2 DEF Max
<1>6. Highest(children) \in Int
  <2> HIDE DEF S, top
  <2>1. PICK most : most = Max(S)
    OBVIOUS
  <2>2. most \in 0..top
    BY <1>3, <1>5, <2>1
  <2> QED
    BY <1>4, <2>1, <2>2
<1>7. Family(first) \in Int
  BY RegionAssumption DEF Family
<1> QED
  BY <1>6, <1>7 DEF Derive

LEMMA AuxiliaryType ==
  ASSUME NEW table, Counted(table), NEW r \in DOMAIN table.roots, NEW auxiliary,
         AuxiliaryKey(table, r) = [status |-> "derived", key |-> auxiliary]
  PROVE  auxiliary \in Int
<1>1. PICK children : children = Children(table, r)
  OBVIOUS
<1>2. children # <<>> /\ auxiliary = Derive(children[1].dat, children)
  <2>1. AuxiliaryFrom(Root(table, r).word20, children) = [status |-> "derived", key |-> auxiliary]
    BY <1>1, AuxiliaryIs
  <2> QED
    BY <2>1 DEF AuxiliaryFrom
<1>3. children \in Seq(RowRecord)
  BY <1>1, ChildrenOf
<1>4. ASSUME NEW row \in RowRecord PROVE row.dat \in Nat
  BY DEF RowRecord
<1>5. 1 \in DOMAIN children /\ \A i \in DOMAIN children : children[i].dat \in Nat
  BY <1>2, <1>3, <1>4
<1> QED
  BY <1>2, <1>5, DeriveType

\* An addition that is read again as it was meant is registered.
LEMMA VerifiedRegisters ==
  ASSUME NEW input, NEW output, NEW add, NEW environment, NEW auxiliary, NEW old, NEW new,
         Addition(input, output, add, environment), old = Parse(input), new = Parse(output),
         new # Refused, new.trailing = 0,
         AuxiliaryKey(new, output.count) = [status |-> "derived", key |-> auxiliary],
         auxiliary # add.resource, auxiliary \notin Derived(old),
         \A k \in DOMAIN old.rows : old.rows[k].dat # auxiliary
  PROVE  Whole(output) /\ Registers(old, new, add, auxiliary)
<1>1. /\ Whole(input) /\ output \in RegionFile /\ output.count = input.count + 1
      /\ FreshNames(old, add)
      /\ add.resource \in Int /\ add.resource \notin Derived(old)
      /\ \A k \in DOMAIN old.rows : old.rows[k].dat # add.resource
      /\ \A s \in DOMAIN old.roots : Root(old, s).id # add.rootKey
      /\ CopiedFrom(old, environment)
      /\ Len(output.rows) = Len(input.rows) + 2 + Len(environment)
      /\ \A k \in 1..Len(input.rows) : output.rows[k] = input.rows[k]
  BY DEF Addition
<1>2. LET at == Len(old.rows) + 1
      IN /\ output.rows[at].id = add.rootKey /\ output.rows[at].name = add.rootName
         /\ output.rows[at].word0c >= 1
         /\ \E t \in DOMAIN old.roots : output.rows[at].dat = Root(old, t).dat
         /\ output.rows[at + 1].name = add.childName /\ output.rows[at + 1].dat = add.resource
         /\ ~Scenery(output.rows[at + 1])
         /\ \A k \in 1..Len(environment) : output.rows[(at + 1) + k] = environment[k]
  BY DEF Addition
<1>3. Whole(output)
  BY <1>1 DEF Whole
<1>4. /\ old.rows = input.rows /\ new.rows = output.rows /\ Len(new.roots) = output.count
      /\ Len(input.rows) \in Nat /\ Len(environment) \in Nat
  <2>1. environment \in Seq(RowRecord)
    BY <1>1 DEF CopiedFrom
  <2>2. input.rows \in Seq(RowRecord)
    BY <1>1, FileType DEF Whole
  <2>3. Parse(input).rows = input.rows
    BY <1>1, WholeTable
  <2>4. Parse(output).rows = output.rows /\ Len(Parse(output).roots) = output.count
    BY <1>3, WholeTable
  <2> QED
    BY <2>1, <2>2, <2>3, <2>4
<1>5. Extended(old, new)
  <2>1. Len(input.rows) <= Len(output.rows)
    BY <1>1, <1>4
  <2> QED
    BY <1>1, <1>3, <2>1, TableExtends
<1>6. auxiliary \in Int
  <2>1. Counted(new) /\ output.count \in DOMAIN new.roots
    BY <1>4, <1>5, NewRoots DEF Extended
  <2> QED
    BY <2>1, AuxiliaryType
<1>7. FreshKeys(old, add, auxiliary)
  BY <1>1, <1>6 DEF FreshKeys
<1> DEFINE at == Len(old.rows) + 1
           last == Len(new.roots)
<1>8. Root(new, last) = new.rows[at]
  BY <1>5, NewRoots
<1>9. ASSUME NEW k \in (at + 2)..Len(new.rows)
      PROVE  /\ Scenery(new.rows[k])
             /\ \E j \in DOMAIN old.rows : new.rows[k] = old.rows[j] /\ \A s \in DOMAIN old.roots : j # old.roots[s]
  <2>1. PICK i : i = k - (at + 1)
    OBVIOUS
  <2> DEFINE m == Len(input.rows)
             n == Len(environment)
  <2>5. m \in Nat /\ n \in Nat /\ k \in ((m + 1) + 2)..(m + 2 + n) /\ i = k - ((m + 1) + 1)
    BY <1>1, <1>4, <2>1
  <2>6. i \in 1..n /\ k = ((m + 1) + 1) + i
    <3> HIDE DEF m, n, at
    <3> QED
      BY <2>5
  <2>2. i \in 1..Len(environment) /\ k = (at + 1) + i
    BY <1>4, <2>6
  <2>3. new.rows[k] = environment[i]
    BY <1>2, <1>4, <2>2
  <2>4. /\ Scenery(environment[i])
        /\ \E j \in DOMAIN old.rows : environment[i] = old.rows[j] /\ \A s \in DOMAIN old.roots : j # old.roots[s]
    BY <1>1, <2>2 DEF CopiedFrom
  <2> QED
    BY <2>3, <2>4
<1>10. NewRows(old, new, add, auxiliary)
  BY <1>2, <1>4, <1>8, <1>9 DEF NewRows
<1> QED
  BY <1>1, <1>3, <1>5, <1>7, <1>10 DEF Registers

-------------------------------------------------------------------------------
(* The stack of overlays.  What is said of it is said of any tree and stack, for
   the stack with a new overlay on top. *)

HoldersOf(stack, path) == {i \in DOMAIN stack : path \in DOMAIN stack[i].files}
MadeOf(stack) == {i \in DOMAIN stack : stack[i].made.by # "user"}
ResolvedOf(tree, stack, path) ==
  IF HoldersOf(stack, path) # {} THEN stack[Min(HoldersOf(stack, path))].files[path]
  ELSE IF path \in DOMAIN tree THEN tree[path] ELSE Refused
BaseOf(tree, stack) ==
  LET own == {i \in HoldersOf(stack, CatalogPath) : i \notin MadeOf(stack)}
  IN IF own # {} THEN stack[Min(own)].files[CatalogPath] ELSE tree[CatalogPath]
ScannedOf(tree, stack) ==
  {path.key : path \in DOMAIN tree \cup UNION {DOMAIN stack[i].files : i \in DOMAIN stack}} \ {Absent}

IsList(stack) ==
  /\ Len(stack) \in Nat /\ DOMAIN stack = 1..Len(stack)
  /\ stack = [i \in 1..Len(stack) |-> stack[i]]

FilesInv(tree, stack) ==
  /\ CatalogTyped(tree)
  /\ IsList(stack)
  /\ \A i \in DOMAIN stack : CatalogTyped(stack[i].files)

\* What was made is on top of what is the user's own, and all of it has a catalog.
MadeInv(stack) ==
  \A j \in MadeOf(stack) : CatalogPath \in DOMAIN stack[j].files /\ \A i \in 1..j : i \in MadeOf(stack)

\* The catalog on top is whole, begins with the user's own, and holds every registration.
CatalogInv(tree, stack) ==
  MadeOf(stack) # {} =>
    LET file == stack[1].files[CatalogPath]
        table == Parse(file)
        base == BaseOf(tree, stack)
    IN /\ file # Refused /\ Whole(file) /\ table.size = Len(table.rows)
       /\ base \in RegionFile /\ Len(base.rows) <= Len(table.rows)
       /\ \A k \in 1..Len(base.rows) : table.rows[k] = base.rows[k]
       /\ \A i \in MadeOf(stack) : Holds(table, stack[i].made.add, stack[i].made.auxiliary)

\* A claimed key is registered, or is the key of a file.
Claimed(overlay) ==
  \A key \in overlay.made.claims :
    /\ key \in Int
    /\ \/ key \in {overlay.made.add.resource, overlay.made.auxiliary}
       \/ \E path \in DOMAIN overlay.files : path.key = key
ClaimInv(stack) ==
  \A j \in MadeOf(stack) :
    /\ Claimed(stack[j])
    /\ \A i \in 1..(j - 1) : stack[i].made.by = "package" => stack[i].made.claims \cap stack[j].made.claims = {}

\* Nothing above a package has its files, and nothing at all its inputs.
SceneInv(tree, stack) ==
  \A i \in DOMAIN stack : stack[i].made.by = "package" =>
    /\ \A path \in DOMAIN stack[i].files \ {CatalogPath} : \A j \in 1..(i - 1) : path \notin DOMAIN stack[j].files
    /\ \A input \in InputsOf(stack[i].made.project) :
         /\ input.path \in DOMAIN tree /\ tree[input.path] = input.content
         /\ input.path # CatalogPath => \A j \in DOMAIN stack : input.path \notin DOMAIN stack[j].files

StackInv(tree, stack) ==
  /\ FilesInv(tree, stack) /\ MadeInv(stack) /\ CatalogInv(tree, stack)
  /\ ClaimInv(stack) /\ SceneInv(tree, stack)

\* What a command made fits the tree and the stack that it was made for.
Fits(tree, stack, new) ==
  LET input == ResolvedOf(tree, stack, CatalogPath)
      output == new.files[CatalogPath]
  IN /\ new.made.by # "user" /\ CatalogPath \in DOMAIN new.files
     /\ output # Refused /\ output \in RegionFile
     /\ HoldersOf(stack, CatalogPath) # {} \/ CatalogPath \in DOMAIN tree
     /\ Whole(input) /\ Whole(output) /\ Parse(output).size = Len(Parse(output).rows)
     /\ Registers(Parse(input), Parse(output), new.made.add, new.made.auxiliary)
     /\ Claimed(new)
     /\ \A path \in DOMAIN new.files \ {CatalogPath} :
          path \notin DOMAIN tree /\ \A j \in DOMAIN stack : path \notin DOMAIN stack[j].files
     /\ new.made.by = "package" =>
          /\ \A key \in new.made.claims :
               /\ key \notin ScannedOf(tree, stack) /\ key \notin Derived(Parse(input))
               /\ \A k \in DOMAIN Parse(input).rows : Parse(input).rows[k].dat # key
          /\ \A pinned \in InputsOf(new.made.project) :
               /\ pinned.path \in DOMAIN tree /\ tree[pinned.path] = pinned.content
               /\ \A j \in DOMAIN stack : pinned.path \notin DOMAIN stack[j].files

(* The strengthening: the stack is as the theorems need it, and stays so when the
   user puts on top what is ready. *)
IInv == StackInv(client, overlays) /\ (ready # Absent => Fits(client, overlays, ready))

LEMMA MinIs ==
  ASSUME NEW S, S \subseteq Nat, NEW n \in S, \A m \in S : n <= m
  PROVE  Min(S) = n
<1>1. \E x \in S : \A y \in S : x <= y
  OBVIOUS
<1>2. Min(S) \in S /\ \A y \in S : Min(S) <= y
  BY <1>1, Zenon DEF Min
<1>. PICK least : least = Min(S)
  OBVIOUS
<1>3. least \in S /\ \A y \in S : least <= y
  BY <1>2, Zenon
<1>4. least = n
  BY <1>3, SMT
<1>. QED
  BY <1>4, Zenon

\* The stack with an overlay more, on top.
Pushed(stack, new, pushed) ==
  /\ IsList(stack) /\ IsList(pushed) /\ Len(pushed) = Len(stack) + 1
  /\ pushed[1] = new
  /\ \A i \in 1..Len(stack) : pushed[i + 1] = stack[i]

LEMMA PushIs ==
  ASSUME NEW stack, IsList(stack), NEW new
  PROVE  Pushed(stack, new, <<new>> \o stack)
<1>. DEFINE S == {stack[i] : i \in 1..Len(stack)} \cup {new}
<1>1. \A i \in 1..Len(stack) : stack[i] \in S
  OBVIOUS
<1>2. stack \in Seq(S)
  <2>. HIDE DEF S
  <2>. QED
    BY <1>1, SMT DEF IsList
<1>3. <<new>> \in Seq(S) /\ Len(<<new>>) = 1 /\ <<new>>[1] = new
  OBVIOUS
<1>. PICK one : one = <<new>>
  OBVIOUS
<1>4. one \in Seq(S) /\ Len(one) = 1 /\ one[1] = new
  BY <1>3, Zenon
<1>. HIDE DEF S
<1>. PICK pushed : pushed = one \o stack
  OBVIOUS
<1>5. /\ pushed \in Seq(S) /\ Len(pushed) = Len(one) + Len(stack)
      /\ \A k \in 1..Len(one) : pushed[k] = one[k]
      /\ \A k \in 1..Len(stack) : pushed[Len(one) + k] = stack[k]
  BY <1>2, <1>4, ConcatIs
<1>6. IsList(pushed) /\ Len(pushed) = Len(stack) + 1 /\ pushed[1] = new
  BY <1>4, <1>5, SMT DEF IsList
<1>7. \A i \in 1..Len(stack) : pushed[i + 1] = stack[i]
  BY <1>4, <1>5, SMT DEF IsList
<1>. QED
  BY <1>6, <1>7, Zenon DEF Pushed

\* Each overlay of the new stack is the new one, or one of the old.
LEMMA PushedCases ==
  ASSUME NEW stack, NEW new, NEW pushed, Pushed(stack, new, pushed), NEW i \in DOMAIN pushed
  PROVE  \/ i = 1 /\ pushed[i] = new
         \/ /\ i \in Nat /\ i > 1 /\ i - 1 \in DOMAIN stack /\ pushed[i] = stack[i - 1]
<1>1. i \in 1..(Len(stack) + 1) /\ Len(stack) \in Nat
  BY DEF Pushed, IsList
<1>2. CASE i = 1
  BY <1>2 DEF Pushed
<1>3. CASE i # 1
  <2>1. i - 1 \in 1..Len(stack) /\ (i - 1) + 1 = i /\ i \in Nat /\ i > 1
    BY <1>1, <1>3
  <2>2. pushed[(i - 1) + 1] = stack[i - 1]
    BY <2>1, Zenon DEF Pushed
  <2>. QED
    BY <2>1, <2>2 DEF Pushed, IsList
<1>. QED
  BY <1>2, <1>3

LEMMA PushFiles ==
  ASSUME NEW tree, NEW stack, NEW new, NEW pushed, Pushed(stack, new, pushed),
         StackInv(tree, stack), Fits(tree, stack, new)
  PROVE  FilesInv(tree, pushed)
<1>1. ASSUME NEW i \in DOMAIN pushed PROVE CatalogTyped(pushed[i].files)
  <2>1. CASE pushed[i] = new
    BY <2>1 DEF Fits, CatalogTyped
  <2>2. CASE i - 1 \in DOMAIN stack /\ pushed[i] = stack[i - 1]
    BY <2>2, Zenon DEF StackInv, FilesInv
  <2>. QED
    BY <2>1, <2>2, PushedCases
<1>. QED
  BY <1>1, Zenon DEF FilesInv, StackInv, Pushed

LEMMA PushMade ==
  ASSUME NEW tree, NEW stack, NEW new, NEW pushed, Pushed(stack, new, pushed),
         StackInv(tree, stack), Fits(tree, stack, new)
  PROVE  MadeInv(pushed)
<1>. SUFFICES ASSUME NEW j \in MadeOf(pushed)
              PROVE  /\ CatalogPath \in DOMAIN pushed[j].files
                     /\ \A i \in 1..j : i \in MadeOf(pushed)
  BY DEF MadeInv
<1>0. j \in DOMAIN pushed /\ pushed[j].made.by # "user" /\ DOMAIN pushed = 1..Len(pushed) /\ Len(pushed) \in Nat
  BY DEF MadeOf, Pushed, IsList
<1>1. 1 \in MadeOf(pushed)
  <2>1. 1 \in DOMAIN pushed /\ pushed[1].made.by # "user"
    BY <1>0 DEF Fits, Pushed
  <2>. QED
    BY <2>1 DEF MadeOf
<1>2. CASE j = 1 /\ pushed[j] = new
  BY <1>1, <1>2 DEF Fits
<1>3. CASE j \in Nat /\ j > 1 /\ j - 1 \in DOMAIN stack /\ pushed[j] = stack[j - 1]
  <2>1. j - 1 \in MadeOf(stack)
    BY <1>0, <1>3, Zenon DEF MadeOf
  <2>2. CatalogPath \in DOMAIN pushed[j].files /\ \A i \in 1..(j - 1) : i \in MadeOf(stack)
    BY <2>1, <1>3, Zenon DEF StackInv, MadeInv
  <2>3. ASSUME NEW i \in 1..j PROVE i \in MadeOf(pushed)
    <3>1. i \in DOMAIN pushed
      BY <1>0
    <3>2. CASE i = 1
      BY <1>1, <3>2
    <3>3. CASE i \in Nat /\ i > 1 /\ i - 1 \in DOMAIN stack /\ pushed[i] = stack[i - 1]
      <4>1. i - 1 \in 1..(j - 1)
        BY <1>3, <3>3
      <4>2. stack[i - 1].made.by # "user"
        BY <4>1, <2>2, Zenon DEF MadeOf
      <4>. QED
        BY <3>1, <3>3, <4>2, Zenon DEF MadeOf
    <3>. QED
      BY <3>1, <3>2, <3>3, PushedCases
  <2>. QED
    BY <2>2, <2>3
<1>. QED
  BY <1>0, <1>2, <1>3, PushedCases

LEMMA PushScene ==
  ASSUME NEW tree, NEW stack, NEW new, NEW pushed, Pushed(stack, new, pushed),
         StackInv(tree, stack), Fits(tree, stack, new)
  PROVE  SceneInv(tree, pushed)
<1>. DEFINE Own(i) == DOMAIN pushed[i].files \ {CatalogPath}
<1>. SUFFICES ASSUME NEW i \in DOMAIN pushed, pushed[i].made.by = "package"
              PROVE  /\ \A path \in Own(i) : \A j \in 1..(i - 1) : path \notin DOMAIN pushed[j].files
                     /\ \A input \in InputsOf(pushed[i].made.project) :
                          /\ input.path \in DOMAIN tree /\ tree[input.path] = input.content
                          /\ input.path # CatalogPath =>
                               \A j \in DOMAIN pushed : input.path \notin DOMAIN pushed[j].files
  BY Zenon DEF SceneInv
<1>0. DOMAIN pushed = 1..Len(pushed) /\ Len(pushed) \in Nat /\ i \in Nat
  BY DEF Pushed, IsList
<1>1. \A path \in DOMAIN new.files \ {CatalogPath} :
        path \notin DOMAIN tree /\ \A j \in DOMAIN stack : path \notin DOMAIN stack[j].files
  BY Zenon DEF Fits
<1>2. ASSUME NEW path, path \in DOMAIN tree, path # CatalogPath,
             \A j \in DOMAIN stack : path \notin DOMAIN stack[j].files,
             NEW j \in DOMAIN pushed
      PROVE  path \notin DOMAIN pushed[j].files
  <2>1. CASE pushed[j] = new
    BY <1>1, <1>2, <2>1, Zenon
  <2>2. CASE j - 1 \in DOMAIN stack /\ pushed[j] = stack[j - 1]
    BY <1>2, <2>2, Zenon
  <2>. QED
    BY <1>2, <2>1, <2>2, PushedCases
<1>3. CASE i = 1 /\ pushed[i] = new
  <2>1. \A j \in 1..(i - 1) : FALSE
    BY <1>3
  <2>2. ASSUME NEW input \in InputsOf(pushed[i].made.project)
        PROVE  /\ input.path \in DOMAIN tree /\ tree[input.path] = input.content
               /\ \A j \in DOMAIN stack : input.path \notin DOMAIN stack[j].files
    BY <1>3, Zenon DEF Fits
  <2>. QED
    BY <2>1, <2>2, <1>2, Zenon
<1>4. CASE i \in Nat /\ i > 1 /\ i - 1 \in DOMAIN stack /\ pushed[i] = stack[i - 1]
  <2>1. /\ \A path \in Own(i) : \A j \in 1..((i - 1) - 1) : path \notin DOMAIN stack[j].files
        /\ \A input \in InputsOf(pushed[i].made.project) :
             /\ input.path \in DOMAIN tree /\ tree[input.path] = input.content
             /\ input.path # CatalogPath => \A j \in DOMAIN stack : input.path \notin DOMAIN stack[j].files
    BY <1>4, Zenon DEF StackInv, SceneInv
  <2>2. ASSUME NEW path \in Own(i), NEW j \in 1..(i - 1) PROVE path \notin DOMAIN pushed[j].files
    <3>1. j \in DOMAIN pushed
      BY <1>0, <1>4
    <3>2. CASE pushed[j] = new
      BY <3>2, <1>1, <1>4, Zenon
    <3>3. CASE j \in Nat /\ j > 1 /\ j - 1 \in DOMAIN stack /\ pushed[j] = stack[j - 1]
      <4>1. j - 1 \in 1..((i - 1) - 1)
        BY <3>3, <1>4
      <4>. QED
        BY <4>1, <3>3, <2>1, Zenon
    <3>. QED
      BY <3>1, <3>2, <3>3, PushedCases
  <2>. QED
    BY <2>1, <2>2, <1>2, Zenon
<1>. QED
  BY <1>3, <1>4, PushedCases

\* The catalog that is read, as long as something was made, is that of the top.
LEMMA TopCatalog ==
  ASSUME NEW tree, NEW stack, IsList(stack), NEW path, 1 \in DOMAIN stack, path \in DOMAIN stack[1].files
  PROVE  HoldersOf(stack, path) # {} /\ ResolvedOf(tree, stack, path) = stack[1].files[path]
<1>1. 1 \in HoldersOf(stack, path) /\ HoldersOf(stack, path) \subseteq Nat
  BY DEF HoldersOf, IsList
<1>2. \A m \in HoldersOf(stack, path) : 1 <= m
  BY DEF HoldersOf, IsList
<1>3. Min(HoldersOf(stack, path)) = 1
  BY <1>1, <1>2, MinIs
<1>. QED
  BY <1>1, <1>3, Zenon DEF ResolvedOf

\* The user's own overlays that have a catalog.
OwnOf(stack) == {i \in HoldersOf(stack, CatalogPath) : i \notin MadeOf(stack)}

LEMMA PushBase ==
  ASSUME NEW tree, NEW stack, NEW new, NEW pushed, Pushed(stack, new, pushed), new.made.by # "user"
  PROVE  BaseOf(tree, pushed) = BaseOf(tree, stack)
<1>0. /\ DOMAIN pushed = 1..(Len(stack) + 1) /\ DOMAIN stack = 1..Len(stack) /\ Len(stack) \in Nat
      /\ \A i \in 1..Len(stack) : pushed[i + 1] = stack[i]
  BY DEF Pushed, IsList
<1>1. ASSUME NEW i \in OwnOf(pushed) PROVE i \in Nat /\ i - 1 \in OwnOf(stack)
  <2>1. i \in DOMAIN pushed /\ pushed[i].made.by = "user" /\ CatalogPath \in DOMAIN pushed[i].files
    BY Zenon DEF OwnOf, HoldersOf, MadeOf
  <2>2. i \in Nat /\ i - 1 \in DOMAIN stack /\ pushed[i] = stack[i - 1]
    BY <2>1, PushedCases
  <2>. QED
    BY <2>1, <2>2, Zenon DEF OwnOf, HoldersOf, MadeOf
<1>2. ASSUME NEW i \in OwnOf(stack) PROVE i \in Nat /\ i + 1 \in OwnOf(pushed) /\ pushed[i + 1] = stack[i]
  <2>1. i \in DOMAIN stack /\ stack[i].made.by = "user" /\ CatalogPath \in DOMAIN stack[i].files
    BY Zenon DEF OwnOf, HoldersOf, MadeOf
  <2>2. i \in Nat /\ i + 1 \in DOMAIN pushed /\ pushed[i + 1] = stack[i]
    BY <2>1, <1>0
  <2>. QED
    BY <2>1, <2>2, Zenon DEF OwnOf, HoldersOf, MadeOf
<1>3. CASE OwnOf(stack) = {}
  <2>1. OwnOf(pushed) = {}
    BY <1>1, <1>3, Zenon
  <2>. QED
    BY <2>1, <1>3, Zenon DEF BaseOf, OwnOf
<1>4. CASE OwnOf(stack) # {}
  <2>0. OwnOf(stack) \subseteq Nat /\ OwnOf(pushed) \subseteq Nat
    BY <1>1, <1>2, Zenon
  <2>1. PICK n \in OwnOf(stack) : \A m \in OwnOf(stack) : n <= m
    BY <1>4, <2>0, LeastExists
  <2>2. Min(OwnOf(stack)) = n
    BY <2>0, <2>1, MinIs
  <2>3. n + 1 \in OwnOf(pushed) /\ pushed[n + 1] = stack[n]
    BY <1>2
  <2>4. ASSUME NEW m \in OwnOf(pushed) PROVE n + 1 <= m
    <3>1. m \in Nat /\ n \in Nat /\ n <= m - 1
      BY <1>1, <2>0, <2>1
    <3>. QED
      BY <3>1
  <2>5. Min(OwnOf(pushed)) = n + 1
    BY <2>0, <2>3, <2>4, MinIs
  <2>6. OwnOf(pushed) # {}
    BY <2>3
  <2>. QED
    BY <2>2, <2>3, <2>5, <2>6, <1>4, Zenon DEF BaseOf, OwnOf
<1>. QED
  BY <1>3, <1>4

\* The table that a command read begins with the rows of the user's own catalog.
BeginsWith(table, base) ==
  /\ base \in RegionFile /\ Len(base.rows) <= Len(table.rows)
  /\ \A k \in 1..Len(base.rows) : table.rows[k] = base.rows[k]

LEMMA ReadBegins ==
  ASSUME NEW tree, NEW stack, NEW new, StackInv(tree, stack), Fits(tree, stack, new)
  PROVE  BeginsWith(Parse(ResolvedOf(tree, stack, CatalogPath)), BaseOf(tree, stack))
<1>0. IsList(stack) /\ DOMAIN stack = 1..Len(stack) /\ Len(stack) \in Nat
  BY Zenon DEF StackInv, FilesInv, IsList
<1>1. CASE MadeOf(stack) # {}
  <2>1. 1 \in DOMAIN stack /\ CatalogPath \in DOMAIN stack[1].files
    <3>1. PICK j \in MadeOf(stack) : TRUE
      BY <1>1
    <3>2. j \in 1..Len(stack)
      BY <3>1, <1>0 DEF MadeOf
    <3>3. 1 \in 1..j
      BY <3>2, <1>0
    <3>4. 1 \in MadeOf(stack)
      BY <3>3, Zenon DEF StackInv, MadeInv
    <3>. QED
      BY <3>4, Zenon DEF StackInv, MadeInv, MadeOf
  <2>2. ResolvedOf(tree, stack, CatalogPath) = stack[1].files[CatalogPath]
    BY <2>1, <1>0, TopCatalog
  <2>. QED
    BY <1>1, <2>2, Zenon DEF StackInv, CatalogInv, BeginsWith
<1>2. CASE MadeOf(stack) = {}
  <2>1. OwnOf(stack) = HoldersOf(stack, CatalogPath)
    BY <1>2, Zenon DEF OwnOf
  <2>2. BaseOf(tree, stack) = ResolvedOf(tree, stack, CatalogPath)
    BY <2>1, Zenon DEF BaseOf, ResolvedOf, OwnOf, Fits
  <2>. PICK base : base = BaseOf(tree, stack)
    OBVIOUS
  <2>3. Whole(base)
    BY <2>2, Zenon DEF Fits
  <2>4. Parse(base).rows = base.rows
    BY <2>3, WholeTable, Zenon
  <2>5. base \in RegionFile
    BY <2>3 DEF Whole
  <2>6. Len(base.rows) \in Nat
    BY <2>5, FileType
  <2>7. BeginsWith(Parse(base), base)
    BY <2>4, <2>5, <2>6 DEF BeginsWith
  <2>. QED
    BY <2>2, <2>7, Zenon
<1>. QED
  BY <1>1, <1>2

\* What is registered is in the catalog that is read.
LEMMA HoldsBelow ==
  ASSUME NEW tree, NEW stack, StackInv(tree, stack), NEW j \in MadeOf(stack)
  PROVE  Holds(Parse(ResolvedOf(tree, stack, CatalogPath)), stack[j].made.add, stack[j].made.auxiliary)
<1>0. IsList(stack) /\ DOMAIN stack = 1..Len(stack) /\ Len(stack) \in Nat
  BY Zenon DEF StackInv, FilesInv, IsList
<1>1. j \in 1..Len(stack)
  BY <1>0 DEF MadeOf
<1>2. 1 \in 1..j
  BY <1>0, <1>1
<1>3. 1 \in DOMAIN stack /\ CatalogPath \in DOMAIN stack[1].files
  BY <1>2, Zenon DEF StackInv, MadeInv, MadeOf
<1>4. ResolvedOf(tree, stack, CatalogPath) = stack[1].files[CatalogPath]
  BY <1>3, <1>0, TopCatalog
<1>. QED
  BY <1>4, Zenon DEF StackInv, CatalogInv

LEMMA PushCatalog ==
  ASSUME NEW tree, NEW stack, NEW new, NEW pushed, Pushed(stack, new, pushed),
         StackInv(tree, stack), Fits(tree, stack, new)
  PROVE  CatalogInv(tree, pushed)
<1>. PICK input : input = ResolvedOf(tree, stack, CatalogPath)
  OBVIOUS
<1>. PICK output : output = new.files[CatalogPath]
  OBVIOUS
<1>. PICK base : base = BaseOf(tree, stack)
  OBVIOUS
<1>. PICK old : old = Parse(input)
  OBVIOUS
<1>. PICK table : table = Parse(output)
  OBVIOUS
<1>0. /\ output # Refused /\ Whole(input) /\ Whole(output) /\ table.size = Len(table.rows) /\ new.made.by # "user"
      /\ Registers(old, table, new.made.add, new.made.auxiliary)
  BY Zenon DEF Fits
<1>1. pushed[1] = new /\ BaseOf(tree, pushed) = base
  BY <1>0, PushBase, Zenon DEF Pushed
<1>2. BeginsWith(old, base)
  BY ReadBegins, Zenon
<1>3. BeginsWith(table, base)
  <2>1. base \in RegionFile /\ Len(base.rows) \in Nat
    BY <1>2, FileType DEF BeginsWith
  <2>2. Extended(old, table)
    BY <1>0 DEF Registers
  <2>3. Len(old.rows) \in Nat /\ Len(table.rows) \in Nat /\ Len(old.rows) < Len(table.rows)
    BY <2>2, NewRoots DEF Extended
  <2>4. Len(base.rows) <= Len(table.rows) /\ 1..Len(base.rows) \subseteq 1..Len(old.rows)
    BY <2>1, <2>3, <1>2 DEF BeginsWith
  <2>5. \A k \in 1..Len(base.rows) : table.rows[k] = base.rows[k]
    BY <2>2, <2>4, <1>2, Zenon DEF BeginsWith, Extended
  <2>. QED
    BY <2>1, <2>4, <2>5 DEF BeginsWith
<1>4. ASSUME NEW i \in MadeOf(pushed)
      PROVE  Holds(table, pushed[i].made.add, pushed[i].made.auxiliary)
  <2>0. i \in DOMAIN pushed /\ pushed[i].made.by # "user"
    BY DEF MadeOf
  <2>1. CASE pushed[i] = new
    BY <2>1, <1>0, GrowGives, Zenon
  <2>2. CASE i - 1 \in DOMAIN stack /\ pushed[i] = stack[i - 1]
    <3>1. i - 1 \in MadeOf(stack)
      BY <2>0, <2>2, Zenon DEF MadeOf
    <3>2. Holds(old, stack[i - 1].made.add, stack[i - 1].made.auxiliary)
      BY <3>1, HoldsBelow, Zenon
    <3>. QED
      BY <3>2, <2>2, <1>0, GrowKeeps, Zenon
  <2>. QED
    BY <2>0, <2>1, <2>2, PushedCases
<1>. QED
  BY <1>0, <1>1, <1>3, <1>4, Zenon DEF CatalogInv, BeginsWith

LEMMA PushClaim ==
  ASSUME NEW tree, NEW stack, NEW new, NEW pushed, Pushed(stack, new, pushed),
         StackInv(tree, stack), Fits(tree, stack, new)
  PROVE  ClaimInv(pushed)
<1>. PICK old : old = Parse(ResolvedOf(tree, stack, CatalogPath))
  OBVIOUS
<1>1. ASSUME new.made.by = "package", NEW j \in MadeOf(stack), NEW key \in new.made.claims,
             key \in stack[j].made.claims
      PROVE  FALSE
  <2>1. /\ key \notin ScannedOf(tree, stack) /\ key \notin Derived(old)
        /\ \A k \in DOMAIN old.rows : old.rows[k].dat # key
    BY <1>1, Zenon DEF Fits
  <2>2. Claimed(stack[j])
    BY <1>1, Zenon DEF StackInv, ClaimInv
  <2>3. key \in Int /\ key # Absent
    BY <2>2, <1>1, KeysAssumption, Zenon DEF Claimed
  <2>4. Holds(old, stack[j].made.add, stack[j].made.auxiliary)
    BY HoldsBelow, Zenon
  <2>5. PICK r \in DOMAIN old.roots : HoldsAt(old, stack[j].made.add, stack[j].made.auxiliary, r)
    BY <2>4 DEF Holds
  <2>6. Counted(old)
    BY Zenon, WholeIsCounted DEF Fits
  <2>7. CASE key = stack[j].made.add.resource
    <3>1. /\ old.roots[r] \in 1..Len(old.rows) /\ Root(old, r).word0c \in Nat
          /\ old.roots[r] + Root(old, r).word0c <= Len(old.rows) /\ Root(old, r).word0c >= 1
      BY <2>5, <2>6 DEF HoldsAt, Counted
    <3>2. Len(old.rows) \in Nat /\ DOMAIN old.rows = 1..Len(old.rows)
      BY <2>6 DEF Counted
    <3>3. old.roots[r] + 1 \in DOMAIN old.rows
      BY <3>1, <3>2
    <3>4. old.rows[old.roots[r] + 1].dat = key
      BY <3>3, <2>5, <2>7, Zenon DEF HoldsAt
    <3>. QED
      BY <3>3, <3>4, <2>1
  <2>8. CASE key = stack[j].made.auxiliary
    <3>1. AuxiliaryKey(old, r) = [status |-> "derived", key |-> key]
      BY <2>5, <2>8, Zenon DEF HoldsAt
    <3>2. key \in Derived(old)
      BY <3>1 DEF Derived
    <3>. QED
      BY <3>2, <2>1
  <2>9. CASE \E path \in DOMAIN stack[j].files : path.key = key
    <3>1. key \in ScannedOf(tree, stack)
      BY <2>9, <2>3 DEF ScannedOf, MadeOf
    <3>. QED
      BY <3>1, <2>1
  <2>. QED
    BY <2>2, <2>7, <2>8, <2>9, <1>1, Zenon DEF Claimed
<1>2. ASSUME NEW i \in MadeOf(pushed)
      PROVE  \/ i = 1 /\ pushed[i] = new
             \/ i \in Nat /\ i > 1 /\ i - 1 \in MadeOf(stack) /\ pushed[i] = stack[i - 1]
  <2>1. i \in DOMAIN pushed /\ pushed[i].made.by # "user"
    BY DEF MadeOf
  <2>2. CASE i \in Nat /\ i > 1 /\ i - 1 \in DOMAIN stack /\ pushed[i] = stack[i - 1]
    <3>1. i - 1 \in MadeOf(stack)
      BY <2>1, <2>2, Zenon DEF MadeOf
    <3>. QED
      BY <2>2, <3>1
  <2>. QED
    BY <2>1, <2>2, PushedCases
<1>3. ASSUME NEW j \in MadeOf(pushed) PROVE Claimed(pushed[j])
  <2>1. CASE pushed[j] = new
    BY <2>1, Zenon DEF Fits
  <2>2. CASE j - 1 \in MadeOf(stack) /\ pushed[j] = stack[j - 1]
    BY <2>2, Zenon DEF StackInv, ClaimInv
  <2>. QED
    BY <2>1, <2>2, <1>2
<1>4. ASSUME NEW j \in MadeOf(pushed), NEW i \in 1..(j - 1), pushed[i].made.by = "package"
      PROVE  pushed[i].made.claims \cap pushed[j].made.claims = {}
  <2>1. DOMAIN pushed = 1..Len(pushed) /\ Len(pushed) \in Nat /\ j \in 1..Len(pushed)
    BY DEF MadeOf, Pushed, IsList
  <2>2. i \in DOMAIN pushed /\ i \in Nat /\ j > 1
    BY <2>1
  <2>3. j \in Nat /\ j - 1 \in MadeOf(stack) /\ pushed[j] = stack[j - 1]
    BY <1>2, <2>2
  <2>4. CASE pushed[i] = new
    BY <2>3, <2>4, <1>4, <1>1, Zenon
  <2>5. CASE i > 1 /\ i - 1 \in DOMAIN stack /\ pushed[i] = stack[i - 1]
    <3>1. i - 1 \in 1..((j - 1) - 1)
      BY <2>2, <2>3, <2>5
    <3>. QED
      BY <3>1, <2>3, <2>5, <1>4, Zenon DEF StackInv, ClaimInv
  <2>. QED
    BY <2>2, <2>4, <2>5, PushedCases
<1>. QED
  BY <1>3, <1>4, Zenon DEF ClaimInv

LEMMA PushKeeps ==
  ASSUME NEW tree, NEW stack, NEW new, StackInv(tree, stack), Fits(tree, stack, new)
  PROVE  StackInv(tree, <<new>> \o stack)
<1>1. IsList(stack)
  BY Zenon DEF StackInv, FilesInv
<1>. PICK pushed : pushed = <<new>> \o stack
  OBVIOUS
<1>2. Pushed(stack, new, pushed)
  BY <1>1, PushIs, Zenon
<1>3. StackInv(tree, pushed)
  BY <1>2, PushFiles, PushMade, PushCatalog, PushClaim, PushScene, Zenon DEF StackInv
<1>. QED
  BY <1>3, Zenon

-------------------------------------------------------------------------------
(* The commands. *)

\* What a command knows once it has read its output again.
Taken(input, output, add, auxiliary) ==
  /\ Whole(input) /\ Whole(output) /\ output \in RegionFile
  /\ Parse(output).size = Len(Parse(output).rows)
  /\ Registers(Parse(input), Parse(output), add, auxiliary)

LEMMA VerifiedTakes ==
  ASSUME NEW input, NEW output, NEW add, NEW environment, NEW auxiliary, NEW type,
         Addition(input, output, add, environment),
         AppendVerified(input, output, add, type, auxiliary, environment),
         auxiliary # add.resource, auxiliary \notin Derived(Parse(input)),
         \A k \in DOMAIN Parse(input).rows : Parse(input).rows[k].dat # auxiliary
  PROVE  Taken(input, output, add, auxiliary)
<1>. PICK old : old = Parse(input)
  OBVIOUS
<1>. PICK new : new = Parse(output)
  OBVIOUS
<1>1. /\ new # Refused /\ new.trailing = 0 /\ new.size = Length(output)
      /\ AuxiliaryKey(new, output.count) = [status |-> "derived", key |-> auxiliary]
  BY Zenon DEF AppendVerified, TableVerified
<1>2. Whole(output) /\ Registers(old, new, add, auxiliary)
  BY <1>1, VerifiedRegisters
<1>3. Whole(input) /\ output \in RegionFile
  BY Zenon DEF Addition
<1>4. output.tail = 0 /\ new.rows = output.rows /\ Len(output.rows) \in Nat
  BY <1>2, <1>3, WholeTakes, WholeTable, FileType
<1>5. new.size = Len(new.rows)
  BY <1>1, <1>4 DEF Length
<1>. QED
  BY <1>2, <1>3, <1>5, Zenon DEF Taken

\* The catalog that a command reads is a client's or an overlay's.
LEMMA ReadTyped ==
  ASSUME NEW tree, NEW stack, FilesInv(tree, stack), ResolvedOf(tree, stack, CatalogPath) # Refused
  PROVE  /\ ResolvedOf(tree, stack, CatalogPath) \in RegionFile
         /\ HoldersOf(stack, CatalogPath) # {} \/ CatalogPath \in DOMAIN tree
<1>1. CASE HoldersOf(stack, CatalogPath) # {}
  <2>1. HoldersOf(stack, CatalogPath) \subseteq Nat
    BY DEF HoldersOf, FilesInv, IsList
  <2>2. PICK n \in HoldersOf(stack, CatalogPath) : \A m \in HoldersOf(stack, CatalogPath) : n <= m
    BY <1>1, <2>1, LeastExists
  <2>3. Min(HoldersOf(stack, CatalogPath)) = n
    BY <2>1, <2>2, MinIs
  <2>4. ResolvedOf(tree, stack, CatalogPath) = stack[n].files[CatalogPath]
    BY <1>1, <2>3, Zenon DEF ResolvedOf
  <2>5. n \in DOMAIN stack /\ CatalogPath \in DOMAIN stack[n].files
    BY <2>2, Zenon DEF HoldersOf
  <2>. QED
    BY <1>1, <2>4, <2>5, Zenon DEF FilesInv, CatalogTyped
<1>2. CASE HoldersOf(stack, CatalogPath) = {}
  <2>1. CatalogPath \in DOMAIN tree /\ ResolvedOf(tree, stack, CatalogPath) = tree[CatalogPath]
    BY <1>2, Zenon DEF ResolvedOf
  <2>. QED
    BY <2>1, Zenon DEF FilesInv, CatalogTyped
<1>. QED
  BY <1>1, <1>2

LEMMA ReadIs ==
  /\ \A path : Holders(path) = HoldersOf(overlays, path)
  /\ \A path : Resolved(path) = ResolvedOf(client, overlays, path)
  /\ ScannedKeys = ScannedOf(client, overlays)
  /\ Made = MadeOf(overlays)
  /\ BaseCatalog = BaseOf(client, overlays)
<1>1. \A path : Holders(path) = HoldersOf(overlays, path)
  BY Zenon DEF Holders, HoldersOf
<1>2. \A path : Resolved(path) = ResolvedOf(client, overlays, path)
  BY <1>1, Zenon DEF Resolved, ResolvedOf
<1>3. ScannedKeys = ScannedOf(client, overlays)
  BY Zenon DEF ScannedKeys, ScannedOf
<1>4. Made = MadeOf(overlays)
  BY Zenon DEF Made, MadeOf
<1>5. BaseCatalog = BaseOf(client, overlays)
  BY <1>1, <1>4, Zenon DEF BaseCatalog, BaseOf
<1>. QED
  BY <1>1, <1>2, <1>3, <1>4, <1>5

\* What append-region makes of a request.
RootOf(output, request, auxiliary) ==
  [files |-> [path \in {CatalogPath} |-> output],
   made |-> [by |-> "append", claims |-> {request.add.resource, auxiliary},
             add |-> request.add, auxiliary |-> auxiliary]]

LEMMA AppendToIs ==
  ASSUME NEW input, NEW request, AppendTo(input, request) # Refused
  PROVE  \E output, type, environment, auxiliary :
           /\ output = AppendRoot(input, request.like, request.likeChild, request.add, request.environment)
           /\ output # Refused
           /\ environment = Environment(Parse(input), request.environment)
           /\ auxiliary = Derive(request.add.resource, <<[dat |-> request.add.resource]>> \o environment)
           /\ AppendVerified(input, output, request.add, type, auxiliary, environment)
           /\ AppendTo(input, request) = RootOf(output, request, auxiliary)
  BY Zenon DEF AppendTo, RootOf

LEMMA AppendFits ==
  ASSUME NEW request \in Appends, IInv, Append1(request)
  PROVE  Fits(client, overlays, ready')
<1>. PICK input : input = ResolvedOf(client, overlays, CatalogPath)
  OBVIOUS
<1>1. input # Refused /\ ready' # Refused /\ ready' = AppendTo(input, request)
  BY ReadIs, Zenon DEF Append1, Put
<1>2. FilesInv(client, overlays)
  BY Zenon DEF IInv, StackInv
<1>3. input \in RegionFile /\ (HoldersOf(overlays, CatalogPath) # {} \/ CatalogPath \in DOMAIN client)
  BY <1>1, <1>2, ReadTyped, Zenon
<1>4. request.add \in Additions
  BY RequestsAssumption
<1>. PICK old : old = Parse(input)
  OBVIOUS
<1>5. PICK output, type, environment, auxiliary :
           /\ output = AppendRoot(input, request.like, request.likeChild, request.add, request.environment)
           /\ output # Refused
           /\ environment = Environment(Parse(input), request.environment)
           /\ auxiliary = Derive(request.add.resource, <<[dat |-> request.add.resource]>> \o environment)
           /\ AppendVerified(input, output, request.add, type, auxiliary, environment)
           /\ AppendTo(input, request) = RootOf(output, request, auxiliary)
  BY <1>1, AppendToIs
<1>6. Addition(input, output, request.add, environment)
  BY <1>3, <1>4, <1>5, AppendRootAdds, Zenon
<1>7. ResourceFree(old, request.add, environment)
  BY <1>6, Zenon DEF Addition
<1>8. auxiliary \notin OccupiedInCatalog(old) \cup {request.add.resource}
  BY <1>5, <1>7, Zenon DEF ResourceFree
<1>9. /\ auxiliary # request.add.resource /\ auxiliary \notin Derived(old)
      /\ \A k \in DOMAIN old.rows : old.rows[k].dat # auxiliary
  BY <1>8 DEF OccupiedInCatalog
<1>10. Taken(input, output, request.add, auxiliary)
  BY <1>5, <1>6, <1>9, VerifiedTakes, Zenon
<1>11. request.add.resource \in Int /\ auxiliary \in Int
  BY <1>10, Zenon DEF Taken, Registers, FreshKeys
<1>. PICK files : files = [path \in {CatalogPath} |-> output]
  OBVIOUS
<1>12. DOMAIN files = {CatalogPath} /\ files[CatalogPath] = output
  OBVIOUS
<1>. PICK new : new = RootOf(output, request, auxiliary)
  OBVIOUS
<1>13. /\ new.files = files /\ new.made.by = "append" /\ new.made.add = request.add
       /\ new.made.auxiliary = auxiliary /\ new.made.claims = {request.add.resource, auxiliary}
  BY DEF RootOf
<1>14. Claimed(new)
  BY <1>11, <1>13 DEF Claimed
<1>15. new.made.by # "user" /\ new.made.by # "package"
  BY <1>13
<1>. DEFINE Was == ResolvedOf(client, overlays, CatalogPath)
           Is == new.files[CatalogPath]
<1>16. Is = output /\ DOMAIN new.files = {CatalogPath} /\ Was = input
  BY <1>12, <1>13, Zenon
<1>17. /\ Is # Refused /\ Is \in RegionFile
       /\ Whole(Was) /\ Whole(Is) /\ Parse(Is).size = Len(Parse(Is).rows)
       /\ Registers(Parse(Was), Parse(Is), new.made.add, new.made.auxiliary)
  BY <1>5, <1>10, <1>13, <1>16, Zenon DEF Taken
<1>18. CatalogPath \in DOMAIN new.files /\ DOMAIN new.files \ {CatalogPath} = {}
  BY <1>16
<1>19. Fits(client, overlays, new)
  BY <1>3, <1>14, <1>15, <1>16, <1>17, <1>18, Zenon DEF Fits
<1>. QED
  BY <1>1, <1>5, <1>19, Zenon

\* What build-zone-package makes of a package.
KeysOf(package) ==
  <<package.add.resource, package.project.binding.newModel, package.project.binding.newPhb,
    package.add.resource + 1>>
PackageOf(package, floor, output) ==
  [files |-> PackageFiles(output, floor, KeysOf(package)),
   made |-> [by |-> "package", claims |-> ToSet(KeysOf(package)), add |-> package.add,
             auxiliary |-> package.add.resource + 1, project |-> package.project]]

LEMMA PreparedIs ==
  ASSUME NEW package, NEW floor, NEW input, NEW catalog,
         Prepared(package, floor, input, catalog) # Refused
  PROVE  /\ Pinned(package.project) /\ Unshadowed(package.project) /\ catalog # Refused
         /\ \A i \in DOMAIN KeysOf(package) : KeyFree(catalog, KeysOf(package)[i])
         /\ \E output :
              /\ output = AppendRoot(input, package.like, package.likeChild, package.add, Absent)
              /\ output # Refused
              /\ Registered(input, output, Parse(output), package.add, package.add.resource + 1)
              /\ Prepared(package, floor, input, catalog) = PackageOf(package, floor, output)
  BY Zenon DEF Prepared, KeysOf, PackageOf

LEMMA KeysAre ==
  ASSUME NEW package \in Packages
  PROVE  /\ DOMAIN KeysOf(package) = 1..4 /\ \A i \in 1..4 : KeysOf(package)[i] \in Int
         /\ KeysOf(package)[1] = package.add.resource /\ KeysOf(package)[4] = package.add.resource + 1
         /\ ToSet(KeysOf(package)) = {KeysOf(package)[i] : i \in 1..4}
<1>1. package.add.resource \in Nat
  BY RequestsAssumption DEF Additions
<1>2. package.project.binding.newModel \in Nat /\ package.project.binding.newPhb \in Nat
  BY RequestsAssumption
<1>3. /\ DOMAIN KeysOf(package) = 1..4
      /\ KeysOf(package)[1] = package.add.resource /\ KeysOf(package)[4] = package.add.resource + 1
      /\ KeysOf(package)[2] = package.project.binding.newModel
      /\ KeysOf(package)[3] = package.project.binding.newPhb
  BY DEF KeysOf
<1>4. \A i \in 1..4 : i = 1 \/ i = 2 \/ i = 3 \/ i = 4
  OBVIOUS
<1>5. \A i \in 1..4 : KeysOf(package)[i] \in Int
  BY <1>1, <1>2, <1>3, <1>4
<1>. QED
  BY <1>3, <1>5, Zenon DEF ToSet

LEMMA PackageFilesAre ==
  ASSUME NEW output, NEW floor, NEW keys
  PROVE  /\ DOMAIN PackageFiles(output, floor, keys) = {CatalogPath} \cup {Path(keys[i]) : i \in 1..3}
         /\ PackageFiles(output, floor, keys)[CatalogPath] = output
  BY Zenon DEF PackageFiles

LEMMA NoScenery ==
  ASSUME NEW table
  PROVE  Environment(table, Absent) = <<>>
  BY Zenon DEF Environment

LEMMA BuildFits ==
  ASSUME NEW package \in Packages, IInv, Build(package)
  PROVE  Fits(client, overlays, ready')
<1>. PICK input : input = ResolvedOf(client, overlays, CatalogPath)
  OBVIOUS
<1>. PICK floor : floor = FloorOf[package.project]
  OBVIOUS
<1>. PICK old : old = Parse(input)
  OBVIOUS
<1>. PICK auxiliary : auxiliary = package.add.resource + 1
  OBVIOUS
<1>. PICK keys : keys = KeysOf(package)
  OBVIOUS
<1>. PICK catalog : catalog = Catalog
  OBVIOUS
<1>1. /\ ready' # Refused /\ ready' = Prepared(package, floor, input, catalog)
  BY ReadIs, Zenon DEF Build, Put, Prepare
<1>2. FilesInv(client, overlays)
  BY Zenon DEF IInv, StackInv
<1>3. Prepared(package, floor, input, catalog) # Refused
  BY <1>1, Zenon
<1>4. /\ Pinned(package.project) /\ Unshadowed(package.project) /\ catalog # Refused
      /\ \A i \in DOMAIN keys : KeyFree(catalog, keys[i])
  BY <1>3, PreparedIs, Zenon
<1>5. PICK output :
        /\ output = AppendRoot(input, package.like, package.likeChild, package.add, Absent)
        /\ output # Refused
        /\ Registered(input, output, Parse(output), package.add, auxiliary)
        /\ Prepared(package, floor, input, catalog) = PackageOf(package, floor, output)
  BY <1>3, PreparedIs
<1>6. catalog = old /\ input # Refused
  BY <1>4, ReadIs, Zenon DEF Catalog
<1>7. input \in RegionFile /\ (HoldersOf(overlays, CatalogPath) # {} \/ CatalogPath \in DOMAIN client)
  BY <1>6, <1>2, ReadTyped, Zenon
<1>8. package.add \in Additions
  BY RequestsAssumption
<1>9. Addition(input, output, package.add, <<>>)
  <2>1. AppendRoot(input, package.like, package.likeChild, package.add, Absent) # Refused
    BY <1>5, Zenon
  <2>2. Addition(input, AppendRoot(input, package.like, package.likeChild, package.add, Absent), package.add,
                 Environment(Parse(input), Absent))
    BY <2>1, <1>7, <1>8, AppendRootAdds
  <2>3. Environment(Parse(input), Absent) = <<>>
    BY NoScenery
  <2>. QED
    BY <2>2, <2>3, <1>5
<1>10. /\ DOMAIN keys = 1..4 /\ \A i \in 1..4 : keys[i] \in Int
       /\ keys[1] = package.add.resource /\ keys[4] = auxiliary
       /\ ToSet(keys) = {keys[i] : i \in 1..4}
  BY KeysAre, Zenon
<1>11. ASSUME NEW i \in 1..4
       PROVE  /\ keys[i] \notin ScannedOf(client, overlays) /\ keys[i] \notin Derived(old)
              /\ \A k \in DOMAIN old.rows : old.rows[k].dat # keys[i]
              /\ Path(keys[i]) \notin DOMAIN client
              /\ \A j \in DOMAIN overlays : Path(keys[i]) \notin DOMAIN overlays[j].files
  <2>1. KeyFree(old, keys[i])
    BY <1>4, <1>6, <1>10, Zenon
  <2>2. ~Exists(Path(keys[i]))
    BY <2>1, Zenon DEF KeyFree
  <2>3. Path(keys[i]) \notin DOMAIN client /\ HoldersOf(overlays, Path(keys[i])) = {}
    BY <2>2, ReadIs, Zenon DEF Exists
  <2>4. \A j \in DOMAIN overlays : Path(keys[i]) \notin DOMAIN overlays[j].files
    BY <2>3 DEF HoldersOf
  <2>. QED
    BY <2>1, <2>3, <2>4, ReadIs, Zenon DEF KeyFree
<1>12. auxiliary # package.add.resource
  BY <1>10
<1>13. auxiliary \notin Derived(old) /\ \A k \in DOMAIN old.rows : old.rows[k].dat # auxiliary
  <2>1. 4 \in 1..4
    OBVIOUS
  <2>. QED
    BY <1>10, <1>11, <2>1, Zenon
<1>14. \E type : AppendVerified(input, output, package.add, type, auxiliary, <<>>)
  BY <1>5, Zenon DEF Registered
<1>15. Taken(input, output, package.add, auxiliary)
  BY <1>9, <1>12, <1>13, <1>14, VerifiedTakes, Zenon
<1>. PICK files : files = PackageFiles(output, floor, keys)
  OBVIOUS
<1>16. DOMAIN files = {CatalogPath} \cup {Path(keys[i]) : i \in 1..3} /\ files[CatalogPath] = output
  BY PackageFilesAre
<1>. PICK new : new = PackageOf(package, floor, output)
  OBVIOUS
<1>17. /\ new.files = files /\ new.made.by = "package" /\ new.made.add = package.add
       /\ new.made.auxiliary = auxiliary /\ new.made.claims = {keys[i] : i \in 1..4}
       /\ new.made.project = package.project
  BY <1>10 DEF PackageOf
<1>18. Claimed(new)
  <2>1. ASSUME NEW key \in new.made.claims
        PROVE  /\ key \in Int
               /\ key \in {new.made.add.resource, new.made.auxiliary} \/ \E path \in DOMAIN new.files : path.key = key
    <3>1. PICK i \in 1..4 : key = keys[i]
      BY <1>17
    <3>2. CASE i \in 1..3
      <4>1. Path(key) \in DOMAIN files /\ Path(key).key = key
        BY <1>16, <3>1, <3>2 DEF Path
      <4>. QED
        BY <4>1, <3>1, <1>10, <1>17, Zenon
    <3>3. CASE i = 4
      BY <3>1, <3>3, <1>10, <1>17
    <3>. QED
      BY <3>2, <3>3
  <2>. QED
    BY <2>1, Zenon DEF Claimed
<1>19. ASSUME NEW path \in DOMAIN files \ {CatalogPath}
       PROVE  path \notin DOMAIN client /\ \A j \in DOMAIN overlays : path \notin DOMAIN overlays[j].files
  <2>1. PICK i \in 1..3 : path = Path(keys[i])
    BY <1>16
  <2>2. i \in 1..4
    OBVIOUS
  <2>. QED
    BY <2>1, <2>2, <1>11, Zenon
<1>20. ASSUME NEW pinned \in InputsOf(package.project)
       PROVE  /\ pinned.path \in DOMAIN client /\ client[pinned.path] = pinned.content
              /\ \A j \in DOMAIN overlays : pinned.path \notin DOMAIN overlays[j].files
  <2>1. HoldersOf(overlays, pinned.path) = {}
    BY <1>4, ReadIs, Zenon DEF Unshadowed
  <2>2. \A j \in DOMAIN overlays : pinned.path \notin DOMAIN overlays[j].files
    BY <2>1 DEF HoldersOf
  <2>. QED
    BY <2>2, <1>4, Zenon DEF Pinned
<1>21. ASSUME NEW key \in new.made.claims
       PROVE  /\ key \notin ScannedOf(client, overlays) /\ key \notin Derived(old)
              /\ \A k \in DOMAIN old.rows : old.rows[k].dat # key
  <2>1. PICK i \in 1..4 : key = keys[i]
    BY <1>17
  <2>. QED
    BY <2>1, <1>11, Zenon
<1>22. new.made.by # "user"
  BY <1>17
<1>. DEFINE Was == ResolvedOf(client, overlays, CatalogPath)
           Is == new.files[CatalogPath]
<1>23. Is = output /\ CatalogPath \in DOMAIN new.files /\ Was = input
  BY <1>16, <1>17, Zenon
<1>24. /\ Is # Refused /\ Is \in RegionFile
       /\ Whole(Was) /\ Whole(Is) /\ Parse(Is).size = Len(Parse(Is).rows)
       /\ Registers(Parse(Was), Parse(Is), new.made.add, new.made.auxiliary)
  BY <1>5, <1>15, <1>17, <1>23, Zenon DEF Taken
<1>25. \A path \in DOMAIN new.files \ {CatalogPath} :
         path \notin DOMAIN client /\ \A j \in DOMAIN overlays : path \notin DOMAIN overlays[j].files
  BY <1>17, <1>19, Zenon
<1>26. \A key \in new.made.claims :
         /\ key \notin ScannedOf(client, overlays) /\ key \notin Derived(Parse(Was))
         /\ \A k \in DOMAIN Parse(Was).rows : Parse(Was).rows[k].dat # key
  BY <1>21, <1>23, Zenon
<1>27. \A pinned \in InputsOf(new.made.project) :
         /\ pinned.path \in DOMAIN client /\ client[pinned.path] = pinned.content
         /\ \A j \in DOMAIN overlays : pinned.path \notin DOMAIN overlays[j].files
  BY <1>17, <1>20, Zenon
<1>28. Fits(client, overlays, new)
  BY <1>7, <1>18, <1>22, <1>23, <1>24, <1>25, <1>26, <1>27, Zenon DEF Fits
<1>. QED
  BY <1>1, <1>5, <1>28, Zenon

-------------------------------------------------------------------------------
(* The invariant, and what it says of the client. *)

LEMMA InitInv == PInit => IInv
<1>. SUFFICES ASSUME PInit PROVE IInv
  OBVIOUS
<1>1. PICK stack \in Stacks : overlays = [i \in DOMAIN stack |-> [files |-> stack[i], made |-> OfUser]]
  BY Zenon DEF PInit
<1>2. /\ Len(stack) \in Nat /\ DOMAIN stack = 1..Len(stack)
      /\ \A i \in DOMAIN stack : CatalogTyped(stack[i])
  BY TreesAssumption
<1>3. /\ DOMAIN overlays = DOMAIN stack
      /\ \A i \in DOMAIN overlays : overlays[i].files = stack[i] /\ overlays[i].made.by = "user"
  BY <1>1 DEF OfUser
<1>4. IsList(overlays)
  <2>1. overlays \in Seq({[files |-> stack[i], made |-> OfUser] : i \in DOMAIN stack})
    BY <1>1, <1>2
  <2>. QED
    BY <2>1 DEF IsList
<1>5. FilesInv(client, overlays)
  BY <1>2, <1>3, <1>4, TreesAssumption, Zenon DEF FilesInv, PInit
<1>6. MadeOf(overlays) = {}
  BY <1>3, Zenon DEF MadeOf
<1>7. \A i \in DOMAIN overlays : overlays[i].made.by # "package"
  BY <1>3
<1>8. StackInv(client, overlays)
  BY <1>5, <1>6, <1>7, Zenon DEF StackInv, MadeInv, CatalogInv, ClaimInv, SceneInv
<1>. QED
  BY <1>8, Zenon DEF IInv, PInit

LEMMA StepInv == IInv /\ [PNext]_pvars => IInv'
<1>. SUFFICES ASSUME IInv, [PNext]_pvars PROVE IInv'
  OBVIOUS
<1>1. ASSUME NEW package \in Packages, Build(package) PROVE IInv'
  <2>1. Fits(client, overlays, ready')
    BY <1>1, BuildFits
  <2>2. UNCHANGED <<client, overlays>>
    BY <1>1 DEF Build
  <2>. QED
    BY <2>1, <2>2, Zenon DEF IInv
<1>2. ASSUME NEW request \in Appends, Append1(request) PROVE IInv'
  <2>1. Fits(client, overlays, ready')
    BY <1>2, AppendFits
  <2>2. UNCHANGED <<client, overlays>>
    BY <1>2 DEF Append1
  <2>. QED
    BY <2>1, <2>2, Zenon DEF IInv
<1>3. CASE Deploy
  <2>1. StackInv(client, <<ready>> \o overlays)
    BY <1>3, PushKeeps, Zenon DEF Deploy, IInv
  <2>. QED
    BY <2>1, <1>3, Zenon DEF Deploy, IInv
<1>4. CASE Drop
  BY <1>4, Zenon DEF Drop, IInv
<1>5. CASE UNCHANGED pvars
  <2>1. client' = client /\ overlays' = overlays /\ ready' = ready
    BY <1>5 DEF pvars
  <2>. QED
    BY <2>1, Zenon DEF IInv
<1>. QED
  BY <1>1, <1>2, <1>3, <1>4, <1>5, Zenon DEF PNext

\* The catalog that the client reads, once something was made.
LEMMA ReadCatalog ==
  ASSUME IInv, Made # {}
  PROVE  /\ Whole(Resolved(CatalogPath)) /\ Catalog = Parse(Resolved(CatalogPath)) /\ Counted(Catalog)
         /\ Catalog.size = Len(Catalog.rows) /\ BeginsWith(Catalog, BaseCatalog)
         /\ \A i \in Made : Holds(Catalog, overlays[i].made.add, overlays[i].made.auxiliary)
<1>0. StackInv(client, overlays) /\ Made = MadeOf(overlays) /\ BaseCatalog = BaseOf(client, overlays)
  BY ReadIs, Zenon DEF IInv
<1>1. IsList(overlays) /\ DOMAIN overlays = 1..Len(overlays) /\ Len(overlays) \in Nat
  BY <1>0, Zenon DEF StackInv, FilesInv, IsList
<1>2. PICK j \in MadeOf(overlays) : TRUE
  BY <1>0
<1>3. j \in 1..Len(overlays)
  BY <1>1 DEF MadeOf
<1>4. 1 \in 1..j
  BY <1>1, <1>3
<1>5. 1 \in DOMAIN overlays /\ CatalogPath \in DOMAIN overlays[1].files
  BY <1>0, <1>4, Zenon DEF StackInv, MadeInv, MadeOf
<1>6. Resolved(CatalogPath) = overlays[1].files[CatalogPath]
  BY <1>1, <1>5, ReadIs, TopCatalog, Zenon
<1>7. Resolved(CatalogPath) # Refused /\ Whole(Resolved(CatalogPath))
  BY <1>0, <1>6, Zenon DEF StackInv, CatalogInv
<1>8. Catalog = Parse(Resolved(CatalogPath))
  BY <1>7, Zenon DEF Catalog
<1>9. Counted(Catalog)
  BY <1>7, <1>8, WholeIsCounted, Zenon
<1>. QED
  BY <1>0, <1>6, <1>7, <1>8, <1>9, Zenon DEF StackInv, CatalogInv, BeginsWith

\* A registered root is where the client finds it by its key, and nowhere else.
LEMMA HeldRoot ==
  ASSUME NEW table, Counted(table), NEW made, NEW add, add = made.add, NEW auxiliary,
         auxiliary = made.auxiliary, NEW r \in DOMAIN table.roots, HoldsAt(table, add, auxiliary, r)
  PROVE  FoundAt(table, made, r) /\ ApartIn(table, made)
<1>1. /\ table.roots[r] \in 1..Len(table.rows) /\ Root(table, r).word0c \in Nat
      /\ table.roots[r] + Root(table, r).word0c <= Len(table.rows) /\ Root(table, r).word0c >= 1
  BY DEF HoldsAt, Counted
<1>2. DOMAIN table.rows = 1..Len(table.rows) /\ Len(table.rows) \in Nat
  BY DEF Counted
<1>3. table.roots[r] \in DOMAIN table.rows /\ table.roots[r] + 1 \in DOMAIN table.rows
  BY <1>1, <1>2
<1>4. RootsWith(table, add.rootKey) = {r}
  BY Zenon DEF RootsWith, HoldsAt
<1>5. Children(table, r)[1].dat = add.resource
  <2>1. 1 \in 1..Root(table, r).word0c
    BY <1>1
  <2>2. Children(table, r)[1] = table.rows[table.roots[r] + 1]
    BY <2>1, ChildrenOf, ZenonT(30)
  <2>. QED
    BY <2>2, <1>3, Zenon DEF HoldsAt
<1>6. \A k \in DOMAIN table.rows :
        /\ (table.rows[k].name = add.rootName) <=> (k = table.roots[r])
        /\ (table.rows[k].name = add.childName) <=> (k = table.roots[r] + 1)
        /\ (table.rows[k].dat = add.resource) <=> (k = table.roots[r] + 1)
        /\ table.rows[k].dat # auxiliary
  BY Zenon DEF HoldsAt
<1>7. /\ RowsNamed(table, add.rootName) = {table.roots[r]}
      /\ RowsNamed(table, add.childName) = {table.roots[r] + 1}
      /\ RowsWith(table, add.resource) = {table.roots[r] + 1}
      /\ RowsWith(table, auxiliary) = {}
  BY <1>3, <1>6, Zenon DEF RowsNamed, RowsWith
<1>8. AuxiliaryKey(table, r) = [status |-> "derived", key |-> auxiliary]
  BY Zenon DEF HoldsAt
<1>9. FoundAt(table, made, r)
  BY <1>4, <1>5, <1>7, <1>8, Zenon DEF FoundAt
<1>10. {add.resource, auxiliary} \cap OthersOf(table, made) = {}
  <2>1. ASSUME NEW s \in DOMAIN table.roots, Root(table, s).id # made.add.rootKey
        PROVE  AuxiliaryKey(table, s).key \notin {add.resource, auxiliary}
    BY <2>1, Zenon DEF HoldsAt
  <2>2. ASSUME NEW key \in OthersOf(table, made) PROVE key \notin {add.resource, auxiliary}
    BY <2>1 DEF OthersOf
  <2>. QED
    BY <2>2, Zenon
<1>11. Cardinality(RowsWith(table, add.resource)) = 1
  BY <1>7, FS_Singleton, Zenon
<1>. QED
  BY <1>7, <1>9, <1>10, <1>11, Zenon DEF ApartIn

LEMMA InvKept == IInv => RegistrationsKept
<1>. SUFFICES ASSUME IInv, Made # {} PROVE RegistrationsKept
  BY DEF RegistrationsKept
<1>. PICK table : table = Catalog
  OBVIOUS
<1>. PICK base : base = BaseCatalog
  OBVIOUS
<1>1. /\ Counted(table) /\ table.size = Len(table.rows) /\ BeginsWith(table, base)
      /\ \A i \in Made : Holds(table, overlays[i].made.add, overlays[i].made.auxiliary)
  BY ReadCatalog, Zenon
<1>2. SubSeq(table.rows, 1, Len(base.rows)) = base.rows
  <2>1. base.rows \in Seq(RowRecord) /\ Len(base.rows) \in Nat
    BY <1>1, FileType DEF BeginsWith
  <2>2. table.rows \in Seq(RowRecord) /\ Len(base.rows) <= Len(table.rows)
    BY <1>1 DEF BeginsWith, Counted
  <2>3. \A k \in 1..Len(base.rows) : table.rows[k] = base.rows[k]
    BY <1>1, Zenon DEF BeginsWith
  <2>. QED
    BY <2>1, <2>2, <2>3
<1>3. ASSUME NEW i \in Made
      PROVE  \E r \in DOMAIN table.roots : FoundAt(table, overlays[i].made, r)
  <2>1. PICK r \in DOMAIN table.roots :
          HoldsAt(table, overlays[i].made.add, overlays[i].made.auxiliary, r)
    BY <1>1, Zenon DEF Holds
  <2>. QED
    BY <2>1, <1>1, HeldRoot, Zenon
<1>. QED
  BY <1>1, <1>2, <1>3, Zenon DEF RegistrationsKept

LEMMA InvApart == IInv => KeysApart
<1>. SUFFICES ASSUME IInv PROVE KeysApart
  OBVIOUS
<1>. PICK table : table = Catalog
  OBVIOUS
<1>1. Made # {} =>
      /\ Counted(table)
      /\ \A i \in Made : Holds(table, overlays[i].made.add, overlays[i].made.auxiliary)
  BY ReadCatalog, Zenon
<1>2. ASSUME NEW i \in Built, NEW j \in Made, i < j
      PROVE  overlays[i].made.claims \cap overlays[j].made.claims = {}
  <2>1. ClaimInv(overlays) /\ j \in MadeOf(overlays) /\ DOMAIN overlays = 1..Len(overlays) /\ Len(overlays) \in Nat
    BY ReadIs, Zenon DEF IInv, StackInv, FilesInv, IsList
  <2>2. i \in DOMAIN overlays /\ j \in DOMAIN overlays /\ overlays[i].made.by = "package"
    BY Zenon DEF Built, Made
  <2>3. i \in 1..(j - 1)
    BY <1>2, <2>1, <2>2
  <2>. QED
    BY <2>1, <2>2, <2>3, Zenon DEF ClaimInv
<1>3. ASSUME NEW i \in Made PROVE ApartIn(table, overlays[i].made)
  <2>1. PICK r \in DOMAIN table.roots :
          HoldsAt(table, overlays[i].made.add, overlays[i].made.auxiliary, r)
    BY <1>1, Zenon DEF Holds
  <2>. QED
    BY <2>1, <1>1, HeldRoot, Zenon
<1>. QED
  BY <1>2, <1>3, Zenon DEF KeysApart

LEMMA InvLoads == IInv => ScenesLoad
<1>. SUFFICES ASSUME IInv, NEW i \in Built
              PROVE  /\ \A path \in DOMAIN overlays[i].files \ {CatalogPath} :
                          Resolved(path) = overlays[i].files[path]
                     /\ \A input \in InputsOf(overlays[i].made.project) :
                          input.path # CatalogPath => Resolved(input.path) = input.content
  BY DEF ScenesLoad
<1>1. /\ SceneInv(client, overlays) /\ i \in DOMAIN overlays /\ overlays[i].made.by = "package"
      /\ DOMAIN overlays = 1..Len(overlays) /\ Len(overlays) \in Nat
  BY Zenon DEF IInv, StackInv, FilesInv, IsList, Built
<1>2. ASSUME NEW path \in DOMAIN overlays[i].files \ {CatalogPath}
      PROVE  Resolved(path) = overlays[i].files[path]
  <2>1. \A j \in 1..(i - 1) : path \notin DOMAIN overlays[j].files
    BY <1>1, Zenon DEF SceneInv
  <2>2. Holders(path) \subseteq 1..Len(overlays) /\ i \in Holders(path)
    BY <1>1, <1>2 DEF Holders
  <2>3. ASSUME NEW m \in Holders(path) PROVE i <= m
    <3>1. path \in DOMAIN overlays[m].files /\ m \in 1..Len(overlays) /\ i \in 1..Len(overlays)
      BY <2>2 DEF Holders
    <3>2. m \notin 1..(i - 1)
      BY <2>1, <3>1, Zenon
    <3>. QED
      BY <3>1, <3>2, <1>1
  <2>4. Holders(path) \subseteq Nat
    BY <2>2, <1>1
  <2>5. Min(Holders(path)) = i
    BY <2>2, <2>3, <2>4, MinIs
  <2>. QED
    BY <2>2, <2>5, Zenon DEF Resolved
<1>3. ASSUME NEW input \in InputsOf(overlays[i].made.project), input.path # CatalogPath
      PROVE  Resolved(input.path) = input.content
  <2>1. /\ input.path \in DOMAIN client /\ client[input.path] = input.content
        /\ \A j \in DOMAIN overlays : input.path \notin DOMAIN overlays[j].files
    BY <1>1, <1>3, Zenon DEF SceneInv
  <2>2. Holders(input.path) = {}
    BY <2>1 DEF Holders
  <2>. QED
    BY <2>1, <2>2, Zenon DEF Resolved
<1>. QED
  BY <1>2, <1>3

(* The strengthened invariant: whatever was stacked so far, the catalog on top is
   whole and holds every registration, and what is ready fits what is below it
   (build-zone-package and append-region, the loader's order). *)
THEOREM Invariant == PSpec => []IInv
  BY InitInv, StepInv, PTL DEF PSpec

(* The catalog the client reads keeps every row it had and finds each registered
   root by its key, with the resource, auxiliary key and names it was given. *)
THEOREM Kept == PSpec => []RegistrationsKept
  BY Invariant, InvKept, PTL

(* No key is claimed twice: not by an older package or root, and by no row or
   derived key of the catalog the client reads. *)
THEOREM Apart == PSpec => []KeysApart
  BY Invariant, InvApart, PTL

(* The client loads the files of each package, and the inputs it was authored
   against, whatever is stacked on it later. *)
THEOREM Loads == PSpec => []ScenesLoad
  BY Invariant, InvLoads, PTL
===============================================================================
