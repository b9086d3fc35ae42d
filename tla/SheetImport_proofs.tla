------------------------- MODULE SheetImport_proofs -------------------------
(***************************************************************************)
(* What an import writes: nothing for an extraction nobody edited, only    *)
(* changed resources without a plan, and with one definitions that keep    *)
(* every file; for every client tree, every edit and any number of rounds. *)
(***************************************************************************)
EXTENDS SheetImport, SequenceTheorems, FiniteSetTheorems, WellFoundedInduction, TLAPS

(* Least elements, induction and iteration. *)

Less == {pair \in Nat \X Nat : pair[1] < pair[2]}

LEMMA LessIsWellFounded == IsWellFoundedOn(Less, Nat)
<1>1. Less = OpToRel(<, Nat)
  BY DEF Less, OpToRel
<1> QED
  BY <1>1, NatLessThanWellFounded

\* Every inhabited set of numbers has a least member.
LEMMA LeastExists ==
  ASSUME NEW S, S \subseteq Nat, S # {}
  PROVE  \E n \in S : \A m \in S : n <= m
<1>1. PICK n \in S : \A m \in S : ~(<<m, n>> \in Less)
  BY LessIsWellFounded, WFMin
<1>2. ASSUME NEW m \in S PROVE n <= m
  <2>1. n \in Nat /\ m \in Nat
    OBVIOUS
  <2>2. <<m, n>> \in Less <=> m < n
    BY <2>1 DEF Less
  <2> QED
    BY <1>1, <2>1, <2>2
<1> QED
  BY <1>2

\* A set that holds every number it holds the predecessors of.
LEMMA InductionTo ==
  ASSUME NEW n \in Nat, NEW S, \A k \in 0..n : 0..(k - 1) \subseteq S => k \in S
  PROVE  0..n \subseteq S
<1> SUFFICES ASSUME ~(0..n \subseteq S) PROVE FALSE
  OBVIOUS
<1> DEFINE Bad == {k \in 0..n : k \notin S}
<1>1. Bad \subseteq Nat /\ Bad # {}
  OBVIOUS
<1>2. PICK k \in Bad : \A j \in Bad : k <= j
  <2> HIDE DEF Bad
  <2> QED
    BY <1>1, LeastExists
<1>3. \A j \in 0..(k - 1) : j \in S
  BY <1>2
<1> QED
  BY <1>2, <1>3

\* The same, one number after the other.
LEMMA StepsTo ==
  ASSUME NEW n \in Nat, NEW S, 0 \in S, \A k \in 1..n : k - 1 \in S => k \in S
  PROVE  0..n \subseteq S
<1>1. ASSUME NEW k \in 0..n, 0..(k - 1) \subseteq S PROVE k \in S
  BY <1>1
<1> QED
  BY <1>1, InductionTo

Iterates(f, n, base, step) == f[0] = base /\ \A k \in 1..n : f[k] = step[<<k, f[k - 1]>>]

\* What a loop computes exists: a function that a number of steps determine.
LEMMA IterationExists ==
  ASSUME NEW T, NEW base \in T, NEW n \in Nat, NEW step \in [(1..n) \X T -> T]
  PROVE  \E f \in [0..n -> T] : Iterates(f, n, base, step)
<1> DEFINE Good == {m \in 0..n : \E f \in [0..m -> T] :
                      f[0] = base /\ \A k \in 1..m : f[k] = step[<<k, f[k - 1]>>]}
<1>1. 0 \in Good
  <2> DEFINE f == [k \in 0..0 |-> base]
  <2>1. f \in [0..0 -> T] /\ f[0] = base /\ \A k \in 1..0 : f[k] = step[<<k, f[k - 1]>>]
    OBVIOUS
  <2> HIDE DEF f
  <2> QED
    BY <2>1
<1>2. ASSUME NEW m \in 1..n, m - 1 \in Good PROVE m \in Good
  <2>1. PICK f \in [0..(m - 1) -> T] :
          f[0] = base /\ \A k \in 1..(m - 1) : f[k] = step[<<k, f[k - 1]>>]
    BY <1>2
  <2> DEFINE g == [k \in 0..m |-> IF k < m THEN f[k] ELSE step[<<m, f[m - 1]>>]]
  <2>2. f[m - 1] \in T /\ step[<<m, f[m - 1]>>] \in T
    BY <2>1
  <2>3. g \in [0..m -> T]
    BY <2>1, <2>2
  <2>4. g[0] = base
    BY <2>1
  <2>5. ASSUME NEW k \in 1..m PROVE g[k] = step[<<k, g[k - 1]>>]
    <3>1. CASE k = m
      <4>1. m \in 0..m /\ m - 1 \in 0..m /\ m - 1 < m /\ ~(m < m)
        OBVIOUS
      <4>2. g[m] = step[<<m, f[m - 1]>>] /\ g[m - 1] = f[m - 1]
        BY <4>1
      <4> HIDE DEF g
      <4> QED
        BY <3>1, <4>2
    <3>2. CASE k # m
      <4>1. k \in 1..(m - 1) /\ k \in 0..m /\ k - 1 \in 0..m /\ k < m /\ k - 1 < m
        BY <3>2
      <4>2. g[k] = f[k] /\ g[k - 1] = f[k - 1]
        BY <4>1
      <4> HIDE DEF g
      <4> QED
        BY <2>1, <4>1, <4>2
    <3> QED
      BY <3>1, <3>2
  <2> HIDE DEF g
  <2> QED
    BY <2>3, <2>4, <2>5
<1>3. n \in Good
  <2> HIDE DEF Good
  <2> QED
    BY <1>1, <1>2, StepsTo
<1> QED
  BY <1>3 DEF Iterates

-----------------------------------------------------------------------------
(* Greatest elements, and the ends that a row-offset file has. *)

LEMMA MaxIs ==
  ASSUME NEW S, S \subseteq Nat, S # {}, NEW u \in Nat, \A x \in S : x <= u
  PROVE  Max(S) \in S /\ \A x \in S : x <= Max(S)
<1>. DEFINE Above == {v \in Nat : \A x \in S : x <= v}
<1>1. PICK v \in Above : \A w \in Above : v <= w
  <2>1. Above \subseteq Nat /\ Above # {}
    OBVIOUS
  <2>. HIDE DEF Above
  <2>. QED
    BY <2>1, LeastExists
<1>2. v \in Nat /\ \A x \in S : x <= v
  OBVIOUS
<1>3. v \in S
  <2>. SUFFICES ASSUME v \notin S PROVE FALSE
    OBVIOUS
  <2>1. PICK x \in S : TRUE
    OBVIOUS
  <2>2. v - 1 \in Nat
    BY <1>2, <2>1
  <2>3. \A y \in S : y <= v - 1
    BY <1>2
  <2>4. v - 1 \in Above
    BY <2>2, <2>3
  <2>. QED
    BY <1>1, <1>2, <2>4
<1>4. \E x \in S : \A y \in S : x >= y
  BY <1>2, <1>3
<1>. HIDE DEF Above
<1>. QED
  BY <1>4, Zenon DEF Max

LEMMA Bounded ==
  ASSUME NEW n \in Nat, NEW f \in [1 .. n -> Nat]
  PROVE  \E u \in Nat : \A j \in 1 .. n : f[j] <= u
<1>. DEFINE T == {m \in 0 .. n : \E u \in Nat : \A j \in 1 .. m : f[j] <= u}
<1>1. 0 \in T
  OBVIOUS
<1>2. ASSUME NEW m \in 1 .. n, m - 1 \in T PROVE m \in T
  <2>1. PICK u \in Nat : \A j \in 1 .. (m - 1) : f[j] <= u
    BY <1>2
  <2>2. f[m] \in Nat /\ u + f[m] \in Nat
    OBVIOUS
  <2>3. ASSUME NEW j \in 1 .. m PROVE f[j] <= u + f[m]
    <3>1. CASE j = m
      BY <2>2, <3>1
    <3>2. CASE j # m
      <4>1. j \in 1 .. (m - 1) /\ f[j] \in Nat
        BY <3>2
      <4>. QED
        BY <2>1, <2>2, <4>1
    <3>. QED
      BY <3>1, <3>2
  <2>. QED
    BY <2>2, <2>3
<1>. HIDE DEF T
<1>3. n \in T
  BY <1>1, <1>2, StepsTo, n \in 0 .. n
<1>. QED
  BY <1>3 DEF T

\* The greatest of zero and the first numbers of a sequence.
LastBefore(ends, i) == Max({0} \cup {ends[j] : j \in 1 .. (i - 1)})

LEMMA BeforeIs ==
  ASSUME NEW ends \in Seq(Nat), NEW i \in 1 .. (Len(ends) + 1)
  PROVE  /\ LastBefore(ends, i) \in Nat /\ \A j \in 1 .. (i - 1) : ends[j] <= LastBefore(ends, i)
         /\ LastBefore(ends, i) = 0 \/ \E j \in 1 .. (i - 1) : LastBefore(ends, i) = ends[j]
<1>. DEFINE f == [j \in 1 .. (i - 1) |-> ends[j]]
            S == {0} \cup {ends[j] : j \in 1 .. (i - 1)}
<1>1. i - 1 \in Nat /\ \A j \in 1 .. (i - 1) : ends[j] \in Nat
  OBVIOUS
<1>2. PICK u \in Nat : \A j \in 1 .. (i - 1) : ends[j] <= u
  <2>1. f \in [1 .. (i - 1) -> Nat] /\ \A j \in 1 .. (i - 1) : f[j] = ends[j]
    BY <1>1
  <2>. HIDE DEF f
  <2>. QED
    BY <1>1, <2>1, Bounded
<1>3. S \subseteq Nat /\ S # {} /\ \A x \in S : x <= u
  BY <1>1, <1>2
<1>4. 0 \in S /\ \A j \in 1 .. (i - 1) : ends[j] \in S
  OBVIOUS
<1>5. \A x \in S : x = 0 \/ \E j \in 1 .. (i - 1) : x = ends[j]
  OBVIOUS
<1>6. LastBefore(ends, i) = Max(S)
  BY Zenon DEF LastBefore
<1>. HIDE DEF S
<1>. QED
  BY <1>3, <1>4, <1>5, <1>6, MaxIs

\* In a sound file every end is at or after the one before it.
Ascends(ends) ==
  /\ \A i \in 1 .. Len(ends) : LastBefore(ends, i) = IF i = 1 THEN 0 ELSE ends[i - 1]
  /\ \A i, j \in 1 .. Len(ends) : i <= j => ends[i] <= ends[j]

LEMMA SoundAscends ==
  ASSUME NEW ends \in Seq(Nat), ParseOffsets(ends).sound
  PROVE  Ascends(ends)
<1>1. Len(ends) \in Nat /\ DOMAIN ends = 1 .. Len(ends) /\ \A i \in 1 .. Len(ends) : ends[i] \in Nat
  OBVIOUS
<1>2. \A i \in 1 .. Len(ends) : ends[i] >= LastBefore(ends, i)
  <2>1. \A i \in DOMAIN ends : ends[i] >= LastBefore(ends, i)
    BY Zenon DEF ParseOffsets, LastBefore
  <2>. QED
    BY <1>1, <2>1
<1>3. ASSUME NEW i \in 1 .. Len(ends), NEW j \in 1 .. Len(ends), i <= j PROVE ends[i] <= ends[j]
  <2>1. CASE i = j
    BY <1>1, <2>1
  <2>2. CASE i # j
    <3>1. i \in 1 .. (j - 1) /\ j \in 1 .. (Len(ends) + 1)
      BY <1>1, <1>3, <2>2
    <3>2. LastBefore(ends, j) \in Nat /\ ends[i] <= LastBefore(ends, j)
      BY <3>1, BeforeIs
    <3>. QED
      BY <1>1, <1>2, <3>2
  <2>. QED
    BY <2>1, <2>2
<1>4. ASSUME NEW i \in 1 .. Len(ends) PROVE LastBefore(ends, i) = IF i = 1 THEN 0 ELSE ends[i - 1]
  <2>. PICK b : b = LastBefore(ends, i)
    OBVIOUS
  <2>1. /\ b \in Nat /\ \A j \in 1 .. (i - 1) : ends[j] <= b
        /\ b = 0 \/ \E j \in 1 .. (i - 1) : b = ends[j]
    <3>1. i \in 1 .. (Len(ends) + 1)
      BY <1>1
    <3>. QED
      BY <3>1, BeforeIs
  <2>2. CASE i = 1
    BY <2>1, <2>2
  <2>3. CASE i # 1
    <3>1. i - 1 \in 1 .. (i - 1) /\ i - 1 \in 1 .. Len(ends) /\ ends[i - 1] \in Nat
      BY <1>1, <2>3
    <3>2. ASSUME NEW j \in 1 .. (i - 1) PROVE ends[j] <= ends[i - 1]
      <4>1. j \in 1 .. Len(ends) /\ j <= i - 1
        BY <1>1
      <4>. QED
        BY <1>3, <3>1, <4>1
    <3>3. b <= ends[i - 1] /\ ends[i - 1] <= b
      BY <2>1, <3>1, <3>2
    <3>. QED
      BY <2>1, <2>3, <3>1, <3>3
  <2>. QED
    BY <2>2, <2>3
<1>. QED
  BY <1>3, <1>4 DEF Ascends

\* The slots of a sound file are pieces of what it measures.
LEMMA SlotsAre ==
  ASSUME NEW ends \in Seq(Nat), ParseOffsets(ends).sound, NEW t \in ParseOffsets(ends).slots
  PROVE  /\ t.index \in 0 .. (Len(ends) - 1) /\ t.from \in Nat /\ t.to \in Nat
         /\ t.from = (IF t.index = 0 THEN 0 ELSE ends[t.index]) /\ t.to = ends[t.index + 1]
         /\ t.from < t.to /\ t.to <= ParseOffsets(ends).length
<1>1. Len(ends) \in Nat /\ DOMAIN ends = 1 .. Len(ends) /\ \A i \in 1 .. Len(ends) : ends[i] \in Nat
  OBVIOUS
<1>2. PICK i \in DOMAIN ends : ends[i] > LastBefore(ends, i) /\ t = [index |-> i - 1, from |-> LastBefore(ends, i), to |-> ends[i]]
  <2>1. t \in {[index |-> i - 1, from |-> LastBefore(ends, i), to |-> ends[i]] : i \in {j \in DOMAIN ends : ends[j] > LastBefore(ends, j)}}
    BY Zenon DEF ParseOffsets, LastBefore
  <2>. QED
    BY <2>1
<1>3. Ascends(ends)
  BY SoundAscends
<1>4. ParseOffsets(ends).length = ends[Len(ends)]
  <2>1. ends # <<>>
    BY <1>2
  <2>. QED
    BY <2>1, Zenon DEF ParseOffsets
<1>5. LastBefore(ends, i) = (IF i = 1 THEN 0 ELSE ends[i - 1]) /\ ends[i] <= ends[Len(ends)]
  BY <1>1, <1>2, <1>3 DEF Ascends
<1>. QED
  BY <1>1, <1>2, <1>4, <1>5

-----------------------------------------------------------------------------
(* Sequences put together. *)

\* What a sequence of sequences is up to each of them.
\* The parts of a sequence of sequences, each appended to those before.
Joins(f, seqs) ==
  /\ f[0] = <<>>
  /\ \A k \in 1 .. Len(seqs) : f[k] = f[k - 1] \o seqs[k]

LEMMA JoinExists ==
  ASSUME NEW S, NEW seqs \in Seq(Seq(S))
  PROVE  \E f \in [0 .. Len(seqs) -> Seq(S)] : Joins(f, seqs)
<1>. DEFINE n == Len(seqs)
            step == [x \in (1 .. n) \X Seq(S) |-> x[2] \o seqs[x[1]]]
<1>1. n \in Nat /\ \A k \in 1 .. n : seqs[k] \in Seq(S)
  OBVIOUS
<1>2. step \in [(1 .. n) \X Seq(S) -> Seq(S)]
  BY <1>1, ConcatProperties
<1>3. <<>> \in Seq(S)
  OBVIOUS
<1>4. \A k \in 1 .. n, s \in Seq(S) : step[<<k, s>>] = s \o seqs[k]
  OBVIOUS
<1>. HIDE DEF step, n
<1>5. PICK f \in [0 .. n -> Seq(S)] : Iterates(f, n, <<>>, step)
  BY <1>1, <1>2, <1>3, IterationExists
<1>6. ASSUME NEW k \in 1 .. n PROVE f[k] = f[k - 1] \o seqs[k]
  <2>1. f[k] = step[<<k, f[k - 1]>>]
    BY <1>5 DEF Iterates
  <2>2. f[k - 1] \in Seq(S)
    BY <1>1
  <2>. QED
    BY <1>4, <2>1, <2>2
<1>. QED
  BY <1>5, <1>6 DEF Joins, Iterates, n

LEMMA FlattenJoins ==
  ASSUME NEW S, NEW seqs \in Seq(Seq(S)), NEW f \in [0 .. Len(seqs) -> Seq(S)], Joins(f, seqs)
  PROVE  FlattenSeq(seqs) = f[Len(seqs)]
<1>. DEFINE n == Len(seqs)
            Solves(h) == h = [i \in 1 .. n |-> IF i = 1 THEN seqs[i] ELSE h[i - 1] \o seqs[i]]
            flatten == CHOOSE h : Solves(h)
<1>1. n \in Nat /\ \A k \in 1 .. n : seqs[k] \in Seq(S)
  OBVIOUS
<1>2. CASE n = 0
  <2>1. seqs = <<>>
    BY <1>2
  <2>. QED
    BY <1>2, <2>1 DEF FlattenSeq, Joins
<1>3. CASE n # 0
  <2>1. FlattenSeq(seqs) = flatten[n]
    BY <1>3, Zenon DEF FlattenSeq
  <2>2. \E h : Solves(h)
    <3>. DEFINE h == [i \in 1 .. n |-> f[i]]
    <3>1. ASSUME NEW i \in 1 .. n
          PROVE  h[i] = IF i = 1 THEN seqs[i] ELSE h[i - 1] \o seqs[i]
      <4>1. CASE i = 1
        <5>1. f[1] = f[0] \o seqs[1]
          BY <1>3, <4>1 DEF Joins
        <5>. QED
          BY <1>1, <4>1, <5>1 DEF Joins
      <4>2. CASE i # 1
        <5>1. i - 1 \in 1 .. n
          BY <1>1, <4>2
        <5>2. f[i] = f[i - 1] \o seqs[i]
          BY DEF Joins
        <5>. QED
          BY <4>2, <5>1, <5>2
      <4>. QED
        BY <4>1, <4>2
    <3>2. h = [i \in 1 .. n |-> IF i = 1 THEN seqs[i] ELSE h[i - 1] \o seqs[i]]
      BY <3>1
    <3>. QED
      BY <3>2
  <2>3. Solves(flatten)
    BY <2>2
  <2>4. \A i \in 1 .. n : flatten[i] = IF i = 1 THEN seqs[i] ELSE flatten[i - 1] \o seqs[i]
    <3>. HIDE DEF flatten
    <3>. QED
      BY <2>3
  <2>. HIDE DEF flatten
  <2>. DEFINE T == {k \in 0 .. n : k = 0 \/ flatten[k] = f[k]}
  <2>5. ASSUME NEW k \in 1 .. n, k - 1 \in T PROVE k \in T
    <3>1. f[k] = f[k - 1] \o seqs[k]
      BY DEF Joins
    <3>2. CASE k = 1
      <4>1. flatten[1] = seqs[1]
        BY <2>4, <3>2
      <4>2. <<>> \o seqs[1] = seqs[1]
        BY <1>1, <3>2, ConcatEmptySeq
      <4>3. f[0] = <<>> /\ k - 1 = 0 /\ k \in 0 .. n
        BY <1>1, <3>2 DEF Joins
      <4>. QED
        BY <3>1, <3>2, <4>1, <4>2, <4>3
    <3>3. CASE k # 1
      <4>1. k - 1 # 0 /\ k \in 0 .. n
        BY <1>1, <3>3
      <4>2. flatten[k - 1] = f[k - 1] /\ flatten[k] = flatten[k - 1] \o seqs[k]
        BY <2>4, <2>5, <3>3, <4>1
      <4>. QED
        BY <3>1, <4>1, <4>2
    <3>. QED
      BY <3>2, <3>3
  <2>6. n \in T
    <3>1. 0 \in T /\ n \in 0 .. n
      BY <1>1
    <3>. HIDE DEF T, n
    <3>2. 0 .. n \subseteq T
      BY <1>1, <2>5, <3>1, StepsTo
    <3>. QED
      BY <3>1, <3>2
  <2>. QED
    BY <1>3, <2>1, <2>6
<1>. QED
  BY <1>2, <1>3

LEMMA ConcatRange ==
  ASSUME NEW S, NEW a \in Seq(S), NEW b \in Seq(S)
  PROVE  Range(a \o b) = Range(a) \cup Range(b)
<1>. PICK c : c = a \o b
  OBVIOUS
<1>1. /\ c \in Seq(S) /\ Len(c) = Len(a) + Len(b) /\ Len(a) \in Nat /\ Len(b) \in Nat
      /\ \A i \in 1 .. Len(a) + Len(b) : c[i] = IF i <= Len(a) THEN a[i] ELSE b[i - Len(a)]
  BY ConcatProperties
<1>2. DOMAIN a = 1 .. Len(a) /\ DOMAIN b = 1 .. Len(b) /\ DOMAIN c = 1 .. Len(a) + Len(b)
  BY <1>1
<1>3. ASSUME NEW i \in DOMAIN c PROVE c[i] \in Range(a) \cup Range(b)
  <2>1. CASE i <= Len(a)
    <3>1. i \in DOMAIN a /\ c[i] = a[i]
      BY <1>1, <1>2, <2>1
    <3>. QED
      BY <3>1 DEF Range
  <2>2. CASE ~(i <= Len(a))
    <3>1. i - Len(a) \in DOMAIN b /\ c[i] = b[i - Len(a)]
      BY <1>1, <1>2, <2>2
    <3>. QED
      BY <3>1 DEF Range
  <2>. QED
    BY <2>1, <2>2
<1>4. ASSUME NEW i \in DOMAIN a PROVE a[i] \in Range(c)
  <2>1. i \in DOMAIN c /\ c[i] = a[i]
    BY <1>1, <1>2
  <2>. QED
    BY <2>1 DEF Range
<1>5. ASSUME NEW i \in DOMAIN b PROVE b[i] \in Range(c)
  <2>1. Len(a) + i \in DOMAIN c /\ c[Len(a) + i] = b[i]
    BY <1>1, <1>2
  <2>. QED
    BY <2>1 DEF Range
<1>6. Range(c) \subseteq Range(a) \cup Range(b)
  BY <1>3, Zenon DEF Range
<1>7. Range(a) \subseteq Range(c) /\ Range(b) \subseteq Range(c)
  BY <1>4, <1>5, Zenon DEF Range
<1>. QED
  BY <1>6, <1>7

\* What is put together has the members of its parts.
LEMMA FlattenRange ==
  ASSUME NEW S, NEW seqs \in Seq(Seq(S))
  PROVE  /\ FlattenSeq(seqs) \in Seq(S)
         /\ \A x : x \in Range(FlattenSeq(seqs)) <=> \E k \in DOMAIN seqs : x \in Range(seqs[k])
<1>. DEFINE n == Len(seqs)
<1>1. n \in Nat /\ DOMAIN seqs = 1 .. n /\ \A k \in 1 .. n : seqs[k] \in Seq(S)
  OBVIOUS
<1>2. PICK f \in [0 .. n -> Seq(S)] : Joins(f, seqs)
  BY JoinExists
<1>3. FlattenSeq(seqs) = f[n]
  BY <1>2, FlattenJoins
<1>. DEFINE T == {m \in 0 .. n : \A x : x \in Range(f[m]) <=> \E k \in 1 .. m : x \in Range(seqs[k])}
<1>4. 0 \in T
  <2>1. f[0] = <<>>
    BY <1>2 DEF Joins
  <2>2. Range(f[0]) = {}
    BY <2>1 DEF Range
  <2>. QED
    BY <1>1, <2>2
<1>5. ASSUME NEW m \in 1 .. n, m - 1 \in T PROVE m \in T
  <2>1. f[m] = f[m - 1] \o seqs[m] /\ f[m - 1] \in Seq(S) /\ seqs[m] \in Seq(S)
    <3>1. m - 1 \in 0 .. n /\ m \in 1 .. n
      BY <1>1
    <3>. QED
      BY <1>1, <1>2, <3>1 DEF Joins
  <2>2. Range(f[m]) = Range(f[m - 1]) \cup Range(seqs[m])
    BY <2>1, ConcatRange
  <2>3. ASSUME NEW x
        PROVE  x \in Range(f[m]) <=> \E k \in 1 .. m : x \in Range(seqs[k])
    <3>1. x \in Range(f[m - 1]) <=> \E k \in 1 .. (m - 1) : x \in Range(seqs[k])
      BY <1>5
    <3>2. \A k \in 1 .. m : k \in 1 .. (m - 1) \/ k = m
      OBVIOUS
    <3>3. \A k \in 1 .. (m - 1) : k \in 1 .. m
      OBVIOUS
    <3>4. m \in 1 .. m
      OBVIOUS
    <3>. QED
      BY <2>2, <3>1, <3>2, <3>3, <3>4, Zenon
  <2>. QED
    BY <2>3
<1>6. n \in T
  <2>1. n \in 0 .. n
    BY <1>1
  <2>. HIDE DEF T, n
  <2>2. 0 .. n \subseteq T
    BY <1>1, <1>4, <1>5, StepsTo
  <2>. QED
    BY <2>1, <2>2
<1>. QED
  BY <1>1, <1>2, <1>3, <1>6

-----------------------------------------------------------------------------
(* What is loaded from the files. *)

\* A document that parses is a sequence of sheets that do.
LEMMA ParsedSheets ==
  ASSUME NEW doc, ParseDocument(doc) # Refused
  PROVE  /\ \A s \in DOMAIN doc.sheets : SheetParses(doc.sheets[s])
         /\ ParseDocument(doc) = [s \in DOMAIN doc.sheets |-> ParseSheet(doc.sheets[s])]
         /\ DOMAIN doc.sheets = 1 .. Len(doc.sheets) /\ Len(doc.sheets) \in Nat
<1>. PICK sheets : sheets = doc.sheets
  OBVIOUS
<1>. DEFINE S == {e \in Range(sheets) : SheetParses(e)}
<1>1. sheets \in Seq(S) /\ ParseDocument(doc) = [s \in DOMAIN sheets |-> ParseSheet(sheets[s])]
  BY Zenon DEF ParseDocument
<1>2. \A e \in S : SheetParses(e)
  OBVIOUS
<1>. HIDE DEF S
<1>. QED
  BY <1>1, <1>2

\* A part of a block is what the files have under its identifier, in one of the three roles.
PartsFrom(fs, parts) ==
  \A p \in parts : /\ p[1] \in DOMAIN fs /\ p[2].as = fs[p[1]].as /\ p[2].of = fs[p[1]].of
                   /\ p[2].as \in {"data", "enable", "offsets"}

\* A block that was loaded says what its three files have, and in which role.
LEMMA LoadedIs ==
  ASSUME NEW fs, NEW s, NEW at, NEW b, b = LoadBlock(fs, s, at), b # None,
         BlockLoads(fs, s, s.files[at[2]])
  PROVE  b.force = FALSE /\ PartsFrom(fs, Parts(b.file, b))
<1>. PICK f : f = s.files[at[2]]
  OBVIOUS
<1>1. /\ b.file = f /\ b.force = FALSE
      /\ b.data = fs[f.data].of /\ b.enable = fs[f.enable].of /\ b.offsets = fs[f.offsets].of
      /\ Is(fs, f.data, "data") /\ Is(fs, f.enable, "enable") /\ Is(fs, f.offsets, "offsets")
  <2>1. Is(fs, f.data, "data") /\ Is(fs, f.enable, "enable") /\ Is(fs, f.offsets, "offsets")
    BY Zenon DEF BlockLoads
  <2>. QED
    BY <2>1 DEF LoadBlock
<1>2. /\ f.data \in DOMAIN fs /\ fs[f.data].as = "data"
      /\ f.enable \in DOMAIN fs /\ fs[f.enable].as = "enable"
      /\ f.offsets \in DOMAIN fs /\ fs[f.offsets].as = "offsets"
  BY <1>1, Zenon DEF Is
<1>3. ASSUME NEW p \in Parts(b.file, b)
      PROVE  \/ p[1] = f.data /\ p[2].as = "data" /\ p[2].of = fs[f.data].of
             \/ p[1] = f.enable /\ p[2].as = "enable" /\ p[2].of = fs[f.enable].of
             \/ p[1] = f.offsets /\ p[2].as = "offsets" /\ p[2].of = fs[f.offsets].of
  <2>. PICK d, e, o : d = b.data /\ e = b.enable /\ o = b.offsets
    OBVIOUS
  <2>1. d = fs[f.data].of /\ e = fs[f.enable].of /\ o = fs[f.offsets].of
    BY <1>1, Zenon
  <2>2. p \in {<<f.data, [as |-> "data", of |-> d]>>, <<f.enable, [as |-> "enable", of |-> e]>>,
               <<f.offsets, [as |-> "offsets", of |-> o]>>}
    BY <1>1, <1>3, Zenon DEF Parts
  <2>3. \/ p[1] = f.data /\ p[2].as = "data" /\ p[2].of = d
        \/ p[1] = f.enable /\ p[2].as = "enable" /\ p[2].of = e
        \/ p[1] = f.offsets /\ p[2].as = "offsets" /\ p[2].of = o
    <3>. HIDE <1>1, <1>2
    <3>. QED
      BY <2>2
  <2>. QED
    BY <2>1, <2>3, Zenon
<1>4. ASSUME NEW p \in Parts(b.file, b)
      PROVE  /\ p[1] \in DOMAIN fs /\ p[2].as = fs[p[1]].as /\ p[2].of = fs[p[1]].of
             /\ p[2].as \in {"data", "enable", "offsets"}
  <2>1. CASE p[1] = f.data /\ p[2].as = "data" /\ p[2].of = fs[f.data].of
    BY <1>2, <2>1, Zenon
  <2>2. CASE p[1] = f.enable /\ p[2].as = "enable" /\ p[2].of = fs[f.enable].of
    BY <1>2, <2>2, Zenon
  <2>3. CASE p[1] = f.offsets /\ p[2].as = "offsets" /\ p[2].of = fs[f.offsets].of
    BY <1>2, <2>3, Zenon
  <2>. QED
    BY <1>3, <2>1, <2>2, <2>3, Zenon
<1>. QED
  BY <1>1, <1>4, Zenon DEF PartsFrom

\* What the sheet element of a definition gives.
LEMMA SheetIs ==
  ASSUME NEW e, SheetParses(e), ParseSheet(e).kind = "definition"
  PROVE  /\ ParseSheet(e).files \in Seq(FileBlock) /\ ParseSheet(e).columns \in Seq(Types)
         /\ Range(ParseSheet(e).columns) \subseteq Types
<1>. DEFINE Some(tag) == \E c \in Range(e.children) : c.tag = tag
            The(tag) == CHOOSE c \in Range(e.children) : c.tag = tag
<1>1. DOMAIN e.children # {}
  BY DEF ParseSheet
<1>2. /\ ParseSheet(e).files = IF Some("block") THEN The("block").files ELSE <<>>
      /\ ParseSheet(e).columns = The("type").params
  BY <1>1 DEF ParseSheet
<1>3. /\ The("type").params \in Seq(Types)
      /\ Some("block") => The("block").files \in Seq(FileBlock)
  BY <1>1, Zenon DEF SheetParses
<1>4. <<>> \in Seq(FileBlock)
  OBVIOUS
<1>. HIDE DEF Some, The
<1>5. \A q \in Seq(Types) : Range(q) \subseteq Types
  BY DEF Range
<1>. QED
  BY <1>2, <1>3, <1>4, <1>5

\* A row that parses has a value of its type or none in each column.
RowOf(row, columns) ==
  DOMAIN row = DOMAIN columns /\ \A k \in DOMAIN columns : row[k] = Omitted \/ row[k] \in ValuesOf(columns[k])

\* What a row is stored as: values up to the last column or the one before it.
Spans(row, columns) ==
  /\ DOMAIN row = DOMAIN columns
  /\ \E n \in {Len(columns) - 1, Len(columns)} :
       /\ n > 0
       /\ \A k \in DOMAIN columns : IF k <= n THEN row[k] \in ValuesOf(columns[k]) ELSE row[k] = Omitted

LEMMA RowsParse ==
  ASSUME NEW S, NEW values \in Seq(S), NEW columns \in Seq(Types), SpanParses(values, columns)
  PROVE  /\ RowOf(ParseRowSpan(values, columns), columns)
         /\ Spans(ParseRowSpan(values, columns), columns)
<1>. PICK width : width = Len(columns)
  OBVIOUS
<1>1. PICK n : /\ n = width - 1 \/ n = width
               /\ n # 0 /\ n >= 0 /\ RowParses(values, SubSeq(columns, 1, n))
  BY Zenon DEF SpanParses
<1>2. width \in Nat /\ DOMAIN columns = 1 .. width
  OBVIOUS
<1>3. n \in Nat /\ n > 0 /\ n <= width
  BY <1>1, <1>2
<1>4. Len(SubSeq(columns, 1, n)) = n /\ \A k \in 1 .. n : SubSeq(columns, 1, n)[k] = columns[k]
  BY <1>2, <1>3
<1>5. Len(values) = n /\ \A k \in DOMAIN values : values[k] \in ValuesOf(SubSeq(columns, 1, n)[k])
  BY <1>1, <1>4, Zenon DEF RowParses
<1>6. DOMAIN values = 1 .. n
  BY <1>5
<1>. PICK row : row = ParseRowSpan(values, columns)
  OBVIOUS
<1>7. /\ DOMAIN row = DOMAIN columns
      /\ \A k \in DOMAIN columns : row[k] = IF k \in DOMAIN values THEN values[k] ELSE Omitted
  BY DEF ParseRowSpan
<1>8. ASSUME NEW k \in DOMAIN columns
      PROVE  IF k <= n THEN row[k] \in ValuesOf(columns[k]) ELSE row[k] = Omitted
  <2>1. k \in 1 .. width /\ (k \in 1 .. n <=> k <= n)
    BY <1>2, <1>3
  <2>. QED
    BY <1>4, <1>5, <1>6, <1>7, <2>1, Zenon
<1>9. RowOf(row, columns)
  BY <1>7, <1>8, Zenon DEF RowOf
<1>10. n \in {Len(columns) - 1, Len(columns)}
  BY <1>1
<1>11. Spans(row, columns)
  BY <1>3, <1>7, <1>8, <1>10, Zenon DEF Spans
<1>. QED
  BY <1>9, <1>11

LEMMA Formats ==
  ASSUME NEW fs, NEW id
  PROVE  /\ Is(fs, id, "data") => fs[id].of \in Seq(Range(fs[id].of))
         /\ Is(fs, id, "enable") => fs[id].of \in Seq([first : Nat, count : Nat])
         /\ Is(fs, id, "offsets") => fs[id].of \in Seq(Nat)
<1>. PICK file : file = fs[id]
  OBVIOUS
<1>1. file.as = "data" /\ Formatted(file) => file.of \in Seq(Range(file.of))
  BY DEF Formatted
<1>2. file.as = "enable" /\ Formatted(file) => file.of \in Seq([first : Nat, count : Nat])
  BY DEF Formatted
<1>3. file.as = "offsets" /\ Formatted(file) => file.of \in Seq(Nat)
  BY DEF Formatted
<1>. QED
  BY <1>1, <1>2, <1>3, Zenon DEF Is

\* A block that was loaded has the columns of its sheet and rows of them, inside its range.
SheetBlock(b, s) ==
  /\ b.columns = s.columns /\ b.index = s.index /\ b.force = FALSE
  /\ \A id \in DOMAIN b.rows : Covers(b, id) /\ RowOf(b.rows[id], b.columns) /\ Spans(b.rows[id], b.columns)

LEMMA BlockIs ==
  ASSUME NEW fs, NEW s, NEW at, NEW b, b = LoadBlock(fs, s, at), b # None,
         BlockLoads(fs, s, s.files[at[2]]), s.columns \in Seq(Types)
  PROVE  SheetBlock(b, s)
<1>. DEFINE f == s.files[at[2]]
            data == fs[f.data].of
            ends == fs[f.offsets].of
            slots == ParseOffsets(ends).slots
            ids == ParseEnable(fs[f.enable].of).ids
<1>1. b.file = f /\ b.columns = s.columns /\ b.index = s.index /\ b.force = FALSE /\ b.rows = LoadRows(fs, s, f)
  BY DEF LoadBlock
<1>0. b.rows = [id \in ids |-> ParseRowSpan(Bytes(data, CHOOSE t \in slots : f.begin + t.index = id), s.columns)]
  BY <1>1, Zenon DEF LoadRows
<1>2. /\ Is(fs, f.data, "data") /\ Is(fs, f.offsets, "offsets")
      /\ ParseOffsets(ends).sound /\ ParseOffsets(ends).length = Len(data)
      /\ ids \subseteq f.begin .. (f.begin + f.count - 1)
      /\ {f.begin + t.index : t \in slots} = ids
      /\ \A t \in slots : SpanParses(Bytes(data, t), s.columns)
  BY Zenon DEF BlockLoads
<1>. HIDE DEF f, slots, ids
<1>3. data \in Seq(Range(data)) /\ ends \in Seq(Nat)
  BY <1>2, Formats, Zenon
<1>. HIDE DEF data, ends
<1>4. ASSUME NEW t \in slots PROVE Bytes(data, t) \in Seq(Range(data))
  <2>1. t.from \in Nat /\ t.to \in Nat /\ t.from < t.to /\ t.to <= Len(data)
    BY <1>2, <1>3, SlotsAre DEF slots
  <2>. QED
    BY <1>3, <2>1 DEF Bytes
<1>5. ASSUME NEW id \in DOMAIN b.rows
      PROVE  id \in ids /\ RowOf(b.rows[id], s.columns) /\ Spans(b.rows[id], s.columns)
  <2>. PICK t : t = CHOOSE u \in slots : f.begin + u.index = id
    OBVIOUS
  <2>1. id \in ids /\ b.rows[id] = ParseRowSpan(Bytes(data, t), s.columns)
    BY <1>0, <1>5, Zenon
  <2>2. t \in slots
    <3>1. \E u \in slots : f.begin + u.index = id
      BY <1>2, <2>1, Zenon
    <3>. QED
      BY <3>1, Zenon
  <2>3. SpanParses(Bytes(data, t), s.columns) /\ Bytes(data, t) \in Seq(Range(data))
    BY <1>2, <1>4, <2>2
  <2>. QED
    BY <2>1, <2>3, RowsParse
<1>. QED
  BY <1>1, <1>2, <1>5 DEF Covers, SheetBlock

LEMMA IsSequence ==
  ASSUME NEW n \in Nat, NEW S, NEW f \in [1 .. n -> S]
  PROVE  f \in Seq(S)
  OBVIOUS

\* The blocks of a document are what the files of its definitions load.
Loads(b, fs, s, i) == \E k \in DOMAIN s.files : b = LoadBlock(fs, s, <<i, k>>)

DocumentBlocks(order, fs, sheets) ==
  /\ \E S : order \in Seq(S)
  /\ \A b : b \in Range(order) <=>
       \E i \in DOMAIN sheets : sheets[i].kind = "definition" /\ Loads(b, fs, sheets[i], i)

LEMMA BlocksAre ==
  ASSUME NEW fs, NEW doc, ParseDocument(doc) # Refused
  PROVE  DocumentBlocks(LoadBlocks(fs, ParseDocument(doc)), fs, ParseDocument(doc))
<1>. PICK sheets : sheets = ParseDocument(doc)
  OBVIOUS
<1>. DEFINE Of(i) == IF sheets[i].kind = "definition"
                     THEN [k \in DOMAIN sheets[i].files |-> LoadBlock(fs, sheets[i], <<i, k>>)] ELSE <<>>
            seqs == [i \in DOMAIN sheets |-> Of(i)]
            S == UNION {Range(Of(i)) : i \in DOMAIN sheets}
<1>1. LoadBlocks(fs, sheets) = FlattenSeq(seqs)
  BY Zenon DEF LoadBlocks
<1>2. /\ \A i \in DOMAIN doc.sheets : SheetParses(doc.sheets[i])
      /\ sheets = [i \in DOMAIN doc.sheets |-> ParseSheet(doc.sheets[i])]
      /\ DOMAIN doc.sheets = 1 .. Len(doc.sheets) /\ Len(doc.sheets) \in Nat
  BY ParsedSheets
<1>3. ASSUME NEW i \in DOMAIN sheets PROVE Of(i) \in Seq(S)
  <2>1. CASE sheets[i].kind = "definition"
    <3>1. sheets[i].files \in Seq(FileBlock)
      BY <1>2, <2>1, SheetIs
    <3>2. DOMAIN sheets[i].files = 1 .. Len(sheets[i].files) /\ Len(sheets[i].files) \in Nat
      BY <3>1
    <3>3. DOMAIN Of(i) = 1 .. Len(sheets[i].files)
      BY <2>1, <3>2
    <3>4. \A k \in DOMAIN Of(i) : Of(i)[k] \in S
      <4>1. Range(Of(i)) \subseteq S
        OBVIOUS
      <4>. HIDE DEF Of, S
      <4>. QED
        BY <4>1, Zenon DEF Range
    <3>5. Of(i) \in [1 .. Len(sheets[i].files) -> S]
      BY <2>1, <3>2, <3>3, <3>4
    <3>. HIDE DEF Of, S
    <3>. QED
      BY <3>2, <3>5, IsSequence
  <2>2. CASE sheets[i].kind # "definition"
    BY <2>2
  <2>. QED
    BY <2>1, <2>2
<1>4. seqs \in Seq(Seq(S))
  <2>1. DOMAIN sheets = 1 .. Len(doc.sheets)
    BY <1>2
  <2>. HIDE DEF Of, S
  <2>. QED
    BY <1>2, <1>3, <2>1
<1>5. ASSUME NEW i \in DOMAIN sheets, NEW b
      PROVE  b \in Range(Of(i)) <=> sheets[i].kind = "definition" /\ Loads(b, fs, sheets[i], i)
  <2>1. CASE sheets[i].kind = "definition"
    <3>1. /\ DOMAIN Of(i) = DOMAIN sheets[i].files
          /\ \A k \in DOMAIN sheets[i].files : Of(i)[k] = LoadBlock(fs, sheets[i], <<i, k>>)
      BY <2>1
    <3>. HIDE DEF Of
    <3>2. b \in Range(Of(i)) <=> \E k \in DOMAIN Of(i) : b = Of(i)[k]
      BY DEF Range
    <3>. QED
      BY <2>1, <3>1, <3>2 DEF Loads
  <2>2. CASE sheets[i].kind # "definition"
    BY <2>2 DEF Range
  <2>. QED
    BY <2>1, <2>2
<1>6. DOMAIN seqs = DOMAIN sheets /\ \A i \in DOMAIN sheets : seqs[i] = Of(i)
  OBVIOUS
<1>. HIDE DEF seqs, S, Of
<1>7. /\ FlattenSeq(seqs) \in Seq(S)
      /\ \A b : b \in Range(FlattenSeq(seqs)) <=> \E i \in DOMAIN seqs : b \in Range(seqs[i])
  BY <1>4, FlattenRange
<1>8. \E T : LoadBlocks(fs, sheets) \in Seq(T)
  BY <1>1, <1>7
<1>9. ASSUME NEW b
      PROVE  b \in Range(LoadBlocks(fs, sheets)) <=>
               \E i \in DOMAIN sheets : sheets[i].kind = "definition" /\ Loads(b, fs, sheets[i], i)
  <2>1. b \in Range(LoadBlocks(fs, sheets)) <=> \E i \in DOMAIN sheets : b \in Range(Of(i))
    BY <1>1, <1>6, <1>7, Zenon
  <2>. QED
    BY <1>5, <2>1, Zenon
<1>10. DocumentBlocks(LoadBlocks(fs, sheets), fs, sheets)
  BY <1>8, <1>9, Zenon DEF DocumentBlocks
<1>. QED
  BY <1>10

\* A file that is registered was there before or is one of the parts.
LEMMA RegisterAdds ==
  ASSUME NEW files, NEW parts, NEW new, new = Register(files, parts)
  PROVE  \A id \in DOMAIN new : \/ id \in DOMAIN files /\ new[id] = files[id]
                               \/ \E p \in parts : p[1] = id /\ new[id] = p[2]
<1>1. new = [id \in DOMAIN files \cup {p[1] : p \in parts} |->
               IF id \in DOMAIN files THEN files[id] ELSE (CHOOSE p \in parts : p[1] = id)[2]]
  BY Zenon DEF Register
<1>. SUFFICES ASSUME NEW id \in DOMAIN new, id \notin DOMAIN files
              PROVE  \E p \in parts : p[1] = id /\ new[id] = p[2]
  BY <1>1
<1>2. \E p \in parts : p[1] = id
  BY <1>1
<1>. QED
  BY <1>1, <1>2

\* The blocks of a document are what its places load.
PlaceLoads(b, fs, s, at) ==
  b # None /\ b = LoadBlock(fs, s, at) /\ BlockLoads(fs, s, s.files[at[2]])

LEMMA BlocksLoaded ==
  ASSUME NEW fs, NEW doc, NEW sheets, sheets = ParseDocument(doc), sheets # Refused, DocumentLoads(fs, sheets),
         NEW b
  PROVE  b \in BlocksOf(fs, sheets) <=>
           \E i \in DOMAIN sheets : /\ sheets[i].kind = "definition"
                                    /\ \E k \in DOMAIN sheets[i].files : PlaceLoads(b, fs, sheets[i], <<i, k>>)
<1>. PICK order : order = LoadBlocks(fs, sheets)
  OBVIOUS
<1>1. BlocksOf(fs, sheets) = Range(order) \ {None}
  BY Zenon DEF BlocksOf
<1>2. DocumentBlocks(order, fs, sheets)
  BY BlocksAre
<1>3. ASSUME NEW i \in DOMAIN sheets, sheets[i].kind = "definition", NEW k \in DOMAIN sheets[i].files,
             LoadBlock(fs, sheets[i], <<i, k>>) # None
      PROVE  BlockLoads(fs, sheets[i], sheets[i].files[k])
  <2>1. sheets[i] \in DefinitionsOf(sheets) /\ sheets[i].files[k] \in Range(sheets[i].files)
    BY <1>3 DEF DefinitionsOf, Range
  <2>2. Shipped(fs, sheets[i].files[k])
    BY <1>3 DEF LoadBlock
  <2>. QED
    BY <2>1, <2>2, Zenon DEF DocumentLoads
<1>4. ASSUME NEW i, NEW k
      PROVE  PlaceLoads(b, fs, sheets[i], <<i, k>>) <=>
               /\ b # None /\ b = LoadBlock(fs, sheets[i], <<i, k>>)
               /\ BlockLoads(fs, sheets[i], sheets[i].files[k])
  <2>1. <<i, k>>[2] = k
    OBVIOUS
  <2>. QED
    BY <2>1, Zenon DEF PlaceLoads
<1>5. ASSUME b \in BlocksOf(fs, sheets)
      PROVE  \E i \in DOMAIN sheets : /\ sheets[i].kind = "definition"
                                      /\ \E k \in DOMAIN sheets[i].files : PlaceLoads(b, fs, sheets[i], <<i, k>>)
  <2>1. b # None /\ b \in Range(order)
    BY <1>1, <1>5
  <2>2. PICK i \in DOMAIN sheets : sheets[i].kind = "definition" /\ Loads(b, fs, sheets[i], i)
    BY <1>2, <2>1, Zenon DEF DocumentBlocks
  <2>3. PICK k \in DOMAIN sheets[i].files : b = LoadBlock(fs, sheets[i], <<i, k>>)
    BY <2>2, Zenon DEF Loads
  <2>. QED
    BY <1>3, <1>4, <2>1, <2>2, <2>3
<1>6. ASSUME NEW i \in DOMAIN sheets, sheets[i].kind = "definition",
             NEW k \in DOMAIN sheets[i].files, PlaceLoads(b, fs, sheets[i], <<i, k>>)
      PROVE  b \in BlocksOf(fs, sheets)
  <2>1. b # None /\ Loads(b, fs, sheets[i], i)
    BY <1>4, <1>6 DEF Loads
  <2>. QED
    BY <1>1, <1>2, <1>6, <2>1 DEF DocumentBlocks
<1>. QED
  BY <1>5, <1>6, Zenon

\* What is loaded for a document.
LEMMA LoadedDocument ==
  ASSUME NEW fs, NEW sheets, NEW loaded, loaded = LoadDocument(fs, sheets), loaded # Refused
  PROVE  /\ DocumentLoads(fs, sheets) /\ loaded.blocks = BlocksOf(fs, sheets)
         /\ loaded.table = MergedTable(DefinitionsOf(sheets), LoadBlocks(fs, sheets))
<1>. PICK table, blocks : table = MergedTable(DefinitionsOf(sheets), LoadBlocks(fs, sheets)) /\ blocks = BlocksOf(fs, sheets)
  OBVIOUS
<1>1. DocumentLoads(fs, sheets)
  BY Zenon DEF LoadDocument
<1>2. loaded = [table |-> table, blocks |-> blocks]
  BY <1>1, Zenon DEF LoadDocument
<1>. QED
  BY <1>1, <1>2

LEMMA LoadedPlaces ==
  ASSUME NEW fs, NEW doc, NEW sheets, sheets = ParseDocument(doc), sheets # Refused,
         NEW loaded, loaded = LoadDocument(fs, sheets), loaded # Refused
  PROVE  \A b \in loaded.blocks : \E s, at : PlaceLoads(b, fs, s, at)
<1>1. DocumentLoads(fs, sheets) /\ loaded.blocks = BlocksOf(fs, sheets)
  BY LoadedDocument
<1>. QED
  BY <1>1, BlocksLoaded

-----------------------------------------------------------------------------
(* Where an import is: it begins with nothing to write, processes documents that
   the client has, and makes no document of what was none. *)

Documents(fs) == {id \in DOMAIN fs : fs[id].as = "definition"}

WorkInv ==
  /\ pc = "edit" => work = NoWork
  /\ pc = "documents" => Discover(game) # Refused /\ todo \subseteq Named(game)
  /\ Documents(game) \cup Documents(work.resources) \cup Documents(overlay) \subseteq DOMAIN Client

\* A named document is a definition document, and parses.
LEMMA NamedParse ==
  ASSUME NEW fs, Discover(fs) # Refused, NEW n \in Named(fs)
  PROVE  n.id \in Discover(fs) /\ n.id \in Documents(fs) /\ ParseDocument(fs[n.id].of) # Refused
<1>1. PICK id, name : id \in Discover(fs) /\ n = [id |-> id, name |-> name]
  BY Zenon DEF Named, NameEach
<1>2. \A d \in Discover(fs) : d \in Documents(fs) /\ ParseDocument(fs[d].of) # Refused
  BY DEF Discover, Documents
<1>. QED
  BY <1>1, <1>2

\* What a document adds to the resources to be written.
Adds(n, sheets) ==
  LET grows == GrowEdits(n.name, sheets)
      adds == AddEdits(n.name, sheets)
      changes == grows \cup adds
      document == EditDefinition(game[n.id].of, changes)
  IN /\ grows # Refused /\ adds # Refused /\ (changes # {} => document # Refused)
     /\ todo' = todo \ {n} /\ pc' = pc
     /\ \A id \in DOMAIN work'.resources :
          \/ id \in DOMAIN work.resources /\ work'.resources[id] = work.resources[id]
          \/ changes # {} /\ id = n.id /\ work'.resources[id] = [as |-> "definition", of |-> document]
          \/ work'.resources[id].as # "definition"

\* What a block writes is no definition document.
LEMMA WrittenRoles ==
  ASSUME NEW b, NEW e, NEW p \in Written(b, e)
  PROVE  p[2].as # "definition"
<1>1. \E has : p \in Parts(b.file, has)
  BY Zenon DEF Written, Wanted
<1>. QED
  BY <1>1 DEF Parts

LEMMA ImportAdds ==
  ASSUME ImportDocument
  PROVE  \/ pc' = "refused" /\ UNCHANGED <<todo, work>>
         \/ \E n \in todo : Adds(n, ParseDocument(game[n.id].of))
<1>1. PICK n, sheets, loaded, grows, adds :
        /\ n \in todo /\ sheets = ParseDocument(game[n.id].of)
        /\ grows = GrowEdits(n.name, sheets) /\ adds = AddEdits(n.name, sheets)
        /\ ImportLoaded(n, sheets, loaded, grows, adds)
  BY Zenon DEF ImportDocument
<1>. SUFFICES ASSUME ~(pc' = "refused" /\ UNCHANGED <<todo, work>>)
              PROVE  Adds(n, sheets)
  BY <1>1
<1>. DEFINE changes == grows \cup adds
            document == EditDefinition(game[n.id].of, changes)
            blocks == PlannedBlocks(sheets, loaded.blocks, changes)
<1>2. /\ grows # Refused /\ adds # Refused
      /\ changes # {} => document # Refused
      /\ ImportParsed(n, loaded.table, blocks, changes, document)
  BY <1>1, Zenon DEF ImportLoaded, Refuse
<1>. HIDE DEF document, blocks, changes
<1>. DEFINE edited == [b \in blocks |->
              IF n.name \in DOMAIN csv THEN EditBlock(loaded.table, csv[n.name].rows, b) ELSE None]
            parts == UNION {Written(b, edited[b]) : b \in blocks}
            begun == IF changes = {} THEN work.resources
                     ELSE Over(work.resources, [id \in {n.id} |-> [as |-> "definition", of |-> document]])
            new == work'.resources
<1>3. new = Register(begun, parts) /\ todo' = todo \ {n} /\ pc' = pc
  <2>1. ~Refuse("cells") /\ ~Refuse("conflict")
    BY Zenon DEF Refuse
  <2>2. /\ todo' = todo \ {n} /\ pc' = pc
        /\ \E expected, intended, verify :
             work' = [resources |-> Register(begun, parts), expected |-> expected,
                      intended |-> intended, verify |-> verify]
    BY <1>2, <2>1, Zenon DEF ImportParsed
  <2>. HIDE DEF begun, parts
  <2>. QED
    BY <2>2
<1>4. \A p \in parts : p[2].as # "definition"
  BY WrittenRoles, Zenon
<1>5. \A id \in DOMAIN begun :
        \/ id \in DOMAIN work.resources /\ begun[id] = work.resources[id]
        \/ changes # {} /\ id = n.id /\ begun[id] = [as |-> "definition", of |-> document]
  BY DEF Over
<1>. HIDE DEF begun, parts, new, edited
<1>6. \A id \in DOMAIN new : \/ id \in DOMAIN begun /\ new[id] = begun[id]
                             \/ new[id].as # "definition"
  <2>1. \A id \in DOMAIN new : \/ id \in DOMAIN begun /\ new[id] = begun[id]
                               \/ \E p \in parts : p[1] = id /\ new[id] = p[2]
    BY <1>3, RegisterAdds
  <2>. QED
    BY <1>4, <2>1
<1>7. \A id \in DOMAIN new :
        \/ id \in DOMAIN work.resources /\ new[id] = work.resources[id]
        \/ changes # {} /\ id = n.id /\ new[id] = [as |-> "definition", of |-> document]
        \/ new[id].as # "definition"
  BY <1>5, <1>6
<1>. QED
  BY <1>1, <1>2, <1>3, <1>7, Zenon DEF Adds, changes, document, new

LEMMA WorkInit == Init => WorkInv
<1>. SUFFICES ASSUME Init PROVE WorkInv
  OBVIOUS
<1>1. game = Client /\ pc = "edit" /\ work = NoWork /\ overlay = <<>>
  BY Zenon DEF Init
<1>. QED
  BY <1>1 DEF WorkInv, Documents, NoWork

LEMMA WorkNext ==
  ASSUME WorkInv, [Next]_vars
  PROVE  WorkInv'
<1>1. CASE User
  <2>1. UNCHANGED <<game, pc, todo, work, overlay>>
    BY <1>1, Zenon DEF User, Retype, DropRow, AddRow, Discard, WritePlan, Edited
  <2>. QED
    BY <2>1, Zenon DEF WorkInv
<1>2. CASE Begin
  <2>1. /\ pc' # "edit" /\ UNCHANGED <<game, work, overlay>>
        /\ pc' = "documents" => Discover(game) # Refused /\ todo' = Named(game)
    BY <1>2, Zenon DEF Begin, Refuse
  <2>2. Discover(game)' = Discover(game) /\ Named(game)' = Named(game)
    BY <2>1, Zenon
  <2>. QED
    BY <2>1, <2>2 DEF WorkInv
<1>3. CASE ImportDocument
  <2>1. pc = "documents" /\ UNCHANGED <<game, overlay>>
    BY <1>3, Zenon DEF ImportDocument, ImportLoaded, ImportParsed, Refuse
  <2>2. Discover(game)' = Discover(game) /\ Named(game)' = Named(game) /\ Documents(game)' = Documents(game)
        /\ Documents(overlay)' = Documents(overlay)
    BY <2>1, Zenon
  <2>3. CASE pc' = "refused" /\ UNCHANGED <<todo, work>>
    BY <2>1, <2>2, <2>3, Zenon DEF WorkInv
  <2>4. CASE \E n \in todo : Adds(n, ParseDocument(game[n.id].of))
    <3>1. PICK n \in todo : Adds(n, ParseDocument(game[n.id].of))
      BY <2>4
    <3>2. pc' = "documents" /\ todo' \subseteq todo
      BY <2>1, <3>1 DEF Adds
    <3>3. n.id \in DOMAIN Client
      BY <2>1, NamedParse DEF WorkInv
    <3>4. Documents(work'.resources) \subseteq DOMAIN Client
      <4>1. \A id \in DOMAIN work'.resources :
              \/ id \in DOMAIN work.resources /\ work'.resources[id] = work.resources[id]
              \/ id = n.id
              \/ work'.resources[id].as # "definition"
        BY <3>1, Zenon DEF Adds
      <4>. QED
        BY <3>3, <4>1 DEF WorkInv, Documents
    <3>5. Documents(work.resources)' = Documents(work'.resources)
      OBVIOUS
    <3>. QED
      BY <2>1, <2>2, <3>2, <3>4, <3>5 DEF WorkInv
  <2>. QED
    BY <1>3, <2>3, <2>4, ImportAdds
<1>4. CASE Write
  <2>1. pc' \notin {"edit", "documents"} /\ UNCHANGED <<game, work>> /\ overlay' \in {overlay, work.resources}
    BY <1>4 DEF Write, Refuse
  <2>. QED
    BY <2>1 DEF WorkInv, Documents
<1>5. CASE Verify
  <2>1. pc' \notin {"edit", "documents"} /\ UNCHANGED <<game, work>> /\ overlay' \in {overlay, <<>>}
    BY <1>5 DEF Verify
  <2>. QED
    BY <2>1 DEF WorkInv, Documents
<1>6. CASE Again
  <2>1. work' = NoWork /\ pc' = "edit" /\ game' = Over(game, overlay) /\ overlay' = <<>>
    BY <1>6, Zenon DEF Again
  <2>2. Documents(game') \subseteq Documents(game) \cup Documents(overlay)
    BY <2>1 DEF Over, Documents
  <2>. QED
    BY <2>1, <2>2 DEF WorkInv, Documents, NoWork
<1>7. CASE UNCHANGED vars
  BY <1>7, Zenon DEF WorkInv, vars
<1>. QED
  BY <1>1, <1>2, <1>3, <1>4, <1>5, <1>6, <1>7, Zenon DEF Next

-----------------------------------------------------------------------------

(* What an import without a plan writes. *)

\* Without a plan no definition changes.
LEMMA NoEdits ==
  ASSUME plan = NoPlan, NEW name, NEW sheets
  PROVE  /\ GrowEdits(name, sheets) = {}
         /\ AddEdits(name, sheets) = {}
<1>1. DOMAIN plan.grow = {} /\ DOMAIN plan.add = {}
  BY DEF NoPlan
<1>. QED
  BY <1>1 DEF GrowEdits, AddEdits

\* A part that differs from what the block had changes the client's file.
LEMMA WrittenChanges ==
  ASSUME NEW fs, NEW s, NEW at, NEW b, NEW e, NEW p,
         PlaceLoads(b, fs, s, at), p \in Written(b, e)
  PROVE  /\ p[1] \in DOMAIN fs /\ p[2] # fs[p[1]]
         /\ p[2].as = fs[p[1]].as /\ fs[p[1]].as # "definition"
<1>1. b.force = FALSE /\ PartsFrom(fs, Parts(b.file, b))
  BY LoadedIs, Zenon DEF PlaceLoads
<1>2. p \in Parts(b.file, e) /\ p \notin Parts(b.file, b)
  BY <1>1, Zenon DEF Written, Wanted
<1>3. PICK q \in Parts(b.file, b) : q[1] = p[1] /\ q[2].as = p[2].as /\ q[2].of # p[2].of
  BY <1>2 DEF Parts
<1>4. q[1] \in DOMAIN fs /\ q[2].as = fs[q[1]].as /\ q[2].of = fs[q[1]].of /\ q[2].as # "definition"
  BY <1>1 DEF PartsFrom
<1>5. p[1] \in DOMAIN fs /\ p[2].as = fs[p[1]].as /\ fs[p[1]].as # "definition"
  BY <1>3, <1>4, Zenon
<1>6. p[2] # fs[p[1]]
  BY <1>3, <1>4, Zenon
<1>. QED
  BY <1>5, <1>6

\* The blocks of a document that is not planned are what was loaded.
LEMMA UnplannedBlocks ==
  ASSUME NEW sheets, NEW blocks, \A b \in blocks : \E fs, s, at : PlaceLoads(b, fs, s, at)
  PROVE  PlannedBlocks(sheets, blocks, {}) = blocks
<1>1. ASSUME NEW b \in blocks PROVE GrownBlock(b, {}) = b
  <2>. PICK fs, s, at : PlaceLoads(b, fs, s, at)
    OBVIOUS
  <2>1. b # None /\ b = LoadBlock(fs, s, at)
    BY Zenon DEF PlaceLoads
  <2>2. \A file, i, k : GrownFile(file, {}, i, k) = file
    BY DEF GrownFile, Grows
  <2>3. ~ \E e \in {} : e.op = "grow" /\ e.data = b.file.data
    OBVIOUS
  <2>4. GrownBlock(b, {}) = [b EXCEPT !.file = b.file, !.force = FALSE]
    BY <2>2, <2>3, Zenon DEF GrownBlock
  <2>5. PICK file, columns, index, rows, data, enable, offsets, flags :
          b = [is |-> "block", file |-> file, at |-> at, columns |-> columns, index |-> index, rows |-> rows,
               data |-> data, enable |-> enable, offsets |-> offsets, force |-> FALSE, flags |-> flags]
    BY <2>1, Zenon DEF LoadBlock
  <2>6. [b EXCEPT !.file = b.file, !.force = FALSE] = b
    <3>1. b = [x \in DOMAIN b |-> b[x]]
      BY <2>5
    <3>2. b["force"] = FALSE
      BY <2>5
    <3>3. \A f : f = [x \in DOMAIN f |-> f[x]] => [f EXCEPT !["file"] = f["file"], !["force"] = f["force"]] = f
      OBVIOUS
    <3>4. [b EXCEPT !["file"] = b["file"], !["force"] = b["force"]] = b
      BY <3>1, <3>3
    <3>. QED
      BY <3>2, <3>4, Zenon
  <2>. QED
    BY <2>4, <2>6
<1>. QED
  BY <1>1, Zenon DEF PlannedBlocks

\* One document more: what it adds is a block's part that differs from the client's.
LEMMA ImportKeeps ==
  ASSUME WorkInv, OnlyChangesWritten, plan = NoPlan, ImportDocument
  PROVE  OnlyChangesWritten'
<1>1. PICK n, sheets, loaded :
        /\ n \in todo /\ sheets = ParseDocument(game[n.id].of)
        /\ loaded = LoadDocument(game, sheets)
        /\ ImportLoaded(n, sheets, loaded, {}, {})
        /\ pc = "documents" /\ UNCHANGED <<game, plan>>
  BY NoEdits, Zenon DEF ImportDocument
<1>2. CASE UNCHANGED work
  BY <1>1, <1>2, Zenon DEF OnlyChangesWritten
<1>3. CASE ~UNCHANGED work
  <2>1. {} \cup {} = {}
    OBVIOUS
  <2>0. loaded # Refused
    BY <1>1, <1>3, Zenon DEF ImportLoaded, Refuse
  <2>1a. \A b \in loaded.blocks : \E s, at : PlaceLoads(b, game, s, at)
    BY <1>1, <2>0, LoadedPlaces, NamedParse DEF WorkInv
  <2>2. ImportParsed(n, loaded.table, loaded.blocks, {}, EditDefinition(game[n.id].of, {}))
    <3>1. PlannedBlocks(sheets, loaded.blocks, {}) = loaded.blocks
      BY <2>1a, UnplannedBlocks
    <3>. QED
      BY <1>1, <1>3, <2>1, <3>1, Zenon DEF ImportLoaded, Refuse
  <2>. DEFINE edited == [b \in loaded.blocks |->
                IF n.name \in DOMAIN csv THEN EditBlock(loaded.table, csv[n.name].rows, b) ELSE None]
              parts == UNION {Written(b, edited[b]) : b \in loaded.blocks}
              new == work'.resources
  <2>3. new = Register(work.resources, parts)
    <3>1. ~Refuse("cells") /\ ~Refuse("conflict")
      BY <1>3, Zenon DEF Refuse
    <3>2. \E expected, intended, verify :
             work' = [resources |-> Register(work.resources, parts), expected |-> expected,
                      intended |-> intended, verify |-> verify]
      BY <2>2, <3>1, Zenon DEF ImportParsed
    <3>. HIDE DEF parts
    <3>. QED
      BY <3>2
  <2>4. \A p \in parts : \E b \in loaded.blocks : p \in Written(b, edited[b])
    OBVIOUS
  <2>. HIDE DEF edited, parts, new
  <2>5. ASSUME NEW p \in parts
        PROVE  /\ p[1] \in DOMAIN game /\ p[2] # game[p[1]]
               /\ p[2].as = game[p[1]].as /\ game[p[1]].as # "definition"
    <3>1. PICK b \in loaded.blocks : p \in Written(b, edited[b])
      BY <2>4
    <3>2. PICK s, at : PlaceLoads(b, game, s, at)
      BY <2>1a, <3>1
    <3>. QED
      BY <3>1, <3>2, WrittenChanges
  <2>6. ASSUME NEW id \in DOMAIN new
        PROVE  /\ id \in DOMAIN game /\ new[id] # game[id]
               /\ new[id].as = game[id].as /\ game[id].as # "definition"
    <3>1. CASE id \in DOMAIN work.resources /\ new[id] = work.resources[id]
      BY <3>1 DEF OnlyChangesWritten
    <3>2. CASE \E p \in parts : p[1] = id /\ new[id] = p[2]
      BY <3>2, <2>5
    <3>. QED
      BY <2>3, <3>1, <3>2, RegisterAdds
  <2>. QED
    BY <1>1, <2>6, Zenon DEF OnlyChangesWritten, new
<1>. QED
  BY <1>2, <1>3

\* An import apart, a step clears what was decided or leaves it.
LEMMA Elsewhere ==
  ASSUME WorkInv, [Next]_vars, ~ImportDocument
  PROVE  work' = NoWork \/ UNCHANGED <<game, plan, work>>
<1>1. CASE User
  <2>1. pc = "edit" /\ UNCHANGED work
    BY <1>1, Zenon DEF User, Retype, DropRow, AddRow, Discard, WritePlan, Edited
  <2>. QED
    BY <2>1 DEF WorkInv
<1>2. CASE Begin \/ Write \/ Verify
  BY <1>2, Zenon DEF Begin, Write, Verify, Refuse
<1>3. CASE Again
  BY <1>3, Zenon DEF Again
<1>4. CASE UNCHANGED vars
  BY <1>4, Zenon DEF vars
<1>. QED
  BY <1>1, <1>2, <1>3, <1>4, Zenon DEF Next

Inv == WorkInv /\ OnlyChangesWritten

LEMMA InitInv == Init => Inv
<1>. SUFFICES ASSUME Init PROVE Inv
  OBVIOUS
<1>1. work = NoWork
  BY Zenon DEF Init
<1>. QED
  BY <1>1, WorkInit DEF Inv, OnlyChangesWritten, NoWork

LEMMA NextInv ==
  ASSUME Inv, [Next]_vars
  PROVE  Inv'
<1>1. WorkInv'
  BY WorkNext DEF Inv
<1>2. CASE ImportDocument
  <2>1. CASE plan = NoPlan
    BY <1>1, <1>2, <2>1, ImportKeeps, Zenon DEF Inv
  <2>2. CASE plan # NoPlan
    <3>1. UNCHANGED plan
      BY <1>2, Zenon DEF ImportDocument
    <3>. QED
      BY <1>1, <2>2, <3>1, Zenon DEF Inv, OnlyChangesWritten
  <2>. QED
    BY <2>1, <2>2
<1>3. CASE work' = NoWork
  BY <1>1, <1>3 DEF Inv, OnlyChangesWritten, NoWork
<1>4. CASE UNCHANGED <<game, plan, work>>
  BY <1>1, <1>4, Zenon DEF Inv, OnlyChangesWritten
<1>. QED
  BY <1>2, <1>3, <1>4, Elsewhere DEF Inv

(* Without a plan, whatever is edited and however often the result is installed,
   each file that an import writes is one the client has, in the same role, with
   other contents, and is no definition document (import_with_plan). *)
THEOREM Changes == Spec => []OnlyChangesWritten
<1>1. Inv => OnlyChangesWritten
  BY DEF Inv
<1>. QED
  BY InitInv, NextInv, <1>1, PTL DEF Spec

(* The definition documents a plan rewrites. *)

-----------------------------------------------------------------------------
(* The definition documents a plan rewrites. *)

\* Ranges that begin after the end of the one before begin after the end of all before.
LEMMA Chain ==
  ASSUME NEW n \in Nat, NEW begin \in [1 .. n -> Nat], NEW count \in [1 .. n -> Nat],
         \A k \in 2 .. n : begin[k] >= begin[k - 1] + count[k - 1],
         NEW i \in 1 .. n, NEW j \in 1 .. n, i < j
  PROVE  begin[i] + count[i] <= begin[j]
<1>. DEFINE S == {k \in 0 .. (j - i - 1) : begin[i] + count[i] <= begin[i + k + 1]}
<1>1. 0 \in S
  BY i + 1 \in 2 .. n, (i + 1) - 1 = i, i + 0 + 1 = i + 1
<1>2. ASSUME NEW k \in 1 .. (j - i - 1), k - 1 \in S PROVE k \in S
  <2>1. i + (k - 1) + 1 = i + k /\ i + k + 1 \in 2 .. n /\ (i + k + 1) - 1 = i + k
        /\ i + k \in 1 .. n /\ i + k + 1 \in 1 .. n /\ k \in 0 .. (j - i - 1)
    OBVIOUS
  <2>2. begin[i] + count[i] <= begin[i + k]
    BY <1>2, <2>1
  <2>3. begin[i + k + 1] >= begin[i + k] + count[i + k]
    BY <2>1
  <2>4. begin[i] + count[i] <= begin[i + k + 1]
    BY <2>1, <2>2, <2>3
  <2>. QED
    BY <2>1, <2>4
<1>. HIDE DEF S
<1>3. j - i - 1 \in S
  BY <1>1, <1>2, StepsTo, j - i - 1 \in Nat, j - i - 1 \in 0 .. (j - i - 1)
<1>. QED
  BY <1>3, i + (j - i - 1) + 1 = j DEF S

\* Ranges that fit follow one another without overlap.
LEMMA FitApart ==
  ASSUME NEW files \in Seq(FileBlock), RangesFit(files), NEW i \in DOMAIN files, NEW j \in DOMAIN files, i < j
  PROVE  files[i].begin + files[i].count <= files[j].begin
<1>. DEFINE n == Len(files)
            begin == [k \in 1 .. n |-> files[k].begin]
            count == [k \in 1 .. n |-> files[k].count]
<1>1. DOMAIN files = 1 .. n /\ n \in Nat
  OBVIOUS
<1>2. begin \in [1 .. n -> Nat] /\ count \in [1 .. n -> Nat]
  <2>1. 0 .. MaxRow \subseteq Nat
    BY MaxRowAssumption
  <2>2. \A k \in 1 .. n : files[k] \in FileBlock
    BY <1>1
  <2>. QED
    BY <2>1, <2>2 DEF FileBlock
<1>3. ASSUME NEW k \in 2 .. n PROVE begin[k] >= begin[k - 1] + count[k - 1]
  <2>1. k \in DOMAIN files /\ k > 1 /\ k \in 1 .. n /\ k - 1 \in 1 .. n
    BY <1>1
  <2>2. files[k].begin >= files[k - 1].begin + files[k - 1].count
    BY <2>1, Zenon DEF RangesFit
  <2>. QED
    BY <2>1, <2>2
<1>4. i \in 1 .. n /\ j \in 1 .. n
  BY <1>1
<1>5. begin[i] = files[i].begin /\ count[i] = files[i].count /\ begin[j] = files[j].begin
  BY <1>4
<1>. HIDE DEF n, begin, count
<1>6. begin[i] + count[i] <= begin[j]
  BY <1>1, <1>2, <1>3, <1>4, Chain
<1>. QED
  BY <1>5, <1>6

\* A sheet element with its files replaced reads as the sheet with other files.
LEMMA SplicedReads ==
  ASSUME NEW e, SheetParses(e), DOMAIN e.children # {}, NEW files, NEW f,
         f = SplicedElement(e, files), SheetParses(f)
  PROVE  /\ ParseSheet(e).kind = "definition" /\ ParseSheet(f).kind = "definition"
         /\ ParseSheet(e).files \in Seq(FileBlock) /\ ParseSheet(f).files \in Seq(FileBlock)
         /\ \/ ParseSheet(e).files = <<>> /\ ParseSheet(f).files = <<>>
            \/ ParseSheet(f).files = files
<1>. DEFINE Some(x, tag) == \E c \in Range(x.children) : c.tag = tag
            The(x, tag) == CHOOSE c \in Range(x.children) : c.tag = tag
            Child(c) == IF c.tag # "block" THEN c
                        ELSE [tag |-> "block", params |-> c.params, declared |-> Len(files), files |-> files]
<1>1. f.children = [i \in DOMAIN e.children |-> Child(e.children[i])]
  BY DEF SplicedElement
<1>2. DOMAIN f.children = DOMAIN e.children
  BY <1>1
<1>3. \A i \in DOMAIN e.children : f.children[i] = Child(e.children[i])
  BY <1>1
<1>4. \A x : DOMAIN x.children # {} =>
        /\ ParseSheet(x).kind = "definition"
        /\ ParseSheet(x).files = IF Some(x, "block") THEN The(x, "block").files ELSE <<>>
  BY DEF ParseSheet
<1>5. \A x : SheetParses(x) /\ DOMAIN x.children # {} /\ Some(x, "block") => The(x, "block").files \in Seq(FileBlock)
  BY Zenon DEF SheetParses
<1>6. <<>> \in Seq(FileBlock)
  OBVIOUS
<1>7. Some(e, "block") <=> Some(f, "block")
  <2>1. \A c : Child(c).tag = c.tag
    OBVIOUS
  <2>2. \A i \in DOMAIN e.children : f.children[i].tag = e.children[i].tag
    <3>. HIDE DEF Child
    <3>. QED
      BY <1>3, <2>1
  <2>. QED
    BY <1>2, <2>2 DEF Range
<1>8. ASSUME Some(f, "block") PROVE The(f, "block").files = files
  <2>1. The(f, "block") \in Range(f.children) /\ The(f, "block").tag = "block"
    BY <1>8
  <2>2. PICK i \in DOMAIN e.children : The(f, "block") = Child(e.children[i])
    BY <2>1, <1>2, <1>3 DEF Range
  <2>. HIDE DEF The
  <2>3. e.children[i].tag = "block"
    BY <2>1, <2>2
  <2>4. Child(e.children[i]).files = files
    BY <2>3
  <2>. QED
    BY <2>2, <2>4
<1>. HIDE DEF Some, The
<1>. QED
  BY <1>2, <1>4, <1>5, <1>6, <1>7, <1>8

\* What the sheets of an edited definition document are, beside those of the document.
EditedSheets(old, new, changes) ==
  /\ EditsAdmitted(old, changes)
  /\ DOMAIN new = DOMAIN old
  /\ \A s \in DOMAIN new :
       /\ new[s].kind = old[s].kind
       /\ new[s].kind = "definition" =>
            /\ old[s].files \in Seq(FileBlock) /\ new[s].files \in Seq(FileBlock)
            /\ \/ old[s].files = <<>> /\ new[s].files = <<>>
               \/ /\ new[s].files = EditedFiles(old, changes, s)
                  /\ Arranged(Entries(old, changes, s)) # {}
                  /\ RangesFit(new[s].files)

LEMMA EditedReads ==
  ASSUME NEW doc, NEW changes, changes # {}, ParseDocument(doc) # Refused,
         EditDefinition(doc, changes) # Refused
  PROVE  EditedSheets(ParseDocument(doc), ParseDocument(EditDefinition(doc, changes)), changes)
<1>. PICK old : old = ParseDocument(doc)
  OBVIOUS
<1>. PICK new : new = ParseDocument(EditDefinition(doc, changes))
  OBVIOUS
<1>. PICK document : document = Spliced(doc, old, changes)
  OBVIOUS
<1>1. /\ EditsAdmitted(old, changes) /\ ParseDocument(document) # Refused
      /\ EditDefinition(doc, changes) = document
      /\ \A s \in DOMAIN old : old[s].kind = "definition" =>
           Arranged(Entries(old, changes, s)) # {} /\ RangesFit(EditedFiles(old, changes, s))
  BY Zenon DEF EditDefinition, EditSheets
<1>2. /\ \A s \in DOMAIN doc.sheets : SheetParses(doc.sheets[s])
      /\ old = [s \in DOMAIN doc.sheets |-> ParseSheet(doc.sheets[s])]
  BY ParsedSheets
<1>3. /\ \A s \in DOMAIN document.sheets : SheetParses(document.sheets[s])
      /\ new = [s \in DOMAIN document.sheets |-> ParseSheet(document.sheets[s])]
  BY <1>1, ParsedSheets
<1>4. document.sheets = [s \in DOMAIN doc.sheets |->
         IF old[s].kind = "reference" THEN doc.sheets[s]
         ELSE SplicedElement(doc.sheets[s], EditedFiles(old, changes, s))]
  BY DEF Spliced
<1>5. DOMAIN new = DOMAIN old /\ DOMAIN old = DOMAIN doc.sheets /\ DOMAIN document.sheets = DOMAIN old
  BY <1>2, <1>3, <1>4
<1>. SUFFICES ASSUME NEW s \in DOMAIN new
              PROVE  /\ new[s].kind = old[s].kind
                     /\ new[s].kind = "definition" =>
                         /\ old[s].files \in Seq(FileBlock) /\ new[s].files \in Seq(FileBlock)
                         /\ \/ old[s].files = <<>> /\ new[s].files = <<>>
                            \/ /\ new[s].files = EditedFiles(old, changes, s)
                               /\ Arranged(Entries(old, changes, s)) # {}
                               /\ RangesFit(new[s].files)
  BY <1>1, <1>5, Zenon DEF EditedSheets
<1>. PICK e : e = doc.sheets[s]
  OBVIOUS
<1>. PICK f : f = document.sheets[s]
  OBVIOUS
<1>6. SheetParses(e) /\ SheetParses(f) /\ old[s] = ParseSheet(e) /\ new[s] = ParseSheet(f)
  BY <1>2, <1>3, <1>5
<1>7. old[s].kind = IF DOMAIN e.children = {} THEN "reference" ELSE "definition"
  BY <1>6 DEF ParseSheet
<1>8. CASE DOMAIN e.children = {}
  <2>1. f = e
    BY <1>4, <1>5, <1>7, <1>8
  <2>. QED
    BY <1>6, <1>7, <1>8, <2>1
<1>9. CASE DOMAIN e.children # {}
  <2>1. f = SplicedElement(e, EditedFiles(old, changes, s))
    BY <1>4, <1>5, <1>7, <1>9
  <2>2. old[s].kind = "definition" /\ s \in DOMAIN old
    BY <1>5, <1>7, <1>9
  <2>. QED
    BY <1>1, <1>6, <1>9, <2>1, <2>2, SplicedReads
<1>. QED
  BY <1>8, <1>9

\* The files are those of the entries, in some order.
FilesAre(files, entries) ==
  /\ \A x \in entries : \E i \in DOMAIN files : files[i] = x.file
  /\ \A i \in DOMAIN files : \E x \in entries : files[i] = x.file

\* An arrangement has every entry in some place, and nothing else.
LEMMA EditedEntries ==
  ASSUME NEW sheets, NEW changes, NEW s, Arranged(Entries(sheets, changes, s)) # {},
         NEW files, files = EditedFiles(sheets, changes, s)
  PROVE  FilesAre(files, Entries(sheets, changes, s))
<1>. PICK entries : entries = Entries(sheets, changes, s)
  OBVIOUS
<1>. DEFINE order == CHOOSE q \in Arranged(entries) : TRUE
<1>1. order \in Arranged(entries)
  OBVIOUS
<1>2. files = [i \in DOMAIN order |-> order[i].file]
  BY DEF EditedFiles
<1>. HIDE DEF order
<1>3. /\ order \in [1 .. Cardinality(entries) -> entries]
      /\ \A x \in entries : \E i \in 1 .. Cardinality(entries) : order[i] = x
  BY <1>1, Zenon DEF Arranged, Bijection, Injection, Surjection
<1>4. DOMAIN order = 1 .. Cardinality(entries) /\ DOMAIN files = DOMAIN order
  BY <1>2, <1>3
<1>. QED
  BY <1>2, <1>3, <1>4 DEF FilesAre

\* The files of a sheet that is edited are kept, and apart from each other.
LEMMA EditedKept ==
  ASSUME NEW sheets, NEW changes, NEW s \in DOMAIN sheets, EditsAdmitted(sheets, changes),
         Arranged(Entries(sheets, changes, s)) # {}, sheets[s].files \in Seq(FileBlock),
         NEW files \in Seq(FileBlock), files = EditedFiles(sheets, changes, s), RangesFit(files)
  PROVE  FilesKept(sheets[s].files, files)
<1>. PICK old : old = sheets[s].files
  OBVIOUS
<1>1. FilesAre(files, Entries(sheets, changes, s))
  BY EditedEntries
<1>2. /\ \A i \in DOMAIN old : old[i] \in FileBlock
      /\ \A i \in DOMAIN files : files[i] \in FileBlock
  OBVIOUS
<1>. DEFINE Grown(i, g) == \E e \in Grows(changes, s) : e.at = i /\ g = [old[i] EXCEPT !.count = e.count]
<1>3. \A i \in DOMAIN old : \/ GrownFile(old[i], changes, s, i) = old[i]
                            \/ Grown(i, GrownFile(old[i], changes, s, i))
  <2>. TAKE i \in DOMAIN old
  <2>. PICK hits : hits = {e \in Grows(changes, s) : e.at = i}
    OBVIOUS
  <2>1. CASE hits = {}
    BY <2>1 DEF GrownFile
  <2>2. CASE hits # {}
    <3>. PICK e : e = CHOOSE h \in hits : TRUE
      OBVIOUS
    <3>1. e \in Grows(changes, s) /\ e.at = i
      BY <2>2
    <3>2. GrownFile(old[i], changes, s, i) = [old[i] EXCEPT !.count = e.count]
      BY <2>2 DEF GrownFile
    <3>. QED
      BY <3>1, <3>2, Zenon
  <2>. QED
    BY <2>1, <2>2
<1>4. \A i \in DOMAIN old : \E g \in Range(files) : g = GrownFile(old[i], changes, s, i)
  <2>. TAKE i \in DOMAIN old
  <2>1. [at |-> i, file |-> GrownFile(old[i], changes, s, i)] \in Entries(sheets, changes, s)
    BY DEF Entries
  <2>. QED
    BY <1>1, <2>1 DEF FilesAre, Range
<1>5. \A i, j \in DOMAIN files : i < j => files[i].begin + files[i].count <= files[j].begin
  BY FitApart
<1>6. ASSUME NEW f \in Range(old)
      PROVE  \E g \in Range(files) : g.count >= f.count /\ [g EXCEPT !.count = f.count] = f
  <2>1. PICK i \in DOMAIN old : f = old[i]
    BY DEF Range
  <2>2. PICK g \in Range(files) : g = GrownFile(old[i], changes, s, i)
    BY <1>4
  <2>3. f \in FileBlock /\ g \in FileBlock
    BY <1>2, <2>1 DEF Range
  <2>4. f.count \in Nat /\ g.count \in Nat
    BY <2>3, MaxRowAssumption DEF FileBlock
  <2>5. CASE g = f
    BY <2>3, <2>4, <2>5 DEF FileBlock
  <2>6. CASE Grown(i, g)
    <3>1. PICK e \in Grows(changes, s) : e.at = i /\ g = [f EXCEPT !.count = e.count]
      BY <2>1, <2>6
    <3>2. e.count >= f.count
      BY <2>1, <3>1, Zenon DEF EditsAdmitted
    <3>3. g.count = e.count /\ [g EXCEPT !.count = f.count] = f
      BY <2>3, <3>1 DEF FileBlock
    <3>. QED
      BY <3>2, <3>3
  <2>7. g = f \/ Grown(i, g)
    <3>. HIDE DEF Grown
    <3>. QED
      BY <1>3, <2>1, <2>2, Zenon
  <2>. QED
    BY <2>5, <2>6, <2>7, Zenon
<1>. QED
  BY <1>5, <1>6, Zenon DEF FilesKept

\* The edits a plan asks for in a document come from its entries for that document.
LEMMA GrowFrom ==
  ASSUME NEW name, NEW sheets, GrowEdits(name, sheets) # Refused, NEW e \in GrowEdits(name, sheets)
  PROVE  e.op = "grow" /\ \E i \in DOMAIN plan.grow : plan.grow[i].csv = name
<1>. DEFINE Own == {i \in DOMAIN plan.grow : plan.grow[i].csv = name}
            Hits(i) == {at \in UNION {{<<t, k>> : k \in DOMAIN sheets[t].files} :
                                        t \in {u \in DOMAIN sheets : sheets[u].kind = "definition"}} :
                          sheets[at[1]].files[at[2]].begin = plan.grow[i].begin}
            Edit(i, at) == [op |-> "grow", sheet |-> at[1], at |-> at[2], count |-> plan.grow[i].count,
                            data |-> sheets[at[1]].files[at[2]].data, by |-> i]
<1>1. GrowEdits(name, sheets) = UNION {{Edit(i, at) : at \in Hits(i)} : i \in Own}
  BY Zenon DEF GrowEdits
<1>2. \A i, at : Edit(i, at).op = "grow"
  OBVIOUS
<1>3. \A i \in Own : i \in DOMAIN plan.grow /\ plan.grow[i].csv = name
  OBVIOUS
<1>. HIDE DEF Own, Hits, Edit
<1>. QED
  BY <1>1, <1>2, <1>3

LEMMA InsertFrom ==
  ASSUME NEW name, NEW sheets, AddEdits(name, sheets) # Refused, NEW e \in AddEdits(name, sheets)
  PROVE  \E i, k, sheet :
           /\ i \in DOMAIN plan.add /\ plan.add[i].csv = name /\ k \in DOMAIN plan.add[i].targets
           /\ e = [op |-> "insert", sheet |-> sheet, by |-> <<i, k>>,
                   file |-> [begin |-> plan.add[i].begin, count |-> plan.add[i].count,
                             data |-> plan.add[i].targets[k].data, enable |-> plan.add[i].targets[k].enable,
                             offsets |-> plan.add[i].targets[k].offsets]]
<1>. DEFINE Own == {i \in DOMAIN plan.add : plan.add[i].csv = name}
            Matches(t) == {u \in DOMAIN sheets :
                             sheets[u].kind = "definition" /\ sheets[u].name = t.sheet /\ sheets[u].lang = t.lang}
            Edit(a, t, by) == [op |-> "insert", sheet |-> CHOOSE u \in Matches(t) : TRUE, by |-> by,
                               file |-> [begin |-> a.begin, count |-> a.count,
                                         data |-> t.data, enable |-> t.enable, offsets |-> t.offsets]]
            Of(i) == {Edit(plan.add[i], plan.add[i].targets[k], <<i, k>>) : k \in DOMAIN plan.add[i].targets}
<1>1. AddEdits(name, sheets) = UNION {Of(i) : i \in Own}
  BY Zenon DEF AddEdits
<1>2. PICK i \in Own : e \in Of(i)
  <2>. HIDE DEF Own, Of
  <2>. QED
    BY <1>1
<1>3. PICK k \in DOMAIN plan.add[i].targets : e = Edit(plan.add[i], plan.add[i].targets[k], <<i, k>>)
  BY <1>2, Zenon
<1>. QED
  BY <1>2, <1>3, Zenon

\* What a plan's adds insert has the ids of one of their targets.
LEMMA InsertedAdded ==
  ASSUME NEW name, NEW sheets, GrowEdits(name, sheets) # Refused, AddEdits(name, sheets) # Refused,
         NEW s, NEW e \in Inserts(GrowEdits(name, sheets) \cup AddEdits(name, sheets), s)
  PROVE  e.file.data \in Range(AddedIds(plan)) /\ IdsOf(e.file) \subseteq Range(AddedIds(plan))
<1>1. \A g \in GrowEdits(name, sheets) : g.op = "grow"
  BY GrowFrom
<1>2. e \in AddEdits(name, sheets)
  BY <1>1 DEF Inserts
<1>3. PICK i, k, sheet :
        /\ i \in DOMAIN plan.add /\ k \in DOMAIN plan.add[i].targets
        /\ e = [op |-> "insert", sheet |-> sheet, by |-> <<i, k>>,
                file |-> [begin |-> plan.add[i].begin, count |-> plan.add[i].count,
                          data |-> plan.add[i].targets[k].data, enable |-> plan.add[i].targets[k].enable,
                          offsets |-> plan.add[i].targets[k].offsets]]
  BY <1>2, InsertFrom
<1>. DEFINE Parted == {"data", "enable", "offsets"}
            parts == UNION {{<<x, y, part>> : y \in DOMAIN plan.add[x].targets, part \in Parted} : x \in DOMAIN plan.add}
<1>4. /\ e.file.data = plan.add[i].targets[k]["data"] /\ e.file.enable = plan.add[i].targets[k]["enable"]
      /\ e.file.offsets = plan.add[i].targets[k]["offsets"]
  BY <1>3
<1>5. \A part \in Parted : <<i, k, part>> \in parts
  BY <1>3
<1>6. AddedIds(plan) = [part \in parts |-> plan.add[part[1]].targets[part[2]][part[3]]]
  BY DEF AddedIds
<1>. HIDE DEF parts
<1>7. ASSUME NEW part \in Parted PROVE plan.add[i].targets[k][part] \in Range(AddedIds(plan))
  <2>1. <<i, k, part>> \in parts
    BY <1>5
  <2>2. AddedIds(plan)[<<i, k, part>>] = plan.add[i].targets[k][part] /\ <<i, k, part>> \in DOMAIN AddedIds(plan)
    BY <1>6, <2>1
  <2>. QED
    BY <2>2 DEF Range
<1>. QED
  BY <1>4, <1>7 DEF IdsOf

\* The edits that grow a file and the plan's entries that do so give the same counts.
SameCounts(hits, growth) ==
  /\ \A e \in hits : \E i \in growth : e.count = plan.grow[i].count
  /\ \A i \in growth : \E e \in hits : e.count = plan.grow[i].count

\* What grows a file is what the plan asks of its begin.
LEMMA GrowsPlanned ==
  ASSUME NEW name, NEW sheets, GrowEdits(name, sheets) # Refused, AddEdits(name, sheets) # Refused,
         NEW changes, changes = GrowEdits(name, sheets) \cup AddEdits(name, sheets),
         NEW s \in DOMAIN sheets, sheets[s].kind = "definition", NEW k \in DOMAIN sheets[s].files
  PROVE  SameCounts({e \in Grows(changes, s) : e.at = k}, Growth(plan, name, sheets[s].files[k]))
<1>. DEFINE Own == {i \in DOMAIN plan.grow : plan.grow[i].csv = name}
            Hits(i) == {at \in UNION {{<<t, l>> : l \in DOMAIN sheets[t].files} :
                                        t \in {u \in DOMAIN sheets : sheets[u].kind = "definition"}} :
                          sheets[at[1]].files[at[2]].begin = plan.grow[i].begin}
            Edit(i, at) == [op |-> "grow", sheet |-> at[1], at |-> at[2], count |-> plan.grow[i].count,
                            data |-> sheets[at[1]].files[at[2]].data, by |-> i]
<1>1. GrowEdits(name, sheets) = UNION {{Edit(i, at) : at \in Hits(i)} : i \in Own}
  BY Zenon DEF GrowEdits
<1>2. ASSUME NEW e \in Grows(changes, s), e.at = k
      PROVE  \E i \in Growth(plan, name, sheets[s].files[k]) : e.count = plan.grow[i].count
  <2>1. e \in changes /\ e.op = "grow" /\ e.sheet = s
    BY DEF Grows
  <2>2. e \in GrowEdits(name, sheets)
    <3>1. \A a \in AddEdits(name, sheets) : a.op = "insert"
      BY InsertFrom
    <3>. QED
      BY <2>1, <3>1
  <2>a. PICK i \in Own : e \in {Edit(i, at) : at \in Hits(i)}
    <3>. HIDE DEF Own, Hits, Edit
    <3>. QED
      BY <1>1, <2>2
  <2>3. PICK at \in Hits(i) : e = Edit(i, at)
    <3>. HIDE DEF Own, Hits, Edit
    <3>. QED
      BY <2>a
  <2>4. at[1] = s /\ at[2] = k /\ e.count = plan.grow[i].count
    BY <1>2, <2>1, <2>3
  <2>5. sheets[s].files[k].begin = plan.grow[i].begin /\ i \in DOMAIN plan.grow /\ plan.grow[i].csv = name
    BY <2>3, <2>4
  <2>. QED
    BY <2>4, <2>5 DEF Growth
<1>3. ASSUME NEW i \in Growth(plan, name, sheets[s].files[k])
      PROVE  \E e \in Grows(changes, s) : e.at = k /\ e.count = plan.grow[i].count
  <2>1. i \in Own /\ sheets[s].files[k].begin = plan.grow[i].begin
    BY DEF Growth
  <2>. PICK at : at = <<s, k>>
    OBVIOUS
  <2>2. at \in Hits(i)
    BY <2>1
  <2>. PICK e : e = Edit(i, at)
    OBVIOUS
  <2>3. e.op = "grow" /\ e.sheet = s /\ e.at = k /\ e.count = plan.grow[i].count
    OBVIOUS
  <2>4. e \in GrowEdits(name, sheets)
    <3>1. e \in {Edit(i, a) : a \in Hits(i)}
      BY <2>2
    <3>. HIDE DEF Own, Hits, Edit
    <3>. QED
      BY <1>1, <2>1, <3>1
  <2>. QED
    BY <2>3, <2>4 DEF Grows
<1>. QED
  BY <1>2, <1>3 DEF SameCounts

\* So a file has the count that the plan gives it.
LEMMA GrownPlanned ==
  ASSUME NEW name, NEW sheets, GrowEdits(name, sheets) # Refused, AddEdits(name, sheets) # Refused,
         NEW changes, changes = GrowEdits(name, sheets) \cup AddEdits(name, sheets), EditsAdmitted(sheets, changes),
         NEW s \in DOMAIN sheets, sheets[s].kind = "definition", NEW k \in DOMAIN sheets[s].files
  PROVE  GrownFile(sheets[s].files[k], changes, s, k) = GrownAsked(plan, name, sheets[s].files[k])
<1>. PICK f : f = sheets[s].files[k]
  OBVIOUS
<1>. PICK hits : hits = {e \in Grows(changes, s) : e.at = k}
  OBVIOUS
<1>1. /\ \A e \in hits : \E i \in Growth(plan, name, f) : e.count = plan.grow[i].count
      /\ \A i \in Growth(plan, name, f) : \E e \in hits : e.count = plan.grow[i].count
  <2>1. SameCounts({e \in Grows(changes, s) : e.at = k}, Growth(plan, name, sheets[s].files[k]))
    BY GrowsPlanned
  <2>. QED
    BY <2>1 DEF SameCounts
<1>2. \A e, g \in hits : e = g
  <2>1. \A e, g \in Grows(changes, s) : e.at = g.at => e = g
    BY Zenon DEF EditsAdmitted
  <2>. QED
    BY <2>1
<1>3. CASE hits = {}
  <2>1. Growth(plan, name, f) = {}
    BY <1>1, <1>3
  <2>. QED
    BY <1>3, <2>1 DEF GrownFile, GrownAsked
<1>4. CASE hits # {}
  <2>. PICK e : e = CHOOSE h \in hits : TRUE
    OBVIOUS
  <2>1. e \in hits /\ Growth(plan, name, f) # {}
    BY <1>1, <1>4
  <2>. PICK i : i = CHOOSE j \in Growth(plan, name, f) : TRUE
    OBVIOUS
  <2>2. i \in Growth(plan, name, f)
    BY <2>1
  <2>3. e.count = plan.grow[i].count
    BY <1>1, <1>2, <2>1, <2>2
  <2>4. GrownFile(f, changes, s, k) = [f EXCEPT !.count = e.count]
    BY <1>4 DEF GrownFile
  <2>5. GrownAsked(plan, name, f) = [f EXCEPT !.count = plan.grow[i].count]
    BY <2>1 DEF GrownAsked
  <2>. QED
    BY <2>3, <2>4, <2>5
<1>. QED
  BY <1>3, <1>4

\* What is inserted in a sheet is what the plan adds to it.
LEMMA InsertsPlanned ==
  ASSUME NEW name, NEW sheets, NEW n \in Nat, DOMAIN sheets = 1 .. n,
         GrowEdits(name, sheets) # Refused, AddEdits(name, sheets) # Refused,
         NEW changes, changes = GrowEdits(name, sheets) \cup AddEdits(name, sheets),
         NEW s \in DOMAIN sheets, sheets[s].kind = "definition"
  PROVE  {e.file : e \in Inserts(changes, s)} = AddedTo(plan, name, sheets[s])
<1>. DEFINE Own == {i \in DOMAIN plan.add : plan.add[i].csv = name}
            Matches(t) == {u \in DOMAIN sheets :
                             sheets[u].kind = "definition" /\ sheets[u].name = t.sheet /\ sheets[u].lang = t.lang}
            Edit(a, t, by) == [op |-> "insert", sheet |-> CHOOSE u \in Matches(t) : TRUE, by |-> by,
                               file |-> [begin |-> a.begin, count |-> a.count,
                                         data |-> t.data, enable |-> t.enable, offsets |-> t.offsets]]
            Of(i) == {Edit(plan.add[i], plan.add[i].targets[k], <<i, k>>) : k \in DOMAIN plan.add[i].targets}
            There(i) == {u \in Range(plan.add[i].targets) : u.sheet = sheets[s].name /\ u.lang = sheets[s].lang}
<1>1. /\ AddEdits(name, sheets) = UNION {Of(i) : i \in Own}
      /\ \A i \in Own : \A t \in Range(plan.add[i].targets) : Cardinality(Matches(t)) = 1
  BY Zenon DEF AddEdits
<1>2. AddedTo(plan, name, sheets[s]) = UNION {{AddedFile(plan.add[i], t) : t \in There(i)} : i \in Own}
  BY Zenon DEF AddedTo
<1>3. ASSUME NEW i \in Own, NEW k \in DOMAIN plan.add[i].targets
      PROVE  /\ plan.add[i].targets[k] \in Range(plan.add[i].targets)
             /\ \E u : Matches(plan.add[i].targets[k]) = {u}
  <2>. PICK t : t = plan.add[i].targets[k]
    OBVIOUS
  <2>1. t \in Range(plan.add[i].targets)
    BY DEF Range
  <2>2. IsFiniteSet(Matches(t))
    <3>1. IsFiniteSet(1 .. n)
      BY FS_Interval
    <3>. QED
      BY <3>1, FS_Subset
  <2>3. Cardinality(Matches(t)) = 1
    <3>. HIDE DEF Own, Of, Matches
    <3>. QED
      BY <1>1, <2>1
  <2>. HIDE DEF Matches
  <2>. QED
    BY <2>1, <2>2, <2>3, FS_Singleton
<1>4. ASSUME NEW e \in Inserts(changes, s) PROVE e.file \in AddedTo(plan, name, sheets[s])
  <2>1. e \in changes /\ e.op = "insert" /\ e.sheet = s
    BY DEF Inserts
  <2>2. e \in AddEdits(name, sheets)
    <3>1. \A g \in GrowEdits(name, sheets) : g.op = "grow"
      BY GrowFrom
    <3>. QED
      BY <2>1, <3>1
  <2>3. PICK i \in Own : e \in Of(i)
    <3>. HIDE DEF Own, Of
    <3>. QED
      BY <1>1, <2>2
  <2>4. PICK k \in DOMAIN plan.add[i].targets : e = Edit(plan.add[i], plan.add[i].targets[k], <<i, k>>)
    BY <2>3, Zenon
  <2>. PICK t : t = plan.add[i].targets[k]
    OBVIOUS
  <2>5. t \in Range(plan.add[i].targets) /\ \E u : Matches(t) = {u}
    <3>. HIDE DEF Own, Matches
    <3>. QED
      BY <1>3
  <2>6. e.sheet = (CHOOSE u \in Matches(t) : TRUE) /\ e.file = AddedFile(plan.add[i], t)
    <3>1. e = Edit(plan.add[i], t, <<i, k>>)
      BY <2>4
    <3>. HIDE DEF Own, Matches
    <3>. QED
      BY <3>1 DEF AddedFile
  <2>7. s \in Matches(t)
    <3>. HIDE DEF Matches
    <3>. QED
      BY <2>1, <2>5, <2>6
  <2>8. t \in There(i)
    BY <2>5, <2>7
  <2>9. e.file \in {AddedFile(plan.add[i], u) : u \in There(i)}
    BY <2>6, <2>8
  <2>. HIDE DEF Own, There
  <2>. QED
    BY <1>2, <2>9
<1>5. ASSUME NEW f \in AddedTo(plan, name, sheets[s]) PROVE \E e \in Inserts(changes, s) : f = e.file
  <2>1. PICK i \in Own : f \in {AddedFile(plan.add[i], t) : t \in There(i)}
    <3>. HIDE DEF Own, There
    <3>. QED
      BY <1>2
  <2>2. PICK t \in There(i) : f = AddedFile(plan.add[i], t)
    <3>. HIDE DEF There
    <3>. QED
      BY <2>1
  <2>3. PICK k \in DOMAIN plan.add[i].targets : t = plan.add[i].targets[k]
    BY <2>2 DEF Range
  <2>4. s \in Matches(t)
    BY <2>2
  <2>5. \E u : Matches(t) = {u}
    BY <1>3, <2>3
  <2>6. (CHOOSE u \in Matches(t) : TRUE) = s
    <3>. HIDE DEF Matches
    <3>. QED
      BY <2>4, <2>5
  <2>. PICK e : e = Edit(plan.add[i], t, <<i, k>>)
    OBVIOUS
  <2>7. e.op = "insert" /\ e.sheet = s /\ e.file = f
    <3>1. e.op = "insert" /\ e.sheet = (CHOOSE u \in Matches(t) : TRUE) /\ e.file = AddedFile(plan.add[i], t)
      BY DEF AddedFile
    <3>. QED
      BY <2>2, <2>6, <3>1
  <2>8. e \in AddEdits(name, sheets)
    <3>1. e \in Of(i)
      BY <2>3
    <3>. HIDE DEF Own, Of
    <3>. QED
      BY <1>1, <3>1
  <2>. QED
    BY <2>7, <2>8 DEF Inserts
<1>. QED
  BY <1>4, <1>5

\* The entries of a sheet are the files that the plan asks for.
LEMMA EntriesPlanned ==
  ASSUME NEW name, NEW sheets, NEW n \in Nat, DOMAIN sheets = 1 .. n,
         GrowEdits(name, sheets) # Refused, AddEdits(name, sheets) # Refused,
         NEW changes, changes = GrowEdits(name, sheets) \cup AddEdits(name, sheets), EditsAdmitted(sheets, changes),
         NEW s \in DOMAIN sheets, sheets[s].kind = "definition"
  PROVE  {x.file : x \in Entries(sheets, changes, s)} = FilesAsked(plan, name, sheets[s])
<1>. PICK files : files = sheets[s].files
  OBVIOUS
<1>1. \A k \in DOMAIN files : GrownFile(files[k], changes, s, k) = GrownAsked(plan, name, files[k])
  BY GrownPlanned
<1>2. {e.file : e \in Inserts(changes, s)} = AddedTo(plan, name, sheets[s])
  BY InsertsPlanned
<1>3. FilesAsked(plan, name, sheets[s])
        = {GrownAsked(plan, name, f) : f \in Range(files)} \cup AddedTo(plan, name, sheets[s])
  BY DEF FilesAsked
<1>4. Entries(sheets, changes, s) = {[at |-> k, file |-> GrownFile(files[k], changes, s, k)] : k \in DOMAIN files}
                                      \cup {[at |-> 0, file |-> e.file] : e \in Inserts(changes, s)}
  BY Zenon DEF Entries
<1>5. ASSUME NEW x \in Entries(sheets, changes, s)
      PROVE  x.file \in FilesAsked(plan, name, sheets[s])
  <2>1. CASE \E k \in DOMAIN files : x = [at |-> k, file |-> GrownFile(files[k], changes, s, k)]
    <3>1. PICK k \in DOMAIN files : x = [at |-> k, file |-> GrownFile(files[k], changes, s, k)]
      BY <2>1
    <3>2. x.file = GrownAsked(plan, name, files[k])
      BY <1>1, <3>1
    <3>3. files[k] \in Range(files)
      BY DEF Range
    <3>. QED
      BY <1>3, <3>2, <3>3
  <2>2. CASE \E e \in Inserts(changes, s) : x = [at |-> 0, file |-> e.file]
    <3>1. PICK e \in Inserts(changes, s) : x = [at |-> 0, file |-> e.file]
      BY <2>2
    <3>2. x.file = e.file
      BY <3>1
    <3>. QED
      BY <1>2, <1>3, <3>2
  <2>. QED
    BY <1>4, <2>1, <2>2
<1>6. ASSUME NEW f \in FilesAsked(plan, name, sheets[s])
      PROVE  \E x \in Entries(sheets, changes, s) : f = x.file
  <2>1. CASE f \in {GrownAsked(plan, name, g) : g \in Range(files)}
    <3>1. PICK g \in Range(files) : f = GrownAsked(plan, name, g)
      BY <2>1
    <3>2. PICK k \in DOMAIN files : g = files[k]
      BY DEF Range
    <3>. PICK x : x = [at |-> k, file |-> GrownFile(files[k], changes, s, k)]
      OBVIOUS
    <3>3. x.file = f /\ x \in Entries(sheets, changes, s)
      BY <1>1, <1>4, <3>1, <3>2
    <3>. QED
      BY <3>3
  <2>2. CASE f \in AddedTo(plan, name, sheets[s])
    <3>1. PICK e \in Inserts(changes, s) : f = e.file
      BY <1>2, <2>2
    <3>. PICK x : x = [at |-> 0, file |-> f]
      OBVIOUS
    <3>2. x.file = f /\ x \in Entries(sheets, changes, s)
      BY <1>4, <3>1
    <3>. QED
      BY <3>2
  <2>. QED
    BY <1>3, <2>1, <2>2
<1>. QED
  BY <1>5, <1>6

\* The files of a list that holds the files of these entries.
LEMMA FilesRange ==
  ASSUME NEW files, NEW entries, FilesAre(files, entries)
  PROVE  Range(files) = {x.file : x \in entries}
<1>1. ASSUME NEW g \in Range(files)
      PROVE  g \in {x.file : x \in entries}
  <2>1. PICK i \in DOMAIN files : g = files[i]
    BY DEF Range
  <2>2. PICK x \in entries : files[i] = x.file
    BY <2>1 DEF FilesAre
  <2>. QED
    BY <2>1, <2>2
<1>2. ASSUME NEW x \in entries
      PROVE  x.file \in Range(files)
  <2>1. PICK i \in DOMAIN files : files[i] = x.file
    BY DEF FilesAre
  <2>. QED
    BY <2>1 DEF Range
<1>. QED
  BY <1>1, <1>2

\* So a definition document that is edited as planned is the one the plan asks for.
LEMMA PlanKept ==
  ASSUME NEW name, NEW doc, NEW sheets, sheets = ParseDocument(doc), sheets # Refused,
         GrowEdits(name, sheets) # Refused, AddEdits(name, sheets) # Refused,
         NEW changes, changes = GrowEdits(name, sheets) \cup AddEdits(name, sheets), changes # {},
         EditDefinition(doc, changes) # Refused
  PROVE  SheetsPlanned(plan, name, sheets, ParseDocument(EditDefinition(doc, changes)))
<1>. PICK new : new = ParseDocument(EditDefinition(doc, changes))
  OBVIOUS
<1>1. EditedSheets(sheets, new, changes)
  BY EditedReads
<1>2. PICK n \in Nat : DOMAIN sheets = 1 .. n
  BY ParsedSheets
<1>3. ASSUME NEW s \in DOMAIN new, new[s].kind = "definition"
      PROVE  FilesPlanned(plan, name, sheets[s], new[s])
  <2>1. /\ EditsAdmitted(sheets, changes) /\ s \in DOMAIN sheets /\ sheets[s].kind = "definition"
        /\ sheets[s].files \in Seq(FileBlock) /\ new[s].files \in Seq(FileBlock)
    BY <1>1, <1>3 DEF EditedSheets
  <2>2. {x.file : x \in Entries(sheets, changes, s)} = FilesAsked(plan, name, sheets[s])
    BY <1>2, <2>1, EntriesPlanned
  <2>3. CASE sheets[s].files = <<>> /\ new[s].files = <<>>
    <3>1. DOMAIN sheets[s].files = {} /\ DOMAIN new[s].files = {}
      BY <2>3
    <3>2. Range(sheets[s].files) = {} /\ Range(new[s].files) = {}
      BY <3>1 DEF Range
    <3>3. Inserts(changes, s) = {}
      <4>1. \A e \in changes : e.op = "insert" => sheets[e.sheet].files # <<>>
        BY <2>1, Zenon DEF EditsAdmitted
      <4>. QED
        BY <2>3, <4>1 DEF Inserts
    <3>4. Entries(sheets, changes, s) = {}
      BY <3>1, <3>3 DEF Entries
    <3>5. FilesAsked(plan, name, sheets[s]) = {}
      BY <2>2, <3>4
    <3>6. FilesKept(sheets[s].files, new[s].files)
      BY <3>1, <3>2, Zenon DEF FilesKept
    <3>. QED
      BY <3>2, <3>5, <3>6 DEF FilesPlanned
  <2>4. CASE /\ new[s].files = EditedFiles(sheets, changes, s)
             /\ Arranged(Entries(sheets, changes, s)) # {}
             /\ RangesFit(new[s].files)
    <3>1. FilesKept(sheets[s].files, new[s].files)
      BY <2>1, <2>4, EditedKept
    <3>2. FilesAre(new[s].files, Entries(sheets, changes, s))
      BY <2>4, EditedEntries
    <3>3. Range(new[s].files) = {x.file : x \in Entries(sheets, changes, s)}
      BY <3>2, FilesRange
    <3>. QED
      BY <2>2, <3>1, <3>3 DEF FilesPlanned
  <2>. QED
    BY <1>1, <1>3, <2>3, <2>4 DEF EditedSheets
<1>. QED
  BY <1>1, <1>3, Zenon DEF SheetsPlanned, EditedSheets

-----------------------------------------------------------------------------
(* The invariant: the definition documents decided on are their client's with the
   plan's edits. *)

PlannedInv == WorkInv /\ PlannedDefinitions

\* One document more: its definition is edited as planned, or not written.
LEMMA ImportPlanned ==
  ASSUME WorkInv, PlannedDefinitions, ImportDocument
  PROVE  PlannedDefinitions'
<1>1. pc = "documents" /\ UNCHANGED <<game, plan>>
  BY Zenon DEF ImportDocument
<1>2. CASE UNCHANGED work
  BY <1>1, <1>2, Zenon DEF PlannedDefinitions
<1>3. CASE \E n \in todo : Adds(n, ParseDocument(game[n.id].of))
  <2>1. PICK n, sheets : n \in todo /\ sheets = ParseDocument(game[n.id].of) /\ Adds(n, sheets)
    BY <1>3
  <2>. PICK new : new = work'.resources
    OBVIOUS
  <2>. DEFINE changes == GrowEdits(n.name, sheets) \cup AddEdits(n.name, sheets)
              document == EditDefinition(game[n.id].of, changes)
  <2>2. sheets # Refused
    BY <1>1, <2>1, NamedParse DEF WorkInv
  <2>3. /\ GrowEdits(n.name, sheets) # Refused /\ AddEdits(n.name, sheets) # Refused
        /\ changes # {} => document # Refused
        /\ \A id \in DOMAIN new :
             \/ id \in DOMAIN work.resources /\ new[id] = work.resources[id]
             \/ changes # {} /\ id = n.id /\ new[id] = [as |-> "definition", of |-> document]
             \/ new[id].as # "definition"
    BY <2>1, Zenon DEF Adds
  <2>4. n \in Named(game) /\ (changes # {} => SheetsPlanned(plan, n.name, sheets, ParseDocument(document)))
    <3>1. n \in Named(game)
      BY <1>1, <2>1 DEF WorkInv
    <3>. QED
      BY <2>1, <2>2, <2>3, <3>1, PlanKept
  <2>. HIDE DEF changes, document
  <2>5. ASSUME NEW id \in DOMAIN new, new[id].as = "definition"
        PROVE  \E m \in Named(game) :
                 m.id = id /\ SheetsPlanned(plan, m.name, ParseDocument(game[id].of), ParseDocument(new[id].of))
    <3>1. CASE id \in DOMAIN work.resources /\ new[id] = work.resources[id]
      BY <2>5, <3>1, Zenon DEF PlannedDefinitions
    <3>2. CASE changes # {} /\ id = n.id /\ new[id] = [as |-> "definition", of |-> document]
      <4>1. new[id].of = document
        BY <3>2
      <4>. QED
        BY <2>1, <2>4, <3>2, <4>1
    <3>. QED
      BY <2>3, <2>5, <3>1, <3>2
  <2>6. \A id \in DOMAIN work'.resources : work'.resources[id].as = "definition" =>
          \E m \in Named(game') :
            m.id = id /\ SheetsPlanned(plan', m.name, ParseDocument(game'[id].of), ParseDocument(work'.resources[id].of))
    BY <1>1, <2>5
  <2>. QED
    BY <2>6, Zenon DEF PlannedDefinitions
<1>. QED
  BY <1>2, <1>3, ImportAdds

LEMMA PlannedInit == Init => PlannedInv
<1>. SUFFICES ASSUME Init PROVE PlannedInv
  OBVIOUS
<1>1. work = NoWork
  BY Zenon DEF Init
<1>. QED
  BY <1>1, WorkInit DEF PlannedInv, PlannedDefinitions, NoWork

LEMMA PlannedNext ==
  ASSUME PlannedInv, [Next]_vars
  PROVE  PlannedInv'
<1>1. WorkInv'
  BY WorkNext DEF PlannedInv
<1>2. CASE ImportDocument
  BY <1>1, <1>2, ImportPlanned DEF PlannedInv
<1>3. CASE work' = NoWork
  BY <1>1, <1>3 DEF PlannedInv, PlannedDefinitions, NoWork
<1>4. CASE UNCHANGED <<game, plan, work>>
  BY <1>1, <1>4, Zenon DEF PlannedInv, PlannedDefinitions
<1>. QED
  BY <1>2, <1>3, <1>4, Elsewhere DEF PlannedInv

(* In every definition document that an import writes, for every client tree and
   every plan, the files of a sheet are in order and disjoint and are exactly the
   client's, each with the count the plan gives it, and those the plan adds to that
   sheet; none has moved, shrunk or changed its resources (edit_definition,
   definition_edits). *)
THEOREM Definitions == Spec => []PlannedDefinitions
<1>1. PlannedInv => PlannedDefinitions
  BY DEF PlannedInv
<1>. QED
  BY PlannedInit, PlannedNext, <1>1, PTL DEF Spec

-----------------------------------------------------------------------------
(* Cells of the merged table. *)

Pieces(texts) == [mark : {"text", "missing", "duplicate"}, of : texts \cup {""}]

Cells(texts) == [seen : SUBSET Pieces(texts), shown : Seq(Pieces(texts))]

Texted(values, texts) == \A v \in values : v = Omitted \/ v.text \in texts

\* What a cell that these values were merged into shows: nothing, a marker, or one of them.
Shows(cell, values) ==
  IF values = {} THEN cell = NoCell
  ELSE /\ cell.seen # {}
       /\ HasMarker(cell.shown) \/ \E v \in values : v # Omitted /\ cell.shown = Show(v.text)

LEMMA MarkerKept ==
  ASSUME NEW texts, NEW shown \in Seq(Pieces(texts)), NEW more \in Seq(Pieces(texts)), HasMarker(more)
  PROVE  HasMarker(shown \o more)
  BY ConcatRange DEF HasMarker

LEMMA OneMarker ==
  ASSUME NEW p, p.mark # "text"
  PROVE  HasMarker(<<p>>)
<1>1. 1 \in DOMAIN <<p>> /\ <<p>>[1] = p
  OBVIOUS
<1>2. p \in Range(<<p>>)
  BY <1>1, Zenon DEF Range
<1>. QED
  BY <1>2, Zenon DEF HasMarker

\* What a value adds to the text of a cell.
Addition(cell, value) ==
  IF value = Omitted
  THEN (IF cell.seen # {} /\ cell.shown = <<>> THEN <<Piece("duplicate", "")>> ELSE <<>>) \o <<Piece("missing", "")>>
  ELSE IF cell.seen = {} THEN Show(value.text) ELSE <<Piece("duplicate", value.text)>>

LEMMA AdditionIs ==
  ASSUME NEW texts, NEW cell, NEW value, Texted({value}, texts)
  PROVE  /\ Addition(cell, value) \in Seq(Pieces(texts))
         /\ value = Omitted \/ cell.seen # {} => HasMarker(Addition(cell, value))
<1>1. \A mark \in {"text", "missing", "duplicate"}, text \in texts \cup {""} :
        Piece(mark, text) \in Pieces(texts) /\ Piece(mark, text).mark = mark
  BY DEF Piece, Pieces
<1>2. \A piece \in Pieces(texts) : <<piece>> \in Seq(Pieces(texts))
  OBVIOUS
<1>3. <<>> \in Seq(Pieces(texts))
  OBVIOUS
<1>4. CASE value = Omitted
  <2>. PICK a : a = IF cell.seen # {} /\ cell.shown = <<>> THEN <<Piece("duplicate", "")>> ELSE <<>>
    OBVIOUS
  <2>1. Addition(cell, value) = a \o <<Piece("missing", "")>>
    BY <1>4, Zenon DEF Addition
  <2>2. a \in Seq(Pieces(texts)) /\ <<Piece("missing", "")>> \in Seq(Pieces(texts))
    <3>1. Piece("duplicate", "") \in Pieces(texts) /\ Piece("missing", "") \in Pieces(texts)
      BY <1>1
    <3>2. <<Piece("duplicate", "")>> \in Seq(Pieces(texts)) /\ <<Piece("missing", "")>> \in Seq(Pieces(texts))
      BY <1>2, <3>1, Zenon
    <3>. QED
      BY <1>3, <3>2, Zenon
  <2>3. HasMarker(<<Piece("missing", "")>>)
    BY <1>1, OneMarker
  <2>. PICK m : m = <<Piece("missing", "")>>
    OBVIOUS
  <2>4. HasMarker(a \o m)
    BY <2>2, <2>3, MarkerKept
  <2>5. a \o m \in Seq(Pieces(texts))
    BY <2>2, ConcatProperties
  <2>. QED
    BY <2>1, <2>4, <2>5, Zenon
<1>5. CASE value # Omitted
  <2>1. value.text \in texts
    BY <1>5 DEF Texted
  <2>2. CASE cell.seen = {}
    <3>1. Addition(cell, value) = Show(value.text)
      BY <1>5, <2>2, Zenon DEF Addition
    <3>2. <<Piece("text", value.text)>> \in Seq(Pieces(texts))
      BY <1>1, <1>2, <2>1
    <3>. QED
      BY <1>3, <1>5, <2>2, <3>1, <3>2, Zenon DEF Show
  <2>3. CASE cell.seen # {}
    <3>1. Addition(cell, value) = <<Piece("duplicate", value.text)>>
      BY <1>5, <2>3, Zenon DEF Addition
    <3>2. Piece("duplicate", value.text) \in Pieces(texts) /\ Piece("duplicate", value.text).mark = "duplicate"
      BY <1>1, <2>1
    <3>3. HasMarker(<<Piece("duplicate", value.text)>>)
      BY <3>2, OneMarker
    <3>. QED
      BY <1>2, <3>1, <3>2, <3>3, Zenon
  <2>. QED
    BY <2>2, <2>3
<1>. QED
  BY <1>4, <1>5

LEMMA AddIs ==
  ASSUME NEW texts, NEW cell \in Cells(texts), NEW value, Texted({value}, texts)
  PROVE  /\ AddValue(cell, value) \in Cells(texts)
         /\ AddValue(cell, value).seen # {}
         /\ \/ cell.seen # {} /\ AddValue(cell, value) = cell
            \/ AddValue(cell, value).shown = cell.shown \o Addition(cell, value)
<1>. DEFINE logical == IF value = Omitted THEN Piece("missing", "") ELSE Piece("text", value.text)
<1>. PICK added : added = AddValue(cell, value)
  OBVIOUS
<1>. PICK more : more = Addition(cell, value)
  OBVIOUS
<1>1. added = IF logical \in cell.seen THEN cell
              ELSE [seen |-> cell.seen \cup {logical}, shown |-> cell.shown \o more]
  BY Zenon DEF AddValue, Addition
<1>2. logical \in Pieces(texts)
  BY DEF Piece, Pieces, Texted
<1>3. more \in Seq(Pieces(texts))
  BY AdditionIs
<1>. HIDE DEF logical
<1>4. cell.shown \in Seq(Pieces(texts)) /\ cell.seen \subseteq Pieces(texts)
  BY DEF Cells
<1>5. CASE logical \in cell.seen
  BY <1>1, <1>5
<1>6. CASE logical \notin cell.seen
  <2>1. added = [seen |-> cell.seen \cup {logical}, shown |-> cell.shown \o more]
    BY <1>1, <1>6
  <2>2. cell.shown \o more \in Seq(Pieces(texts)) /\ cell.seen \cup {logical} \subseteq Pieces(texts)
    BY <1>2, <1>3, <1>4, ConcatProperties
  <2>3. added \in Cells(texts)
    BY <2>1, <2>2 DEF Cells
  <2>. QED
    BY <2>1, <2>3
<1>. QED
  BY <1>5, <1>6

\* One value more in a cell.
LEMMA AddShows ==
  ASSUME NEW texts, NEW cell \in Cells(texts), NEW values, Shows(cell, values),
         NEW value, Texted({value}, texts)
  PROVE  Shows(AddValue(cell, value), values \cup {value})
<1>. PICK added : added = AddValue(cell, value)
  OBVIOUS
<1>. PICK more : more = Addition(cell, value)
  OBVIOUS
<1>. PICK all : all = values \cup {value}
  OBVIOUS
<1>1. /\ added.seen # {}
      /\ (cell.seen # {} /\ added = cell) \/ added.shown = cell.shown \o more
  BY AddIs
<1>2. more \in Seq(Pieces(texts)) /\ (value = Omitted \/ cell.seen # {} => HasMarker(more))
  BY AdditionIs
<1>3. cell.shown \in Seq(Pieces(texts))
  BY DEF Cells
<1>4. values = {} => cell.seen = {} /\ cell.shown = <<>>
  BY DEF Shows, NoCell
<1>5. values # {} => cell.seen # {} /\ (HasMarker(cell.shown) \/ \E v \in values : v # Omitted /\ cell.shown = Show(v.text))
  BY DEF Shows
<1>6. HasMarker(added.shown) \/ \E v \in all : v # Omitted /\ added.shown = Show(v.text)
  <2>1. CASE cell.seen # {} /\ added = cell
    BY <1>4, <1>5, <2>1
  <2>2. CASE added.shown = cell.shown \o more /\ (value = Omitted \/ cell.seen # {})
    BY <1>2, <1>3, <2>2, MarkerKept
  <2>3. CASE added.shown = cell.shown \o more /\ value # Omitted /\ cell.seen = {}
    <3>1. values = {} /\ cell.shown = <<>>
      BY <1>4, <1>5, <2>3
    <3>2. more = Show(value.text)
      BY <2>3, Zenon DEF Addition
    <3>3. added.shown = Show(value.text)
      BY <1>2, <2>3, <3>1, <3>2, ConcatEmptySeq
    <3>. QED
      BY <2>3, <3>3
  <2>. QED
    BY <1>1, <2>1, <2>2, <2>3
<1>. QED
  BY <1>1, <1>6 DEF Shows

\* The values that blocks have in a cell.
ValuesAt(blocks, last, id, c) ==
  {ValueIn(blocks[k], id, c) : k \in {j \in 1 .. last : HasValue(blocks[j], id, c)}}

MergeStep(cell, b, id, c) == IF HasValue(b, id, c) THEN AddValue(cell, ValueIn(b, id, c)) ELSE cell

Merges(cell, n, blocks, id, c) ==
  cell[0] = NoCell /\ \A k \in 1 .. n : cell[k] = MergeStep(cell[k - 1], blocks[k], id, c)

LEMMA MergeExists ==
  ASSUME NEW texts, NEW n \in Nat, NEW blocks, NEW id, NEW c, Texted(ValuesAt(blocks, n, id, c), texts)
  PROVE  \E cell \in [0 .. n -> Cells(texts)] : Merges(cell, n, blocks, id, c)
<1>. DEFINE step == [x \in (1 .. n) \X Cells(texts) |-> MergeStep(x[2], blocks[x[1]], id, c)]
<1>1. ASSUME NEW k \in 1 .. n, NEW cell \in Cells(texts)
      PROVE  MergeStep(cell, blocks[k], id, c) \in Cells(texts)
  <2>1. HasValue(blocks[k], id, c) => Texted({ValueIn(blocks[k], id, c)}, texts)
    BY Zenon DEF ValuesAt, Texted
  <2>. QED
    BY <2>1, AddIs DEF MergeStep
<1>2. step \in [(1 .. n) \X Cells(texts) -> Cells(texts)]
  BY <1>1
<1>3. NoCell \in Cells(texts)
  BY DEF NoCell, Cells
<1>4. \A k \in 1 .. n, cell \in Cells(texts) : step[<<k, cell>>] = MergeStep(cell, blocks[k], id, c)
  OBVIOUS
<1>. HIDE DEF step
<1>5. PICK cell \in [0 .. n -> Cells(texts)] : Iterates(cell, n, NoCell, step)
  BY <1>2, <1>3, IterationExists
<1>6. \A k \in 1 .. n : cell[k] = MergeStep(cell[k - 1], blocks[k], id, c)
  <2>. TAKE k \in 1 .. n
  <2>1. k - 1 \in 0 .. n
    OBVIOUS
  <2>2. cell[k - 1] \in Cells(texts) /\ cell[k] = step[<<k, cell[k - 1]>>]
    BY <1>5, <2>1 DEF Iterates
  <2>. QED
    BY <1>4, <2>2
<1>. QED
  BY <1>5, <1>6 DEF Iterates, Merges

LEMMA MergeShows ==
  ASSUME NEW texts, NEW S, NEW blocks \in Seq(S), NEW id, NEW c,
         Texted(ValuesAt(blocks, Len(blocks), id, c), texts)
  PROVE  Shows(MergedCell(blocks, id, c), ValuesAt(blocks, Len(blocks), id, c))
<1>. DEFINE n == Len(blocks)
            Solves(h) == h = [k \in 0 .. n |->
                            IF k = 0 THEN NoCell
                            ELSE IF HasValue(blocks[k], id, c) THEN AddValue(h[k - 1], ValueIn(blocks[k], id, c))
                            ELSE h[k - 1]]
            cell == CHOOSE h : Solves(h)
<1>1. MergedCell(blocks, id, c) = cell[n]
  BY Zenon DEF MergedCell
<1>2. n \in Nat
  OBVIOUS
<1>3. \E h : Solves(h)
  <2>0. Texted(ValuesAt(blocks, n, id, c), texts)
    OBVIOUS
  <2>1. PICK f \in [0 .. n -> Cells(texts)] : Merges(f, n, blocks, id, c)
    <3>. HIDE DEF n, cell, Solves
    <3>. QED
      BY <1>2, <2>0, MergeExists
  <2>2. \A k \in 0 .. n : k = 0 \/ k \in 1 .. n
    BY <1>2
  <2>3. \A k \in 0 .. n : f[k] = IF k = 0 THEN NoCell
                                 ELSE IF HasValue(blocks[k], id, c) THEN AddValue(f[k - 1], ValueIn(blocks[k], id, c))
                                 ELSE f[k - 1]
    BY <2>1, <2>2, Zenon DEF MergeStep, Merges
  <2>4. Solves(f)
    BY <2>1, <2>3
  <2>. QED
    BY <2>4
<1>4. Solves(cell)
  BY <1>3
<1>5. cell[0] = NoCell /\ \A k \in 1 .. n : cell[k] = MergeStep(cell[k - 1], blocks[k], id, c)
  <2>. HIDE DEF cell
  <2>1. 0 \in 0 .. n /\ \A k \in 1 .. n : k \in 0 .. n /\ k # 0
    BY <1>2
  <2>. QED
    BY <1>4, <2>1 DEF MergeStep
<1>. HIDE DEF cell, Solves
<1>. DEFINE T == {k \in 0 .. n : cell[k] \in Cells(texts) /\ Shows(cell[k], ValuesAt(blocks, k, id, c))}
<1>6. 0 \in T
  <2>1. ValuesAt(blocks, 0, id, c) = {}
    BY DEF ValuesAt
  <2>2. cell[0] \in Cells(texts)
    BY <1>5 DEF NoCell, Cells
  <2>. QED
    BY <1>2, <1>5, <2>1, <2>2 DEF Shows
<1>7. ASSUME NEW k \in 1 .. n, k - 1 \in T PROVE k \in T
  <2>1. cell[k - 1] \in Cells(texts) /\ Shows(cell[k - 1], ValuesAt(blocks, k - 1, id, c)) /\ k \in 0 .. n
    BY <1>2, <1>7
  <2>2. \A j : j \in 1 .. k <=> j \in 1 .. (k - 1) \/ j = k
    BY <1>2
  <2>3. CASE HasValue(blocks[k], id, c)
    <3>1. ValuesAt(blocks, k, id, c) = ValuesAt(blocks, k - 1, id, c) \cup {ValueIn(blocks[k], id, c)}
      BY <2>2, <2>3 DEF ValuesAt
    <3>2. Texted({ValueIn(blocks[k], id, c)}, texts)
      BY <2>3, Zenon DEF ValuesAt, Texted
    <3>3. cell[k] = AddValue(cell[k - 1], ValueIn(blocks[k], id, c))
      BY <1>5, <2>3 DEF MergeStep
    <3>. QED
      BY <2>1, <3>1, <3>2, <3>3, AddIs, AddShows
  <2>4. CASE ~HasValue(blocks[k], id, c)
    <3>1. ValuesAt(blocks, k, id, c) = ValuesAt(blocks, k - 1, id, c)
      BY <2>2, <2>4 DEF ValuesAt
    <3>2. cell[k] = cell[k - 1]
      BY <1>5, <2>4 DEF MergeStep
    <3>. QED
      BY <2>1, <3>1, <3>2
  <2>. QED
    BY <2>3, <2>4
<1>8. n \in T
  <2>1. n \in 0 .. n
    BY <1>2
  <2>. HIDE DEF T, n
  <2>2. 0 .. n \subseteq T
    BY <1>2, <1>6, <1>7, StepsTo
  <2>. QED
    BY <2>1, <2>2
<1>. QED
  BY <1>1, <1>8

\* A block beside the definitions of its document.
BlockFits(b, definitions) ==
  /\ b.force = FALSE
  /\ \A id \in DOMAIN b.rows : Covers(b, id) /\ RowOf(b.rows[id], b.columns)
  /\ \E s \in definitions : b.columns = s.columns /\ b.index = s.index /\ Range(s.columns) \subseteq Types

\* A document that was loaded: the merged table of its blocks, in order.
LoadedAs(table, blocks, definitions, order) ==
  /\ \E S : order \in Seq(S)
  /\ blocks = Range(order) \ {None}
  /\ table = MergedTable(definitions, order)
  /\ ColumnsAgree(definitions)
  /\ \A s \in definitions : SheetAccepted(s)
  /\ \A b \in blocks : BlockFits(b, definitions)

LEMMA DocumentIs ==
  ASSUME NEW fs, NEW doc, NEW sheets, sheets = ParseDocument(doc), sheets # Refused,
         NEW loaded, loaded = LoadDocument(fs, sheets), loaded # Refused
  PROVE  \E definitions, order : LoadedAs(loaded.table, loaded.blocks, definitions, order)
<1>. PICK definitions : definitions = DefinitionsOf(sheets)
  OBVIOUS
<1>. PICK order : order = LoadBlocks(fs, sheets)
  OBVIOUS
<1>1. /\ DocumentLoads(fs, sheets) /\ loaded.blocks = BlocksOf(fs, sheets)
      /\ loaded.table = MergedTable(definitions, order)
  BY LoadedDocument
<1>2. (\A s \in definitions : SheetAccepted(s)) /\ ColumnsAgree(definitions)
  BY <1>1, Zenon DEF DocumentLoads
<1>3. \E S : order \in Seq(S)
  <2>1. DocumentBlocks(order, fs, sheets)
    BY BlocksAre
  <2>. QED
    BY <2>1, Zenon DEF DocumentBlocks
<1>4. /\ \A i \in DOMAIN doc.sheets : SheetParses(doc.sheets[i])
      /\ sheets = [i \in DOMAIN doc.sheets |-> ParseSheet(doc.sheets[i])]
  BY ParsedSheets
<1>5. ASSUME NEW b \in loaded.blocks PROVE BlockFits(b, definitions)
  <2>1. PICK i \in DOMAIN sheets : /\ sheets[i].kind = "definition"
                                   /\ \E k \in DOMAIN sheets[i].files : PlaceLoads(b, fs, sheets[i], <<i, k>>)
    BY <1>1, BlocksLoaded
  <2>. PICK s : s = sheets[i]
    OBVIOUS
  <2>2. PICK k : PlaceLoads(b, fs, s, <<i, k>>)
    BY <2>1
  <2>3. s \in definitions
    BY <2>1 DEF DefinitionsOf, Range
  <2>4. s.columns \in Seq(Types) /\ Range(s.columns) \subseteq Types
    BY <1>4, <2>1, SheetIs
  <2>5. SheetBlock(b, s)
    BY <2>2, <2>4, BlockIs, Zenon DEF PlaceLoads
  <2>6. /\ b.columns = s.columns /\ b.index = s.index /\ b.force = FALSE
        /\ \A id \in DOMAIN b.rows : Covers(b, id) /\ RowOf(b.rows[id], b.columns)
    BY <2>5, Zenon DEF SheetBlock
  <2>. QED
    BY <2>3, <2>4, <2>6, Zenon DEF BlockFits
<1>6. loaded.blocks = Range(order) \ {None}
  BY <1>1, Zenon DEF BlocksOf
<1>7. LoadedAs(loaded.table, loaded.blocks, definitions, order)
  BY <1>1, <1>2, <1>3, <1>5, <1>6, Zenon DEF LoadedAs
<1>. QED
  BY <1>7

\* A column of the table is a number.
LEMMA ColumnsAre ==
  ASSUME NEW definitions, \A s \in definitions : SheetAccepted(s), NEW c \in DOMAIN Columns(definitions)
  PROVE  c \in Int
<1>1. PICK s \in definitions : c \in 1 .. s.width
  BY DEF Columns
<1>2. s.width \in 0 .. MaxColumns
  BY DEF SheetAccepted
<1>. QED
  BY <1>1, <1>2

\* Where a block has a value, it has one of the column's type.
LEMMA ValueIs ==
  ASSUME NEW definitions, \A s \in definitions : SheetAccepted(s), ColumnsAgree(definitions),
         NEW b, BlockFits(b, definitions), NEW id, NEW c \in Int, HasValue(b, id, c)
  PROVE  /\ c \in DOMAIN Columns(definitions)
         /\ Columns(definitions)[c] \in Types
         /\ ValueIn(b, id, c) = Omitted \/ ValueIn(b, id, c) \in ValuesOf(Columns(definitions)[c])
<1>1. PICK s \in definitions : b.columns = s.columns /\ b.index = s.index /\ Range(s.columns) \subseteq Types
  BY DEF BlockFits
<1>. PICK k : k = CHOOSE j \in DOMAIN b.index : b.index[j] = c - 1
  OBVIOUS
<1>2. k \in DOMAIN s.index /\ s.index[k] = c - 1
  <2>1. \E j \in DOMAIN b.index : b.index[j] = c - 1
    BY DEF HasValue, Range
  <2>. QED
    BY <1>1, <2>1
<1>3. /\ Range(s.index) \subseteq 0 .. (s.width - 1) /\ s.width \in Int /\ DOMAIN s.index = DOMAIN s.columns
  <2>1. SheetAccepted(s)
    OBVIOUS
  <2>2. s.width \in 0 .. MaxColumns
    BY <2>1, Zenon DEF SheetAccepted
  <2>. QED
    BY <2>1, <2>2 DEF SheetAccepted
<1>4. c \in DOMAIN Columns(definitions)
  <2>1. c - 1 \in 0 .. (s.width - 1)
    BY <1>2, <1>3, Zenon DEF Range
  <2>2. c \in 1 .. s.width
    BY <1>3, <2>1
  <2>. QED
    BY <2>2 DEF Columns
<1>5. s.columns[k] \in TypesAt(definitions, c)
  <2>. DEFINE At(t) == {t.columns[j] : j \in {i \in DOMAIN t.index : t.index[i] = c - 1}}
  <2>1. s.columns[k] \in At(s)
    BY <1>2
  <2>2. TypesAt(definitions, c) = UNION {At(t) : t \in definitions}
    BY Zenon DEF TypesAt
  <2>. HIDE DEF At
  <2>. QED
    BY <2>1, <2>2
<1>6. Columns(definitions)[c] = s.columns[k]
  <2>1. s.index[k] + 1 = c
    BY <1>2
  <2>2. \A t, u \in TypesAt(definitions, c) : t = u
    BY <1>2, <2>1 DEF ColumnsAgree
  <2>3. Columns(definitions)[c] = CHOOSE t \in TypesAt(definitions, c) : TRUE
    BY <1>4, <1>5 DEF Columns
  <2>. QED
    BY <1>5, <2>2, <2>3
<1>7. s.columns[k] \in Types
  BY <1>1, <1>2, <1>3, Zenon DEF Range
<1>8. ValueIn(b, id, c) = b.rows[id][k]
  BY DEF ValueIn
<1>9. b.rows[id][k] = Omitted \/ b.rows[id][k] \in ValuesOf(s.columns[k])
  <2>1. id \in DOMAIN b.rows
    BY DEF HasValue
  <2>2. RowOf(b.rows[id], s.columns)
    BY <1>1, <2>1, Zenon DEF BlockFits
  <2>. QED
    BY <1>2, <1>3, <2>2 DEF RowOf
<1>. QED
  BY <1>4, <1>6, <1>7, <1>8, <1>9

\* What a cell of a loaded table shows, by the blocks that have a value there.
LEMMA CellIs ==
  ASSUME NEW table, NEW blocks, NEW definitions, NEW order, LoadedAs(table, blocks, definitions, order),
         NEW id \in DOMAIN table.rows, NEW c \in DOMAIN table.columns
  PROVE  \/ table.rows[id][c] = NoCell /\ \A b \in blocks : ~HasValue(b, id, c)
         \/ /\ table.columns[c] \in Types /\ table.rows[id][c].seen # {}
            /\ \/ HasMarker(table.rows[id][c].shown)
               \/ \E text \in Spelled[table.columns[c]] : table.rows[id][c].shown = Show(text)
<1>. DEFINE values == ValuesAt(order, Len(order), id, c)
            texts == UNION {Spelled[type] : type \in Types}
<1>. PICK cell : cell = table.rows[id][c]
  OBVIOUS
<1>1. PICK S : order \in Seq(S)
  BY Zenon DEF LoadedAs
<1>2. /\ table.columns = Columns(definitions) /\ cell = MergedCell(order, id, c)
      /\ blocks = Range(order) \ {None}
  <2>1. table = MergedTable(definitions, order) /\ blocks = Range(order) \ {None}
    BY Zenon DEF LoadedAs
  <2>. QED
    BY <2>1 DEF MergedTable
<1>3. c \in Int
  BY <1>2, ColumnsAre DEF LoadedAs
<1>4. DOMAIN order = 1 .. Len(order)
  BY <1>1
<1>5. ASSUME NEW b \in blocks, HasValue(b, id, c)
      PROVE  /\ ValueIn(b, id, c) \in values
             /\ table.columns[c] \in Types
             /\ ValueIn(b, id, c) = Omitted \/ ValueIn(b, id, c) \in ValuesOf(table.columns[c])
  <2>1. PICK k \in 1 .. Len(order) : b = order[k]
    BY <1>2, <1>4 DEF Range
  <2>2. ValueIn(b, id, c) \in values
    BY <1>5, <2>1 DEF ValuesAt
  <2>. HIDE DEF values
  <2>. QED
    BY <1>2, <1>3, <1>5, <2>2, ValueIs DEF LoadedAs
<1>6. ASSUME NEW v \in values
      PROVE  \E b \in blocks : HasValue(b, id, c) /\ v = ValueIn(b, id, c)
  <2>1. PICK k \in 1 .. Len(order) : HasValue(order[k], id, c) /\ v = ValueIn(order[k], id, c)
    BY DEF ValuesAt
  <2>2. order[k] # None
    BY <2>1, Zenon DEF HasValue
  <2>3. order[k] \in blocks
    BY <1>2, <1>4, <2>2 DEF Range
  <2>. QED
    BY <2>1, <2>3
<1>. HIDE DEF values
<1>7. \A v \in values : /\ table.columns[c] \in Types
                        /\ v = Omitted \/ v.text \in Spelled[table.columns[c]]
  BY <1>5, <1>6 DEF ValuesOf
<1>8. Texted(values, texts)
  BY <1>7 DEF Texted
<1>. HIDE DEF texts
<1>9. Shows(cell, values)
  BY <1>1, <1>2, <1>8, MergeShows DEF values
<1>10. CASE values = {}
  <2>1. cell = NoCell
    BY <1>9, <1>10 DEF Shows
  <2>2. \A b \in blocks : ~HasValue(b, id, c)
    BY <1>5, <1>10
  <2>. QED
    BY <2>1, <2>2
<1>11. CASE values # {}
  <2>1. table.columns[c] \in Types
    BY <1>7, <1>11
  <2>2. cell.seen # {} /\ (HasMarker(cell.shown) \/ \E v \in values : v # Omitted /\ cell.shown = Show(v.text))
    BY <1>9, <1>11 DEF Shows
  <2>. QED
    BY <1>7, <2>1, <2>2
<1>. QED
  BY <1>10, <1>11

-----------------------------------------------------------------------------
(* An extraction nobody edited. *)

\* A text that a column shows is read back.
LEMMA ShownParses ==
  ASSUME NEW type \in Types, NEW text \in Spelled[type], ~HasMarker(Show(text))
  PROVE  ParseCell(Show(text), type, FALSE) # Refused
<1>1. TextOf(Show(text)) = text
  BY DEF TextOf, Show, Piece
<1>2. ParseCell(Show(text), type, FALSE) = Value(type, text, FALSE)
  BY <1>1 DEF ParseCell
<1>3. Value(type, text, FALSE) \in ValuesOf(type)
  BY DEF Value, ValuesOf
<1>. QED
  BY <1>2, <1>3, ResultAssumption

\* A loaded table has the rows of its blocks, and renders what its cells show.
LEMMA TableIs ==
  ASSUME NEW table, NEW blocks, NEW definitions, NEW order, LoadedAs(table, blocks, definitions, order)
  PROVE  /\ table.columns = Columns(definitions)
         /\ DOMAIN table.rows = UNION {DOMAIN b.rows : b \in blocks}
         /\ DOMAIN Render(table).rows = DOMAIN table.rows
         /\ \A id \in DOMAIN table.rows, c \in DOMAIN table.columns :
              Render(table).rows[id][c] = table.rows[id][c].shown
<1>1. table = MergedTable(definitions, order) /\ blocks = Range(order) \ {None}
  BY Zenon DEF LoadedAs
<1>2. table.columns = Columns(definitions) /\ DOMAIN table.rows = UNION {DOMAIN b.rows : b \in blocks}
  BY <1>1 DEF MergedTable
<1>. QED
  BY <1>2 DEF Render

\* The cells of an unedited extraction may be imported.
LEMMA UneditedCells ==
  ASSUME NEW table, NEW blocks, NEW definitions, NEW order, LoadedAs(table, blocks, definitions, order)
  PROVE  CellsValid(table, blocks, Render(table).rows)
<1>. PICK rows : rows = Render(table).rows
  OBVIOUS
<1>1. /\ DOMAIN table.rows = UNION {DOMAIN b.rows : b \in blocks}
      /\ DOMAIN rows = DOMAIN table.rows
      /\ \A id \in DOMAIN table.rows, c \in DOMAIN table.columns : rows[id][c] = table.rows[id][c].shown
  BY TableIs
<1>2. None \notin blocks /\ \A b \in blocks : BlockFits(b, definitions)
  BY Zenon DEF LoadedAs
<1>3. ASSUME NEW id \in DOMAIN rows PROVE \E b \in blocks : Covers(b, id)
  <2>1. PICK b \in blocks : id \in DOMAIN b.rows
    BY <1>1
  <2>. QED
    BY <1>2, <2>1, Zenon DEF BlockFits
<1>4. ASSUME NEW id \in DOMAIN rows, NEW c \in DOMAIN table.columns
      PROVE  LET known == id \in DOMAIN table.rows
                 original == IF known THEN table.rows[id][c] ELSE NoCell
                 new == rows[id][c]
                 stored == \E b \in blocks :
                             Covers(b, id) /\ c - 1 \in Range(b.index) /\ (id \in DOMAIN b.rows \/ ~known)
             IN \/ original.seen = {} /\ new = <<>> /\ ~stored
                \/ HasMarker(original.shown) /\ new = original.shown
                \/ /\ ~HasMarker(original.shown)
                   /\ IF table.columns[c] = Absent THEN new = <<>>
                      ELSE ParseCell(new, table.columns[c], FALSE) # Refused
                   /\ new # original.shown => stored
  <2>. PICK original : original = table.rows[id][c]
    OBVIOUS
  <2>1. id \in DOMAIN table.rows /\ rows[id][c] = original.shown
    BY <1>1
  <2>2. \/ original = NoCell /\ \A b \in blocks : ~HasValue(b, id, c)
        \/ /\ table.columns[c] \in Types /\ original.seen # {}
           /\ \/ HasMarker(original.shown)
              \/ \E text \in Spelled[table.columns[c]] : original.shown = Show(text)
    BY <2>1, CellIs
  <2>3. CASE original = NoCell /\ \A b \in blocks : ~HasValue(b, id, c)
    <3>1. original.seen = {} /\ original.shown = <<>>
      BY <2>3 DEF NoCell
    <3>2. ~ \E b \in blocks : Covers(b, id) /\ c - 1 \in Range(b.index) /\ (id \in DOMAIN b.rows \/ id \notin DOMAIN table.rows)
      BY <1>2, <2>1, <2>3, Zenon DEF HasValue
    <3>. QED
      BY <2>1, <3>1, <3>2, Zenon
  <2>4. CASE HasMarker(original.shown)
    BY <2>1, <2>4, Zenon
  <2>5. CASE /\ table.columns[c] \in Types /\ ~HasMarker(original.shown)
             /\ \E text \in Spelled[table.columns[c]] : original.shown = Show(text)
    <3>1. table.columns[c] # Absent
      BY <2>5, ResultAssumption
    <3>2. ParseCell(original.shown, table.columns[c], FALSE) # Refused
      BY <2>5, ShownParses
    <3>. QED
      BY <2>1, <2>5, <3>1, <3>2, Zenon
  <2>. QED
    BY <2>2, <2>3, <2>4, <2>5
<1>5. CellsValid(table, blocks, rows)
  BY <1>3, <1>4, Zenon DEF CellsValid
<1>. QED
  BY <1>5

\* A column of a block is a column of the table.
LEMMA BlockColumn ==
  ASSUME NEW definitions, \A s \in definitions : SheetAccepted(s), NEW b, BlockFits(b, definitions)
  PROVE  /\ DOMAIN b.index = DOMAIN b.columns
         /\ \A c \in Range(b.index) : c + 1 \in DOMAIN Columns(definitions)
<1>1. PICK s \in definitions : b.columns = s.columns /\ b.index = s.index
  BY DEF BlockFits
<1>2. SheetAccepted(s)
  OBVIOUS
<1>3. Range(s.index) \subseteq 0 .. (s.width - 1) /\ s.width \in 0 .. MaxColumns /\ DOMAIN s.index = DOMAIN s.columns
  BY <1>2, Zenon DEF SheetAccepted
<1>4. \A c \in Range(s.index) : c + 1 \in 1 .. s.width
  BY <1>3
<1>5. DOMAIN Columns(definitions) = UNION {1 .. t.width : t \in definitions}
  BY DEF Columns
<1>. QED
  BY <1>1, <1>3, <1>4, <1>5

\* No block changes for the rows that show what it has.
LEMMA UneditedBlock ==
  ASSUME NEW table, NEW blocks, NEW definitions, NEW order, LoadedAs(table, blocks, definitions, order),
         NEW b \in blocks
  PROVE  EditBlock(table, Render(table).rows, b) = None
<1>. PICK rows : rows = Render(table).rows
  OBVIOUS
<1>. DEFINE mine == RowsOf(table, rows, b)
            values == [id \in mine |-> EditRow(table, b, id, rows[id])]
<1>1. /\ table.columns = Columns(definitions)
      /\ DOMAIN table.rows = UNION {DOMAIN a.rows : a \in blocks}
      /\ DOMAIN rows = DOMAIN table.rows
      /\ \A id \in DOMAIN table.rows, c \in DOMAIN table.columns : rows[id][c] = table.rows[id][c].shown
  BY TableIs
<1>2. BlockFits(b, definitions) /\ \A s \in definitions : SheetAccepted(s)
  BY Zenon DEF LoadedAs
<1>3. /\ DOMAIN b.index = DOMAIN b.columns
      /\ \A c \in Range(b.index) : c + 1 \in DOMAIN table.columns
  BY <1>1, <1>2, BlockColumn
<1>4. mine \subseteq DOMAIN b.rows /\ mine \subseteq DOMAIN table.rows /\ DOMAIN b.rows \subseteq DOMAIN rows
  BY <1>1 DEF RowsOf
<1>5. ASSUME NEW id \in mine PROVE Refused \notin Range(EditRow(table, b, id, rows[id]))
  <2>1. ASSUME NEW c \in DOMAIN b.columns
        PROVE  rows[id][b.index[c] + 1] = table.rows[id][b.index[c] + 1].shown
    BY <1>1, <1>3, <1>4 DEF Range
  <2>2. EditRow(table, b, id, rows[id]) = [c \in DOMAIN b.columns |-> b.rows[id][c]]
    BY <1>4, <2>1, Zenon DEF EditRow
  <2>3. ASSUME NEW c \in DOMAIN b.columns PROVE b.rows[id][c] # Refused
    <3>1. RowOf(b.rows[id], b.columns) /\ Range(b.columns) \subseteq Types
      BY <1>2, <1>4, Zenon DEF BlockFits
    <3>2. b.rows[id][c] = Omitted \/ b.rows[id][c] \in ValuesOf(b.columns[c])
      BY <3>1, Zenon DEF RowOf
    <3>3. b.columns[c] \in Types
      BY <3>1 DEF Range
    <3>. QED
      BY <3>2, <3>3, ResultAssumption
  <2>. QED
    BY <2>2, <2>3 DEF Range
<1>6. ~ \E id \in mine \cap DOMAIN table.rows : \E c \in Range(b.index) :
          rows[id][c + 1] # table.rows[id][c + 1].shown
  BY <1>1, <1>3, <1>4
<1>7. ~ \E id \in mine : Refused \in Range(values[id])
  BY <1>5
<1>8. b.force = FALSE
  BY <1>2 DEF BlockFits
<1>9. EditBlock(table, rows, b) = None
  <2>. HIDE DEF mine
  <2>1. EditBlock(table, rows, b) =
          LET retyped == \E id \in mine \cap DOMAIN table.rows : \E c \in Range(b.index) :
                   rows[id][c + 1] # table.rows[id][c + 1].shown
              changed == b.force \/ ~(DOMAIN b.rows \subseteq DOMAIN rows) \/ retyped \/ ~(mine \subseteq DOMAIN b.rows)
          IN IF \E id \in mine : Refused \in Range(values[id]) THEN Refused
             ELSE IF ~changed THEN None
             ELSE EncodeBlock(b, values)
    BY Zenon DEF EditBlock, mine
  <2>. QED
    BY <1>4, <1>6, <1>7, <1>8, <2>1, Zenon
<1>. QED
  BY <1>9

-----------------------------------------------------------------------------
(* Names: the documents of a client are told apart by them. *)

LEMMA NamesApart ==
  ASSUME NEW fs, NEW ids, ids \subseteq Nat, IsFiniteSet(ids),
         NEW n \in NameEach(fs, ids), NEW m \in NameEach(fs, ids), n.name = m.name
  PROVE  n = m
<1>. DEFINE Base(id) == ParseDocument(fs[id].of)[1].name
            Before(id) == {j \in ids : j < id /\ Base(j) = Base(id)}
            Entry(id) == [id |-> id, name |-> <<Base(id), 1 + Cardinality(Before(id))>>]
<1>1. PICK i \in ids, j \in ids : n = Entry(i) /\ m = Entry(j)
  BY Zenon DEF NameEach
<1>2. \A id \in ids : IsFiniteSet(Before(id)) /\ Cardinality(Before(id)) \in Nat
  <2>. TAKE id \in ids
  <2>1. Before(id) \in SUBSET ids
    OBVIOUS
  <2>. HIDE DEF Before
  <2>. QED
    BY <2>1, FS_Subset, FS_CardinalityType
<1>3. Base(i) = Base(j) /\ Cardinality(Before(i)) = Cardinality(Before(j))
  <2>1. <<Base(i), 1 + Cardinality(Before(i))>> = <<Base(j), 1 + Cardinality(Before(j))>>
    <3>. HIDE DEF Base, Before
    <3>. QED
      BY <1>1
  <2>. HIDE DEF Base, Before
  <2>. QED
    BY <1>2, <2>1
<1>4. ASSUME NEW x \in ids, NEW y \in ids, x < y, Base(x) = Base(y) PROVE Cardinality(Before(x)) # Cardinality(Before(y))
  <2>1. ASSUME NEW k \in Before(x) PROVE k \in Before(y)
    <3>1. k \in ids /\ k < x /\ Base(k) = Base(x)
      OBVIOUS
    <3>2. k < y
      BY <1>4, <3>1
    <3>. HIDE DEF Base
    <3>. QED
      BY <1>4, <3>1, <3>2
  <2>2. x \in Before(y) /\ x \notin Before(x)
    BY <1>4
  <2>. HIDE DEF Before
  <2>3. Before(x) \in SUBSET Before(y) /\ Before(x) # Before(y)
    BY <2>1, <2>2
  <2>. QED
    BY <1>2, <2>3, FS_Subset
<1>5. i = j
  <2>. HIDE <1>1
  <2>1. i < j \/ j < i \/ i = j
    <3>1. i \in Nat /\ j \in Nat
      OBVIOUS
    <3>. QED
      BY <3>1
  <2>. HIDE DEF Base, Before
  <2>. QED
    BY <1>3, <1>4, <2>1
<1>. QED
  BY <1>1, <1>5

\* The extraction has each document's table under its name.
LEMMA ExtractionHas ==
  ASSUME NEW fs, Documents(fs) \subseteq DOMAIN Client, Extraction(fs) # Refused
  PROVE  /\ Discover(fs) # Refused
         /\ DOMAIN Extraction(fs) = {n.name : n \in Named(fs)}
         /\ \A n \in Named(fs) : /\ LoadNamed(fs, n) # Refused
                                 /\ Extraction(fs)[n.name] = Render(LoadNamed(fs, n).table)
<1>. DEFINE Of(name) == CHOOSE n \in Named(fs) : n.name = name
<1>1. /\ Discover(fs) # Refused /\ \A n \in Named(fs) : LoadNamed(fs, n) # Refused
      /\ Extraction(fs) = [name \in {n.name : n \in Named(fs)} |-> Render(LoadNamed(fs, Of(name)).table)]
  BY Zenon DEF Extraction
<1>2. Discover(fs) \subseteq Documents(fs)
  BY <1>1 DEF Discover, Documents
<1>3. Discover(fs) \subseteq Nat /\ IsFiniteSet(Discover(fs))
  BY <1>2, ClientAssumption, FS_Subset
<1>4. \A n, m \in Named(fs) : n.name = m.name => n = m
  BY <1>3, NamesApart DEF Named
<1>5. \A n \in Named(fs) : Of(n.name) = n
  BY <1>4
<1>. HIDE DEF Of
<1>. QED
  BY <1>1, <1>5

-----------------------------------------------------------------------------
(* The invariant: until something is edited, the CSVs are the extraction, what is
   expected of the client's files is what they are, and nothing else is decided. *)

FileOf(fs, id) == [as |-> fs[id].as, of |-> fs[id].of]

Quiet ==
  edits = 0 =>
    /\ plan = NoPlan /\ csv = Extraction(game) /\ csv # Refused
    /\ DOMAIN work.resources = {} /\ work.intended = {} /\ work.verify = {}
    /\ \A id \in DOMAIN work.expected : work.expected[id] = FileOf(game, id)
    /\ pc = "refused" => why = "io"

QuietInv == WorkInv /\ edits \in Nat /\ Quiet

\* The plan that asks for nothing is admitted.
LEMMA NoPlanAdmitted ==
  ASSUME plan = NoPlan
  PROVE  PlanAdmitted(game)
<1>1. plan.version = 0 /\ DOMAIN plan.grow = {} /\ DOMAIN plan.add = {}
  BY DEF NoPlan
<1>2. Range(plan.grow) = {} /\ Range(plan.add) = {}
  BY <1>1 DEF Range
<1>3. DOMAIN AddedIds(plan) = {}
  BY <1>1 DEF AddedIds
<1>4. Range(AddedIds(plan)) = {} /\ IsInjective(AddedIds(plan))
  BY <1>3 DEF Range, IsInjective
<1>. QED
  BY <1>1, <1>2, <1>4 DEF PlanAdmitted

\* What a loaded block's files have to be is what the client's are.
LEMMA LoadedParts ==
  ASSUME NEW fs, NEW s, NEW at, NEW b, PlaceLoads(b, fs, s, at),
         NEW p \in Parts(b.file, b)
  PROVE  p[2] = FileOf(fs, p[1])
<1>1. PartsFrom(fs, Parts(b.file, b))
  BY LoadedIs, Zenon DEF PlaceLoads
<1>2. p[2] = [as |-> p[2].as, of |-> p[2].of]
  BY DEF Parts
<1>3. p[1] \in DOMAIN fs /\ p[2].as = fs[p[1]].as /\ p[2].of = fs[p[1]].of
  BY <1>1, Zenon DEF PartsFrom
<1>. QED
  BY <1>2, <1>3, Zenon DEF FileOf

\* One document more: every cell is read back as it is, and no block changes.
LEMMA QuietImport ==
  ASSUME WorkInv, Quiet, edits = 0, ImportDocument
  PROVE  Quiet'
<1>1. PICK n, sheets, loaded :
        /\ n \in todo /\ sheets = ParseDocument(game[n.id].of)
        /\ loaded = LoadDocument(game, sheets)
        /\ ImportLoaded(n, sheets, loaded, {}, {})
        /\ pc = "documents" /\ UNCHANGED <<game, csv, plan, edits>>
  BY NoEdits, Zenon DEF ImportDocument, Quiet
<1>2. /\ csv = Extraction(game) /\ plan = NoPlan /\ csv # Refused
      /\ DOMAIN work.resources = {} /\ work.intended = {} /\ work.verify = {}
      /\ \A id \in DOMAIN work.expected : work.expected[id] = FileOf(game, id)
  BY Zenon DEF Quiet
<1>3. n \in Named(game) /\ Discover(game) # Refused /\ Documents(game) \subseteq DOMAIN Client
  BY <1>1 DEF WorkInv
<1>4. sheets # Refused
  BY <1>1, <1>3, NamedParse
<1>5. /\ n.name \in DOMAIN csv /\ LoadNamed(game, n) # Refused
      /\ csv[n.name] = Render(LoadNamed(game, n).table)
  BY <1>2, <1>3, ExtractionHas
<1>6. loaded # Refused /\ csv[n.name] = Render(loaded.table)
  BY <1>1, <1>5 DEF LoadNamed
<1>. PICK table : table = loaded.table
  OBVIOUS
<1>. PICK blocks : blocks = loaded.blocks
  OBVIOUS
<1>7. PICK definitions, order : LoadedAs(table, blocks, definitions, order)
  BY <1>1, <1>4, <1>6, DocumentIs
<1>8. CellsValid(table, blocks, csv[n.name].rows)
  BY <1>6, <1>7, UneditedCells
<1>. DEFINE edited == [b \in blocks |->
              IF n.name \in DOMAIN csv THEN EditBlock(table, csv[n.name].rows, b) ELSE None]
            wanted == UNION {Wanted(b, edited[b]) : b \in blocks}
            written == UNION {Written(b, edited[b]) : b \in blocks}
<1>9. \A b \in blocks : edited[b] = None
  BY <1>5, <1>6, <1>7, UneditedBlock
<1>10. Refused \notin Range(edited) /\ Range(edited) \ {None} = {}
  BY <1>9, ResultAssumption DEF Range
<1>11. written = {}
  BY <1>9 DEF Written
<1>6a. \A b \in blocks : \E s, at : PlaceLoads(b, game, s, at)
  BY <1>1, <1>4, <1>6, LoadedPlaces
<1>12. \A p \in wanted : p[2] = FileOf(game, p[1])
  <2>. TAKE p \in wanted
  <2>1. PICK b \in blocks : p \in Parts(b.file, b)
    BY <1>9 DEF Wanted
  <2>2. PICK s, at : PlaceLoads(b, game, s, at)
    BY <1>6a
  <2>. QED
    BY <2>1, <2>2, LoadedParts
<1>13. ~Conflict(work.expected, wanted) /\ ~Conflict(work.resources, written)
  <2>. HIDE DEF wanted, written
  <2>. QED
    BY <1>2, <1>11, <1>12 DEF Conflict
<1>14. ImportParsed(n, table, blocks, {}, EditDefinition(game[n.id].of, {}))
  <2>1. {} \cup {} = {} /\ {} # Refused
    BY ResultAssumption
  <2>2. PlannedBlocks(sheets, blocks, {}) = blocks
    BY <1>6a, UnplannedBlocks
  <2>. QED
    BY <1>1, <1>6, <2>1, <2>2, Zenon DEF ImportLoaded
<1>15. /\ UNCHANGED <<pc, why>>
       /\ work' = [resources |-> Register(work.resources, written), expected |-> Register(work.expected, wanted),
                   intended |-> work.intended \cup (Range(edited) \ {None}),
                   verify |-> work.verify \cup {}]
  <2>1. {} # {} /\ n.name \in DOMAIN csv <=> FALSE
    OBVIOUS
  <2>2. ~(n.name \in DOMAIN csv /\ ~CellsValid(table, blocks, csv[n.name].rows))
    BY <1>8
  <2>. QED
    BY <1>10, <1>13, <1>14, <2>1, <2>2, ZenonT(30) DEF ImportParsed
<1>. HIDE DEF edited, wanted, written
<1>16. DOMAIN work'.resources = {}
  BY <1>2, <1>11, <1>15 DEF Register
<1>17. work'.intended = {} /\ work'.verify = {}
  BY <1>2, <1>10, <1>15
<1>18. \A id \in DOMAIN work'.expected : work'.expected[id] = FileOf(game, id)
  <2>1. work'.expected = Register(work.expected, wanted)
    BY <1>15
  <2>2. \A id \in DOMAIN work'.expected :
          \/ id \in DOMAIN work.expected /\ work'.expected[id] = work.expected[id]
          \/ \E p \in wanted : p[1] = id /\ work'.expected[id] = p[2]
    BY <2>1, RegisterAdds
  <2>. QED
    BY <1>2, <1>12, <2>2
<1>19. pc' # "refused"
  BY <1>1, <1>15
<1>20. /\ plan' = NoPlan /\ csv' = Extraction(game') /\ csv' # Refused
       /\ \A id \in DOMAIN work'.expected : work'.expected[id] = FileOf(game', id)
  BY <1>1, <1>2, <1>18
<1>. QED
  BY <1>16, <1>17, <1>19, <1>20, Zenon DEF Quiet

LEMMA QuietInit == Init => QuietInv
<1>. SUFFICES ASSUME Init PROVE QuietInv
  OBVIOUS
<1>1. /\ game = Client /\ csv = Extraction(Client) /\ csv # Refused /\ plan = NoPlan
      /\ pc = "edit" /\ work = NoWork /\ edits = 0
  BY Zenon DEF Init
<1>2. /\ DOMAIN work.resources = {} /\ work.intended = {} /\ work.verify = {} /\ DOMAIN work.expected = {}
  BY <1>1 DEF NoWork
<1>3. Quiet
  BY <1>1, <1>2, Zenon DEF Quiet
<1>. QED
  BY <1>1, <1>3, WorkInit DEF QuietInv

LEMMA QuietNext ==
  ASSUME QuietInv, [Next]_vars
  PROVE  QuietInv'
<1>1. WorkInv' /\ WorkInv /\ Quiet /\ edits \in Nat
  BY WorkNext DEF QuietInv
<1>2. CASE User
  <2>1. edits' = edits + 1
    BY <1>2, Zenon DEF User, Retype, DropRow, AddRow, Discard, WritePlan, Edited
  <2>2. edits' \in Nat /\ edits' # 0
    BY <1>1, <2>1
  <2>. QED
    BY <1>1, <2>2 DEF QuietInv, Quiet
<1>3. CASE Begin
  <2>1. UNCHANGED <<game, csv, plan, work, edits>>
    BY <1>3, Zenon DEF Begin, Refuse
  <2>2. ASSUME edits = 0 PROVE pc' = "documents"
    <3>1. csv = Extraction(game) /\ csv # Refused /\ plan = NoPlan
      BY <1>1, <2>2 DEF Quiet
    <3>2. Discover(game) # Refused /\ DOMAIN csv = {n.name : n \in Named(game)}
      BY <1>1, <3>1, ExtractionHas DEF WorkInv
    <3>3. DOMAIN csv \subseteq {n.name : n \in Named(game)} /\ PlanAdmitted(game)
      BY <3>1, <3>2, NoPlanAdmitted
    <3>. QED
      BY <1>3, <3>2, <3>3, Zenon DEF Begin
  <2>3. Quiet'
    BY <1>1, <2>1, <2>2, Zenon DEF Quiet, FileOf
  <2>. QED
    BY <1>1, <2>1, <2>3 DEF QuietInv
<1>4. CASE ImportDocument
  <2>1. UNCHANGED edits
    BY <1>4, Zenon DEF ImportDocument
  <2>2. CASE edits = 0
    BY <1>1, <1>4, <2>1, <2>2, QuietImport DEF QuietInv
  <2>3. CASE edits # 0
    BY <1>1, <2>1, <2>3 DEF QuietInv, Quiet
  <2>. QED
    BY <2>2, <2>3
<1>5. CASE Write
  <2>1. UNCHANGED <<game, csv, plan, work, edits>> /\ (pc' = "verify" \/ why' = "io")
    BY <1>5, Zenon DEF Write, Refuse
  <2>2. Quiet'
    BY <1>1, <2>1, Zenon DEF Quiet, FileOf
  <2>. QED
    BY <1>1, <2>1, <2>2 DEF QuietInv
<1>6. CASE Verify
  <2>1. UNCHANGED <<game, csv, plan, work, edits>>
    BY <1>6, Zenon DEF Verify
  <2>2. ASSUME edits = 0 PROVE pc' = "done"
    <3>1. work.intended = {} /\ work.verify = {}
      BY <1>1, <2>2 DEF Quiet
    <3>2. (\A e \in work.intended : BlockVerified(e)) /\ \A v \in work.verify : DocumentVerified(v)
      BY <3>1
    <3>. QED
      BY <1>6, <3>2, Zenon DEF Verify
  <2>3. Quiet'
    BY <1>1, <2>1, <2>2, Zenon DEF Quiet, FileOf
  <2>. QED
    BY <1>1, <2>1, <2>3 DEF QuietInv
<1>7. CASE Again
  <2>1. /\ csv' = Extraction(game') /\ csv' # Refused /\ plan' = NoPlan /\ pc' = "edit" /\ work' = NoWork /\ edits' = 0
    BY <1>7, Zenon DEF Again
  <2>2. /\ DOMAIN work'.resources = {} /\ work'.intended = {} /\ work'.verify = {} /\ DOMAIN work'.expected = {}
    BY <2>1 DEF NoWork
  <2>3. Quiet'
    BY <2>1, <2>2, Zenon DEF Quiet
  <2>. QED
    BY <1>1, <2>1, <2>3 DEF QuietInv
<1>8. CASE UNCHANGED vars
  <2>1. Quiet'
    BY <1>1, <1>8, Zenon DEF Quiet, FileOf, vars
  <2>. QED
    BY <1>1, <1>8, <2>1 DEF QuietInv, vars
<1>. QED
  BY <1>2, <1>3, <1>4, <1>5, <1>6, <1>7, <1>8, Zenon DEF Next

(* For every client tree that can be extracted, and after any number of rounds: an
   extraction nobody edited is imported as no change at all, and only a failing
   write refuses it (edit_block_with_defaults, validate_cells, import_directory). *)
THEOREM Unedited == Spec => []UneditedImportsNothing
<1>1. QuietInv => UneditedImportsNothing
  BY DEF QuietInv, Quiet, UneditedImportsNothing
<1>. QED
  BY QuietInit, QuietNext, <1>1, PTL DEF Spec

-----------------------------------------------------------------------------
(* What the encoders write, the readers accept: first the rows.  f[i] is the data
   when the first i slots are laid. *)

\* The rows up to each slot, one after another.
Laid(f, count, rows) ==
  /\ f[0] = <<>>
  /\ \A i \in 1 .. count : f[i] = IF i - 1 \in DOMAIN rows THEN f[i - 1] \o rows[i - 1] ELSE f[i - 1]

\* There is such a laying.
LEMMA LaidExists ==
  ASSUME NEW S, NEW count \in Nat, NEW rows, \A k \in DOMAIN rows : rows[k] \in Seq(S)
  PROVE  \E f \in [0 .. count -> Seq(S)] : Laid(f, count, rows)
<1>. DEFINE step == [x \in (1 .. count) \X Seq(S) |-> IF x[1] - 1 \in DOMAIN rows THEN x[2] \o rows[x[1] - 1] ELSE x[2]]
<1>1. step \in [(1 .. count) \X Seq(S) -> Seq(S)]
  BY ConcatProperties
<1>2. <<>> \in Seq(S)
  OBVIOUS
<1>3. \A i \in 1 .. count, s \in Seq(S) :
        step[<<i, s>>] = IF i - 1 \in DOMAIN rows THEN s \o rows[i - 1] ELSE s
  OBVIOUS
<1>. HIDE DEF step
<1>4. PICK f \in [0 .. count -> Seq(S)] : Iterates(f, count, <<>>, step)
  BY <1>1, <1>2, IterationExists
<1>5. ASSUME NEW i \in 1 .. count
      PROVE  f[i] = IF i - 1 \in DOMAIN rows THEN f[i - 1] \o rows[i - 1] ELSE f[i - 1]
  <2>1. f[i] = step[<<i, f[i - 1]>>] /\ f[i - 1] \in Seq(S)
    BY <1>4 DEF Iterates
  <2>. QED
    BY <1>3, <2>1
<1>. QED
  BY <1>4, <1>5 DEF Iterates, Laid

\* The end of each row.
EndsOf(f, rows) == [k \in DOMAIN rows |-> Len(f[k + 1])]

\* The encoded rows are what is laid by the last slot, and where each row ends.
EncodesAs(encoded, f, count, rows) ==
  /\ Laid(f, count, rows)
  /\ encoded = [data |-> f[count], ends |-> EndsOf(f, rows)]

\* Rows that are encoded are laid out one after another, and none is empty.
LEMMA EncodedRows ==
  ASSUME NEW S, NEW count \in Nat, NEW rows, \A k \in DOMAIN rows : rows[k] \in Seq(S),
         EncodeRows(count, rows) # Refused
  PROVE  /\ <<>> \notin Range(rows)
         /\ \E f \in [0 .. count -> Seq(S)] : EncodesAs(EncodeRows(count, rows), f, count, rows)
<1>. DEFINE Solves(f) == f = [i \in 0 .. count |->
              IF i = 0 THEN <<>>
              ELSE IF i - 1 \in DOMAIN rows THEN f[i - 1] \o rows[i - 1] ELSE f[i - 1]]
            laid == CHOOSE f : Solves(f)
<1>1. /\ <<>> \notin Range(rows)
      /\ EncodeRows(count, rows) = [data |-> laid[count], ends |-> EndsOf(laid, rows)]
  BY Zenon DEF EncodeRows, EndsOf
<1>2. PICK f \in [0 .. count -> Seq(S)] : Laid(f, count, rows)
  BY LaidExists
<1>3. \A i \in 0 .. count : i = 0 \/ i \in 1 .. count
  OBVIOUS
<1>4. Solves(f)
  <2>1. \A i \in 0 .. count : f[i] = IF i = 0 THEN <<>>
              ELSE IF i - 1 \in DOMAIN rows THEN f[i - 1] \o rows[i - 1] ELSE f[i - 1]
    BY <1>2, <1>3, Zenon DEF Laid
  <2>. QED
    BY <2>1
<1>5. Solves(laid)
  <2>1. \E h : Solves(h)
    BY <1>4, Zenon
  <2>. HIDE DEF Solves
  <2>. QED
    BY <2>1, Zenon
<1>6. /\ laid = [i \in 0 .. count |-> laid[i]] /\ laid[0] = <<>>
      /\ \A i \in 1 .. count : laid[i] = IF i - 1 \in DOMAIN rows THEN laid[i - 1] \o rows[i - 1] ELSE laid[i - 1]
  <2>. HIDE DEF laid
  <2>1. 0 \in 0 .. count /\ \A i \in 1 .. count : i \in 0 .. count /\ i # 0
    OBVIOUS
  <2>. QED
    BY <1>5, <2>1
<1>7. laid = f
  <2>. HIDE DEF laid, Solves
  <2>. DEFINE T == {i \in 0 .. count : laid[i] = f[i]}
  <2>1. 0 \in T
    BY <1>2, <1>6 DEF Laid
  <2>2. ASSUME NEW i \in 1 .. count, i - 1 \in T PROVE i \in T
    <3>1. i \in 0 .. count /\ laid[i - 1] = f[i - 1]
      BY <2>2
    <3>. QED
      BY <1>2, <1>6, <3>1 DEF Laid
  <2>. HIDE DEF T
  <2>3. 0 .. count \subseteq T
    BY <2>1, <2>2, StepsTo
  <2>4. \A i \in 0 .. count : laid[i] = f[i]
    BY <2>3 DEF T
  <2>. QED
    BY <1>2, <1>6, <2>4
<1>. HIDE DEF laid, Solves
<1>. QED
  BY <1>1, <1>2, <1>7 DEF EncodesAs

\* The rows are sequences over S, and f lays them.
Lays(f, count, rows, S) ==
  /\ count \in Nat /\ DOMAIN rows \subseteq 0 .. (count - 1)
  /\ \A k \in DOMAIN rows : rows[k] \in Seq(S)
  /\ f \in [0 .. count -> Seq(S)] /\ Laid(f, count, rows)

\* What is laid up to a slot is laid first up to any later one.
LEMMA LaysPrefix ==
  ASSUME NEW S, NEW count, NEW rows, NEW f, Lays(f, count, rows, S),
         NEW i \in 0 .. count, NEW j \in 0 .. count, i <= j
  PROVE  /\ Len(f[i]) <= Len(f[j])
         /\ \A x \in 1 .. Len(f[i]) : f[j][x] = f[i][x]
<1>. /\ count \in Nat /\ \A k \in DOMAIN rows : rows[k] \in Seq(S)
     /\ f \in [0 .. count -> Seq(S)] /\ Laid(f, count, rows)
  BY DEF Lays
<1>. DEFINE T == {d \in 0 .. (j - i) : /\ Len(f[i]) <= Len(f[i + d])
                                       /\ \A x \in 1 .. Len(f[i]) : f[i + d][x] = f[i][x]}
<1>1. f[i] \in Seq(S) /\ Len(f[i]) \in Nat /\ j - i \in Nat
  OBVIOUS
<1>2. 0 \in T
  BY <1>1
<1>3. ASSUME NEW d \in 1 .. (j - i), d - 1 \in T PROVE d \in T
  <2>. PICK a, b : a = f[i + (d - 1)] /\ b = f[i + d]
    OBVIOUS
  <2>1. /\ i + (d - 1) = (i + d) - 1 /\ i + d \in 1 .. count /\ i + d - 1 \in 0 .. count /\ d \in 0 .. (j - i)
        /\ a \in Seq(S)
    OBVIOUS
  <2>2. Len(f[i]) <= Len(a) /\ \A x \in 1 .. Len(f[i]) : a[x] = f[i][x]
    BY <1>3
  <2>3. b = a \/ \E r \in Seq(S) : b = a \o r
    BY <2>1 DEF Laid
  <2>4. CASE b = a
    BY <2>1, <2>2, <2>4
  <2>5. CASE \E r \in Seq(S) : b = a \o r
    <3>1. PICK r \in Seq(S) : b = a \o r
      BY <2>5
    <3>2. Len(b) = Len(a) + Len(r) /\ Len(a) \in Nat /\ Len(r) \in Nat
          /\ \A x \in 1 .. Len(a) : b[x] = a[x]
      BY <2>1, <3>1, ConcatProperties
    <3>3. Len(f[i]) <= Len(b) /\ \A x \in 1 .. Len(f[i]) : b[x] = f[i][x]
      BY <1>1, <2>2, <3>2
    <3>. QED
      BY <2>1, <3>3
  <2>. QED
    BY <2>3, <2>4, <2>5
<1>. HIDE DEF T
<1>4. j - i \in T
  BY <1>1, <1>2, <1>3, StepsTo, j - i \in 0 .. (j - i)
<1>. QED
  BY <1>4, i + (j - i) = j DEF T

\* The last end before a slot is where its row is laid.
LEMMA LaysEnd ==
  ASSUME NEW S, NEW count, NEW rows, NEW f, Lays(f, count, rows, S), NEW i \in 0 .. count
  PROVE  EndBefore(EndsOf(f, rows), i) = Len(f[i])
<1>. /\ count \in Nat /\ DOMAIN rows \subseteq 0 .. (count - 1) /\ \A k \in DOMAIN rows : rows[k] \in Seq(S)
     /\ f \in [0 .. count -> Seq(S)] /\ Laid(f, count, rows)
  BY DEF Lays
<1>. PICK ends : ends = EndsOf(f, rows)
  OBVIOUS
<1>. DEFINE Of(m) == {0} \cup {ends[k] : k \in {j \in DOMAIN ends : j < m}}
            T == {m \in 0 .. count : Len(f[m]) \in Of(m)}
<1>1. \A m \in 0 .. count : f[m] \in Seq(S) /\ Len(f[m]) \in Nat
  OBVIOUS
<1>2. \A k \in DOMAIN ends : k \in 0 .. (count - 1) /\ ends[k] = Len(f[k + 1]) /\ k + 1 \in 0 .. count
  BY DEF EndsOf
<1>3. 0 \in T
  BY DEF Laid
<1>3a. DOMAIN ends = DOMAIN rows
  BY DEF EndsOf
<1>4. ASSUME NEW m \in 1 .. count, m - 1 \in T PROVE m \in T
  <2>1. m \in 0 .. count /\ Len(f[m - 1]) \in Of(m - 1)
    BY <1>4
  <2>2. CASE m - 1 \in DOMAIN rows
    <3>1. m - 1 \in DOMAIN ends /\ m - 1 < m /\ ends[m - 1] = Len(f[m])
      BY <1>2, <1>3a, <2>2
    <3>2. Len(f[m]) \in Of(m)
      BY <3>1
    <3>. QED
      BY <2>1, <3>2
  <2>3. CASE m - 1 \notin DOMAIN rows
    <3>1. f[m] = f[m - 1]
      BY <2>3 DEF Laid
    <3>2. Of(m - 1) \subseteq Of(m)
      BY <1>2
    <3>. HIDE DEF Of
    <3>. QED
      BY <2>1, <3>1, <3>2
  <2>. QED
    BY <2>2, <2>3
<1>5. Len(f[i]) \in Of(i)
  <2>. HIDE DEF T
  <2>1. i \in T
    BY <1>3, <1>4, StepsTo
  <2>. QED
    BY <2>1 DEF T
<1>6. \A x \in Of(i) : x \in Nat /\ x <= Len(f[i])
  <2>. TAKE x \in Of(i)
  <2>1. CASE x = 0
    BY <1>1, <2>1
  <2>2. CASE \E k \in DOMAIN ends : k < i /\ x = ends[k]
    <3>1. PICK k \in DOMAIN ends : k < i /\ x = ends[k]
      BY <2>2
    <3>2. k + 1 \in 0 .. count /\ k + 1 <= i /\ x = Len(f[k + 1])
      BY <1>2, <3>1
    <3>3. Len(f[k + 1]) <= Len(f[i])
      BY <3>2, LaysPrefix
    <3>. QED
      BY <1>1, <3>2, <3>3
  <2>. QED
    BY <2>1, <2>2
<1>. PICK set : set = Of(i)
  OBVIOUS
<1>7. EndBefore(ends, i) = Max(set)
  BY DEF EndBefore
<1>8. set \subseteq Nat /\ set # {} /\ \A x \in set : x <= Len(f[i])
  BY <1>6
<1>9. Max(set) \in set /\ \A x \in set : x <= Max(set)
  <2>. HIDE DEF Of
  <2>. QED
    BY <1>1, <1>8, MaxIs
<1>. HIDE DEF Of
<1>. QED
  BY <1>5, <1>7, <1>8, <1>9

\* What the data and the offsets of rows read back as.
RowsRead(data, offsets, count, rows) ==
  /\ offsets \in Seq(Nat) /\ Len(offsets) = count
  /\ ParseOffsets(offsets).sound /\ ParseOffsets(offsets).length = Len(data)
  /\ {t.index : t \in ParseOffsets(offsets).slots} = DOMAIN rows
  /\ \A t \in ParseOffsets(offsets).slots : Bytes(data, t) = rows[t.index]

\* A sequence that begins with another.
Begins(all, part) == Len(part) <= Len(all) /\ \A x \in 1 .. Len(part) : all[x] = part[x]

\* The part of a sequence after another.
PartIs(all, a, r) == Len(a \o r) > Len(a) /\ SubSeq(all, Len(a) + 1, Len(a \o r)) = r

\* What is appended is there wherever the whole is.
LEMMA PartOf ==
  ASSUME NEW S, NEW a \in Seq(S), NEW r \in Seq(S), NEW all \in Seq(S), r # <<>>,
         Begins(all, a \o r)
  PROVE  PartIs(all, a, r)
<1>. PICK b : b = a \o r
  OBVIOUS
<1>0. Len(b) <= Len(all) /\ \A x \in 1 .. Len(b) : all[x] = b[x]
  BY DEF Begins
<1>1. Len(a) \in Nat /\ Len(r) \in Nat /\ Len(all) \in Nat /\ Len(r) > 0
  OBVIOUS
<1>2. /\ Len(b) = Len(a) + Len(r)
      /\ \A x \in 1 .. (Len(a) + Len(r)) : b[x] = IF x <= Len(a) THEN a[x] ELSE r[x - Len(a)]
  BY ConcatProperties
<1>3. \A x \in 1 .. Len(r) : /\ Len(a) + x \in 1 .. (Len(a) + Len(r)) /\ ~(Len(a) + x <= Len(a))
                             /\ (Len(a) + x) - Len(a) = x /\ (Len(a) + 1) + x - 1 = Len(a) + x
  BY <1>1
<1>4. \A x \in 1 .. Len(r) : all[Len(a) + x] = r[x]
  BY <1>0, <1>2, <1>3
<1>. PICK part : part = SubSeq(all, Len(a) + 1, Len(b))
  OBVIOUS
<1>5. \A x \in Len(a) + 1 .. Len(b) : all[x] \in S
  BY <1>0, <1>1, <1>2
<1>6. Len(b) - (Len(a) + 1) + 1 = Len(r) /\ Len(a) + 1 <= Len(b)
  BY <1>1, <1>2
<1>7. /\ part \in Seq(S) /\ Len(part) = Len(r)
      /\ \A x \in 1 .. Len(r) : part[x] = all[(Len(a) + 1) + x - 1]
  BY <1>1, <1>2, <1>5, <1>6, SubSeqProperties
<1>8. \A x \in 1 .. Len(part) : part[x] = r[x]
  BY <1>3, <1>4, <1>7
<1>9. part = r
  BY <1>7, <1>8, SeqEqual
<1>. QED
  BY <1>1, <1>2, <1>9 DEF PartIs

\* What is laid is read back, row by row, from the offsets.
LEMMA LaidReadsBack ==
  ASSUME NEW S, NEW count \in Nat, NEW rows, NEW f, Lays(f, count, rows, S), <<>> \notin Range(rows),
         NEW offsets, offsets = [i \in 1 .. count |-> EndBefore(EndsOf(f, rows), i)]
  PROVE  f[count] \in Seq(S) /\ RowsRead(f[count], offsets, count, rows)
<1>1. /\ count \in Nat /\ DOMAIN rows \subseteq 0 .. (count - 1) /\ \A k \in DOMAIN rows : rows[k] \in Seq(S)
      /\ f \in [0 .. count -> Seq(S)] /\ Laid(f, count, rows)
  BY DEF Lays
<1>4. \A i \in 0 .. count : f[i] \in Seq(S) /\ Len(f[i]) \in Nat
  BY <1>1
<1>5a. count \in 0 .. count /\ \A k \in 0 .. (count - 1) : k + 1 \in 1 .. count /\ (k + 1) - 1 = k
  OBVIOUS
<1>6. \A i \in 1 .. count : i \in 0 .. count /\ i - 1 \in 0 .. count /\ offsets[i] = Len(f[i])
  <2>. TAKE i \in 1 .. count
  <2>1. i \in 0 .. count /\ i - 1 \in 0 .. count
    OBVIOUS
  <2>2. EndBefore(EndsOf(f, rows), i) = Len(f[i])
    BY <2>1, LaysEnd
  <2>. QED
    BY <2>1, <2>2
<1>7. offsets \in Seq(Nat) /\ Len(offsets) = count /\ DOMAIN offsets = 1 .. count
  <2>1. offsets \in [1 .. count -> Nat]
    BY <1>4, <1>6
  <2>. QED
    BY <1>1, <2>1, IsSequence
<1>8. \A i, j \in 0 .. count : i <= j => Len(f[i]) <= Len(f[j]) /\ \A x \in 1 .. Len(f[i]) : f[j][x] = f[i][x]
  <2>. TAKE i, j \in 0 .. count
  <2>. HAVE i <= j
  <2>. QED
    BY LaysPrefix
<1>9. ParseOffsets(offsets).sound
  <2>1. ASSUME NEW i \in 1 .. count PROVE offsets[i] >= LastBefore(offsets, i)
    <3>1. /\ LastBefore(offsets, i) \in Nat
          /\ LastBefore(offsets, i) = 0 \/ \E j \in 1 .. (i - 1) : LastBefore(offsets, i) = offsets[j]
      BY <1>7, BeforeIs, i \in 1 .. (Len(offsets) + 1)
    <3>2. offsets[i] \in Nat
      BY <1>4, <1>6
    <3>3. ASSUME NEW j \in 1 .. (i - 1) PROVE offsets[j] <= offsets[i]
      <4>1. j \in 1 .. count /\ j <= i
        OBVIOUS
      <4>2. offsets[j] = Len(f[j]) /\ offsets[i] = Len(f[i]) /\ j \in 0 .. count /\ i \in 0 .. count
        BY <1>6, <4>1
      <4>. QED
        BY <1>8, <4>1, <4>2
    <3>. QED
      BY <3>1, <3>2, <3>3
  <2>2. \A i \in DOMAIN offsets : offsets[i] >= LastBefore(offsets, i)
    BY <1>7, <2>1
  <2>. QED
    BY <2>2, Zenon DEF ParseOffsets, LastBefore
<1>10. Ascends(offsets)
  BY <1>7, <1>9, SoundAscends
<1>11. \A i \in 1 .. count : LastBefore(offsets, i) = Len(f[i - 1])
  <2>. TAKE i \in 1 .. count
  <2>1. LastBefore(offsets, i) = IF i = 1 THEN 0 ELSE offsets[i - 1]
    BY <1>7, <1>10 DEF Ascends
  <2>2. CASE i = 1
    <3>1. i - 1 = 0 /\ f[0] = <<>>
      BY <1>1, <2>2 DEF Laid
    <3>2. f[i - 1] = <<>>
      BY <3>1
    <3>. QED
      BY <2>1, <2>2, <3>2
  <2>3. CASE i # 1
    BY <1>6, <2>1, <2>3, i - 1 \in 1 .. count
  <2>. QED
    BY <2>2, <2>3
<1>12. ParseOffsets(offsets).length = Len(f[count])
  <2>1. ParseOffsets(offsets).length = IF offsets = <<>> THEN 0 ELSE offsets[Len(offsets)]
    BY Zenon DEF ParseOffsets
  <2>2. CASE count = 0
    <3>1. offsets = <<>> /\ f[count] = <<>>
      BY <1>1, <1>7, <2>2 DEF Laid
    <3>. QED
      BY <2>1, <3>1
  <2>3. CASE count # 0
    <3>1. offsets # <<>> /\ count \in 1 .. count
      BY <1>7, <2>3
    <3>. QED
      BY <1>6, <1>7, <2>1, <3>1
  <2>. QED
    BY <2>2, <2>3
<1>. DEFINE Slot(i) == [index |-> i - 1, from |-> Len(f[i - 1]), to |-> Len(f[i])]
<1>13. \A t : t \in ParseOffsets(offsets).slots <=> \E i \in 1 .. count : Len(f[i]) > Len(f[i - 1]) /\ t = Slot(i)
  <2>1. ParseOffsets(offsets).slots =
          {[index |-> i - 1, from |-> LastBefore(offsets, i), to |-> offsets[i]] :
             i \in {j \in DOMAIN offsets : offsets[j] > LastBefore(offsets, j)}}
    BY Zenon DEF ParseOffsets, LastBefore
  <2>2. \A i \in 1 .. count : offsets[i] = Len(f[i]) /\ LastBefore(offsets, i) = Len(f[i - 1])
    BY <1>6, <1>11
  <2>. HIDE DEF Slot
  <2>3. \A i \in 1 .. count : [index |-> i - 1, from |-> LastBefore(offsets, i), to |-> offsets[i]] = Slot(i)
    BY <2>2 DEF Slot
  <2>. TAKE t
  <2>4. ASSUME t \in ParseOffsets(offsets).slots
        PROVE  \E i \in 1 .. count : Len(f[i]) > Len(f[i - 1]) /\ t = Slot(i)
    <3>1. PICK i \in DOMAIN offsets : /\ offsets[i] > LastBefore(offsets, i)
                                      /\ t = [index |-> i - 1, from |-> LastBefore(offsets, i), to |-> offsets[i]]
      BY <2>1, <2>4
    <3>. QED
      BY <1>7, <2>2, <2>3, <3>1
  <2>5. ASSUME NEW i \in 1 .. count, Len(f[i]) > Len(f[i - 1]), t = Slot(i)
        PROVE  t \in ParseOffsets(offsets).slots
    <3>1. i \in DOMAIN offsets /\ offsets[i] > LastBefore(offsets, i)
      BY <1>7, <2>2, <2>5
    <3>2. t = [index |-> i - 1, from |-> LastBefore(offsets, i), to |-> offsets[i]]
      BY <2>3, <2>5
    <3>. QED
      BY <2>1, <3>1, <3>2
  <2>. QED
    BY <2>4, <2>5
<1>14. \A i \in 1 .. count : f[i] = IF i - 1 \in DOMAIN rows THEN f[i - 1] \o rows[i - 1] ELSE f[i - 1]
  BY <1>1 DEF Laid
<1>15. ASSUME NEW i \in 1 .. count
       PROVE  /\ Len(f[i]) > Len(f[i - 1]) <=> i - 1 \in DOMAIN rows
              /\ i - 1 \in DOMAIN rows => Bytes(f[count], Slot(i)) = rows[i - 1]
  <2>. PICK a, b, all : a = f[i - 1] /\ b = f[i] /\ all = f[count]
    OBVIOUS
  <2>1. a \in Seq(S) /\ b \in Seq(S) /\ all \in Seq(S)
    BY <1>4, <1>5a, <1>6
  <2>2. CASE i - 1 \notin DOMAIN rows
    BY <1>14, <2>1, <2>2
  <2>3. CASE i - 1 \in DOMAIN rows
    <3>. PICK r : r = rows[i - 1]
      OBVIOUS
    <3>1. r \in Seq(S) /\ r # <<>>
      BY <1>1, <2>3 DEF Range
    <3>2. b = a \o r
      BY <1>14, <2>3
    <3>3. Len(b) <= Len(all) /\ \A x \in 1 .. Len(b) : all[x] = b[x]
      BY <1>6, <1>8, <1>5a
    <3>4. Len(b) > Len(a) /\ SubSeq(all, Len(a) + 1, Len(b)) = r
      <4>1. Begins(all, a \o r)
        BY <3>2, <3>3, Zenon DEF Begins
      <4>2a. PartIs(all, a, r)
        BY <2>1, <3>1, <4>1, PartOf
      <4>2. Len(a \o r) > Len(a) /\ SubSeq(all, Len(a) + 1, Len(a \o r)) = r
        BY <4>2a, Zenon DEF PartIs
      <4>. QED
        BY <3>2, <4>2, Zenon
    <3>5. Bytes(all, Slot(i)) = SubSeq(all, Len(a) + 1, Len(b))
      BY DEF Bytes
    <3>. QED
      BY <2>3, <3>4, <3>5
  <2>. QED
    BY <2>2, <2>3
<1>. HIDE DEF Slot
<1>16. \A i : Slot(i).index = i - 1
  BY DEF Slot
<1>17. ASSUME NEW t \in ParseOffsets(offsets).slots
       PROVE  t.index \in DOMAIN rows /\ Bytes(f[count], t) = rows[t.index]
  <2>1. PICK i \in 1 .. count : Len(f[i]) > Len(f[i - 1]) /\ t = Slot(i)
    BY <1>13
  <2>. QED
    BY <1>15, <1>16, <2>1
<1>18. ASSUME NEW k \in DOMAIN rows PROVE \E t \in ParseOffsets(offsets).slots : t.index = k
  <2>1. k + 1 \in 1 .. count /\ (k + 1) - 1 = k
    BY <1>1, <1>5a
  <2>2. Slot(k + 1) \in ParseOffsets(offsets).slots /\ Slot(k + 1).index = k
    BY <1>13, <1>15, <1>16, <2>1
  <2>. QED
    BY <2>2
<1>19. f[count] \in Seq(S)
  BY <1>1, <1>4, count \in 0 .. count
<1>20. {t.index : t \in ParseOffsets(offsets).slots} = DOMAIN rows
  <2>1. \A k \in {t.index : t \in ParseOffsets(offsets).slots} : k \in DOMAIN rows
    BY <1>17
  <2>2. \A k \in DOMAIN rows : k \in {t.index : t \in ParseOffsets(offsets).slots}
    BY <1>18
  <2>. QED
    BY <2>1, <2>2
<1>. QED
  BY <1>7, <1>9, <1>12, <1>17, <1>19, <1>20, Zenon DEF RowsRead

\* Encoded rows are read back (EncodeRows, EncodeOffsets, ParseOffsets).
LEMMA RowsReadBack ==
  ASSUME NEW S, NEW count \in Nat, NEW rows, DOMAIN rows \subseteq 0 .. (count - 1),
         \A k \in DOMAIN rows : rows[k] \in Seq(S),
         NEW encoded, encoded = EncodeRows(count, rows), encoded # Refused,
         NEW offsets, offsets = EncodeOffsets(count, encoded.ends), offsets # Refused
  PROVE  encoded.data \in Seq(S) /\ RowsRead(encoded.data, offsets, count, rows)
<1>1. <<>> \notin Range(rows)
  BY EncodedRows
<1>2. PICK f \in [0 .. count -> Seq(S)] : EncodesAs(encoded, f, count, rows)
  BY EncodedRows
<1>3. encoded.data = f[count] /\ encoded.ends = EndsOf(f, rows) /\ Lays(f, count, rows, S)
  BY <1>2 DEF EncodesAs, Lays
<1>4. offsets = [i \in 1 .. count |-> EndBefore(EndsOf(f, rows), i)]
  BY <1>3, Zenon DEF EncodeOffsets
<1>. QED
  BY <1>1, <1>3, <1>4, LaidReadsBack, Zenon

-----------------------------------------------------------------------------
(* The enable ranges: f[i] is the ranges of the first i rows. *)

\* The ranges of an enable file.
Ranges == [first : Nat, count : Nat]

\* The identifier is taken into the last range, or begins a new one.
Extended(ranges, id) ==
  IF ranges # <<>> /\ ranges[Len(ranges)].first + ranges[Len(ranges)].count = id
  THEN [ranges EXCEPT ![Len(ranges)].count = @ + 1]
  ELSE Append(ranges, [first |-> id, count |-> 1])

\* Either the last range is longer by one, or there is one range more.
LEMMA ExtendedIs ==
  ASSUME NEW r \in Seq(Ranges), NEW id \in Nat
  PROVE  /\ Extended(r, id) \in Seq(Ranges)
         /\ \/ /\ Extended(r, id) = Append(r, [first |-> id, count |-> 1])
            \/ /\ r # <<>> /\ r[Len(r)].first + r[Len(r)].count = id
               /\ Len(Extended(r, id)) = Len(r)
               /\ \A k \in 1 .. Len(r) : k # Len(r) => Extended(r, id)[k] = r[k]
               /\ Extended(r, id)[Len(r)].first = r[Len(r)].first
               /\ Extended(r, id)[Len(r)].count = r[Len(r)].count + 1
<1>1. CASE r # <<>> /\ r[Len(r)].first + r[Len(r)].count = id
  <2>. PICK n, last, longer : n = Len(r) /\ last = r[n] /\ longer = [last EXCEPT !.count = @ + 1]
    OBVIOUS
  <2>1. n \in Nat /\ n \in 1 .. n /\ DOMAIN r = 1 .. n /\ last \in Ranges
    BY <1>1
  <2>2. longer \in Ranges /\ longer.first = last.first /\ longer.count = last.count + 1
    <3>1. PICK a, c \in Nat : last = [first |-> a, count |-> c]
      BY <2>1 DEF Ranges
    <3>2. \A x, y : [[first |-> x, count |-> y] EXCEPT !.count = @ + 1] = [first |-> x, count |-> y + 1]
      OBVIOUS
    <3>3. longer = [first |-> a, count |-> c + 1]
      BY <3>1, <3>2, Zenon
    <3>. QED
      BY <3>1, <3>3 DEF Ranges
  <2>3. Extended(r, id) = [r EXCEPT ![n] = longer]
    BY <1>1, Zenon DEF Extended
  <2>4. [r EXCEPT ![n] = longer] \in [1 .. n -> Ranges]
    BY <2>1, <2>2
  <2>5. Extended(r, id) \in Seq(Ranges) /\ Len(Extended(r, id)) = n
    BY <2>1, <2>3, <2>4, IsSequence
  <2>6. \A k \in 1 .. n : Extended(r, id)[k] = IF k = n THEN longer ELSE r[k]
    BY <2>1, <2>3
  <2>. QED
    BY <1>1, <2>1, <2>2, <2>5, <2>6
<1>2. CASE ~(r # <<>> /\ r[Len(r)].first + r[Len(r)].count = id)
  <2>1. Extended(r, id) = Append(r, [first |-> id, count |-> 1])
    BY <1>2, Zenon DEF Extended
  <2>2. [first |-> id, count |-> 1] \in Ranges
    BY DEF Ranges
  <2>. QED
    BY <2>1, <2>2, AppendProperties
<1>. QED
  BY <1>1, <1>2

\* Ranges between two rows, one after another, that name exactly the rows before the last.
RunsAre(r, begin, top, ids) ==
  /\ r \in Seq(Ranges)
  /\ \A k \in 1 .. Len(r) : r[k].count > 0 /\ r[k].first >= begin /\ r[k].first + r[k].count <= top
  /\ \A k \in 2 .. Len(r) : r[k].first >= r[k - 1].first + r[k - 1].count
  /\ \A id : (id \in ids /\ id < top) <=> \E k \in 1 .. Len(r) : id \in RowsIn(r[k])

\* A range that is longer by one names one row more.
LEMMA RowsMore ==
  ASSUME NEW y, NEW z, NEW top,
         /\ z.first \in Nat /\ z.count \in Nat /\ z.count > 0
         /\ y.first = z.first /\ y.count = z.count + 1 /\ z.first + z.count = top
  PROVE  \A id : id \in RowsIn(y) <=> id \in RowsIn(z) \/ id = top
<1>. PICK a \in Nat, c \in Nat : a = z.first /\ c = z.count
  OBVIOUS
<1>1. RowsIn(y) = a .. (a + (c + 1) - 1) /\ RowsIn(z) = a .. (a + c - 1)
  BY DEF RowsIn
<1>2. c > 0 /\ top = a + c
  OBVIOUS
<1>3. \A id : id \in a .. (a + (c + 1) - 1) <=> id \in a .. (a + c - 1) \/ id = a + c
  BY <1>2
<1>. QED
  BY <1>1, <1>2, <1>3

\* One row more, enabled or not.
LEMMA RunsExtend ==
  ASSUME NEW begin \in Nat, NEW top \in Nat, begin <= top, NEW ids \in SUBSET Nat, NEW r,
         RunsAre(r, begin, top, ids)
  PROVE  IF top \in ids THEN RunsAre(Extended(r, top), begin, top + 1, ids) ELSE RunsAre(r, begin, top + 1, ids)
<1>0. /\ r \in Seq(Ranges)
      /\ \A k \in 1 .. Len(r) : r[k].count > 0 /\ r[k].first >= begin /\ r[k].first + r[k].count <= top
      /\ \A k \in 2 .. Len(r) : r[k].first >= r[k - 1].first + r[k - 1].count
      /\ \A id : (id \in ids /\ id < top) <=> \E k \in 1 .. Len(r) : id \in RowsIn(r[k])
  BY DEF RunsAre
<1>. PICK n : n = Len(r)
  OBVIOUS
<1>1. n \in Nat /\ \A k \in 1 .. n : r[k].first \in Nat /\ r[k].count \in Nat
  <2>1. \A k \in 1 .. n : r[k] \in Ranges
    BY <1>0
  <2>. QED
    BY <1>0, <2>1 DEF Ranges
<1>2. CASE top \notin ids
  <2>1. \A k \in 1 .. n : r[k].first + r[k].count <= top + 1
    BY <1>0, <1>1
  <2>2. \A id \in ids : id < top + 1 <=> id < top
    BY <1>2
  <2>3. \A id : (id \in ids /\ id < top + 1) <=> \E k \in 1 .. n : id \in RowsIn(r[k])
    BY <1>0, <2>2
  <2>. QED
    BY <1>0, <1>2, <2>1, <2>3 DEF RunsAre
<1>3. CASE top \in ids
  <2>. PICK x : x = Extended(r, top)
    OBVIOUS
  <2>0. \A id \in ids : id < top + 1 <=> id < top \/ id = top
    OBVIOUS
  <2>1. CASE x = Append(r, [first |-> top, count |-> 1])
    <3>1. /\ x \in Seq(Ranges) /\ Len(x) = n + 1
          /\ \A k \in 1 .. n : x[k] = r[k]
      <4>1. [first |-> top, count |-> 1] \in Ranges
        BY DEF Ranges
      <4>. QED
        BY <1>0, <1>1, <2>1, <4>1, AppendProperties
    <3>2. x[n + 1].first = top /\ x[n + 1].count = 1
      <4>1. x[n + 1] = [first |-> top, count |-> 1]
        BY <1>0, <2>1, AppendProperties
      <4>. QED
        BY <4>1
    <3>3. \A k \in 1 .. (n + 1) : k \in 1 .. n \/ k = n + 1
      BY <1>1
    <3>4. \A k \in 1 .. (n + 1) : x[k].count > 0 /\ x[k].first >= begin /\ x[k].first + x[k].count <= top + 1
      BY <1>0, <1>1, <3>1, <3>2, <3>3
    <3>5. ASSUME NEW k \in 2 .. (n + 1) PROVE x[k].first >= x[k - 1].first + x[k - 1].count
      <4>1. k - 1 \in 1 .. n /\ (k = n + 1 \/ (k \in 2 .. n /\ k \in 1 .. n))
        BY <1>1
      <4>2. CASE k = n + 1
        BY <1>0, <3>1, <3>2, <4>1, <4>2
      <4>3. CASE k \in 2 .. n /\ k \in 1 .. n
        BY <1>0, <3>1, <4>1, <4>3
      <4>. QED
        BY <4>1, <4>2, <4>3
    <3>6. \A id : id \in RowsIn(x[n + 1]) <=> id = top
      BY <3>2 DEF RowsIn
    <3>7. \A id : (\E k \in 1 .. (n + 1) : id \in RowsIn(x[k])) <=> (\E k \in 1 .. n : id \in RowsIn(r[k])) \/ id = top
      <4>. TAKE id
      <4>1. ASSUME NEW k \in 1 .. (n + 1), id \in RowsIn(x[k]) PROVE (\E j \in 1 .. n : id \in RowsIn(r[j])) \/ id = top
        BY <3>1, <3>3, <3>6, <4>1
      <4>2. ASSUME NEW k \in 1 .. n, id \in RowsIn(r[k]) PROVE \E j \in 1 .. (n + 1) : id \in RowsIn(x[j])
        BY <1>1, <3>1, <4>2, k \in 1 .. (n + 1)
      <4>3. id = top => \E j \in 1 .. (n + 1) : id \in RowsIn(x[j])
        BY <1>1, <3>6, n + 1 \in 1 .. (n + 1)
      <4>. QED
        BY <4>1, <4>2, <4>3
    <3>8. \A id : (id \in ids /\ id < top + 1) <=> \E k \in 1 .. (n + 1) : id \in RowsIn(x[k])
      BY <1>0, <1>3, <2>0, <3>7
    <3>. QED
      BY <1>3, <3>1, <3>4, <3>5, <3>8 DEF RunsAre
  <2>2. CASE x # Append(r, [first |-> top, count |-> 1])
    <3>1. /\ x \in Seq(Ranges)
          /\ r # <<>> /\ r[n].first + r[n].count = top
          /\ Len(x) = n
          /\ \A k \in 1 .. n : k # n => x[k] = r[k]
          /\ x[n].first = r[n].first
          /\ x[n].count = r[n].count + 1
      BY <1>0, <2>2, ExtendedIs
    <3>2. n \in 1 .. n
      BY <1>0, <1>1, <3>1
    <3>3. \A k \in 1 .. n : x[k].first = r[k].first /\ x[k].count = IF k = n THEN r[n].count + 1 ELSE r[k].count
      BY <3>1
    <3>4. \A k \in 1 .. n : x[k].count > 0 /\ x[k].first >= begin /\ x[k].first + x[k].count <= top + 1
      <4>. TAKE k \in 1 .. n
      <4>1. CASE k = n
        <5>1. r[n].first \in Nat /\ r[n].count \in Nat /\ r[n].count > 0 /\ r[n].first >= begin
          BY <1>0, <1>1, <3>2
        <5>2. x[n].first = r[n].first /\ x[n].count = r[n].count + 1 /\ r[n].first + r[n].count = top
          BY <3>1
        <5>. QED
          BY <4>1, <5>1, <5>2
      <4>2. CASE k # n
        <5>1. r[k].first \in Nat /\ r[k].count \in Nat /\ r[k].count > 0 /\ r[k].first >= begin
              /\ r[k].first + r[k].count <= top /\ x[k] = r[k]
          BY <1>0, <1>1, <3>1, <4>2
        <5>. QED
          BY <5>1
      <4>. QED
        BY <4>1, <4>2
    <3>5. \A k \in 2 .. n : x[k].first >= x[k - 1].first + x[k - 1].count
      <4>. TAKE k \in 2 .. n
      <4>1. k - 1 \in 1 .. n /\ k \in 1 .. n /\ k - 1 # n
        BY <1>1
      <4>. QED
        BY <1>0, <3>3, <4>1
    <3>6. \A id : id \in RowsIn(x[n]) <=> id \in RowsIn(r[n]) \/ id = top
      <4>. PICK y, z : y = x[n] /\ z = r[n]
        OBVIOUS
      <4>1. /\ z.first \in Nat /\ z.count \in Nat /\ z.count > 0
            /\ y.first = z.first /\ y.count = z.count + 1 /\ z.first + z.count = top
        BY <1>0, <1>1, <3>1, <3>2
      <4>2. \A id : id \in RowsIn(y) <=> id \in RowsIn(z) \/ id = top
        BY <4>1, RowsMore
      <4>. QED
        BY <4>2
    <3>7. \A id : (\E k \in 1 .. n : id \in RowsIn(x[k])) <=> (\E k \in 1 .. n : id \in RowsIn(r[k])) \/ id = top
      BY <3>1, <3>2, <3>6
    <3>8. \A id : (id \in ids /\ id < top + 1) <=> \E k \in 1 .. n : id \in RowsIn(x[k])
      BY <1>0, <1>3, <2>0, <3>7
    <3>. QED
      BY <1>3, <3>1, <3>4, <3>5, <3>8 DEF RunsAre
  <2>. QED
    BY <2>1, <2>2
<1>. QED
  BY <1>2, <1>3

\* The ranges after each slot.
Runs(f, begin, count, ids) ==
  /\ f[0] = <<>>
  /\ \A i \in 1 .. count :
       f[i] = IF begin + i - 1 \in ids THEN Extended(f[i - 1], begin + i - 1) ELSE f[i - 1]

\* There are such runs.
LEMMA RunsExist ==
  ASSUME NEW begin \in Nat, NEW count \in Nat, NEW ids \in SUBSET Nat
  PROVE  \E f \in [0 .. count -> Seq(Ranges)] : Runs(f, begin, count, ids)
<1>. DEFINE step == [x \in (1 .. count) \X Seq(Ranges) |->
                       IF begin + x[1] - 1 \in ids THEN Extended(x[2], begin + x[1] - 1) ELSE x[2]]
<1>1. step \in [(1 .. count) \X Seq(Ranges) -> Seq(Ranges)]
  <2>1. ASSUME NEW i \in 1 .. count, NEW r \in Seq(Ranges)
        PROVE  begin + i - 1 \in ids => Extended(r, begin + i - 1) \in Seq(Ranges)
    BY ExtendedIs
  <2>. QED
    BY <2>1
<1>2. <<>> \in Seq(Ranges)
  OBVIOUS
<1>3. \A i \in 1 .. count, r \in Seq(Ranges) :
        step[<<i, r>>] = IF begin + i - 1 \in ids THEN Extended(r, begin + i - 1) ELSE r
  OBVIOUS
<1>. HIDE DEF step
<1>4. PICK f \in [0 .. count -> Seq(Ranges)] : Iterates(f, count, <<>>, step)
  BY <1>1, <1>2, IterationExists
<1>5. ASSUME NEW i \in 1 .. count
      PROVE  f[i] = IF begin + i - 1 \in ids THEN Extended(f[i - 1], begin + i - 1) ELSE f[i - 1]
  <2>1. f[i] = step[<<i, f[i - 1]>>] /\ f[i - 1] \in Seq(Ranges)
    BY <1>4 DEF Iterates
  <2>. QED
    BY <1>3, <2>1
<1>. QED
  BY <1>4, <1>5 DEF Iterates, Runs

\* An encoded enable file is the runs of its identifiers.
LEMMA EncodedRuns ==
  ASSUME NEW file, file.begin \in Nat, file.count \in Nat, NEW ids \in SUBSET Nat,
         ids \subseteq file.begin .. (file.begin + file.count - 1)
  PROVE  RunsAre(EncodeEnable(file, ids), file.begin, file.begin + file.count, ids)
<1>. DEFINE Solves(f) == f = [i \in 0 .. file.count |->
              IF i = 0 THEN <<>>
              ELSE IF file.begin + i - 1 \in ids THEN Extended(f[i - 1], file.begin + i - 1) ELSE f[i - 1]]
            runs == CHOOSE f : Solves(f)
<1>. PICK begin, count : begin = file.begin /\ count = file.count
  OBVIOUS
<1>0. begin \in Nat /\ count \in Nat
  OBVIOUS
<1>1. EncodeEnable(file, ids) = runs[count]
  BY Zenon DEF EncodeEnable, Extended
<1>2. PICK f \in [0 .. count -> Seq(Ranges)] : Runs(f, begin, count, ids)
  BY <1>0, RunsExist
<1>3. \A i \in 0 .. count : i = 0 \/ i \in 1 .. count
  OBVIOUS
<1>4. Solves(f)
  <2>1. \A i \in 0 .. count : f[i] = IF i = 0 THEN <<>>
              ELSE IF begin + i - 1 \in ids THEN Extended(f[i - 1], begin + i - 1) ELSE f[i - 1]
    BY <1>2, <1>3, Zenon DEF Runs
  <2>. QED
    BY <2>1
<1>5. Solves(runs)
  <2>1. \E h : Solves(h)
    BY <1>4, Zenon
  <2>. HIDE DEF Solves
  <2>. QED
    BY <2>1, Zenon
<1>6. /\ runs[0] = <<>>
      /\ \A i \in 1 .. count :
           runs[i] = IF begin + i - 1 \in ids THEN Extended(runs[i - 1], begin + i - 1) ELSE runs[i - 1]
  <2>. HIDE DEF runs
  <2>1. 0 \in 0 .. count /\ \A i \in 1 .. count : i \in 0 .. count /\ i # 0
    BY <1>0
  <2>. QED
    BY <1>5, <2>1
<1>. HIDE DEF runs, Solves
<1>. DEFINE T == {i \in 0 .. count : RunsAre(runs[i], begin, begin + i, ids)}
<1>7. 0 \in T
  <2>1. RunsAre(<<>>, begin, begin + 0, ids)
    <3>1. \A id \in ids : ~(id < begin)
      BY <1>0
    <3>2. Len(<<>>) = 0 /\ 1 .. 0 = {} /\ 2 .. 0 = {} /\ <<>> \in Seq(Ranges) /\ begin + 0 = begin
      BY <1>0
    <3>. QED
      BY <3>1, <3>2, Zenon DEF RunsAre
  <2>. QED
    BY <1>0, <1>6, <2>1
<1>8. ASSUME NEW i \in 1 .. count, i - 1 \in T PROVE i \in T
  <2>. PICK top : top = begin + i - 1
    OBVIOUS
  <2>1. top \in Nat /\ begin <= top /\ top = begin + (i - 1) /\ top + 1 = begin + i /\ i \in 0 .. count
    BY <1>0
  <2>2. RunsAre(runs[i - 1], begin, top, ids)
    BY <1>8, <2>1
  <2>3. IF top \in ids THEN RunsAre(Extended(runs[i - 1], top), begin, top + 1, ids)
        ELSE RunsAre(runs[i - 1], begin, top + 1, ids)
    BY <1>0, <2>1, <2>2, RunsExtend
  <2>4. runs[i] = IF top \in ids THEN Extended(runs[i - 1], top) ELSE runs[i - 1]
    BY <1>6
  <2>5. RunsAre(runs[i], begin, top + 1, ids)
    BY <2>3, <2>4
  <2>. QED
    BY <2>1, <2>5
<1>. HIDE DEF T
<1>9. count \in T
  BY <1>0, <1>7, <1>8, StepsTo, count \in 0 .. count
<1>. QED
  BY <1>1, <1>9 DEF T

\* What the enable file of these rows reads back as.
EnableRead(ranges, file, ids) ==
  /\ ranges \in Seq(Ranges)
  /\ ParseEnable(ranges).ids = ids /\ ParseEnable(ranges).sound /\ ParseEnable(ranges).named <= file.count

\* A range between two bounds names rows between them.
LEMMA RowsWithin ==
  ASSUME NEW x, NEW begin \in Nat, NEW count \in Nat, NEW all, all = begin .. (begin + count - 1),
         x.first \in Nat /\ x.count \in Nat /\ x.first >= begin /\ x.first + x.count <= begin + count
  PROVE  \A id \in RowsIn(x) : id \in all /\ id >= x.first /\ id < x.first + x.count
<1>. PICK a \in Nat, c \in Nat : a = x.first /\ c = x.count
  OBVIOUS
<1>1. RowsIn(x) = a .. (a + c - 1) /\ a >= begin /\ a + c <= begin + count
  BY DEF RowsIn
<1>2. \A id \in a .. (a + c - 1) : id \in begin .. (begin + count - 1) /\ id >= a /\ id < a + c
  BY <1>1
<1>. QED
  BY <1>1, <1>2

\* An encoded enable file is read back (EncodeEnable, ParseEnable).
LEMMA EnableReadsBack ==
  ASSUME NEW file, file.begin \in Nat, file.count \in Nat, NEW ids \in SUBSET Nat,
         ids \subseteq file.begin .. (file.begin + file.count - 1)
  PROVE  EnableRead(EncodeEnable(file, ids), file, ids)
<1>. PICK begin, count, r : begin = file.begin /\ count = file.count /\ r = EncodeEnable(file, ids)
  OBVIOUS
<1>0. begin \in Nat /\ count \in Nat
  OBVIOUS
<1>1. RunsAre(r, begin, begin + count, ids)
  BY EncodedRuns
<1>2. /\ r \in Seq(Ranges) /\ DOMAIN r = 1 .. Len(r) /\ Len(r) \in Nat
      /\ \A k \in 1 .. Len(r) : r[k].count > 0 /\ r[k].first >= begin /\ r[k].first + r[k].count <= begin + count
      /\ \A k \in 2 .. Len(r) : r[k].first >= r[k - 1].first + r[k - 1].count
      /\ \A id : (id \in ids /\ id < begin + count) <=> \E k \in 1 .. Len(r) : id \in RowsIn(r[k])
  BY <1>1 DEF RunsAre
<1>. PICK n : n = Len(r)
  OBVIOUS
<1>3. \A k \in 1 .. n : r[k].first \in Nat /\ r[k].count \in Nat
  <2>1. \A k \in 1 .. n : r[k] \in Ranges
    BY <1>2
  <2>. QED
    BY <2>1 DEF Ranges
<1>4. ParseEnable(r).ids = ids
  <2>1. ParseEnable(r).ids = UNION {RowsIn(x) : x \in Range(r)}
    BY Zenon DEF ParseEnable
  <2>2. \A id \in ids : id < begin + count
    BY <1>0
  <2>3. \A id : id \in UNION {RowsIn(x) : x \in Range(r)} <=> \E k \in 1 .. n : id \in RowsIn(r[k])
    BY <1>2 DEF Range
  <2>. QED
    BY <1>2, <2>1, <2>2, <2>3
<1>5. ParseEnable(r).sound
  <2>1. \A k \in DOMAIN r : r[k].count > 0 /\ (k > 1 => r[k].first >= r[k - 1].first + r[k - 1].count)
    BY <1>2
  <2>. QED
    BY <2>1, Zenon DEF ParseEnable
<1>6. ParseEnable(r).named <= count
  <2>. DEFINE pairs == UNION {{<<i, id>> : id \in RowsIn(r[i])} : i \in DOMAIN r}
              g == [p \in pairs |-> p[2]]
              all == begin .. (begin + count - 1)
  <2>1. ParseEnable(r).named = Cardinality(pairs)
    BY Zenon DEF ParseEnable
  <2>2. \A p \in pairs : \E i \in 1 .. n : \E id \in RowsIn(r[i]) : p = <<i, id>>
    BY <1>2
  <2>3. \A i \in 1 .. n : \A id \in RowsIn(r[i]) : id \in all /\ id >= r[i].first /\ id < r[i].first + r[i].count
    <3>. TAKE i \in 1 .. n
    <3>. PICK x : x = r[i]
      OBVIOUS
    <3>1. x.first \in Nat /\ x.count \in Nat /\ x.first >= begin /\ x.first + x.count <= begin + count
      BY <1>2, <1>3
    <3>2. \A id \in RowsIn(x) : id \in all /\ id >= x.first /\ id < x.first + x.count
      <4>. HIDE DEF all
      <4>1. all = begin .. (begin + count - 1)
        BY DEF all
      <4>. QED
        BY <1>0, <3>1, <4>1, RowsWithin
    <3>. QED
      BY <3>2
  <2>4. g \in [pairs -> all]
    BY <2>2, <2>3
  <2>5. ASSUME NEW i \in 1 .. n, NEW j \in 1 .. n, i < j PROVE r[i].first + r[i].count <= r[j].first
    <3>. DEFINE F == [k \in 1 .. n |-> r[k].first]
                C == [k \in 1 .. n |-> r[k].count]
    <3>1. n \in Nat /\ F \in [1 .. n -> Nat] /\ C \in [1 .. n -> Nat]
      BY <1>2, <1>3
    <3>2. ASSUME NEW k \in 2 .. n PROVE F[k] >= F[k - 1] + C[k - 1]
      BY <1>2, k \in 1 .. n, k - 1 \in 1 .. n
    <3>3. F[i] = r[i].first /\ C[i] = r[i].count /\ F[j] = r[j].first
      OBVIOUS
    <3>. HIDE DEF F, C
    <3>4. F[i] + C[i] <= F[j]
      BY <2>5, <3>1, <3>2, Chain
    <3>. QED
      BY <3>3, <3>4
  <2>6. ASSUME NEW i \in 1 .. n, NEW j \in 1 .. n, NEW id \in RowsIn(r[i]), id \in RowsIn(r[j]) PROVE i = j
    <3>1. id >= r[i].first /\ id < r[i].first + r[i].count /\ id >= r[j].first /\ id < r[j].first + r[j].count /\ id \in Int
      BY <1>0, <2>3, <2>6
    <3>2. ~(i < j) /\ ~(j < i)
      BY <1>3, <2>5, <3>1
    <3>. QED
      BY <3>2
  <2>7. g \in Injection(pairs, all)
    <3>1. ASSUME NEW p \in pairs, NEW q \in pairs, g[p] = g[q] PROVE p = q
      <4>1a. PICK i \in 1 .. n : \E x \in RowsIn(r[i]) : p = <<i, x>>
        BY <2>2
      <4>1. PICK id \in RowsIn(r[i]) : p = <<i, id>>
        BY <4>1a
      <4>2a. PICK j \in 1 .. n : \E x \in RowsIn(r[j]) : q = <<j, x>>
        BY <2>2
      <4>2. PICK jd \in RowsIn(r[j]) : q = <<j, jd>>
        BY <4>2a
      <4>3. id = jd
        BY <3>1, <4>1, <4>2
      <4>. QED
        BY <2>6, <4>1, <4>2, <4>3
    <3>. HIDE DEF g, pairs
    <3>. QED
      BY <2>4, <3>1 DEF Injection, IsInjective
  <2>. HIDE DEF g, pairs
  <2>8. IsFiniteSet(all) /\ Cardinality(all) = count
    <3>1. begin \in Int /\ begin + count - 1 \in Int
      BY <1>0
    <3>2. IsFiniteSet(all) /\ Cardinality(all) = IF begin > begin + count - 1 THEN 0 ELSE (begin + count - 1) - begin + 1
      BY <3>1, FS_Interval
    <3>. QED
      BY <1>0, <3>2
  <2>9. Cardinality(pairs) <= Cardinality(all)
    <3>. HIDE DEF all
    <3>. QED
      BY <2>7, <2>8, FS_Injection
  <2>. QED
    BY <2>1, <2>8, <2>9
<1>. QED
  BY <1>2, <1>4, <1>5, <1>6 DEF EnableRead

-----------------------------------------------------------------------------
(* The rows of a block, and its three files: what a block was loaded from or was
   encoded to is loaded again with the same rows. *)

\* The values of any column.
AllValues == UNION {ValuesOf(type) : type \in Types}

\* The values of a row, of which only the last may be omitted.
Partly(row, columns) ==
  /\ DOMAIN row = DOMAIN columns
  /\ \E n \in {Len(columns) - 1, Len(columns)} :
       /\ n >= 0
       /\ \A k \in DOMAIN columns : IF k <= n THEN row[k] \in ValuesOf(columns[k]) ELSE row[k] = Omitted

\* A value of a column is neither omitted nor refused.
LEMMA ValueTyped ==
  ASSUME NEW columns \in Seq(Types), NEW k \in DOMAIN columns, NEW v \in ValuesOf(columns[k])
  PROVE  v # Omitted /\ v \in AllValues /\ v # Refused /\ v.hidden \in BOOLEAN
<1>1. columns[k] \in Types
  OBVIOUS
<1>2. v.type = columns[k] /\ v.hidden \in BOOLEAN
  BY DEF ValuesOf
<1>3. v \in AllValues
  BY <1>1 DEF AllValues
<1>4. v # Omitted
  BY <1>1, <1>2, ResultAssumption
<1>5. v # Refused
  BY <1>3, ResultAssumption DEF AllValues
<1>. QED
  BY <1>2, <1>3, <1>4, <1>5

\* What is stored of such a row is read back as a row, unless it is nothing.
LEMMA StoredIs ==
  ASSUME NEW columns \in Seq(Types), NEW row, Partly(row, columns)
  PROVE  /\ Stored(row) \in Seq(AllValues)
         /\ RowParses(Stored(row), SubSeq(columns, 1, Len(Stored(row))))
         /\ Stored(row) # <<>> => SpanParses(Stored(row), columns)
<1>. PICK width : width = Len(columns)
  OBVIOUS
<1>1. width \in Nat /\ DOMAIN columns = 1 .. width
  OBVIOUS
<1>2. DOMAIN row = 1 .. width /\ \E n \in {width - 1, width} :
       /\ n >= 0
       /\ \A k \in 1 .. width : IF k <= n THEN row[k] \in ValuesOf(columns[k]) ELSE row[k] = Omitted
  BY <1>1, Zenon DEF Partly
<1>3. PICK n \in {width - 1, width} :
       /\ n >= 0
       /\ \A k \in 1 .. width : IF k <= n THEN row[k] \in ValuesOf(columns[k]) ELSE row[k] = Omitted
  BY <1>2
<1>4. n \in Nat /\ n <= width /\ (n = width - 1 \/ n = width)
  BY <1>1, <1>3
<1>5. \A k \in 1 .. width : k \in 1 .. n <=> k <= n
  BY <1>1, <1>4
<1>6. \A k \in 1 .. width : k \in 1 .. n => row[k] \in ValuesOf(columns[k]) /\ row[k] # Omitted /\ row[k] \in AllValues
  BY <1>1, <1>3, <1>5, ValueTyped
<1>7. {j \in DOMAIN row : row[j] # Omitted} = 1 .. n
  <2>1. \A j \in 1 .. width : row[j] # Omitted <=> j \in 1 .. n
    BY <1>3, <1>5, <1>6
  <2>2. 1 .. n \subseteq 1 .. width
    BY <1>1, <1>4
  <2>. QED
    BY <1>2, <2>1, <2>2
<1>. PICK stored : stored = Stored(row)
  OBVIOUS
<1>8. stored = [k \in 1 .. n |-> row[k]]
  BY <1>7, Zenon DEF Stored
<1>9. stored \in [1 .. n -> AllValues]
  BY <1>1, <1>4, <1>6, <1>8
<1>10. stored \in Seq(AllValues) /\ Len(stored) = n /\ DOMAIN stored = 1 .. n
  BY <1>4, <1>9, IsSequence
<1>11. Len(SubSeq(columns, 1, n)) = n /\ \A k \in 1 .. n : SubSeq(columns, 1, n)[k] = columns[k]
  BY <1>1, <1>4
<1>12. RowParses(stored, SubSeq(columns, 1, n))
  <2>1. \A k \in 1 .. n : stored[k] \in ValuesOf(SubSeq(columns, 1, n)[k])
    BY <1>1, <1>4, <1>6, <1>8, <1>11
  <2>. QED
    BY <1>10, <1>11, <2>1, Zenon DEF RowParses
<1>13. ASSUME stored # <<>> PROVE SpanParses(stored, columns)
  <2>1. n # 0
    BY <1>10, <1>13
  <2>2. n \in {Len(columns) - 1, Len(columns)} \ {0}
    BY <1>4, <2>1
  <2>. QED
    BY <1>3, <1>12, <2>2, Zenon DEF SpanParses
<1>. QED
  BY <1>10, <1>12, <1>13

\* A row that was read is such a row.
LEMMA SpansPartly ==
  ASSUME NEW row, NEW columns \in Seq(Types), Spans(row, columns)
  PROVE  Partly(row, columns)
<1>1. \A n \in {Len(columns) - 1, Len(columns)} : n > 0 => n >= 0
  OBVIOUS
<1>. QED
  BY <1>1, Zenon DEF Spans, Partly

\* The files of a block hold the rows with these identifiers.
FilesSound(has, f, columns, ids) ==
  /\ has.data \in Seq(Range(has.data)) /\ has.offsets \in Seq(Nat)
  /\ ids \subseteq f.begin .. (f.begin + f.count - 1)
  /\ EnableRead(has.enable, f, ids)
  /\ Len(has.offsets) <= f.count
  /\ ParseOffsets(has.offsets).sound /\ ParseOffsets(has.offsets).length = Len(has.data)
  /\ {f.begin + t.index : t \in ParseOffsets(has.offsets).slots} = ids
  /\ \A t \in ParseOffsets(has.offsets).slots : SpanParses(Bytes(has.data, t), columns)

\* A block whose files hold its rows.
GoodBlock(b) ==
  /\ b.file \in FileBlock /\ b.columns \in Seq(Types)
  /\ \A id \in DOMAIN b.rows : Spans(b.rows[id], b.columns)
  /\ FilesSound(b, b.file, b.columns, DOMAIN b.rows)

\* Files that hold rows are loaded with those rows.
LEMMA Reload ==
  ASSUME NEW fs, NEW s, NEW f, NEW has, NEW ids,
         PartsFrom(fs, Parts(f, has)), FilesSound(has, f, s.columns, ids)
  PROVE  /\ Shipped(fs, f) /\ BlockLoads(fs, s, f)
         /\ DOMAIN LoadRows(fs, s, f) = ids
<1>1. /\ f.data \in DOMAIN fs /\ fs[f.data].as = "data" /\ fs[f.data].of = has.data
      /\ f.enable \in DOMAIN fs /\ fs[f.enable].as = "enable" /\ fs[f.enable].of = has.enable
      /\ f.offsets \in DOMAIN fs /\ fs[f.offsets].as = "offsets" /\ fs[f.offsets].of = has.offsets
  <2>1. \A p \in Parts(f, has) : p[1] \in DOMAIN fs /\ p[2].as = fs[p[1]].as /\ p[2].of = fs[p[1]].of
    BY Zenon DEF PartsFrom
  <2>2. /\ <<f.data, [as |-> "data", of |-> has.data]>> \in Parts(f, has)
        /\ <<f.enable, [as |-> "enable", of |-> has.enable]>> \in Parts(f, has)
        /\ <<f.offsets, [as |-> "offsets", of |-> has.offsets]>> \in Parts(f, has)
    BY Zenon DEF Parts
  <2>. QED
    BY <2>1, <2>2
<1>2. /\ has.data \in Seq(Range(has.data)) /\ has.offsets \in Seq(Nat) /\ has.enable \in Seq(Ranges)
      /\ ParseEnable(has.enable).ids = ids /\ ParseEnable(has.enable).sound /\ ParseEnable(has.enable).named <= f.count
  BY Zenon DEF FilesSound, EnableRead
<1>3. Is(fs, f.data, "data") /\ Is(fs, f.enable, "enable") /\ Is(fs, f.offsets, "offsets")
  <2>1. Formatted(fs[f.data])
    BY <1>1, <1>2 DEF Formatted
  <2>2. Formatted(fs[f.enable])
    BY <1>1, <1>2 DEF Formatted, Ranges
  <2>3. Formatted(fs[f.offsets])
    BY <1>1, <1>2 DEF Formatted
  <2>. QED
    BY <1>1, <2>1, <2>2, <2>3, Zenon DEF Is
<1>4. BlockLoads(fs, s, f)
  BY <1>1, <1>2, <1>3, Zenon DEF BlockLoads, FilesSound
<1>5. Shipped(fs, f)
  BY <1>1 DEF Shipped, IdsOf
<1>6. DOMAIN LoadRows(fs, s, f) = ids
  BY <1>1, <1>2, Zenon DEF LoadRows
<1>. QED
  BY <1>4, <1>5, <1>6

\* What is loaded of a block is what its files hold.
LEMMA LoadedGood ==
  ASSUME NEW fs, NEW s, NEW at, NEW b, PlaceLoads(b, fs, s, at),
         s.columns \in Seq(Types), s.files[at[2]] \in FileBlock
  PROVE  /\ GoodBlock(b) /\ b.file = s.files[at[2]] /\ b.columns = s.columns /\ b.index = s.index /\ b.at = at
         /\ b.force = FALSE /\ PartsFrom(fs, Parts(b.file, b))
         /\ b.rows = LoadRows(fs, s, b.file)
<1>. PICK f, columns, rows : f = s.files[at[2]] /\ columns = s.columns /\ rows = LoadRows(fs, s, f)
  OBVIOUS
<1>1. b # None /\ b = LoadBlock(fs, s, at) /\ BlockLoads(fs, s, f)
  BY Zenon DEF PlaceLoads
<1>2. /\ b.file = f /\ b.columns = columns /\ b.index = s.index /\ b.at = at
      /\ b.data = fs[f.data].of /\ b.enable = fs[f.enable].of /\ b.offsets = fs[f.offsets].of
      /\ b.rows = rows
  BY <1>1 DEF LoadBlock
<1>3. b.force = FALSE /\ PartsFrom(fs, Parts(b.file, b))
  BY <1>1, LoadedIs
<1>4. /\ fs[f.data].of \in Seq(Range(fs[f.data].of)) /\ fs[f.enable].of \in Seq(Ranges)
      /\ fs[f.offsets].of \in Seq(Nat)
  <2>1. Is(fs, f.data, "data") /\ Is(fs, f.enable, "enable") /\ Is(fs, f.offsets, "offsets")
    BY <1>1, Zenon DEF BlockLoads
  <2>. QED
    BY <2>1, Formats, Zenon DEF Ranges
<1>5. DOMAIN rows = ParseEnable(fs[f.enable].of).ids
  BY Zenon DEF LoadRows
<1>6. FilesSound(b, f, columns, DOMAIN rows)
  <2>1. EnableRead(b.enable, f, DOMAIN rows)
    BY <1>1, <1>2, <1>4, <1>5, Zenon DEF EnableRead, BlockLoads
  <2>. QED
    BY <1>1, <1>2, <1>4, <1>5, <2>1, Zenon DEF FilesSound, BlockLoads
<1>7. \A id \in DOMAIN b.rows : Spans(b.rows[id], b.columns)
  <2>1. SheetBlock(b, s)
    BY <1>1, BlockIs
  <2>. QED
    BY <2>1 DEF SheetBlock
<1>. QED
  BY <1>2, <1>3, <1>6, <1>7, Zenon DEF GoodBlock

\* How many rows the ranges name is a number.
LEMMA NamedInt ==
  ASSUME NEW r \in Seq(Ranges), NEW low \in Int, NEW high \in Int, ParseEnable(r).ids \subseteq low .. high
  PROVE  ParseEnable(r).named \in Nat
<1>. DEFINE pairs == UNION {{<<i, id>> : id \in RowsIn(r[i])} : i \in DOMAIN r}
<1>1. ParseEnable(r).named = Cardinality(pairs) /\ ParseEnable(r).ids = UNION {RowsIn(x) : x \in Range(r)}
  BY Zenon DEF ParseEnable
<1>2. IsFiniteSet(1 .. Len(r)) /\ IsFiniteSet(low .. high)
  BY FS_Interval, Len(r) \in Int
<1>3. \A i \in DOMAIN r : r[i] \in Range(r) /\ RowsIn(r[i]) \subseteq low .. high
  <2>1. \A i \in DOMAIN r : r[i] \in Range(r)
    BY DEF Range
  <2>. QED
    BY <1>1, <2>1
<1>4. pairs \subseteq (1 .. Len(r)) \X (low .. high)
  BY <1>3
<1>5. IsFiniteSet((1 .. Len(r)) \X (low .. high))
  BY <1>2, FS_Product
<1>. HIDE DEF pairs
<1>6. IsFiniteSet(pairs)
  BY <1>4, <1>5, FS_Subset
<1>. QED
  BY <1>1, <1>6, FS_CardinalityType

\* A block whose file has room for more rows.
LEMMA GrownGood ==
  ASSUME NEW b, GoodBlock(b), NEW x, NEW file,
         x.file = file, file \in FileBlock, file.begin = b.file.begin, file.count >= b.file.count,
         x.columns = b.columns, x.rows = b.rows, x.data = b.data, x.enable = b.enable, x.offsets = b.offsets
  PROVE  GoodBlock(x)
<1>. PICK f, ids : f = b.file /\ ids = DOMAIN b.rows
  OBVIOUS
<1>0. f.begin \in Nat /\ f.count \in Nat /\ file.count \in Nat
  <2>1. 0 .. MaxRow \subseteq Nat
    BY MaxRowAssumption
  <2>. QED
    BY <2>1 DEF GoodBlock, FileBlock
<1>1. FilesSound(b, f, b.columns, ids)
  BY Zenon DEF GoodBlock
<1>2. /\ ids \subseteq f.begin .. (f.begin + f.count - 1) /\ Len(b.offsets) <= f.count
      /\ b.offsets \in Seq(Nat)
      /\ EnableRead(b.enable, f, ids)
  BY <1>1, Zenon DEF FilesSound
<1>3. ids \subseteq file.begin .. (file.begin + file.count - 1)
  BY <1>0, <1>2
<1>4. Len(b.offsets) <= file.count
  BY <1>0, <1>2
<1>5. EnableRead(b.enable, file, ids)
  <2>1. ParseEnable(b.enable).named <= f.count /\ b.enable \in Seq(Ranges)
    BY <1>2, Zenon DEF EnableRead
  <2>2. ParseEnable(b.enable).named <= file.count
    <3>1. ParseEnable(b.enable).named \in Int
      <4>1. ParseEnable(b.enable).ids \subseteq f.begin .. (f.begin + f.count - 1)
        BY <1>2, Zenon DEF EnableRead
      <4>2. f.begin \in Int /\ f.begin + f.count - 1 \in Int
        BY <1>0
      <4>. QED
        BY <2>1, <4>1, <4>2, NamedInt
    <3>. QED
      BY <1>0, <2>1, <3>1
  <2>. QED
    BY <1>2, <2>2, Zenon DEF EnableRead
<1>6. FilesSound(x, file, b.columns, ids)
  BY <1>1, <1>3, <1>4, <1>5, Zenon DEF FilesSound
<1>. QED
  BY <1>6, Zenon DEF GoodBlock

\* An added block has no rows yet.
LEMMA AddedGood ==
  ASSUME NEW x, x.file \in FileBlock, x.columns \in Seq(Types), x.rows = <<>>,
         x.data = <<>>, x.enable = <<>>, x.offsets = <<>>
  PROVE  GoodBlock(x)
<1>. PICK f : f = x.file
  OBVIOUS
<1>0. f.begin \in Nat /\ f.count \in Nat
  <2>1. 0 .. MaxRow \subseteq Nat
    BY MaxRowAssumption
  <2>. QED
    BY <2>1 DEF FileBlock
<1>1. EnableRead(<<>>, f, {})
  <2>1. <<>> \in Seq(Ranges) /\ DOMAIN <<>> = {} /\ Range(<<>>) = {}
    BY DEF Range
  <2>2. ParseEnable(<<>>).ids = {} /\ ParseEnable(<<>>).sound
    BY <2>1 DEF ParseEnable
  <2>3. ParseEnable(<<>>).named = Cardinality({})
    BY <2>1 DEF ParseEnable
  <2>4. Cardinality({}) = 0
    BY FS_EmptySet
  <2>. QED
    BY <1>0, <2>1, <2>2, <2>3, <2>4 DEF EnableRead
<1>2. /\ ParseOffsets(<<>>).sound /\ ParseOffsets(<<>>).length = 0 /\ ParseOffsets(<<>>).slots = {}
  BY DEF ParseOffsets
<1>3. FilesSound(x, f, x.columns, {})
  BY <1>0, <1>1, <1>2 DEF FilesSound, Range
<1>. QED
  BY <1>3 DEF GoodBlock

\* The edited form of a block: files that hold its rows as they are stored.
EditedGood(e) ==
  /\ FilesSound(e, e.block.file, e.block.columns, DOMAIN e.rows)
  /\ \A t \in ParseOffsets(e.offsets).slots :
       /\ Bytes(e.data, t) = e.rows[e.block.file.begin + t.index]
       /\ RowParses(Bytes(e.data, t), SubSeq(e.block.columns, 1, Len(e.rows[e.block.file.begin + t.index])))

\* A sequence is one over what it holds.
LEMMA OverRange ==
  ASSUME NEW S, NEW q \in Seq(S)
  PROVE  q \in Seq(Range(q))
<1>1. q \in [1 .. Len(q) -> Range(q)] /\ Len(q) \in Nat
  BY DEF Range
<1>. QED
  BY <1>1, IsSequence

\* The files of an edited block, taken together.
FilesHold(data, enable, offsets, at, f, columns, ids) ==
  /\ data \in Seq(Range(data)) /\ offsets \in Seq(Nat)
  /\ ids \subseteq f.begin .. (f.begin + f.count - 1)
  /\ EnableRead(enable, f, ids)
  /\ Len(offsets) <= f.count
  /\ ParseOffsets(offsets).sound /\ ParseOffsets(offsets).length = Len(data)
  /\ at = ParseOffsets(offsets).slots
  /\ {f.begin + t.index : t \in at} = ids
  /\ \A t \in at : SpanParses(Bytes(data, t), columns)

\* Files that hold rows are sound.
LEMMA HoldSound ==
  ASSUME NEW has, NEW at, NEW f, NEW columns, NEW ids,
         FilesHold(has.data, has.enable, has.offsets, at, f, columns, ids)
  PROVE  FilesSound(has, f, columns, ids)
<1>1. at = ParseOffsets(has.offsets).slots
  BY Zenon DEF FilesHold
<1>. QED
  BY <1>1, Zenon DEF FilesHold, FilesSound

\* What an edited block is.
IsEdited(e, b, rows, data, offsets, enable) ==
  e = [is |-> "edited", block |-> b, rows |-> rows, data |-> data, offsets |-> offsets, enable |-> enable]

\* So it has its block, and is not nothing.
LEMMA EditedRecord ==
  ASSUME NEW e, NEW b, NEW rows, NEW data, NEW offsets, NEW enable, IsEdited(e, b, rows, data, offsets, enable)
  PROVE  e.block = b /\ e.rows = rows /\ e.data = data /\ e.offsets = offsets /\ e.enable = enable /\ e # None
  BY DEF None, IsEdited

\* The files that a block's rows are encoded to hold those rows.
LEMMA EncodedGood ==
  ASSUME NEW b, GoodBlock(b), NEW values, \A id \in DOMAIN values : Covers(b, id) /\ Partly(values[id], b.columns),
         NEW e, e = EncodeBlock(b, values), e # Refused
  PROVE  e.block = b /\ EditedGood(e) /\ e # None
<1>. PICK f, columns, begin : f = b.file /\ columns = b.columns /\ begin = f.begin
  OBVIOUS
<1>0. begin \in Nat /\ f.count \in Nat /\ columns \in Seq(Types)
  <2>1. 0 .. MaxRow \subseteq Nat
    BY MaxRowAssumption
  <2>. QED
    BY <2>1 DEF GoodBlock, FileBlock
<1>. DEFINE ids == DOMAIN values
            slots == {id - begin : id \in ids}
            set == {Len(b.offsets)} \cup {k + 1 : k \in slots}
<1>. PICK rows : rows = [k \in slots |-> Stored(values[begin + k])]
  OBVIOUS
<1>. PICK count : count = Max(set)
  OBVIOUS
<1>. PICK encoded : encoded = EncodeRows(count, rows)
  OBVIOUS
<1>. PICK offsets : offsets = EncodeOffsets(count, encoded.ends)
  OBVIOUS
<1>. PICK enable : enable = IF DOMAIN values = DOMAIN b.rows THEN b.enable ELSE EncodeEnable(f, DOMAIN values)
  OBVIOUS
<1>. PICK stored : stored = [id \in ids |-> Stored(values[id])]
  OBVIOUS
<1>1. /\ encoded # Refused /\ offsets # Refused
      /\ e = [is |-> "edited", block |-> b, rows |-> stored,
              data |-> encoded.data, offsets |-> offsets, enable |-> enable]
  BY Zenon DEF EncodeBlock
<1>2. e.block = b /\ e.rows = stored /\ e.data = encoded.data /\ e.offsets = offsets /\ e.enable = enable /\ e # None
  <2>1. IsEdited(e, b, stored, encoded.data, offsets, enable)
    BY <1>1, Zenon DEF IsEdited
  <2>. QED
    BY <2>1, EditedRecord
<1>3. /\ b.offsets \in Seq(Nat) /\ Len(b.offsets) <= f.count
      /\ EnableRead(b.enable, f, DOMAIN b.rows)
  BY Zenon DEF GoodBlock, FilesSound
<1>4. \A id \in ids : id \in begin .. (begin + f.count - 1)
  BY DEF Covers
<1>5. \A k \in slots : k \in Nat /\ k + 1 <= f.count /\ begin + k \in ids
  BY <1>0, <1>4
<1>6. \A id \in ids : id - begin \in slots /\ begin + (id - begin) = id
  BY <1>0, <1>4
<1>7. count \in Nat /\ count <= f.count /\ slots \subseteq 0 .. (count - 1)
  <2>1. set \subseteq Nat /\ set # {} /\ \A x \in set : x <= f.count
    BY <1>3, <1>5
  <2>2. count \in set /\ \A x \in set : x <= count
    <3>. HIDE DEF set
    <3>. QED
      BY <1>0, <2>1, MaxIs
  <2>3. \A k \in slots : k + 1 <= count
    BY <2>2
  <2>4. count \in Nat /\ count <= f.count
    <3>. HIDE DEF set
    <3>. QED
      BY <2>1, <2>2
  <2>5. \A k \in slots : k \in 0 .. (count - 1)
    <3>. HIDE DEF set, slots
    <3>. QED
      BY <1>5, <2>3, <2>4
  <2>. QED
    BY <2>4, <2>5
<1>. HIDE DEF set, slots
<1>8. DOMAIN rows = slots /\ \A k \in slots : rows[k] = Stored(values[begin + k])
  OBVIOUS
<1>9. ASSUME NEW k \in DOMAIN rows
      PROVE  /\ rows[k] \in Seq(AllValues)
             /\ RowParses(rows[k], SubSeq(columns, 1, Len(rows[k])))
             /\ rows[k] # <<>> => SpanParses(rows[k], columns)
  BY <1>0, <1>5, <1>8, StoredIs
<1>10. <<>> \notin Range(rows)
  BY <1>1, <1>7, <1>8, <1>9, EncodedRows
<1>11. encoded.data \in Seq(AllValues) /\ RowsRead(encoded.data, offsets, count, rows)
  BY <1>1, <1>7, <1>8, <1>9, RowsReadBack
<1>. PICK at : at = ParseOffsets(offsets).slots
  OBVIOUS
<1>12. /\ offsets \in Seq(Nat) /\ Len(offsets) = count
       /\ ParseOffsets(offsets).sound /\ ParseOffsets(offsets).length = Len(encoded.data)
       /\ {t.index : t \in at} = DOMAIN rows
       /\ \A t \in at : Bytes(encoded.data, t) = rows[t.index]
  BY <1>11, Zenon DEF RowsRead
<1>13. \A t \in at : t.index \in slots /\ begin + t.index \in ids /\ stored[begin + t.index] = rows[t.index]
  <2>1. \A t \in at : t.index \in slots
    BY <1>8, <1>12
  <2>. QED
    BY <1>5, <1>8, <2>1
<1>14. {begin + t.index : t \in at} = ids
  <2>1. \A id \in ids : \E t \in at : begin + t.index = id
    <3>. TAKE id \in ids
    <3>1. id - begin \in {t.index : t \in at}
      BY <1>6, <1>8, <1>12
    <3>2. PICK t \in at : t.index = id - begin
      BY <3>1
    <3>. QED
      BY <1>6, <3>2
  <2>2. \A x \in {begin + t.index : t \in at} : x \in ids
    BY <1>13
  <2>. QED
    BY <2>1, <2>2
<1>15. \A t \in at : SpanParses(Bytes(encoded.data, t), columns)
                   /\ RowParses(Bytes(encoded.data, t), SubSeq(columns, 1, Len(stored[begin + t.index])))
  <2>. TAKE t \in at
  <2>1. t.index \in DOMAIN rows /\ Bytes(encoded.data, t) = rows[t.index] /\ stored[begin + t.index] = rows[t.index]
    BY <1>8, <1>12, <1>13
  <2>2. rows[t.index] # <<>>
    BY <1>10, <2>1 DEF Range
  <2>. QED
    BY <1>9, <2>1, <2>2
<1>16. EnableRead(enable, f, ids)
  <2>1. CASE DOMAIN values = DOMAIN b.rows
    BY <1>3, <2>1
  <2>2. CASE DOMAIN values # DOMAIN b.rows
    <3>1. ids \in SUBSET Nat /\ ids \subseteq f.begin .. (f.begin + f.count - 1)
      BY <1>0, <1>4
    <3>. QED
      BY <1>0, <2>2, <3>1, EnableReadsBack
  <2>. QED
    BY <2>1, <2>2
<1>17. FilesSound(e, f, columns, ids)
  <2>1. encoded.data \in Seq(Range(encoded.data))
    BY <1>11, OverRange
  <2>2. ids \subseteq begin .. (begin + f.count - 1)
    BY <1>4
  <2>3. FilesHold(encoded.data, enable, offsets, at, f, columns, ids)
    <3>1. ids \subseteq f.begin .. (f.begin + f.count - 1)
      BY <2>2
    <3>2. {f.begin + t.index : t \in at} = ids
      BY <1>14
    <3>3. Len(offsets) <= f.count
      BY <1>7, <1>12
    <3>4. \A t \in at : SpanParses(Bytes(encoded.data, t), columns)
      BY <1>15
    <3>5. at = ParseOffsets(offsets).slots
      OBVIOUS
    <3>. QED
      BY <1>12, <1>16, <2>1, <3>1, <3>2, <3>3, <3>4, <3>5, Zenon DEF FilesHold
  <2>4. FilesHold(e.data, e.enable, e.offsets, at, f, columns, ids)
    BY <1>2, <2>3
  <2>. QED
    BY <2>4, HoldSound
<1>18. DOMAIN e.rows = ids
  BY <1>2
<1>19. \A t \in at : Bytes(e.data, t) = e.rows[begin + t.index]
                   /\ RowParses(Bytes(e.data, t), SubSeq(columns, 1, Len(e.rows[begin + t.index])))
  <2>. TAKE t \in at
  <2>1. e.data = encoded.data /\ e.rows = stored
    BY <1>2
  <2>2. Bytes(encoded.data, t) = stored[begin + t.index]
    BY <1>12, <1>13
  <2>. QED
    BY <1>15, <2>1, <2>2, Zenon
<1>. QED
  BY <1>2, <1>17, <1>18, <1>19, Zenon DEF EditedGood

\* What the user's cells make of a row is a row of which only the last value may be omitted.
LEMMA EditRowPartly ==
  ASSUME NEW b, GoodBlock(b), NEW table, NEW id, NEW cells, Refused \notin Range(EditRow(table, b, id, cells))
  PROVE  Partly(EditRow(table, b, id, cells), b.columns)
<1>. PICK columns : columns = b.columns
  OBVIOUS
<1>1. columns \in Seq(Types) /\ \A i \in DOMAIN b.rows : Spans(b.rows[i], columns)
  BY Zenon DEF GoodBlock
<1>2. \A text, type, hidden :
        ParseCell(text, type, hidden) = Refused \/ ParseCell(text, type, hidden) \in ValuesOf(type)
  BY DEF ParseCell, Value, ValuesOf
<1>. PICK row : row = EditRow(table, b, id, cells)
  OBVIOUS
<1>3. DOMAIN row = DOMAIN columns
  BY DEF EditRow
<1>4. \A c \in DOMAIN columns : row[c] # Refused
  BY <1>3 DEF Range
<1>. PICK old : old = b.rows[id]
  OBVIOUS
<1>5. ASSUME NEW c \in DOMAIN columns
      PROVE  \/ id \in DOMAIN b.rows /\ row[c] = old[c]
             \/ /\ id \in DOMAIN b.rows => old[c] # Omitted
                /\ \E text, hidden : row[c] = ParseCell(text, columns[c], hidden)
  <2>. DEFINE text == cells[b.index[c] + 1]
              shown == IF id \in DOMAIN table.rows THEN table.rows[id][b.index[c] + 1].shown ELSE <<>>
              first == IF DOMAIN b.rows = {} THEN Omitted ELSE b.rows[Min(DOMAIN b.rows)][c]
              default == IF first = Omitted THEN b.flags[c] ELSE first.hidden
              known == id \in DOMAIN b.rows
  <2>1. row[c] = IF known /\ text = shown THEN b.rows[id][c]
                 ELSE IF known /\ b.rows[id][c] = Omitted THEN Refused
                 ELSE ParseCell(text, columns[c], IF known THEN b.rows[id][c].hidden ELSE default)
    BY DEF EditRow
  <2>. HIDE DEF text, shown, first, default
  <2>. QED
    BY <1>4, <2>1, Zenon
<1>6. \A c \in DOMAIN columns :
        \/ row[c] \in ValuesOf(columns[c])
        \/ id \in DOMAIN b.rows /\ row[c] = old[c]
  <2>. TAKE c \in DOMAIN columns
  <2>1. ASSUME NEW text, NEW hidden, row[c] = ParseCell(text, columns[c], hidden) PROVE row[c] \in ValuesOf(columns[c])
    <3>1. row[c] # Refused
      BY <1>4
    <3>2. ParseCell(text, columns[c], hidden) = Refused \/ ParseCell(text, columns[c], hidden) \in ValuesOf(columns[c])
      BY <1>2
    <3>. QED
      BY <2>1, <3>1, <3>2
  <2>. QED
    BY <1>5, <2>1
<1>7. CASE id \in DOMAIN b.rows
  <2>1. Spans(old, columns)
    BY <1>1, <1>7
  <2>2. PICK n \in {Len(columns) - 1, Len(columns)} :
       /\ n > 0
       /\ \A k \in DOMAIN columns : IF k <= n THEN old[k] \in ValuesOf(columns[k]) ELSE old[k] = Omitted
    BY <2>1, Zenon DEF Spans
  <2>3. \A k \in DOMAIN columns : IF k <= n THEN row[k] \in ValuesOf(columns[k]) ELSE row[k] = Omitted
    <3>. TAKE k \in DOMAIN columns
    <3>1. CASE k <= n
      BY <1>6, <2>2, <3>1, Zenon
    <3>2. CASE ~(k <= n)
      <4>1. old[k] = Omitted
        BY <2>2, <3>2, Zenon
      <4>2. row[k] = old[k]
        BY <1>5, <1>7, <4>1, Zenon
      <4>. QED
        BY <3>2, <4>1, <4>2, Zenon
    <3>. QED
      BY <3>1, <3>2
  <2>4. n >= 0
    BY <1>1, <2>2
  <2>. QED
    BY <1>3, <2>2, <2>3, <2>4, Zenon DEF Partly
<1>8. CASE id \notin DOMAIN b.rows
  <2>. PICK n : n = Len(columns)
    OBVIOUS
  <2>1. n \in {Len(columns) - 1, Len(columns)} /\ n >= 0 /\ \A k \in DOMAIN columns : k <= n
    BY <1>1
  <2>2. \A k \in DOMAIN columns : row[k] \in ValuesOf(columns[k])
    BY <1>6, <1>8
  <2>. QED
    BY <1>3, <2>1, <2>2, Zenon DEF Partly
<1>. QED
  BY <1>7, <1>8

\* An edited block's files hold its rows.
LEMMA EditedIs ==
  ASSUME NEW b, GoodBlock(b), NEW table, NEW rows, NEW e, e = EditBlock(table, rows, b), e # Refused, e # None
  PROVE  e.block = b /\ EditedGood(e)
<1>. DEFINE mine == RowsOf(table, rows, b)
            values == [id \in mine |-> EditRow(table, b, id, rows[id])]
<1>1. e = EncodeBlock(b, values) /\ \A id \in mine : Refused \notin Range(values[id])
  BY Zenon DEF EditBlock
<1>2. ASSUME NEW id \in mine PROVE Covers(b, id) /\ Partly(values[id], b.columns)
  <2>1. Covers(b, id)
    BY DEF RowsOf
  <2>2. Partly(EditRow(table, b, id, rows[id]), b.columns)
    BY <1>1, EditRowPartly
  <2>. QED
    BY <2>1, <2>2
<1>3. DOMAIN values = mine
  OBVIOUS
<1>. HIDE DEF values, mine
<1>. QED
  BY <1>1, <1>2, <1>3, EncodedGood

-----------------------------------------------------------------------------
(* What is expected of the resources, and what is written: every resource has one
   content that all its blocks want, written by the import or there already. *)

\* The files, with their identifiers.
Pairs(files) == {<<id, files[id]>> : id \in DOMAIN files}

\* The resources there can be: the client's and those a plan adds.
Possible == DOMAIN game \cup Range(AddedIds(plan))

\* The client tree, with what is written over it.
Final(resources) == Over(game, resources)

\* What is written comes to what was expected, and only what is new or was no definition.
Kept(resources, expected) ==
  /\ PartsFrom(Final(resources), Pairs(expected))
  /\ DOMAIN expected \cap Documents(game) = {}
  /\ \A id \in DOMAIN resources : IF resources[id].as = "definition" THEN id \in Documents(game)
                                  ELSE <<id, resources[id]>> \in Pairs(expected)
  /\ DOMAIN resources \subseteq Possible

\* What every edited block wants is expected.
Intended(edited, expected) ==
  \A e \in edited : EditedGood(e) /\ Parts(e.block.file, e) \subseteq Pairs(expected)

\* A pair is a file under its identifier.
LEMMA PairsIs ==
  ASSUME NEW files, NEW p
  PROVE  p \in Pairs(files) <=> p = <<p[1], p[2]>> /\ p[1] \in DOMAIN files /\ p[2] = files[p[1]]
  BY DEF Pairs

\* What is registered has everything of before, and the parts.
Registered(new, files, parts) ==
  /\ DOMAIN new = DOMAIN files \cup {p[1] : p \in parts}
  /\ parts \subseteq Pairs(new) /\ Pairs(files) \subseteq Pairs(new)
  /\ \A id \in DOMAIN files : new[id] = files[id]
  /\ \A p \in parts : new[p[1]] = p[2]

\* Parts are pairs of an identifier and a file.
ArePairs(parts) == \A p \in parts : p = <<p[1], p[2]>>

\* Parts without conflict are registered.
LEMMA RegisterHas ==
  ASSUME NEW files, NEW parts, ArePairs(parts), ~Conflict(files, parts)
  PROVE  Registered(Register(files, parts), files, parts)
<1>. PICK new : new = Register(files, parts)
  OBVIOUS
<1>1. /\ \A p \in parts : p[1] \in DOMAIN files => files[p[1]] = p[2]
      /\ \A p, q \in parts : p[1] = q[1] => p[2] = q[2]
  BY DEF Conflict
<1>2. new = [id \in DOMAIN files \cup {p[1] : p \in parts} |->
               IF id \in DOMAIN files THEN files[id] ELSE (CHOOSE p \in parts : p[1] = id)[2]]
  BY Zenon DEF Register
<1>3. /\ DOMAIN new = DOMAIN files \cup {p[1] : p \in parts}
      /\ \A id \in DOMAIN files : new[id] = files[id]
  BY <1>2
<1>4. ASSUME NEW p \in parts PROVE p[1] \in DOMAIN new /\ new[p[1]] = p[2]
  <2>0. p[1] \in DOMAIN new
    BY <1>3
  <2>1. CASE p[1] \in DOMAIN files
    BY <1>1, <1>3, <2>0, <2>1
  <2>2. CASE p[1] \notin DOMAIN files
    <3>. PICK q : q = CHOOSE r \in parts : r[1] = p[1]
      OBVIOUS
    <3>1. q \in parts /\ q[1] = p[1]
      BY Zenon
    <3>2. new[p[1]] = q[2]
      BY <1>2, <2>0, <2>2, Zenon
    <3>. QED
      BY <1>1, <2>0, <3>1, <3>2
  <2>. QED
    BY <2>1, <2>2
<1>5. parts \subseteq Pairs(new)
  <2>1. ASSUME NEW p \in parts PROVE p \in Pairs(new)
    <3>1. p = <<p[1], p[2]>>
      BY DEF ArePairs
    <3>2. p[1] \in DOMAIN new /\ p[2] = new[p[1]]
      BY <1>4
    <3>. QED
      BY <3>1, <3>2, PairsIs
  <2>. QED
    BY <2>1
<1>6. Pairs(files) \subseteq Pairs(new)
  <2>1. ASSUME NEW p \in Pairs(files) PROVE p \in Pairs(new)
    <3>1. p = <<p[1], p[2]>> /\ p[1] \in DOMAIN files /\ p[2] = files[p[1]]
      BY PairsIs
    <3>. QED
      BY <1>3, <3>1, PairsIs
  <2>. QED
    BY <2>1
<1>. QED
  BY <1>3, <1>4, <1>5, <1>6 DEF Registered

\* The parts of a block have the block's three identifiers.
LEMMA PartsArePairs ==
  ASSUME NEW f, NEW has, NEW p \in Parts(f, has)
  PROVE  /\ p = <<p[1], p[2]>> /\ p[1] \in IdsOf(f) /\ p[2] = [as |-> p[2].as, of |-> p[2].of]
         /\ p[2].as \in {"data", "enable", "offsets"}
  BY DEF Parts, IdsOf

\* What is wanted can be there, and is written or is there already.
Wants(wanted, written) ==
  \A p \in wanted : /\ p[1] \in Possible /\ p[1] \notin Documents(game)
                    /\ p[2].as \in {"data", "enable", "offsets"}
                    /\ p \in written \/ PartsFrom(game, {p})

\* What a document begins with: what there was, or its new definition with it.
BegunAs(begun, resources, id, document) ==
  begun = resources \/ begun = Over(resources, [x \in {id} |-> [as |-> "definition", of |-> document]])

\* One document more, its definition rewritten or not, leaves what is expected kept.
LEMMA ImportKept ==
  ASSUME NEW resources, NEW expected, Kept(resources, expected),
         NEW begun, NEW id \in Documents(game), NEW document,
         BegunAs(begun, resources, id, document),
         NEW wanted, NEW written \in SUBSET wanted,
         ArePairs(wanted), Wants(wanted, written),
         ~Conflict(expected, wanted), ~Conflict(begun, written)
  PROVE  Kept(Register(begun, written), Register(expected, wanted))
<1>. PICK new, next : new = Register(begun, written) /\ next = Register(expected, wanted)
  OBVIOUS
<1>0. /\ \A p \in wanted : /\ p = <<p[1], p[2]>> /\ p[1] \in Possible /\ p[1] \notin Documents(game)
                           /\ p[2].as \in {"data", "enable", "offsets"}
                           /\ p \in written \/ PartsFrom(game, {p})
  BY Zenon DEF ArePairs, Wants
<1>1. /\ DOMAIN next = DOMAIN expected \cup {p[1] : p \in wanted}
      /\ wanted \subseteq Pairs(next) /\ Pairs(expected) \subseteq Pairs(next)
      /\ \A x \in DOMAIN expected : next[x] = expected[x]
      /\ \A p \in wanted : next[p[1]] = p[2]
  <2>1. Registered(next, expected, wanted)
    BY RegisterHas
  <2>. QED
    BY <2>1, Zenon DEF Registered
<1>2. /\ DOMAIN new = DOMAIN begun \cup {p[1] : p \in written}
      /\ \A x \in DOMAIN begun : new[x] = begun[x]
      /\ \A p \in written : new[p[1]] = p[2]
  <2>1. ArePairs(written)
    BY DEF ArePairs
  <2>2. Registered(new, begun, written)
    BY <2>1, RegisterHas
  <2>. QED
    BY <2>2, Zenon DEF Registered
<1>3. /\ DOMAIN resources \subseteq DOMAIN begun /\ DOMAIN begun \subseteq DOMAIN resources \cup {id}
      /\ \A x \in DOMAIN begun : \/ x \in DOMAIN resources /\ begun[x] = resources[x]
                                 \/ x = id /\ begun[x].as = "definition"
  <2>1. CASE begun = resources
    BY <2>1
  <2>2. CASE begun = Over(resources, [x \in {id} |-> [as |-> "definition", of |-> document]])
    BY <2>2 DEF Over
  <2>. QED
    BY <2>1, <2>2 DEF BegunAs
<1>4. DOMAIN next \cap Documents(game) = {}
  <2>1. DOMAIN expected \cap Documents(game) = {}
    BY Zenon DEF Kept
  <2>2. ASSUME NEW x \in DOMAIN next PROVE x \notin Documents(game)
    <3>1. CASE x \in DOMAIN expected
      BY <2>1, <3>1
    <3>2. CASE \E p \in wanted : x = p[1]
      BY <1>0, <3>2
    <3>. QED
      BY <1>1, <3>1, <3>2
  <2>. QED
    BY <2>2
<1>5. DOMAIN new \subseteq Possible
  <2>1. id \in Possible
    BY DEF Documents, Possible
  <2>2. DOMAIN resources \subseteq Possible
    BY Zenon DEF Kept
  <2>3. ASSUME NEW x \in DOMAIN new PROVE x \in Possible
    <3>1. CASE x \in DOMAIN begun
      BY <1>3, <2>1, <2>2, <3>1
    <3>2. CASE \E p \in written : x = p[1]
      BY <1>0, <3>2
    <3>. QED
      BY <1>2, <3>1, <3>2
  <2>. QED
    BY <2>3
<1>6. ASSUME NEW x \in DOMAIN new
      PROVE  IF new[x].as = "definition" THEN x \in Documents(game) ELSE <<x, new[x]>> \in Pairs(next)
  <2>1. CASE x \in DOMAIN begun
    <3>1. CASE x \in DOMAIN resources /\ begun[x] = resources[x]
      BY <1>1, <1>2, <2>1, <3>1, Zenon DEF Kept
    <3>2. CASE x = id /\ begun[x].as = "definition"
      BY <1>2, <2>1, <3>2
    <3>. QED
      BY <1>3, <2>1, <3>1, <3>2
  <2>2. CASE \E p \in written : x = p[1]
    <3>1. PICK p \in written : x = p[1]
      BY <2>2
    <3>2. new[x] = p[2] /\ p \in wanted /\ p = <<p[1], p[2]>> /\ p[2].as \in {"data", "enable", "offsets"}
      BY <1>0, <1>2, <3>1
    <3>3. <<x, new[x]>> = p
      BY <3>1, <3>2, Zenon
    <3>. QED
      BY <1>1, <3>2, <3>3
  <2>. QED
    BY <1>2, <2>1, <2>2
<1>. PICK old : old = Final(resources)
  OBVIOUS
<1>. PICK fs : fs = Final(new)
  OBVIOUS
<1>7. /\ DOMAIN fs = DOMAIN game \cup DOMAIN new
      /\ \A x \in DOMAIN fs : fs[x] = IF x \in DOMAIN new THEN new[x] ELSE game[x]
      /\ DOMAIN old = DOMAIN game \cup DOMAIN resources
      /\ \A x \in DOMAIN old : old[x] = IF x \in DOMAIN resources THEN resources[x] ELSE game[x]
  BY DEF Final, Over
<1>8. ASSUME NEW x \in DOMAIN next
      PROVE  /\ x \in DOMAIN fs /\ next[x].as = fs[x].as /\ next[x].of = fs[x].of
             /\ next[x].as \in {"data", "enable", "offsets"}
  <2>1. next[x].as \in {"data", "enable", "offsets"}
    <3>1. CASE x \in DOMAIN expected
      <4>1. <<x, expected[x]>> \in Pairs(expected)
        BY <3>1 DEF Pairs
      <4>2. expected[x].as \in {"data", "enable", "offsets"}
        BY <4>1 DEF Kept, PartsFrom
      <4>. QED
        BY <1>1, <3>1, <4>2
    <3>2. CASE \E p \in wanted : x = p[1]
      BY <1>0, <1>1, <3>2
    <3>. QED
      BY <1>1, <3>1, <3>2
  <2>2. CASE x \in DOMAIN new
    <3>1. x \notin Documents(game)
      BY <1>4
    <3>2. <<x, new[x]>> \in Pairs(next)
      BY <1>6, <2>2, <3>1
    <3>3. new[x] = next[x]
      BY <3>2 DEF Pairs
    <3>. QED
      BY <1>7, <2>1, <2>2, <3>3
  <2>3. CASE x \notin DOMAIN new
    <3>1. x \notin DOMAIN resources /\ \A p \in written : x # p[1]
      BY <1>2, <1>3, <2>3
    <3>2. CASE x \in DOMAIN expected
      <4>1. <<x, expected[x]>> \in Pairs(expected)
        BY <3>2 DEF Pairs
      <4>2. x \in DOMAIN old /\ expected[x].as = old[x].as /\ expected[x].of = old[x].of
        BY <4>1 DEF Kept, PartsFrom
      <4>3. x \in DOMAIN game /\ old[x] = game[x] /\ x \in DOMAIN fs /\ fs[x] = game[x]
        BY <1>7, <2>3, <3>1, <4>2
      <4>. QED
        BY <1>1, <2>1, <3>2, <4>2, <4>3
    <3>3. CASE \E p \in wanted : x = p[1]
      <4>1. PICK p \in wanted : x = p[1]
        BY <3>3
      <4>2. PartsFrom(game, {p}) /\ next[x] = p[2]
        BY <1>0, <1>1, <3>1, <4>1
      <4>3. x \in DOMAIN game /\ p[2].as = game[x].as /\ p[2].of = game[x].of
        BY <4>1, <4>2 DEF PartsFrom
      <4>. QED
        BY <1>7, <2>1, <2>3, <4>2, <4>3
    <3>. QED
      BY <1>1, <3>2, <3>3
  <2>. QED
    BY <2>2, <2>3
<1>9. PartsFrom(fs, Pairs(next))
  <2>1. \A p \in Pairs(next) : p[1] \in DOMAIN next /\ p[2] = next[p[1]]
    BY PairsIs
  <2>2. ASSUME NEW p \in Pairs(next)
        PROVE  /\ p[1] \in DOMAIN fs /\ p[2].as = fs[p[1]].as /\ p[2].of = fs[p[1]].of
               /\ p[2].as \in {"data", "enable", "offsets"}
    BY <1>8, <2>1
  <2>. QED
    BY <2>2, Zenon DEF PartsFrom
<1>. QED
  BY <1>4, <1>5, <1>6, <1>9, Zenon DEF Kept

-----------------------------------------------------------------------------
(* A planned document, loaded again: it has the places of its edited definition,
   and every place the rows it was written with. *)

\* Each place belongs to one member, and each member to one place.
Matched(P, X, R) ==
  /\ \A p \in P : \E x \in X : <<p, x>> \in R
  /\ \A x \in X : \E p \in P : <<p, x>> \in R
  /\ \A p, q \in P : \A x, y \in X : <<p, x>> \in R /\ <<q, y>> \in R => (p = q <=> x = y)

\* Sets that are matched one to one have as many elements.
LEMMA SameNumber ==
  ASSUME NEW P, IsFiniteSet(P), NEW X, NEW R, Matched(P, X, R)
  PROVE  Cardinality(X) = Cardinality(P)
<1>. DEFINE g == [p \in P |-> CHOOSE x \in X : <<p, x>> \in R]
<1>1. /\ \A p \in P : \E x \in X : <<p, x>> \in R
      /\ \A x \in X : \E p \in P : <<p, x>> \in R
      /\ \A p, q \in P : \A x, y \in X : <<p, x>> \in R /\ <<q, y>> \in R => (p = q <=> x = y)
  BY Zenon DEF Matched
<1>2. \A p \in P : g[p] \in X /\ <<p, g[p]>> \in R
  BY <1>1
<1>3. g \in [P -> X]
  BY <1>2
<1>. HIDE DEF g
<1>4. ASSUME NEW p \in P, NEW q \in P, g[p] = g[q] PROVE p = q
  <2>. PICK x, y : x = g[p] /\ y = g[q]
    OBVIOUS
  <2>1. x \in X /\ y \in X /\ <<p, x>> \in R /\ <<q, y>> \in R /\ x = y
    BY <1>2, <1>4
  <2>2. \A v, w \in X : <<p, v>> \in R /\ <<q, w>> \in R => (p = q <=> v = w)
    BY <1>1, Zenon
  <2>3. p = q <=> x = y
    BY <2>1, <2>2, Zenon
  <2>. QED
    BY <2>1, <2>3
<1>5. ASSUME NEW x \in X PROVE \E p \in P : g[p] = x
  <2>1. PICK p \in P : <<p, x>> \in R
    BY <1>1
  <2>. PICK y : y = g[p]
    OBVIOUS
  <2>2. y \in X /\ <<p, y>> \in R
    BY <1>2
  <2>3. x = y
    BY <1>1, <2>1, <2>2, Zenon
  <2>. QED
    BY <2>3
<1>6. g \in Bijection(P, X)
  BY <1>3, <1>4, <1>5 DEF Bijection, Injection, Surjection, IsInjective
<1>. QED
  BY <1>6, FS_Bijection DEF ExistsBijection

\* The places of a document whose resources there can be.
Places(sheets) ==
  UNION {{<<i, k>> : k \in {j \in DOMAIN sheets[i].files : IdsOf(sheets[i].files[j]) \cap Possible # {}}} :
           i \in {l \in DOMAIN sheets : sheets[l].kind = "definition"}}

\* A place is a sheet of files and one of its files.
LEMMA PlaceIs ==
  ASSUME NEW sheets
  PROVE  /\ \A i, k : <<i, k>> \in Places(sheets) <=>
              /\ i \in DOMAIN sheets /\ sheets[i].kind = "definition" /\ k \in DOMAIN sheets[i].files
              /\ IdsOf(sheets[i].files[k]) \cap Possible # {}
         /\ \A at \in Places(sheets) : at = <<at[1], at[2]>>
<1>. DEFINE K(i) == {j \in DOMAIN sheets[i].files : IdsOf(sheets[i].files[j]) \cap Possible # {}}
            I == {l \in DOMAIN sheets : sheets[l].kind = "definition"}
<1>1. Places(sheets) = UNION {{<<i, k>> : k \in K(i)} : i \in I}
  BY Zenon DEF Places
<1>2. /\ \A i : i \in I <=> i \in DOMAIN sheets /\ sheets[i].kind = "definition"
      /\ \A i, k : k \in K(i) <=> k \in DOMAIN sheets[i].files /\ IdsOf(sheets[i].files[k]) \cap Possible # {}
  BY Zenon
<1>. HIDE DEF K, I
<1>3. \A i, k : <<i, k>> \in Places(sheets) <=> i \in I /\ k \in K(i)
  BY <1>1
<1>4. \A at \in Places(sheets) : at = <<at[1], at[2]>>
  BY <1>1
<1>. QED
  BY <1>2, <1>3, <1>4, Zenon

\* A document has finitely many places.
LEMMA FinitePlaces ==
  ASSUME NEW doc, NEW sheets, sheets = ParseDocument(doc), sheets # Refused
  PROVE  IsFiniteSet(Places(sheets))
<1>. PICK n : n = Len(doc.sheets)
  OBVIOUS
<1>. DEFINE f == [i \in 1 .. n |-> IF sheets[i].kind = "definition" THEN Len(sheets[i].files) ELSE 0]
<1>1. /\ \A i \in DOMAIN doc.sheets : SheetParses(doc.sheets[i])
      /\ sheets = [i \in DOMAIN doc.sheets |-> ParseSheet(doc.sheets[i])]
      /\ DOMAIN doc.sheets = 1 .. n /\ n \in Nat
  BY ParsedSheets
<1>2. DOMAIN sheets = 1 .. n
  BY <1>1
<1>3. ASSUME NEW i \in 1 .. n, sheets[i].kind = "definition"
      PROVE  Len(sheets[i].files) \in Nat /\ DOMAIN sheets[i].files = 1 .. Len(sheets[i].files)
  <2>1. sheets[i].files \in Seq(FileBlock)
    BY <1>1, <1>3, SheetIs
  <2>. QED
    BY <2>1
<1>4. f \in [1 .. n -> Nat]
  BY <1>3
<1>5. \A i \in 1 .. n : sheets[i].kind = "definition" => f[i] = Len(sheets[i].files)
  OBVIOUS
<1>. HIDE DEF f
<1>6. PICK u \in Nat : \A i \in 1 .. n : f[i] <= u
  BY <1>1, <1>4, Bounded
<1>7. IsFiniteSet((1 .. n) \X (1 .. u))
  <2>1. IsFiniteSet(1 .. n) /\ IsFiniteSet(1 .. u)
    BY <1>1, <1>6, FS_Interval
  <2>. QED
    BY <2>1, FS_Product
<1>8. ASSUME NEW at \in Places(sheets) PROVE at \in (1 .. n) \X (1 .. u)
  <2>. PICK i, k : i = at[1] /\ k = at[2]
    OBVIOUS
  <2>1. at = <<i, k>>
    BY PlaceIs
  <2>2. i \in 1 .. n /\ sheets[i].kind = "definition" /\ k \in DOMAIN sheets[i].files
    BY <1>2, <2>1, PlaceIs
  <2>3. k \in 1 .. f[i] /\ f[i] \in Nat
    BY <1>3, <1>4, <1>5, <2>2
  <2>4. f[i] <= u
    BY <1>6, <2>2
  <2>. QED
    BY <1>6, <2>1, <2>2, <2>3, <2>4
<1>. QED
  BY <1>7, <1>8, FS_Subset

\* What a check of a rewritten document has to find.
PlaceFits(v, s, f, expected) ==
  \E has, ids : /\ Parts(f, has) \subseteq Pairs(expected)
                /\ FilesSound(has, f, s.columns, ids) /\ <<f, ids>> \in v.blocks

\* A check fits the sheets of its document, and what is expected of them.
SheetsFit(v, sheets, expected) ==
  /\ sheets # Refused
  /\ \A s \in DefinitionsOf(sheets) : SheetAccepted(s)
  /\ ColumnsAgree(DefinitionsOf(sheets))
  /\ v.count = Cardinality(Places(sheets))
  /\ \A at \in Places(sheets) : PlaceFits(v, sheets[at[1]], sheets[at[1]].files[at[2]], expected)

\* A check fits when its document is to be written and fits, too.
Fits(v, resources, expected) ==
  /\ v.id \in DOMAIN resources /\ resources[v.id] = [as |-> "definition", of |-> v.document]
  /\ SheetsFit(v, ParseDocument(v.document), expected)

\* A document that fits is loaded with the blocks it was written with.
LEMMA FitLoads ==
  ASSUME NEW fs, NEW doc, NEW sheets, sheets = ParseDocument(doc), NEW v, NEW expected,
         SheetsFit(v, sheets, expected), PartsFrom(fs, Pairs(expected)), DOMAIN fs \subseteq Possible
  PROVE  /\ DocumentLoads(fs, sheets)
         /\ Cardinality(BlocksOf(fs, sheets)) = v.count
         /\ \A b \in BlocksOf(fs, sheets) : <<b.file, DOMAIN b.rows>> \in v.blocks
<1>. PICK P : P = Places(sheets)
  OBVIOUS
<1>1. /\ sheets # Refused
      /\ \A s \in DefinitionsOf(sheets) : SheetAccepted(s)
      /\ ColumnsAgree(DefinitionsOf(sheets))
      /\ v.count = Cardinality(P)
      /\ \A at \in P : PlaceFits(v, sheets[at[1]], sheets[at[1]].files[at[2]], expected)
  BY Zenon DEF SheetsFit
<1>2. \A i \in DOMAIN sheets : sheets[i].kind = "definition" => DOMAIN sheets[i].files \subseteq Nat
  <2>1. /\ \A i \in DOMAIN doc.sheets : SheetParses(doc.sheets[i])
        /\ sheets = [i \in DOMAIN doc.sheets |-> ParseSheet(doc.sheets[i])]
    BY <1>1, ParsedSheets
  <2>2. ASSUME NEW i \in DOMAIN sheets, sheets[i].kind = "definition" PROVE sheets[i].files \in Seq(FileBlock)
    BY <2>1, <2>2, SheetIs
  <2>. QED
    BY <2>2
<1>3. ASSUME NEW i \in DOMAIN sheets, sheets[i].kind = "definition", NEW k \in DOMAIN sheets[i].files,
             Shipped(fs, sheets[i].files[k])
      PROVE  <<i, k>> \in P
  <2>1. IdsOf(sheets[i].files[k]) \cap Possible # {} /\ k \in Nat
    BY <1>2, <1>3 DEF Shipped
  <2>. QED
    BY <1>3, <2>1, PlaceIs
<1>4. ASSUME NEW i, NEW k, <<i, k>> \in P
      PROVE  /\ i \in DOMAIN sheets /\ sheets[i].kind = "definition" /\ k \in DOMAIN sheets[i].files
             /\ Shipped(fs, sheets[i].files[k]) /\ BlockLoads(fs, sheets[i], sheets[i].files[k])
             /\ <<sheets[i].files[k], DOMAIN LoadRows(fs, sheets[i], sheets[i].files[k])>> \in v.blocks
  <2>. PICK s, f : s = sheets[i] /\ f = sheets[i].files[k]
    OBVIOUS
  <2>1. i \in DOMAIN sheets /\ sheets[i].kind = "definition" /\ k \in DOMAIN sheets[i].files
    BY <1>4, PlaceIs
  <2>2. PlaceFits(v, s, f, expected)
    BY <1>1, <1>4
  <2>3. PICK has, ids : Parts(f, has) \subseteq Pairs(expected) /\ FilesSound(has, f, s.columns, ids) /\ <<f, ids>> \in v.blocks
    BY <2>2, Zenon DEF PlaceFits
  <2>4. PartsFrom(fs, Parts(f, has))
    BY <2>3, Zenon DEF PartsFrom
  <2>5. Shipped(fs, f) /\ BlockLoads(fs, s, f) /\ DOMAIN LoadRows(fs, s, f) = ids
    BY <2>3, <2>4, Reload
  <2>. QED
    BY <2>1, <2>3, <2>5
<1>5. DocumentLoads(fs, sheets)
  <2>1. ASSUME NEW s \in DefinitionsOf(sheets), NEW f \in Range(s.files), Shipped(fs, f) PROVE BlockLoads(fs, s, f)
    <3>1. PICK i \in DOMAIN sheets : s = sheets[i] /\ sheets[i].kind = "definition"
      BY DEF DefinitionsOf, Range
    <3>2. PICK k \in DOMAIN sheets[i].files : f = sheets[i].files[k]
      BY <3>1 DEF Range
    <3>. QED
      BY <1>3, <1>4, <2>1, <3>1, <3>2
  <2>. QED
    BY <1>1, <2>1, Zenon DEF DocumentLoads
<1>6. ASSUME NEW b \in BlocksOf(fs, sheets)
      PROVE  \E i, k : /\ <<i, k>> \in P /\ b = LoadBlock(fs, sheets[i], <<i, k>>) /\ b.at = <<i, k>>
                       /\ <<b.file, DOMAIN b.rows>> \in v.blocks
  <2>1. PICK i \in DOMAIN sheets : /\ sheets[i].kind = "definition"
                                   /\ \E k \in DOMAIN sheets[i].files : PlaceLoads(b, fs, sheets[i], <<i, k>>)
    BY <1>1, <1>5, BlocksLoaded
  <2>2. PICK k \in DOMAIN sheets[i].files : PlaceLoads(b, fs, sheets[i], <<i, k>>)
    BY <2>1
  <2>. PICK s, f : s = sheets[i] /\ f = s.files[k]
    OBVIOUS
  <2>3. s.files[<<i, k>>[2]] = f
    OBVIOUS
  <2>4. b # None /\ b = LoadBlock(fs, s, <<i, k>>)
    BY <2>2, Zenon DEF PlaceLoads
  <2>5. /\ Shipped(fs, f) /\ b.file = f /\ b.at = <<i, k>> /\ b.rows = LoadRows(fs, s, f)
    BY <2>3, <2>4 DEF LoadBlock
  <2>6. <<i, k>> \in P
    BY <1>3, <2>1, <2>5
  <2>. QED
    <3>1. <<b.file, DOMAIN b.rows>> \in v.blocks
      BY <1>4, <2>5, <2>6
    <3>. QED
      BY <2>4, <2>5, <2>6, <3>1, Zenon
<1>7. ASSUME NEW i, NEW k, <<i, k>> \in P
      PROVE  LoadBlock(fs, sheets[i], <<i, k>>) \in BlocksOf(fs, sheets) /\ LoadBlock(fs, sheets[i], <<i, k>>).at = <<i, k>>
  <2>. PICK s, f, b : s = sheets[i] /\ f = s.files[k] /\ b = LoadBlock(fs, s, <<i, k>>)
    OBVIOUS
  <2>1. s.files[<<i, k>>[2]] = f
    OBVIOUS
  <2>2. Shipped(fs, f) /\ BlockLoads(fs, s, f) /\ i \in DOMAIN sheets /\ sheets[i].kind = "definition" /\ k \in DOMAIN s.files
    BY <1>4, <1>7
  <2>3. b.at = <<i, k>> /\ b.is = "block"
    BY <2>1, <2>2 DEF LoadBlock
  <2>4. b # None
    BY <2>3 DEF None
  <2>5. PlaceLoads(b, fs, s, <<i, k>>)
    BY <2>1, <2>2, <2>4, Zenon DEF PlaceLoads
  <2>. QED
    BY <1>1, <1>5, <2>2, <2>3, <2>5, BlocksLoaded
<1>. PICK X : X = BlocksOf(fs, sheets)
  OBVIOUS
<1>8. Matched(P, X, {<<b.at, b>> : b \in X})
  <2>. DEFINE R == {<<b.at, b>> : b \in X}
  <2>1. \A p, x : <<p, x>> \in R <=> x \in X /\ p = x.at
    OBVIOUS
  <2>2. \A p \in P : p = <<p[1], p[2]>>
    BY PlaceIs
  <2>3. \A p \in P : \E x \in X : p = x.at
    BY <1>7, <2>2
  <2>4. \A x \in X : x.at \in P
    BY <1>6
  <2>5. \A x, y \in X : x.at = y.at => x = y
    <3>. TAKE x, y \in X
    <3>. HAVE x.at = y.at
    <3>1. PICK i, k : x = LoadBlock(fs, sheets[i], <<i, k>>) /\ x.at = <<i, k>>
      BY <1>6
    <3>2. PICK j, l : y = LoadBlock(fs, sheets[j], <<j, l>>) /\ y.at = <<j, l>>
      BY <1>6
    <3>3. i = j /\ k = l
      BY <3>1, <3>2
    <3>. QED
      BY <3>1, <3>2, <3>3
  <2>. HIDE DEF R
  <2>6. Matched(P, X, R)
    BY <2>1, <2>3, <2>4, <2>5 DEF Matched
  <2>. QED
    BY <2>6 DEF R
<1>9. Cardinality(X) = v.count
  <2>1. IsFiniteSet(P)
    BY <1>1, FinitePlaces
  <2>. QED
    BY <1>1, <1>8, <2>1, SameNumber
<1>. QED
  BY <1>5, <1>6, <1>9

\* The files an edited block ended up with give its rows.
LEMMA VerifiedBlock ==
  ASSUME NEW e, EditedGood(e), PartsFrom(Over(game, overlay), Parts(e.block.file, e))
  PROVE  BlockVerified(e)
<1>. PICK fs : fs = Over(game, overlay)
  OBVIOUS
<1>. PICK f, columns : f = e.block.file /\ columns = e.block.columns
  OBVIOUS
<1>1. fs[f.data].of = e.data /\ fs[f.enable].of = e.enable /\ fs[f.offsets].of = e.offsets
  <2>1. \A p \in Parts(f, e) : p[2].of = fs[p[1]].of
    BY Zenon DEF PartsFrom
  <2>2. /\ <<f.data, [as |-> "data", of |-> e.data]>> \in Parts(f, e)
        /\ <<f.enable, [as |-> "enable", of |-> e.enable]>> \in Parts(f, e)
        /\ <<f.offsets, [as |-> "offsets", of |-> e.offsets]>> \in Parts(f, e)
    BY Zenon DEF Parts
  <2>. QED
    BY <2>1, <2>2
<1>2. /\ FilesSound(e, f, columns, DOMAIN e.rows)
      /\ \A t \in ParseOffsets(e.offsets).slots :
           /\ Bytes(e.data, t) = e.rows[f.begin + t.index]
           /\ RowParses(Bytes(e.data, t), SubSeq(columns, 1, Len(e.rows[f.begin + t.index])))
  BY Zenon DEF EditedGood
<1>3. /\ ParseEnable(e.enable).sound /\ ParseEnable(e.enable).ids = DOMAIN e.rows
      /\ ParseOffsets(e.offsets).sound /\ Len(e.offsets) <= f.count
      /\ ParseOffsets(e.offsets).length = Len(e.data)
      /\ {f.begin + t.index : t \in ParseOffsets(e.offsets).slots} = DOMAIN e.rows
  BY <1>2, Zenon DEF FilesSound, EnableRead
<1>. QED
  BY <1>1, <1>2, <1>3, Zenon DEF BlockVerified

\* An overlay that was written as decided is verified.
LEMMA Verified ==
  ASSUME NEW expected, Kept(overlay, expected)
  PROVE  /\ \A edited : Intended(edited, expected) => \A e \in edited : BlockVerified(e)
         /\ \A v : Fits(v, overlay, expected) => DocumentVerified(v)
<1>. PICK fs : fs = Over(game, overlay)
  OBVIOUS
<1>1. /\ PartsFrom(fs, Pairs(expected)) /\ DOMAIN overlay \subseteq Possible
  BY Zenon DEF Kept, Final
<1>2. /\ DOMAIN fs = DOMAIN game \cup DOMAIN overlay
      /\ \A id \in DOMAIN overlay : fs[id] = overlay[id]
  BY DEF Over
<1>3. DOMAIN fs \subseteq Possible
  BY <1>1, <1>2 DEF Possible
<1>4. ASSUME NEW edited, Intended(edited, expected), NEW e \in edited PROVE BlockVerified(e)
  <2>1. EditedGood(e) /\ Parts(e.block.file, e) \subseteq Pairs(expected)
    BY <1>4, Zenon DEF Intended
  <2>2. PartsFrom(fs, Parts(e.block.file, e))
    BY <1>1, <2>1, Zenon DEF PartsFrom
  <2>. QED
    BY <2>1, <2>2, VerifiedBlock
<1>5. ASSUME NEW v, Fits(v, overlay, expected) PROVE DocumentVerified(v)
  <2>. PICK document : document = v.document
    OBVIOUS
  <2>. PICK sheets : sheets = ParseDocument(document)
    OBVIOUS
  <2>1. /\ v.id \in DOMAIN overlay /\ overlay[v.id] = [as |-> "definition", of |-> document]
        /\ SheetsFit(v, sheets, expected)
    BY <1>5, Zenon DEF Fits
  <2>2. fs[v.id].of = document
    BY <1>2, <2>1
  <2>3. /\ DocumentLoads(fs, sheets)
        /\ Cardinality(BlocksOf(fs, sheets)) = v.count
        /\ \A b \in BlocksOf(fs, sheets) : <<b.file, DOMAIN b.rows>> \in v.blocks
    BY <1>1, <1>3, <2>1, FitLoads
  <2>. QED
    BY <2>2, <2>3, Zenon DEF DocumentVerified
<1>. QED
  BY <1>4, <1>5

-----------------------------------------------------------------------------
(* A rewritten definition keeps the columns of its sheets. *)

\* Two sheets of the same columns.
SameShape(old, new) ==
  /\ old.kind = "definition" /\ new.kind = "definition"
  /\ old.width = new.width /\ old.count = new.count /\ old.columns = new.columns /\ old.index = new.index

\* A sheet whose files are replaced keeps its columns.
LEMMA SplicedKeeps ==
  ASSUME NEW e, SheetParses(e), DOMAIN e.children # {}, NEW files, NEW f, f = SplicedElement(e, files)
  PROVE  SameShape(ParseSheet(e), ParseSheet(f))
<1>. DEFINE Some(x, tag) == \E c \in Range(x.children) : c.tag = tag
            The(x, tag) == CHOOSE c \in Range(x.children) : c.tag = tag
            Child(c) == IF c.tag # "block" THEN c
                        ELSE [tag |-> "block", params |-> c.params, declared |-> Len(files), files |-> files]
<1>1. f.children = [i \in DOMAIN e.children |-> Child(e.children[i])] /\ f.width = e.width /\ f.count = e.count
  BY DEF SplicedElement
<1>2. DOMAIN f.children = DOMAIN e.children
  BY <1>1
<1>3. \A i \in DOMAIN e.children : f.children[i] = Child(e.children[i])
  BY <1>1
<1>4. \A x : DOMAIN x.children # {} =>
        /\ ParseSheet(x).kind = "definition" /\ ParseSheet(x).width = x.width /\ ParseSheet(x).count = x.count
        /\ ParseSheet(x).columns = The(x, "type").params
        /\ ParseSheet(x).index = IF Some(x, "index") THEN The(x, "index").params ELSE <<>>
  BY DEF ParseSheet
<1>5. /\ \A i, j \in DOMAIN e.children : e.children[i].tag = e.children[j].tag => i = j
      /\ Some(e, "type")
  BY Zenon DEF SheetParses
<1>6. \A i \in DOMAIN e.children : /\ f.children[i].tag = e.children[i].tag
                                   /\ e.children[i].tag # "block" => f.children[i] = e.children[i]
  <2>1. \A c : Child(c).tag = c.tag /\ (c.tag # "block" => Child(c) = c)
    OBVIOUS
  <2>. HIDE DEF Child
  <2>. QED
    BY <1>3, <2>1
<1>. HIDE DEF Child
<1>7. ASSUME NEW tag, tag # "block", Some(e, tag) \/ Some(f, tag)
      PROVE  Some(e, tag) /\ Some(f, tag) /\ The(f, tag) = The(e, tag)
  <2>1. PICK i \in DOMAIN e.children : e.children[i].tag = tag
    BY <1>2, <1>6, <1>7 DEF Range
  <2>. PICK c : c = e.children[i]
    OBVIOUS
  <2>2. \A d \in Range(e.children) : d.tag = tag => d = c
    BY <1>5, <2>1 DEF Range
  <2>3. \A d \in Range(f.children) : d.tag = tag => d = c
    <3>. SUFFICES ASSUME NEW j \in DOMAIN f.children, f.children[j].tag = tag PROVE f.children[j] = c
      BY DEF Range
    <3>1. j = i
      BY <1>2, <1>5, <1>6, <2>1
    <3>. QED
      BY <1>2, <1>6, <1>7, <2>1, <3>1
  <2>4. c \in Range(e.children) /\ c \in Range(f.children) /\ c.tag = tag
    BY <1>2, <1>6, <1>7, <2>1 DEF Range
  <2>5. The(e, tag) = c
    BY <2>2, <2>4
  <2>6. The(f, tag) = c
    BY <2>3, <2>4
  <2>. QED
    BY <2>4, <2>5, <2>6
<1>. HIDE DEF Some, The
<1>8. The(f, "type") = The(e, "type")
  BY <1>5, <1>7
<1>9. Some(e, "index") \/ Some(f, "index") => Some(e, "index") /\ Some(f, "index") /\ The(f, "index") = The(e, "index")
  BY <1>7
<1>. PICK x, y : x = ParseSheet(e) /\ y = ParseSheet(f)
  OBVIOUS
<1>10. /\ x.kind = "definition" /\ y.kind = "definition" /\ x.width = y.width /\ x.count = y.count
       /\ x.columns = y.columns
  BY <1>1, <1>2, <1>4, <1>8
<1>11. x.index = y.index
  BY <1>2, <1>4, <1>9
<1>. QED
  BY <1>10, <1>11, Zenon DEF SameShape

\* So does every sheet of an edited definition.
LEMMA EditedShapes ==
  ASSUME NEW doc, NEW changes, changes # {}, ParseDocument(doc) # Refused,
         NEW document, document = EditDefinition(doc, changes), document # Refused,
         NEW s \in DOMAIN ParseDocument(document), ParseDocument(document)[s].kind = "definition"
  PROVE  SameShape(ParseDocument(doc)[s], ParseDocument(document)[s])
<1>. PICK old, new : old = ParseDocument(doc) /\ new = ParseDocument(document)
  OBVIOUS
<1>1. document = Spliced(doc, old, changes) /\ new # Refused
  BY Zenon DEF EditDefinition, EditSheets
<1>2. /\ \A i \in DOMAIN doc.sheets : SheetParses(doc.sheets[i])
      /\ old = [i \in DOMAIN doc.sheets |-> ParseSheet(doc.sheets[i])]
  BY ParsedSheets
<1>3. /\ \A i \in DOMAIN document.sheets : SheetParses(document.sheets[i])
      /\ new = [i \in DOMAIN document.sheets |-> ParseSheet(document.sheets[i])]
  BY <1>1, ParsedSheets
<1>4. document.sheets = [i \in DOMAIN doc.sheets |->
         IF old[i].kind = "reference" THEN doc.sheets[i]
         ELSE SplicedElement(doc.sheets[i], EditedFiles(old, changes, i))]
  BY <1>1 DEF Spliced
<1>5. DOMAIN new = DOMAIN old /\ DOMAIN old = DOMAIN doc.sheets /\ DOMAIN document.sheets = DOMAIN old
  BY <1>2, <1>3, <1>4
<1>. PICK e, f : e = doc.sheets[s] /\ f = document.sheets[s]
  OBVIOUS
<1>6. s \in DOMAIN old /\ new[s].kind = "definition"
  BY <1>5
<1>7. SheetParses(e) /\ old[s] = ParseSheet(e) /\ new[s] = ParseSheet(f)
  BY <1>2, <1>3, <1>5, <1>6
<1>8. \A x : ParseSheet(x).kind = IF DOMAIN x.children = {} THEN "reference" ELSE "definition"
  BY DEF ParseSheet
<1>9. f = IF old[s].kind = "reference" THEN e ELSE SplicedElement(e, EditedFiles(old, changes, s))
  BY <1>4, <1>5, <1>6
<1>10. DOMAIN e.children # {}
  BY <1>6, <1>7, <1>8, <1>9
<1>11. f = SplicedElement(e, EditedFiles(old, changes, s))
  BY <1>7, <1>8, <1>9, <1>10
<1>. QED
  BY <1>7, <1>10, <1>11, SplicedKeeps

\* Sheets of the same shapes are accepted alike, and agree on their columns alike.
LEMMA ShapesAccepted ==
  ASSUME NEW old, NEW new, DOMAIN new = DOMAIN old,
         \A s \in DOMAIN new : new[s].kind = "definition" => SameShape(old[s], new[s]),
         \A s \in DefinitionsOf(old) : SheetAccepted(s), ColumnsAgree(DefinitionsOf(old))
  PROVE  (\A s \in DefinitionsOf(new) : SheetAccepted(s)) /\ ColumnsAgree(DefinitionsOf(new))
<1>. PICK D, E : D = DefinitionsOf(old) /\ E = DefinitionsOf(new)
  OBVIOUS
<1>1. ASSUME NEW s \in E PROVE \E o \in D : SameShape(o, s)
  <2>1. PICK i \in DOMAIN new : s = new[i] /\ new[i].kind = "definition"
    BY DEF DefinitionsOf, Range
  <2>2. SameShape(old[i], new[i])
    BY <2>1
  <2>3. old[i] \in D
    BY <2>2 DEF SameShape, DefinitionsOf, Range
  <2>. QED
    BY <2>1, <2>2, <2>3
<1>2. ASSUME NEW s \in E PROVE SheetAccepted(s)
  <2>1. PICK o \in D : SameShape(o, s)
    BY <1>1
  <2>2. SheetAccepted(o)
    OBVIOUS
  <2>. PICK width, count, columns, index : width = s.width /\ count = s.count /\ columns = s.columns /\ index = s.index
    OBVIOUS
  <2>3. width = o.width /\ count = o.count /\ columns = o.columns /\ index = o.index
    BY <2>1, Zenon DEF SameShape
  <2>. QED
    BY <2>2, <2>3, Zenon DEF SheetAccepted
<1>3. ASSUME NEW c, NEW t \in TypesAt(E, c) PROVE t \in TypesAt(D, c)
  <2>1. PICK s \in E : \E k \in DOMAIN s.index : s.index[k] = c - 1 /\ t = s.columns[k]
    BY DEF TypesAt
  <2>2. PICK o \in D : SameShape(o, s)
    BY <1>1
  <2>3. \E k \in DOMAIN o.index : o.index[k] = c - 1 /\ t = o.columns[k]
    BY <2>1, <2>2 DEF SameShape
  <2>. QED
    BY <2>3 DEF TypesAt
<1>4. ASSUME NEW s \in E, NEW k \in DOMAIN s.index, NEW t \in TypesAt(E, s.index[k] + 1), NEW u \in TypesAt(E, s.index[k] + 1)
      PROVE  t = u
  <2>1. PICK o \in D : SameShape(o, s)
    BY <1>1
  <2>2. k \in DOMAIN o.index /\ o.index[k] = s.index[k]
    BY <2>1 DEF SameShape
  <2>3. t \in TypesAt(D, o.index[k] + 1) /\ u \in TypesAt(D, o.index[k] + 1)
    BY <1>3, <2>2
  <2>. QED
    BY <2>2, <2>3, Zenon DEF ColumnsAgree
<1>5. ColumnsAgree(E)
  BY <1>4, Zenon DEF ColumnsAgree
<1>. QED
  BY <1>2, <1>5

-----------------------------------------------------------------------------
(* The blocks of a planned document, one for every place of its edited definition. *)

\* A file keeps its place and its resources when it grows.
LEMMA GrownFileIs ==
  ASSUME NEW file \in FileBlock, NEW changes, NEW s, NEW i, NEW g, g = GrownFile(file, changes, s, i)
  PROVE  /\ g.begin = file.begin /\ g.data = file.data /\ g.enable = file.enable /\ g.offsets = file.offsets
         /\ g = file \/ \E e \in Grows(changes, s) : e.at = i /\ g.count = e.count
<1>. PICK hits : hits = {e \in Grows(changes, s) : e.at = i}
  OBVIOUS
<1>1. CASE hits = {}
  BY <1>1 DEF GrownFile
<1>2. CASE hits # {}
  <2>. PICK e : e = CHOOSE h \in hits : TRUE
    OBVIOUS
  <2>1. e \in Grows(changes, s) /\ e.at = i
    BY <1>2
  <2>. PICK count : count = e.count
    OBVIOUS
  <2>2. g = [file EXCEPT !.count = count]
    BY <1>2, Zenon DEF GrownFile
  <2>3. g.begin = file.begin /\ g.data = file.data /\ g.enable = file.enable /\ g.offsets = file.offsets /\ g.count = count
    BY <2>2 DEF FileBlock
  <2>. QED
    BY <2>1, <2>3
<1>. QED
  BY <1>1, <1>2

\* A block of a place, with the count its file gets.
GrownAt(x, b, sheets, changes, i, k) ==
  /\ i \in DOMAIN sheets /\ sheets[i].kind = "definition" /\ k \in DOMAIN sheets[i].files
  /\ PlaceLoads(b, game, sheets[i], <<i, k>>) /\ x = GrownBlock(b, changes)

\* A block that an edit adds.
AddedBy(x, e, sheets, blocks, changes) ==
  e \in changes /\ e.op = "insert" /\ x = AddedBlock(sheets, blocks, e)

\* Every planned block is a loaded one grown, or an added one.
LEMMA PlannedFrom ==
  ASSUME NEW doc, NEW sheets, sheets = ParseDocument(doc), sheets # Refused,
         NEW loaded, loaded = LoadDocument(game, sheets), loaded # Refused, NEW changes, NEW x
  PROVE  x \in PlannedBlocks(sheets, loaded.blocks, changes) <=>
           \/ \E b, i, k : GrownAt(x, b, sheets, changes, i, k)
           \/ \E e : AddedBy(x, e, sheets, loaded.blocks, changes)
<1>. PICK blocks : blocks = loaded.blocks
  OBVIOUS
<1>1. DocumentLoads(game, sheets) /\ blocks = BlocksOf(game, sheets)
  BY LoadedDocument
<1>2. \A b : b \in blocks <=>
        \E i \in DOMAIN sheets : /\ sheets[i].kind = "definition"
                                 /\ \E k \in DOMAIN sheets[i].files : PlaceLoads(b, game, sheets[i], <<i, k>>)
  BY <1>1, BlocksLoaded
<1>3. x \in PlannedBlocks(sheets, blocks, changes) <=>
        \/ \E b \in blocks : x = GrownBlock(b, changes)
        \/ \E e \in changes : e.op = "insert" /\ x = AddedBlock(sheets, blocks, e)
  BY DEF PlannedBlocks
<1>. QED
  BY <1>2, <1>3, Zenon DEF GrownAt, AddedBy

\* A block that a place loads has that place's file, and what the client has in it.
Placed(b, s, at) ==
  /\ GoodBlock(b) /\ b.file = s.files[at[2]] /\ b.columns = s.columns /\ b.at = at
  /\ PartsFrom(game, Parts(b.file, b)) /\ Shipped(game, b.file)

\* How its record looks like.
RecordOf(b, file, at, force, columns, index, rows, data, enable, offsets, flags) ==
  b = [is |-> "block", file |-> file, at |-> at, columns |-> columns, index |-> index,
       rows |-> rows, data |-> data, enable |-> enable, offsets |-> offsets, force |-> force, flags |-> flags]

\* The block with a placed file recorded in it.
Recorded(b, file, at, force) ==
  \E columns, index, rows, data, enable, offsets, flags :
    RecordOf(b, file, at, force, columns, index, rows, data, enable, offsets, flags)

\* A loaded block is placed and recorded.
LEMMA PlaceHas ==
  ASSUME NEW b, NEW s, NEW at, PlaceLoads(b, game, s, at), s.columns \in Seq(Types), s.files[at[2]] \in FileBlock
  PROVE  Placed(b, s, at) /\ Recorded(b, b.file, at, FALSE)
<1>. PICK f : f = s.files[at[2]]
  OBVIOUS
<1>1. b # None /\ b = LoadBlock(game, s, at)
  BY Zenon DEF PlaceLoads
<1>2. GoodBlock(b)
  BY LoadedGood
<1>2a. b.file = f /\ b.columns = s.columns /\ b.at = at
  BY <1>1 DEF LoadBlock
<1>2b. PartsFrom(game, Parts(b.file, b))
  BY LoadedGood
<1>3. Shipped(game, f)
  BY <1>1, Zenon DEF LoadBlock
<1>4. b = [is |-> "block", file |-> f, at |-> at, columns |-> s.columns, index |-> s.index,
           rows |-> LoadRows(game, s, f), data |-> game[f.data].of, enable |-> game[f.enable].of,
           offsets |-> game[f.offsets].of, force |-> FALSE, flags |-> [c \in DOMAIN s.columns |-> FALSE]]
  BY <1>1, <1>3, Zenon DEF LoadBlock
<1>5. Recorded(b, f, at, FALSE)
  <2>1. RecordOf(b, f, at, FALSE, s.columns, s.index, LoadRows(game, s, f), game[f.data].of, game[f.enable].of,
                 game[f.offsets].of, [c \in DOMAIN s.columns |-> FALSE])
    BY <1>4, Zenon DEF RecordOf
  <2>. QED
    BY <2>1, Zenon DEF Recorded
<1>. QED
  BY <1>2, <1>2a, <1>2b, <1>3, <1>5, Zenon DEF Placed

\* What GrownBlock makes of such a record.
GrowsTo(x, b, file, at) ==
  /\ x.file = file /\ x.at = at /\ x.columns = b.columns
  /\ x.rows = b.rows /\ x.data = b.data /\ x.enable = b.enable /\ x.offsets = b.offsets
  /\ x.force \in BOOLEAN

\* A grown block is the loaded one with a grown file.
LEMMA RecordGrows ==
  ASSUME NEW b, NEW f, NEW at, Recorded(b, f, at, FALSE), NEW changes, NEW x, x = GrownBlock(b, changes)
  PROVE  GrowsTo(x, b, GrownFile(f, changes, at[1], at[2]), at)
<1>1. PICK columns, index, rows, data, enable, offsets, flags :
        b = [is |-> "block", file |-> f, at |-> at, columns |-> columns, index |-> index,
             rows |-> rows, data |-> data, enable |-> enable, offsets |-> offsets, force |-> FALSE, flags |-> flags]
  BY Zenon DEF Recorded, RecordOf
<1>2. PICK g, forced : /\ g = GrownFile(b.file, changes, b.at[1], b.at[2])
                       /\ forced = \E e \in changes : e.op = "grow" /\ e.data = b.file.data
  OBVIOUS
<1>3. x = [b EXCEPT !.file = g, !.force = forced]
  BY <1>2, Zenon DEF GrownBlock
<1>4. x = [is |-> "block", file |-> g, at |-> at, columns |-> columns, index |-> index,
           rows |-> rows, data |-> data, enable |-> enable, offsets |-> offsets, force |-> forced, flags |-> flags]
  BY <1>1, <1>3
<1>5. b.file = f /\ b.at = at
  BY <1>1
<1>6. g = GrownFile(f, changes, at[1], at[2]) /\ forced \in BOOLEAN
  BY <1>2, <1>5
<1>7. /\ x.file = g /\ x.at = at /\ x.columns = b.columns /\ x.rows = b.rows /\ x.data = b.data
      /\ x.enable = b.enable /\ x.offsets = b.offsets /\ x.force = forced
  BY <1>1, <1>4
<1>. QED
  BY <1>6, <1>7, Zenon DEF GrowsTo

\* A grown block has its sheet's file, grown.
LEMMA GrownIs ==
  ASSUME NEW doc, NEW sheets, sheets = ParseDocument(doc), sheets # Refused,
         NEW changes, NEW x, NEW b, NEW i, NEW k, GrownAt(x, b, sheets, changes, i, k)
  PROVE  /\ Placed(b, sheets[i], <<i, k>>) /\ b.file = sheets[i].files[k]
         /\ GrowsTo(x, b, GrownFile(sheets[i].files[k], changes, i, k), <<i, k>>)
<1>. PICK s, f, at : s = sheets[i] /\ f = sheets[i].files[k] /\ at = <<i, k>>
  OBVIOUS
<1>1. /\ i \in DOMAIN sheets /\ s.kind = "definition" /\ k \in DOMAIN s.files
      /\ PlaceLoads(b, game, s, at) /\ x = GrownBlock(b, changes)
  BY Zenon DEF GrownAt
<1>2. s.columns \in Seq(Types) /\ f \in FileBlock
  <2>1. /\ \A n \in DOMAIN doc.sheets : SheetParses(doc.sheets[n])
        /\ sheets = [n \in DOMAIN doc.sheets |-> ParseSheet(doc.sheets[n])]
    BY ParsedSheets
  <2>2. s.files \in Seq(FileBlock) /\ s.columns \in Seq(Types)
    BY <1>1, <2>1, SheetIs
  <2>. QED
    BY <1>1, <2>2
<1>3. at[1] = i /\ at[2] = k /\ s.files[at[2]] = f /\ s.files[at[2]] \in FileBlock
  BY <1>2
<1>4. Placed(b, s, at) /\ Recorded(b, b.file, at, FALSE)
  BY <1>1, <1>2, <1>3, PlaceHas
<1>5. b.file = f
  BY <1>3, <1>4, Zenon DEF Placed
<1>6. GrowsTo(x, b, GrownFile(b.file, changes, at[1], at[2]), at)
  BY <1>1, <1>4, RecordGrows
<1>. QED
  BY <1>3, <1>4, <1>5, <1>6, Zenon

\* What AddedBlock makes: an empty block.
EmptyAt(x, file, at, columns) ==
  /\ x.file = file /\ x.at = at /\ x.columns = columns
  /\ x.rows = <<>> /\ x.data = <<>> /\ x.enable = <<>> /\ x.offsets = <<>> /\ x.force = TRUE

\* An added block is empty.
LEMMA AddedIs ==
  ASSUME NEW x, NEW e, NEW sheets, NEW blocks, NEW changes, AddedBy(x, e, sheets, blocks, changes)
  PROVE  EmptyAt(x, e.file, <<e.sheet, 0>>, sheets[e.sheet].columns)
<1>. PICK columns, file, sheet, index : columns = sheets[e.sheet].columns /\ file = e.file /\ sheet = e.sheet
                                       /\ index = sheets[e.sheet].index
  OBVIOUS
<1>1. \E flags : x = [is |-> "block", file |-> file, at |-> <<sheet, 0>>, columns |-> columns, index |-> index,
                      rows |-> <<>>, data |-> <<>>, enable |-> <<>>, offsets |-> <<>>, force |-> TRUE, flags |-> flags]
  BY Zenon DEF AddedBy, AddedBlock
<1>2. EmptyAt(x, file, <<sheet, 0>>, columns)
  BY <1>1 DEF EmptyAt
<1>. QED
  BY <1>2, Zenon

\* What is known of a document when its blocks are planned.
Planning(doc, sheets, loaded, changes, document) ==
  /\ sheets = ParseDocument(doc) /\ sheets # Refused /\ loaded = LoadDocument(game, sheets) /\ loaded # Refused
  /\ changes # {} => document = EditDefinition(doc, changes) /\ document # Refused

\* The entry of a planned block in its sheet.
Entry(x) == [at |-> x.at[2], file |-> x.file]

\* A planned block is an entry of its sheet.
PlannedAt(x, sheets, changes) ==
  /\ x.at[1] \in DOMAIN sheets /\ sheets[x.at[1]].kind = "definition" /\ sheets[x.at[1]].files # <<>>
  /\ x.columns = sheets[x.at[1]].columns /\ Entry(x) \in Entries(sheets, changes, x.at[1])

\* Every planned block has an entry in its sheet.
LEMMA PlannedEntry ==
  ASSUME NEW doc, NEW sheets, NEW loaded, NEW changes, NEW document, Planning(doc, sheets, loaded, changes, document),
         NEW x \in PlannedBlocks(sheets, loaded.blocks, changes)
  PROVE  PlannedAt(x, sheets, changes)
<1>1. /\ sheets = ParseDocument(doc) /\ sheets # Refused /\ loaded = LoadDocument(game, sheets) /\ loaded # Refused
      /\ changes # {} => document = EditDefinition(doc, changes) /\ document # Refused
  BY Zenon DEF Planning
<1>2. CASE \E b, i, k : GrownAt(x, b, sheets, changes, i, k)
  <2>1. PICK b, i, k : GrownAt(x, b, sheets, changes, i, k)
    BY <1>2
  <2>2. i \in DOMAIN sheets /\ sheets[i].kind = "definition" /\ k \in DOMAIN sheets[i].files
    BY <2>1, Zenon DEF GrownAt
  <2>. PICK g : g = GrownFile(sheets[i].files[k], changes, i, k)
    OBVIOUS
  <2>3. /\ Placed(b, sheets[i], <<i, k>>) /\ GrowsTo(x, b, g, <<i, k>>)
    BY <1>1, <2>1, GrownIs
  <2>4. x.file = g /\ x.at = <<i, k>> /\ x.columns = sheets[i].columns
    BY <2>3, Zenon DEF Placed, GrowsTo
  <2>5. x.at[1] = i /\ Entry(x) = [at |-> k, file |-> g]
    BY <2>4 DEF Entry
  <2>6. [at |-> k, file |-> g] \in Entries(sheets, changes, i)
    BY <2>2 DEF Entries
  <2>7. sheets[i].files # <<>>
    BY <2>2
  <2>. QED
    BY <2>2, <2>4, <2>5, <2>6, <2>7 DEF PlannedAt
<1>3. CASE \E e : AddedBy(x, e, sheets, loaded.blocks, changes)
  <2>1. PICK e : AddedBy(x, e, sheets, loaded.blocks, changes)
    BY <1>3
  <2>2. x.file = e.file /\ x.at = <<e.sheet, 0>> /\ x.columns = sheets[e.sheet].columns
    <3>1. EmptyAt(x, e.file, <<e.sheet, 0>>, sheets[e.sheet].columns)
      BY <2>1, AddedIs
    <3>. QED
      BY <3>1, Zenon DEF EmptyAt
  <2>3. e \in changes /\ e.op = "insert"
    BY <2>1, Zenon DEF AddedBy
  <2>4. EditsAdmitted(sheets, changes)
    BY <1>1, <2>3, Zenon DEF EditDefinition, EditSheets
  <2>5. e.sheet \in DOMAIN sheets /\ sheets[e.sheet].kind = "definition" /\ sheets[e.sheet].files # <<>>
    BY <2>3, <2>4, Zenon DEF EditsAdmitted
  <2>6. e \in Inserts(changes, e.sheet)
    BY <2>3 DEF Inserts
  <2>. PICK file, sheet : file = e.file /\ sheet = e.sheet
    OBVIOUS
  <2>7. [at |-> 0, file |-> file] \in Entries(sheets, changes, sheet)
    BY <2>6 DEF Entries
  <2>8. x.at[1] = sheet /\ Entry(x) = [at |-> 0, file |-> file]
    BY <2>2 DEF Entry
  <2>. QED
    BY <2>2, <2>5, <2>7, <2>8 DEF PlannedAt
<1>. QED
  BY <1>1, <1>2, <1>3, PlannedFrom

\* So its file is one of the edited document.
LEMMA PlannedFile ==
  ASSUME NEW doc, NEW sheets, NEW loaded, NEW changes, NEW document, Planning(doc, sheets, loaded, changes, document),
         changes # {}, NEW x, PlannedAt(x, sheets, changes),
         NEW new, new = ParseDocument(document)
  PROVE  /\ x.at[1] \in DOMAIN new /\ new[x.at[1]].kind = "definition" /\ new[x.at[1]].columns = x.columns
         /\ new[x.at[1]].files = EditedFiles(sheets, changes, x.at[1])
         /\ Arranged(Entries(sheets, changes, x.at[1])) # {}
         /\ x.file \in FileBlock
<1>. PICK s : s = x.at[1]
  OBVIOUS
<1>1. /\ sheets = ParseDocument(doc) /\ sheets # Refused /\ document = EditDefinition(doc, changes) /\ document # Refused
  BY Zenon DEF Planning
<1>2. /\ s \in DOMAIN sheets /\ sheets[s].kind = "definition" /\ sheets[s].files # <<>>
      /\ x.columns = sheets[s].columns /\ Entry(x) \in Entries(sheets, changes, s)
  BY Zenon DEF PlannedAt
<1>3. EditedSheets(sheets, new, changes)
  BY <1>1, EditedReads
<1>4. DOMAIN new = DOMAIN sheets /\ new[s].kind = "definition" /\ new[s].files \in Seq(FileBlock)
      /\ new[s].files = EditedFiles(sheets, changes, s) /\ Arranged(Entries(sheets, changes, s)) # {}
  BY <1>2, <1>3, Zenon DEF EditedSheets
<1>5. SameShape(sheets[s], new[s])
  BY <1>1, <1>2, <1>4, EditedShapes
<1>6. FilesAre(new[s].files, Entries(sheets, changes, s))
  BY <1>4, EditedEntries
<1>7. PICK l \in DOMAIN new[s].files : new[s].files[l] = Entry(x).file
  BY <1>2, <1>6, Zenon DEF FilesAre
<1>8. x.file \in FileBlock
  <2>1. Entry(x).file = x.file
    BY DEF Entry
  <2>. QED
    BY <1>4, <1>7, <2>1
<1>. QED
  BY <1>2, <1>4, <1>5, <1>8, Zenon DEF SameShape

\* What a planned block has is what its files hold.
LEMMA PlannedGood ==
  ASSUME NEW doc, NEW sheets, NEW loaded, NEW changes, NEW document, Planning(doc, sheets, loaded, changes, document),
         NEW x \in PlannedBlocks(sheets, loaded.blocks, changes)
  PROVE  GoodBlock(x)
<1>1. /\ sheets = ParseDocument(doc) /\ sheets # Refused /\ loaded = LoadDocument(game, sheets) /\ loaded # Refused
      /\ changes # {} => document = EditDefinition(doc, changes) /\ document # Refused
  BY Zenon DEF Planning
<1>2. PlannedAt(x, sheets, changes)
  BY PlannedEntry
<1>3. changes # {} => x.file \in FileBlock
  BY <1>2, PlannedFile
<1>4. /\ \A n \in DOMAIN doc.sheets : SheetParses(doc.sheets[n])
      /\ sheets = [n \in DOMAIN doc.sheets |-> ParseSheet(doc.sheets[n])]
  BY <1>1, ParsedSheets
<1>5. ASSUME NEW i \in DOMAIN sheets, sheets[i].kind = "definition"
      PROVE  sheets[i].files \in Seq(FileBlock) /\ sheets[i].columns \in Seq(Types)
  BY <1>4, <1>5, SheetIs
<1>6. changes # {} => EditsAdmitted(sheets, changes)
  BY <1>1, Zenon DEF EditDefinition, EditSheets
<1>7. CASE \E b, i, k : GrownAt(x, b, sheets, changes, i, k)
  <2>1. PICK b, i, k : GrownAt(x, b, sheets, changes, i, k)
    BY <1>7
  <2>2. i \in DOMAIN sheets /\ sheets[i].kind = "definition" /\ k \in DOMAIN sheets[i].files
    BY <2>1, Zenon DEF GrownAt
  <2>. PICK f, g : f = sheets[i].files[k] /\ g = GrownFile(f, changes, i, k)
    OBVIOUS
  <2>3. f \in FileBlock
    BY <1>5, <2>2
  <2>4. Placed(b, sheets[i], <<i, k>>) /\ b.file = f /\ GrowsTo(x, b, g, <<i, k>>)
    BY <1>1, <2>1, GrownIs
  <2>5. /\ GoodBlock(b) /\ x.file = g /\ x.columns = b.columns
        /\ x.rows = b.rows /\ x.data = b.data /\ x.enable = b.enable /\ x.offsets = b.offsets
    BY <2>4, Zenon DEF Placed, GrowsTo
  <2>6. /\ g.begin = f.begin /\ (g = f \/ \E e \in Grows(changes, i) : e.at = k /\ g.count = e.count)
    BY <2>3, GrownFileIs
  <2>7. f.count \in Nat
    BY <2>3, MaxRowAssumption DEF FileBlock
  <2>8. g \in FileBlock /\ g.count >= f.count
    <3>1. CASE g = f
      BY <2>3, <2>7, <3>1
    <3>2. CASE \E e \in Grows(changes, i) : e.at = k /\ g.count = e.count
      <4>1. PICK e \in Grows(changes, i) : e.at = k /\ g.count = e.count
        BY <3>2
      <4>2. changes # {} /\ e \in Grows(changes, i)
        BY DEF Grows
      <4>3. e.count >= sheets[i].files[e.at].count
        BY <1>6, <2>2, <4>2, Zenon DEF EditsAdmitted
      <4>. QED
        BY <1>3, <2>5, <4>1, <4>2, <4>3
    <3>. QED
      BY <2>6, <3>1, <3>2
  <2>. QED
    BY <2>4, <2>5, <2>6, <2>8, GrownGood
<1>8. CASE \E e : AddedBy(x, e, sheets, loaded.blocks, changes)
  <2>1. PICK e : AddedBy(x, e, sheets, loaded.blocks, changes)
    BY <1>8
  <2>2. e \in changes /\ e.op = "insert"
    BY <2>1, Zenon DEF AddedBy
  <2>3. EmptyAt(x, e.file, <<e.sheet, 0>>, sheets[e.sheet].columns)
    BY <2>1, AddedIs
  <2>4. /\ x.columns = sheets[e.sheet].columns
        /\ x.rows = <<>> /\ x.data = <<>> /\ x.enable = <<>> /\ x.offsets = <<>>
    BY <2>3, Zenon DEF EmptyAt
  <2>5. e.sheet \in DOMAIN sheets /\ sheets[e.sheet].kind = "definition"
    BY <1>6, <2>2, Zenon DEF EditsAdmitted
  <2>6. x.file \in FileBlock /\ x.columns \in Seq(Types)
    BY <1>3, <1>5, <2>2, <2>4, <2>5
  <2>. QED
    BY <2>4, <2>6, AddedGood
<1>. QED
  BY <1>1, <1>7, <1>8, PlannedFrom

\* A plan's resources are new.
PlanApart(sheets, changes) ==
  /\ \A e \in changes : e.op = "insert" => IdsOf(e.file) \subseteq Range(AddedIds(plan))
  /\ NamedIds(sheets) \cap Range(AddedIds(plan)) = {} /\ DOMAIN game \cap Range(AddedIds(plan)) = {}

\* Every entry whose resources there can be is that of a planned block.
LEMMA EntryPlanned ==
  ASSUME NEW doc, NEW sheets, NEW loaded, NEW changes, NEW document, Planning(doc, sheets, loaded, changes, document),
         PlanApart(sheets, changes), NEW s \in DOMAIN sheets, sheets[s].kind = "definition",
         NEW y \in Entries(sheets, changes, s), IdsOf(y.file) \cap Possible # {}
  PROVE  \E x \in PlannedBlocks(sheets, loaded.blocks, changes) : x.at[1] = s /\ Entry(x) = y
<1>1. /\ sheets = ParseDocument(doc) /\ sheets # Refused /\ loaded = LoadDocument(game, sheets) /\ loaded # Refused
  BY Zenon DEF Planning
<1>2. CASE \E k \in DOMAIN sheets[s].files : y = [at |-> k, file |-> GrownFile(sheets[s].files[k], changes, s, k)]
  <2>1. PICK k \in DOMAIN sheets[s].files : y = [at |-> k, file |-> GrownFile(sheets[s].files[k], changes, s, k)]
    BY <1>2
  <2>. PICK f, g : f = sheets[s].files[k] /\ g = GrownFile(f, changes, s, k)
    OBVIOUS
  <2>2. f \in FileBlock
    <3>1. /\ \A n \in DOMAIN doc.sheets : SheetParses(doc.sheets[n])
          /\ sheets = [n \in DOMAIN doc.sheets |-> ParseSheet(doc.sheets[n])]
      BY <1>1, ParsedSheets
    <3>2. sheets[s].files \in Seq(FileBlock)
      BY <3>1, SheetIs
    <3>. QED
      BY <3>2
  <2>3. y.file = g /\ IdsOf(g) = IdsOf(f)
    <3>1. g.data = f.data /\ g.enable = f.enable /\ g.offsets = f.offsets
      BY <2>2, GrownFileIs
    <3>. QED
      BY <2>1, <3>1 DEF IdsOf
  <2>4. IdsOf(f) \subseteq NamedIds(sheets)
    <3>1. sheets[s] \in Range(sheets) /\ f \in Range(sheets[s].files) /\ sheets[s].kind # "reference"
      BY <2>1 DEF Range
    <3>. QED
      BY <3>1 DEF NamedIds
  <2>5. Shipped(game, f)
    BY <2>3, <2>4 DEF PlanApart, Possible, Shipped
  <2>6. DocumentLoads(game, sheets)
    BY <1>1, LoadedDocument
  <2>7. BlockLoads(game, sheets[s], f)
    <3>1. sheets[s] \in DefinitionsOf(sheets) /\ f \in Range(sheets[s].files)
      BY <2>1 DEF Range, DefinitionsOf
    <3>. QED
      BY <2>5, <2>6, <3>1, Zenon DEF DocumentLoads
  <2>. PICK at, b : at = <<s, k>> /\ b = LoadBlock(game, sheets[s], at)
    OBVIOUS
  <2>8. at[1] = s /\ at[2] = k /\ sheets[s].files[at[2]] = f
    OBVIOUS
  <2>9. b # None
    <3>1. b.is = "block"
      BY <2>5, <2>8 DEF LoadBlock
    <3>. QED
      BY <3>1 DEF None
  <2>10. PlaceLoads(b, game, sheets[s], at)
    BY <2>7, <2>8, <2>9, Zenon DEF PlaceLoads
  <2>. PICK x : x = GrownBlock(b, changes)
    OBVIOUS
  <2>11. GrownAt(x, b, sheets, changes, s, k)
    BY <2>1, <2>10, Zenon DEF GrownAt
  <2>12. GrowsTo(x, b, g, <<s, k>>)
    BY <1>1, <2>11, GrownIs
  <2>13. x.file = g /\ x.at = <<s, k>>
    BY <2>12, Zenon DEF GrowsTo
  <2>14. x.at[1] = s /\ Entry(x) = [at |-> k, file |-> g]
    BY <2>13 DEF Entry
  <2>15. x \in PlannedBlocks(sheets, loaded.blocks, changes)
    BY <1>1, <2>11, PlannedFrom
  <2>. QED
    BY <2>1, <2>14, <2>15
<1>3. CASE \E e \in Inserts(changes, s) : y = [at |-> 0, file |-> e.file]
  <2>1. PICK e \in Inserts(changes, s) : y = [at |-> 0, file |-> e.file]
    BY <1>3
  <2>. PICK x : x = AddedBlock(sheets, loaded.blocks, e)
    OBVIOUS
  <2>2. e \in changes /\ e.op = "insert" /\ e.sheet = s
    BY DEF Inserts
  <2>3. AddedBy(x, e, sheets, loaded.blocks, changes)
    BY <2>2, Zenon DEF AddedBy
  <2>4. EmptyAt(x, e.file, <<e.sheet, 0>>, sheets[e.sheet].columns)
    BY <2>3, AddedIs
  <2>5. x.file = e.file /\ x.at = <<e.sheet, 0>>
    BY <2>4, Zenon DEF EmptyAt
  <2>. PICK file : file = e.file
    OBVIOUS
  <2>6. x.at[1] = s /\ Entry(x) = [at |-> 0, file |-> file]
    BY <2>2, <2>5 DEF Entry
  <2>7. x \in PlannedBlocks(sheets, loaded.blocks, changes)
    BY <1>1, <2>3, PlannedFrom
  <2>. QED
    BY <2>1, <2>6, <2>7
<1>. QED
  BY <1>2, <1>3 DEF Entries

\* The files of a planned block are of the client, or new.
FilesPossible(x) == IdsOf(x.file) \subseteq Possible /\ IdsOf(x.file) \cap Documents(game) = {}

\* A planned block's files can be there, and are there or are to be written.
LEMMA PlannedPossible ==
  ASSUME NEW doc, NEW sheets, NEW loaded, NEW changes, NEW document, Planning(doc, sheets, loaded, changes, document),
         PlanApart(sheets, changes), NEW x \in PlannedBlocks(sheets, loaded.blocks, changes)
  PROVE  /\ FilesPossible(x)
         /\ \/ PartsFrom(game, Parts(x.file, x))
            \/ changes # {} /\ x.force = TRUE
         /\ x.force \in BOOLEAN
<1>1. /\ sheets = ParseDocument(doc) /\ sheets # Refused /\ loaded = LoadDocument(game, sheets) /\ loaded # Refused
  BY Zenon DEF Planning
<1>2. CASE \E b, i, k : GrownAt(x, b, sheets, changes, i, k)
  <2>1. PICK b, i, k : GrownAt(x, b, sheets, changes, i, k)
    BY <1>2
  <2>. PICK f, g : f = sheets[i].files[k] /\ g = GrownFile(f, changes, i, k)
    OBVIOUS
  <2>2. Placed(b, sheets[i], <<i, k>>) /\ b.file = f /\ GrowsTo(x, b, g, <<i, k>>)
    BY <1>1, <2>1, GrownIs
  <2>3. /\ GoodBlock(b) /\ PartsFrom(game, Parts(f, b)) /\ x.file = g
        /\ x.data = b.data /\ x.enable = b.enable /\ x.offsets = b.offsets /\ x.force \in BOOLEAN
    BY <2>2, Zenon DEF Placed, GrowsTo
  <2>4. f \in FileBlock
    BY <2>2, <2>3, Zenon DEF GoodBlock
  <2>5. g.data = f.data /\ g.enable = f.enable /\ g.offsets = f.offsets
    BY <2>4, GrownFileIs
  <2>6. Parts(g, x) = Parts(f, b)
    BY <2>3, <2>5, Zenon DEF Parts
  <2>7. ASSUME NEW id \in IdsOf(g) PROVE id \in DOMAIN game /\ game[id].as # "definition"
    <3>1. id \in {f.data, f.enable, f.offsets}
      BY <2>5 DEF IdsOf
    <3>2. \E p \in Parts(f, b) : p[1] = id
      BY <3>1 DEF Parts
    <3>3. PICK p \in Parts(f, b) : p[1] = id
      BY <3>2
    <3>4. p[1] \in DOMAIN game /\ p[2].as = game[p[1]].as /\ p[2].as \in {"data", "enable", "offsets"}
      BY <2>3, Zenon DEF PartsFrom
    <3>. QED
      BY <3>3, <3>4
  <2>8. FilesPossible(x)
    BY <2>3, <2>7 DEF FilesPossible, Possible, Documents
  <2>. QED
    BY <2>3, <2>6, <2>8
<1>3. CASE \E e : AddedBy(x, e, sheets, loaded.blocks, changes)
  <2>1. PICK e : AddedBy(x, e, sheets, loaded.blocks, changes)
    BY <1>3
  <2>2. e \in changes /\ e.op = "insert"
    BY <2>1, Zenon DEF AddedBy
  <2>3. EmptyAt(x, e.file, <<e.sheet, 0>>, sheets[e.sheet].columns)
    BY <2>1, AddedIs
  <2>4. x.file = e.file /\ x.force = TRUE
    BY <2>3, Zenon DEF EmptyAt
  <2>5. IdsOf(e.file) \subseteq Range(AddedIds(plan)) /\ DOMAIN game \cap Range(AddedIds(plan)) = {}
    BY <2>2 DEF PlanApart
  <2>6. FilesPossible(x)
    BY <2>4, <2>5 DEF FilesPossible, Possible, Documents
  <2>. QED
    BY <2>2, <2>4, <2>6
<1>. QED
  BY <1>1, <1>2, <1>3, PlannedFrom

\* A planned block is known by its entry.
LEMMA EntryOne ==
  ASSUME NEW doc, NEW sheets, NEW loaded, NEW changes, NEW document, Planning(doc, sheets, loaded, changes, document),
         NEW x \in PlannedBlocks(sheets, loaded.blocks, changes), NEW y \in PlannedBlocks(sheets, loaded.blocks, changes),
         x.at[1] = y.at[1], Entry(x) = Entry(y)
  PROVE  x = y
<1>1. /\ sheets = ParseDocument(doc) /\ sheets # Refused /\ loaded = LoadDocument(game, sheets) /\ loaded # Refused
  BY Zenon DEF Planning
<1>. DEFINE Grown(z) == \E b, i, k : GrownAt(z, b, sheets, changes, i, k)
            Added(z) == \E e : AddedBy(z, e, sheets, loaded.blocks, changes)
<1>2. (Grown(x) \/ Added(x)) /\ (Grown(y) \/ Added(y))
  BY <1>1, PlannedFrom
<1>3. x.at[2] = y.at[2] /\ x.file = y.file
  <2>1. Entry(x).at = x.at[2] /\ Entry(x).file = x.file /\ Entry(y).at = y.at[2] /\ Entry(y).file = y.file
    BY DEF Entry
  <2>. QED
    BY <2>1
<1>4. ASSUME NEW z, NEW b, NEW i, NEW k, GrownAt(z, b, sheets, changes, i, k)
      PROVE  /\ z.at[1] = i /\ z.at[2] = k /\ k # 0
             /\ z = GrownBlock(LoadBlock(game, sheets[i], <<i, k>>), changes)
  <2>1. /\ i \in DOMAIN sheets /\ sheets[i].kind = "definition" /\ k \in DOMAIN sheets[i].files
        /\ PlaceLoads(b, game, sheets[i], <<i, k>>) /\ z = GrownBlock(b, changes)
    BY <1>4, Zenon DEF GrownAt
  <2>2. b = LoadBlock(game, sheets[i], <<i, k>>)
    BY <2>1, Zenon DEF PlaceLoads
  <2>3. GrowsTo(z, b, GrownFile(sheets[i].files[k], changes, i, k), <<i, k>>)
    BY <1>1, <1>4, GrownIs
  <2>4. z.at = <<i, k>>
    BY <2>3, Zenon DEF GrowsTo
  <2>5. k # 0
    <3>1. /\ \A n \in DOMAIN doc.sheets : SheetParses(doc.sheets[n])
          /\ sheets = [n \in DOMAIN doc.sheets |-> ParseSheet(doc.sheets[n])]
      BY <1>1, ParsedSheets
    <3>2. sheets[i].files \in Seq(FileBlock)
      BY <2>1, <3>1, SheetIs
    <3>. QED
      BY <2>1, <3>2
  <2>. QED
    BY <2>1, <2>2, <2>4, <2>5
<1>5. ASSUME NEW z, NEW e, AddedBy(z, e, sheets, loaded.blocks, changes)
      PROVE  z.at[1] = e.sheet /\ z.at[2] = 0 /\ z.file = e.file /\ z = AddedBlock(sheets, loaded.blocks, e)
  <2>1. EmptyAt(z, e.file, <<e.sheet, 0>>, sheets[e.sheet].columns) /\ z = AddedBlock(sheets, loaded.blocks, e)
    BY <1>5, AddedIs DEF AddedBy
  <2>2. z.at = <<e.sheet, 0>> /\ z.file = e.file
    BY <2>1, Zenon DEF EmptyAt
  <2>. QED
    BY <2>1, <2>2
<1>6. CASE Grown(x) /\ Grown(y)
  <2>1. PICK b, i, k : GrownAt(x, b, sheets, changes, i, k)
    BY <1>6
  <2>2. PICK c, j, l : GrownAt(y, c, sheets, changes, j, l)
    BY <1>6
  <2>3. /\ x.at[1] = i /\ x.at[2] = k /\ x = GrownBlock(LoadBlock(game, sheets[i], <<i, k>>), changes)
        /\ y.at[1] = j /\ y.at[2] = l /\ y = GrownBlock(LoadBlock(game, sheets[j], <<j, l>>), changes)
    BY <1>4, <2>1, <2>2
  <2>4. i = j /\ k = l
    BY <1>3, <2>3
  <2>. QED
    BY <2>3, <2>4, Zenon
<1>7. CASE Added(x) /\ Added(y)
  <2>1. PICK d : AddedBy(x, d, sheets, loaded.blocks, changes)
    BY <1>7
  <2>2. PICK e : AddedBy(y, e, sheets, loaded.blocks, changes)
    BY <1>7
  <2>3. /\ x.at[1] = d.sheet /\ x.file = d.file /\ x = AddedBlock(sheets, loaded.blocks, d)
        /\ y.at[1] = e.sheet /\ y.file = e.file /\ y = AddedBlock(sheets, loaded.blocks, e)
    BY <1>5, <2>1, <2>2
  <2>4. d.sheet = e.sheet /\ d.file = e.file
    BY <1>3, <2>3
  <2>. QED
    BY <2>3, <2>4, Zenon DEF AddedBlock
<1>8. ~(Grown(x) /\ Added(y)) /\ ~(Added(x) /\ Grown(y))
  <2>1. \A z : Grown(z) => z.at[2] # 0
    BY <1>4
  <2>2. \A z : Added(z) => z.at[2] = 0
    BY <1>5
  <2>. HIDE DEF Grown, Added
  <2>. QED
    BY <1>3, <2>1, <2>2
<1>. HIDE DEF Grown, Added
<1>. QED
  BY <1>2, <1>6, <1>7, <1>8

\* The place of an entry in the edited definition.
Order(sheets, changes, s) == CHOOSE q \in Arranged(Entries(sheets, changes, s)) : TRUE

\* A sequence of files in the order of the entries, each once.
Ordered(order, files, entries) ==
  /\ DOMAIN files = DOMAIN order
  /\ \A l \in DOMAIN files : order[l] \in entries /\ files[l] = order[l].file
  /\ \A y \in entries : \E l \in DOMAIN files : order[l] = y
  /\ \A l, m \in DOMAIN files : order[l] = order[m] => l = m

\* The edited files are ordered.
LEMMA OrderIs ==
  ASSUME NEW sheets, NEW changes, NEW s, Arranged(Entries(sheets, changes, s)) # {},
         NEW files, files = EditedFiles(sheets, changes, s)
  PROVE  Ordered(Order(sheets, changes, s), files, Entries(sheets, changes, s))
<1>. PICK entries : entries = Entries(sheets, changes, s)
  OBVIOUS
<1>. PICK order : order = Order(sheets, changes, s)
  OBVIOUS
<1>1. order \in Arranged(entries)
  BY DEF Order
<1>2. files = [i \in DOMAIN order |-> order[i].file]
  BY Zenon DEF EditedFiles, Order
<1>3. /\ order \in [1 .. Cardinality(entries) -> entries]
      /\ \A x \in entries : \E i \in 1 .. Cardinality(entries) : order[i] = x
      /\ \A i, j \in DOMAIN order : order[i] = order[j] => i = j
  BY <1>1, Zenon DEF Arranged, Bijection, Injection, Surjection, IsInjective
<1>4. DOMAIN order = 1 .. Cardinality(entries) /\ DOMAIN files = DOMAIN order
  BY <1>2, <1>3
<1>. QED
  BY <1>2, <1>3, <1>4 DEF Ordered

\* A planned block is what a place of the edited definition is about.
About(x, s, l, sheets, changes) == x.at[1] = s /\ Order(sheets, changes, s)[l] = Entry(x)

\* Every place of the edited definition whose resources there can be has a planned block.
LEMMA PlaceBlock ==
  ASSUME NEW doc, NEW sheets, NEW loaded, NEW changes, NEW document, Planning(doc, sheets, loaded, changes, document),
         changes # {}, PlanApart(sheets, changes), NEW new, new = ParseDocument(document),
         NEW s, NEW l, <<s, l>> \in Places(new)
  PROVE  \E x \in PlannedBlocks(sheets, loaded.blocks, changes) :
           About(x, s, l, sheets, changes) /\ x.file = new[s].files[l] /\ x.columns = new[s].columns
<1>1. /\ sheets = ParseDocument(doc) /\ sheets # Refused /\ document = EditDefinition(doc, changes) /\ document # Refused
  BY Zenon DEF Planning
<1>2. EditedSheets(sheets, new, changes)
  BY <1>1, EditedReads
<1>3. /\ s \in DOMAIN new /\ new[s].kind = "definition" /\ l \in DOMAIN new[s].files
      /\ IdsOf(new[s].files[l]) \cap Possible # {}
  BY PlaceIs
<1>4. /\ s \in DOMAIN sheets /\ sheets[s].kind = "definition" /\ new[s].files # <<>>
  BY <1>2, <1>3 DEF EditedSheets
<1>5. new[s].files = EditedFiles(sheets, changes, s) /\ Arranged(Entries(sheets, changes, s)) # {}
  BY <1>2, <1>3, <1>4, Zenon DEF EditedSheets
<1>. PICK order, files, entries :
       order = Order(sheets, changes, s) /\ files = new[s].files /\ entries = Entries(sheets, changes, s)
  OBVIOUS
<1>6. Ordered(order, files, entries)
  BY <1>5, OrderIs
<1>7. order[l] \in entries /\ files[l] = order[l].file
  BY <1>3, <1>6, Zenon DEF Ordered
<1>8. PICK x \in PlannedBlocks(sheets, loaded.blocks, changes) : x.at[1] = s /\ Entry(x) = order[l]
  BY <1>3, <1>4, <1>7, EntryPlanned
<1>9. x.file = files[l]
  <2>1. Entry(x).file = x.file
    BY DEF Entry
  <2>. QED
    BY <1>7, <1>8, <2>1
<1>10. x.columns = new[s].columns
  BY <1>8, PlannedEntry, PlannedFile
<1>. QED
  BY <1>8, <1>9, <1>10, Zenon DEF About

\* And every planned block has such a place.
LEMMA BlockPlace ==
  ASSUME NEW doc, NEW sheets, NEW loaded, NEW changes, NEW document, Planning(doc, sheets, loaded, changes, document),
         changes # {}, PlanApart(sheets, changes), NEW new, new = ParseDocument(document),
         NEW x \in PlannedBlocks(sheets, loaded.blocks, changes)
  PROVE  \E s, l : <<s, l>> \in Places(new) /\ About(x, s, l, sheets, changes)
<1>. PICK s : s = x.at[1]
  OBVIOUS
<1>1. PlannedAt(x, sheets, changes)
  BY PlannedEntry
<1>2. /\ s \in DOMAIN new /\ new[s].kind = "definition"
      /\ new[s].files = EditedFiles(sheets, changes, s) /\ Arranged(Entries(sheets, changes, s)) # {}
      /\ x.file \in FileBlock
  BY <1>1, PlannedFile
<1>. PICK order, files, entries :
       order = Order(sheets, changes, s) /\ files = new[s].files /\ entries = Entries(sheets, changes, s)
  OBVIOUS
<1>3. Ordered(order, files, entries)
  BY <1>2, OrderIs
<1>4. Entry(x) \in entries
  BY <1>1, Zenon DEF PlannedAt
<1>5. PICK l \in DOMAIN files : order[l] = Entry(x) /\ files[l] = order[l].file
  <2>. PICK y : y = Entry(x)
    OBVIOUS
  <2>. QED
    BY <1>3, <1>4 DEF Ordered
<1>6. files[l] = x.file
  <2>1. Entry(x).file = x.file
    BY DEF Entry
  <2>. QED
    BY <1>5, <2>1
<1>7. IdsOf(x.file) \cap Possible # {}
  <2>1. FilesPossible(x)
    BY PlannedPossible
  <2>. QED
    BY <2>1 DEF FilesPossible, IdsOf
<1>8. <<s, l>> \in Places(new)
  BY <1>2, <1>6, <1>7, PlaceIs
<1>. QED
  BY <1>5, <1>8, Zenon DEF About

\* So there are as many places as planned blocks.
LEMMA PlacesCounted ==
  ASSUME NEW doc, NEW sheets, NEW loaded, NEW changes, NEW document, Planning(doc, sheets, loaded, changes, document),
         changes # {}, PlanApart(sheets, changes), NEW new, new = ParseDocument(document), new # Refused
  PROVE  Cardinality(PlannedBlocks(sheets, loaded.blocks, changes)) = Cardinality(Places(new))
<1>. PICK X, P : X = PlannedBlocks(sheets, loaded.blocks, changes) /\ P = Places(new)
  OBVIOUS
<1>. DEFINE Of(p) == {x \in X : About(x, p[1], p[2], sheets, changes)}
            R == UNION {{<<p, x>> : x \in Of(p)} : p \in P}
<1>1. \A p, x : x \in Of(p) <=> x \in X /\ About(x, p[1], p[2], sheets, changes)
  OBVIOUS
<1>. HIDE DEF Of
<1>2. \A p, x : <<p, x>> \in R <=> p \in P /\ x \in Of(p)
  OBVIOUS
<1>. HIDE DEF R
<1>3. \A p, x : <<p, x>> \in R <=> p \in P /\ x \in X /\ About(x, p[1], p[2], sheets, changes)
  BY <1>1, <1>2, Zenon
<1>4. \A p \in P : p = <<p[1], p[2]>>
  BY PlaceIs
<1>5. ASSUME NEW p \in P PROVE \E x \in X : <<p, x>> \in R
  <2>1. <<p[1], p[2]>> \in P
    BY <1>4
  <2>2. \E x \in X : About(x, p[1], p[2], sheets, changes)
    BY <2>1, PlaceBlock
  <2>. QED
    BY <1>3, <2>2
<1>6. ASSUME NEW x \in X PROVE \E p \in P : <<p, x>> \in R
  <2>1. PICK s, l : <<s, l>> \in P /\ About(x, s, l, sheets, changes)
    BY BlockPlace
  <2>2. <<s, l>>[1] = s /\ <<s, l>>[2] = l
    OBVIOUS
  <2>. QED
    BY <1>3, <2>1, <2>2, Zenon
<1>7. ASSUME NEW p \in P, NEW q \in P, NEW x \in X, NEW y \in X, <<p, x>> \in R, <<q, y>> \in R
      PROVE  p = q <=> x = y
  <2>. PICK s, t, l, m : s = p[1] /\ t = q[1] /\ l = p[2] /\ m = q[2]
    OBVIOUS
  <2>1. p = <<s, l>> /\ q = <<t, m>>
    BY <1>4
  <2>2. About(x, s, l, sheets, changes) /\ About(y, t, m, sheets, changes)
    BY <1>3, <1>7
  <2>3. /\ x.at[1] = s /\ Order(sheets, changes, s)[l] = Entry(x)
        /\ y.at[1] = t /\ Order(sheets, changes, t)[m] = Entry(y)
    BY <2>2, Zenon DEF About
  <2>4. ASSUME p = q PROVE x = y
    <3>1. s = t /\ l = m
      BY <2>4
    <3>. QED
      BY <2>3, <3>1, EntryOne
  <2>5. ASSUME x = y PROVE p = q
    <3>1. s = t /\ Order(sheets, changes, s)[l] = Order(sheets, changes, s)[m]
      BY <2>3, <2>5
    <3>2. l \in DOMAIN new[s].files /\ m \in DOMAIN new[s].files
      BY <2>1, <3>1, PlaceIs
    <3>3. new[s].files = EditedFiles(sheets, changes, s) /\ Arranged(Entries(sheets, changes, s)) # {}
      BY <2>3, PlannedEntry, PlannedFile
    <3>4. Ordered(Order(sheets, changes, s), new[s].files, Entries(sheets, changes, s))
      BY <3>3, OrderIs
    <3>5. l = m
      <4>. PICK order, files, entries :
             order = Order(sheets, changes, s) /\ files = new[s].files /\ entries = Entries(sheets, changes, s)
        OBVIOUS
      <4>. QED
        BY <3>1, <3>2, <3>4 DEF Ordered
    <3>. QED
      BY <2>1, <3>1, <3>5
  <2>. QED
    BY <2>4, <2>5
<1>8. Matched(P, X, R)
  BY <1>5, <1>6, <1>7 DEF Matched
<1>9. IsFiniteSet(P)
  BY FinitePlaces
<1>. QED
  BY <1>8, <1>9, SameNumber

-----------------------------------------------------------------------------
(* One document more. *)

\* A block and what its CSV makes of it, or not: both can be written.
Edits(x, e) ==
  /\ GoodBlock(x) /\ FilesPossible(x) /\ x.force \in BOOLEAN
  /\ e # Refused /\ (e # None => e.block = x /\ EditedGood(e))
  /\ PartsFrom(game, Parts(x.file, x)) \/ (x.force = TRUE /\ e # None)

\* A block whose plan forces it is written.
LEMMA ForcedEdited ==
  ASSUME NEW b, b.force = TRUE, NEW table, NEW rows
  PROVE  EditBlock(table, rows, b) # None
<1>. PICK e : e = EditBlock(table, rows, b)
  OBVIOUS
<1>. SUFFICES ASSUME e = None PROVE FALSE
  OBVIOUS
<1>1. e # Refused
  BY ResultAssumption
<1>2. \E values : e = EncodeBlock(b, values)
  BY <1>1, Zenon DEF EditBlock
<1>3. PICK values : e = EncodeBlock(b, values)
  BY <1>2
<1>4. \E rows2, data, offsets, enable :
        e = [is |-> "edited", block |-> b, rows |-> rows2, data |-> data, offsets |-> offsets, enable |-> enable]
  BY <1>1, <1>3, Zenon DEF EncodeBlock
<1>. QED
  BY <1>4 DEF None

\* Every planned block, edited by its document's CSV.
LEMMA BlockEdits ==
  ASSUME NEW doc, NEW sheets, NEW loaded, NEW changes, NEW document, Planning(doc, sheets, loaded, changes, document),
         PlanApart(sheets, changes), NEW x \in PlannedBlocks(sheets, loaded.blocks, changes),
         NEW given, changes # {} => given, NEW table, NEW rows,
         NEW e, e = IF given THEN EditBlock(table, rows, x) ELSE None, e # Refused
  PROVE  Edits(x, e)
<1>1. GoodBlock(x)
  BY PlannedGood
<1>2. /\ FilesPossible(x) /\ x.force \in BOOLEAN
      /\ PartsFrom(game, Parts(x.file, x)) \/ (changes # {} /\ x.force = TRUE)
  BY PlannedPossible
<1>3. e # None => given /\ e = EditBlock(table, rows, x)
  OBVIOUS
<1>4. e # None => e.block = x /\ EditedGood(e)
  BY <1>1, <1>3, EditedIs
<1>5. changes # {} /\ x.force = TRUE => e # None
  BY ForcedEdited
<1>. QED
  BY <1>1, <1>2, <1>4, <1>5, Zenon DEF Edits

\* What is wanted of a block is written, or is there already.
LEMMA EditsWant ==
  ASSUME NEW x, NEW e, Edits(x, e)
  PROVE  /\ ArePairs(Wanted(x, e)) /\ Wants(Wanted(x, e), Written(x, e)) /\ Written(x, e) \subseteq Wanted(x, e)
         /\ FilesSound(IF e = None THEN x ELSE e, x.file, x.columns, IF e = None THEN DOMAIN x.rows ELSE DOMAIN e.rows)
<1>. PICK has : has = IF e = None THEN x ELSE e
  OBVIOUS
<1>1. Wanted(x, e) = Parts(x.file, has)
  BY Zenon DEF Wanted
<1>2. Written(x, e) = IF e = None THEN {} ELSE {p \in Wanted(x, e) : x.force \/ p \notin Parts(x.file, x)}
  BY Zenon DEF Written
<1>3. /\ GoodBlock(x) /\ FilesPossible(x) /\ x.force \in BOOLEAN
      /\ e # Refused /\ (e # None => e.block = x /\ EditedGood(e))
      /\ PartsFrom(game, Parts(x.file, x)) \/ (x.force = TRUE /\ e # None)
  BY Zenon DEF Edits
<1>4. \A p \in Parts(x.file, has) :
        /\ p = <<p[1], p[2]>> /\ p[1] \in IdsOf(x.file) /\ p[2].as \in {"data", "enable", "offsets"}
  BY PartsArePairs
<1>5. Written(x, e) \subseteq Wanted(x, e)
  BY <1>2
<1>6. ArePairs(Wanted(x, e))
  BY <1>1, <1>4, Zenon DEF ArePairs
<1>7. ASSUME NEW p \in Wanted(x, e)
      PROVE  /\ p[1] \in Possible /\ p[1] \notin Documents(game)
             /\ p[2].as \in {"data", "enable", "offsets"}
             /\ p \in Written(x, e) \/ PartsFrom(game, {p})
  <2>1. p[1] \in IdsOf(x.file) /\ p[2].as \in {"data", "enable", "offsets"}
    BY <1>1, <1>4
  <2>2. p[1] \in Possible /\ p[1] \notin Documents(game)
    BY <1>3, <2>1 DEF FilesPossible
  <2>3. ASSUME p \notin Written(x, e) PROVE PartsFrom(game, {p})
    <3>1. p \in Parts(x.file, x) /\ ~(x.force = TRUE /\ e # None)
      <4>1. CASE e = None
        BY <1>1, <4>1
      <4>2. CASE e # None
        BY <1>2, <2>3, <4>2
      <4>. QED
        BY <4>1, <4>2
    <3>2. PartsFrom(game, Parts(x.file, x))
      BY <1>3, <3>1
    <3>. QED
      BY <3>1, <3>2, Zenon DEF PartsFrom
  <2>. QED
    BY <2>1, <2>2, <2>3
<1>8. Wants(Wanted(x, e), Written(x, e))
  BY <1>7, Zenon DEF Wants
<1>9. CASE e = None
  <2>1. FilesSound(x, x.file, x.columns, DOMAIN x.rows)
    BY <1>3, Zenon DEF GoodBlock
  <2>. QED
    BY <1>5, <1>6, <1>8, <1>9, <2>1
<1>10. CASE e # None
  <2>1. FilesSound(e, x.file, x.columns, DOMAIN e.rows)
    BY <1>3, <1>10, Zenon DEF EditedGood
  <2>. QED
    BY <1>5, <1>6, <1>8, <1>10, <2>1
<1>. QED
  BY <1>9, <1>10

\* What all the blocks of a document want, and what of it is written.
WantedOf(blocks, edited) == UNION {Wanted(x, edited[x]) : x \in blocks}
WrittenOf(blocks, edited) == UNION {Written(x, edited[x]) : x \in blocks}

\* All the blocks of a document, edited or not.
EditsAll(blocks, edited) == \A x \in blocks : Edits(x, edited[x])

\* So with all the blocks of a document.
LEMMA DocumentWants ==
  ASSUME NEW blocks, NEW edited, EditsAll(blocks, edited),
         NEW wanted, wanted = WantedOf(blocks, edited), NEW written, written = WrittenOf(blocks, edited)
  PROVE  ArePairs(wanted) /\ Wants(wanted, written) /\ written \subseteq wanted
<1>1. \A x \in blocks : /\ ArePairs(Wanted(x, edited[x])) /\ Wants(Wanted(x, edited[x]), Written(x, edited[x]))
                        /\ Written(x, edited[x]) \subseteq Wanted(x, edited[x])
  BY EditsWant, EditsAll(blocks, edited) DEF EditsAll
<1>2. \A p \in wanted : \E x \in blocks : p \in Wanted(x, edited[x])
  BY DEF WantedOf
<1>3. \A x \in blocks : Written(x, edited[x]) \subseteq written /\ Wanted(x, edited[x]) \subseteq wanted
  BY DEF WantedOf, WrittenOf
<1>4. ASSUME NEW p \in wanted
      PROVE  /\ p = <<p[1], p[2]>> /\ p[1] \in Possible /\ p[1] \notin Documents(game)
             /\ p[2].as \in {"data", "enable", "offsets"}
             /\ p \in written \/ PartsFrom(game, {p})
  <2>1. PICK x \in blocks : p \in Wanted(x, edited[x])
    BY <1>2
  <2>2. ArePairs(Wanted(x, edited[x])) /\ Wants(Wanted(x, edited[x]), Written(x, edited[x]))
    BY <1>1
  <2>3. p = <<p[1], p[2]>>
    BY <2>1, <2>2, Zenon DEF ArePairs
  <2>4. /\ p[1] \in Possible /\ p[1] \notin Documents(game)
        /\ p[2].as \in {"data", "enable", "offsets"}
        /\ p \in Written(x, edited[x]) \/ PartsFrom(game, {p})
    BY <2>1, <2>2, Zenon DEF Wants
  <2>. QED
    BY <1>3, <2>3, <2>4
<1>5. written \subseteq wanted
  <2>1. \A p \in written : \E x \in blocks : p \in Written(x, edited[x])
    BY DEF WrittenOf
  <2>. HIDE DEF Written
  <2>. QED
    BY <1>1, <1>3, <2>1
<1>6. ArePairs(wanted)
  BY <1>4, Zenon DEF ArePairs
<1>7. Wants(wanted, written)
  BY <1>4, Zenon DEF Wants
<1>. QED
  BY <1>5, <1>6, <1>7

\* The changes a plan asks for in a document.
PlannedChanges(n, sheets, changes) ==
  /\ GrowEdits(n.name, sheets) # Refused /\ AddEdits(n.name, sheets) # Refused
  /\ changes = GrowEdits(n.name, sheets) \cup AddEdits(n.name, sheets)

\* An admitted plan keeps apart from what there is, and asks for CSVs that are there.
LEMMA AdmittedApart ==
  ASSUME PlanAdmitted(game), NEW n \in Named(game), NEW sheets, sheets = ParseDocument(game[n.id].of),
         NEW changes, PlannedChanges(n, sheets, changes)
  PROVE  PlanApart(sheets, changes) /\ (changes # {} => n.name \in DOMAIN csv)
<1>. PICK names, occupied :
       /\ names = {m.name : m \in Named(game)}
       /\ occupied = DOMAIN game \cup UNION {NamedIds(ParseDocument(game[m.id].of)) : m \in Named(game)}
  OBVIOUS
<1>1. /\ \A entry \in Range(plan.grow) \cup Range(plan.add) : entry.csv \in names \cap DOMAIN csv
      /\ \A id \in Range(AddedIds(plan)) : id # 0 /\ id \notin occupied
  BY Zenon DEF PlanAdmitted
<1>2. /\ GrowEdits(n.name, sheets) # Refused /\ AddEdits(n.name, sheets) # Refused
      /\ changes = GrowEdits(n.name, sheets) \cup AddEdits(n.name, sheets)
  BY Zenon DEF PlannedChanges
<1>3. NamedIds(sheets) \subseteq occupied /\ DOMAIN game \subseteq occupied
  OBVIOUS
<1>4. ASSUME NEW e \in changes, e.op = "insert" PROVE IdsOf(e.file) \subseteq Range(AddedIds(plan))
  <2>1. e \in Inserts(GrowEdits(n.name, sheets) \cup AddEdits(n.name, sheets), e.sheet)
    BY <1>2, <1>4 DEF Inserts
  <2>. QED
    BY <1>2, <2>1, InsertedAdded
<1>5. PlanApart(sheets, changes)
  BY <1>1, <1>3, <1>4 DEF PlanApart
<1>6. ASSUME NEW e \in changes PROVE n.name \in DOMAIN csv
  <2>1. CASE e \in GrowEdits(n.name, sheets)
    <3>1. PICK i \in DOMAIN plan.grow : plan.grow[i].csv = n.name
      BY <1>2, <2>1, GrowFrom
    <3>2. plan.grow[i] \in Range(plan.grow)
      BY DEF Range
    <3>. QED
      BY <1>1, <3>1, <3>2
  <2>2. CASE e \in AddEdits(n.name, sheets)
    <3>1. PICK i \in DOMAIN plan.add : plan.add[i].csv = n.name
      BY <1>2, <2>2, InsertFrom
    <3>2. plan.add[i] \in Range(plan.add)
      BY DEF Range
    <3>. QED
      BY <1>1, <3>1, <3>2
  <2>. QED
    BY <1>2, <2>1, <2>2
<1>. QED
  BY <1>5, <1>6

\* What is checked of a planned document.
Checks(v, id, document, blocks, edited) ==
  /\ v.id = id /\ v.document = document /\ v.count = Cardinality(blocks)
  /\ v.blocks = {<<x.file, IF edited[x] = None THEN DOMAIN x.rows ELSE DOMAIN edited[x].rows>> : x \in blocks}

\* The check fits what the document's blocks want.
LEMMA CheckFits ==
  ASSUME NEW doc, NEW sheets, NEW loaded, NEW changes, NEW document, Planning(doc, sheets, loaded, changes, document),
         changes # {}, PlanApart(sheets, changes), NEW new, new = ParseDocument(document),
         NEW blocks, blocks = PlannedBlocks(sheets, loaded.blocks, changes),
         NEW edited, \A x \in blocks : Edits(x, edited[x]),
         NEW expected, \A x \in blocks : Wanted(x, edited[x]) \subseteq Pairs(expected),
         NEW v, NEW id, Checks(v, id, document, blocks, edited)
  PROVE  SheetsFit(v, new, expected)
<1>1. /\ sheets = ParseDocument(doc) /\ sheets # Refused /\ loaded = LoadDocument(game, sheets) /\ loaded # Refused
      /\ document = EditDefinition(doc, changes) /\ document # Refused
  BY Zenon DEF Planning
<1>2. EditedSheets(sheets, new, changes)
  BY <1>1, EditedReads
<1>3. new # Refused /\ DOMAIN new = DOMAIN sheets
  <2>1. DOMAIN new = DOMAIN sheets
    BY <1>2, Zenon DEF EditedSheets
  <2>2. document = Spliced(doc, sheets, changes) /\ ParseDocument(document) # Refused
    BY <1>1, Zenon DEF EditDefinition, EditSheets
  <2>. QED
    BY <2>1, <2>2
<1>4. DocumentLoads(game, sheets)
  BY <1>1, LoadedDocument
<1>5. (\A s \in DefinitionsOf(sheets) : SheetAccepted(s)) /\ ColumnsAgree(DefinitionsOf(sheets))
  BY <1>4, Zenon DEF DocumentLoads
<1>6. \A s \in DOMAIN new : new[s].kind = "definition" => SameShape(sheets[s], new[s])
  BY <1>1, EditedShapes
<1>7. (\A s \in DefinitionsOf(new) : SheetAccepted(s)) /\ ColumnsAgree(DefinitionsOf(new))
  BY <1>3, <1>5, <1>6, ShapesAccepted
<1>8. v.count = Cardinality(Places(new))
  <2>1. v.count = Cardinality(blocks)
    BY Zenon DEF Checks
  <2>. QED
    BY <1>3, <2>1, PlacesCounted
<1>9. ASSUME NEW at \in Places(new) PROVE PlaceFits(v, new[at[1]], new[at[1]].files[at[2]], expected)
  <2>. PICK s, l : s = at[1] /\ l = at[2]
    OBVIOUS
  <2>1. <<s, l>> \in Places(new)
    BY PlaceIs
  <2>2. PICK x \in blocks : x.file = new[s].files[l] /\ x.columns = new[s].columns
    BY <2>1, PlaceBlock
  <2>. PICK e : e = edited[x]
    OBVIOUS
  <2>. PICK has, ids : /\ has = IF e = None THEN x ELSE e
                       /\ ids = IF e = None THEN DOMAIN x.rows ELSE DOMAIN e.rows
    OBVIOUS
  <2>3. Edits(x, e)
    OBVIOUS
  <2>4. FilesSound(has, x.file, x.columns, ids)
    BY <2>3, EditsWant
  <2>5. Parts(x.file, has) \subseteq Pairs(expected)
    <3>1. Wanted(x, e) = Parts(x.file, has)
      BY Zenon DEF Wanted
    <3>. QED
      BY <3>1
  <2>6. <<x.file, ids>> \in v.blocks
    <3>1. v.blocks = {<<y.file, IF edited[y] = None THEN DOMAIN y.rows ELSE DOMAIN edited[y].rows>> : y \in blocks}
      BY Zenon DEF Checks
    <3>. QED
      BY <3>1
  <2>7. PlaceFits(v, new[s], x.file, expected)
    BY <2>2, <2>4, <2>5, <2>6, Zenon DEF PlaceFits
  <2>. QED
    BY <2>2, <2>7
<1>. QED
  BY <1>3, <1>7, <1>8, <1>9, Zenon DEF SheetsFit

\* A document has one name.
LEMMA NamedOne ==
  ASSUME NEW fs, NEW n \in Named(fs), NEW m \in Named(fs), n.id = m.id
  PROVE  n = m
<1>. DEFINE Base(id) == ParseDocument(fs[id].of)[1].name
            NameOf(id) == <<Base(id), 1 + Cardinality({j \in Discover(fs) : j < id /\ Base(j) = Base(id)})>>
<1>1. Named(fs) = {[id |-> id, name |-> NameOf(id)] : id \in Discover(fs)}
  BY Zenon DEF Named, NameEach
<1>. HIDE DEF NameOf
<1>. QED
  BY <1>1

\* What an import has decided can be written and is verified.
Agreed(w, rest) ==
  /\ Kept(w.resources, w.expected) /\ Intended(w.intended, w.expected)
  /\ \A v \in w.verify : Fits(v, w.resources, w.expected) /\ \A m \in rest : m.id # v.id

\* A check goes on to fit when more is expected and its document stays.
LEMMA FitsMore ==
  ASSUME NEW v, NEW resources, NEW expected, Fits(v, resources, expected),
         NEW new, v.id \in DOMAIN new, new[v.id] = resources[v.id],
         NEW more, Pairs(expected) \subseteq Pairs(more)
  PROVE  Fits(v, new, more)
<1>. PICK sheets : sheets = ParseDocument(v.document)
  OBVIOUS
<1>1. /\ v.id \in DOMAIN resources /\ resources[v.id] = [as |-> "definition", of |-> v.document]
      /\ SheetsFit(v, sheets, expected)
  BY Zenon DEF Fits
<1>2. ASSUME NEW s, NEW f, PlaceFits(v, s, f, expected) PROVE PlaceFits(v, s, f, more)
  <2>1. PICK has, ids : /\ Parts(f, has) \subseteq Pairs(expected)
                        /\ FilesSound(has, f, s.columns, ids) /\ <<f, ids>> \in v.blocks
    BY <1>2, Zenon DEF PlaceFits
  <2>2. Parts(f, has) \subseteq Pairs(more)
    BY <2>1
  <2>. QED
    BY <2>1, <2>2, Zenon DEF PlaceFits
<1>3. SheetsFit(v, sheets, more)
  BY <1>1, <1>2, Zenon DEF SheetsFit
<1>. QED
  BY <1>1, <1>3, Zenon DEF Fits

\* What one document does, when it is not refused.
Imported(n, blocks, edited, changes, document, given, w) ==
  LET begun == IF changes = {} THEN work.resources
               ELSE Over(work.resources, [id \in {n.id} |-> [as |-> "definition", of |-> document]])
      wanted == UNION {Wanted(b, edited[b]) : b \in blocks}
      written == UNION {Written(b, edited[b]) : b \in blocks}
      check == [id |-> n.id, document |-> document, count |-> Cardinality(blocks),
                blocks |-> {<<b.file, IF edited[b] = None THEN DOMAIN b.rows ELSE DOMAIN edited[b].rows>> : b \in blocks}]
  IN /\ Refused \notin Range(edited) /\ ~Conflict(work.expected, wanted) /\ ~Conflict(begun, written)
     /\ w = [resources |-> Register(begun, written), expected |-> Register(work.expected, wanted),
             intended |-> work.intended \cup (Range(edited) \ {None}),
             verify |-> work.verify \cup (IF changes # {} /\ given THEN {check} ELSE {})]

\* The blocks of a document as its CSV edits them, where there is one.
EditedBy(edited, blocks, given, table, rows) ==
  edited = [b \in blocks |-> IF given THEN EditBlock(table, rows, b) ELSE None]

\* One document, with everything that is decided about it.
ImportOf(n, sheets, loaded, changes, document, edited) ==
  /\ n \in todo /\ n \in Named(game) /\ Discover(game) # Refused /\ todo' = todo \ {n}
  /\ sheets = ParseDocument(game[n.id].of) /\ PlannedChanges(n, sheets, changes)
  /\ Planning(game[n.id].of, sheets, loaded, changes, document)
  /\ \E rows : EditedBy(edited, PlannedBlocks(sheets, loaded.blocks, changes), n.name \in DOMAIN csv, loaded.table, rows)
  /\ Imported(n, PlannedBlocks(sheets, loaded.blocks, changes), edited, changes, document,
              n.name \in DOMAIN csv, work')

\* A document with its changes is refused, or decides as said.
LEMMA ParsedIs ==
  ASSUME NEW n, NEW table, NEW blocks, NEW changes, NEW document, ImportParsed(n, table, blocks, changes, document)
  PROVE  \/ Refuse("cells") \/ Refuse("conflict")
         \/ /\ todo' = todo \ {n} /\ UNCHANGED <<pc, why, overlay>>
            /\ Imported(n, blocks, [b \in blocks |-> IF n.name \in DOMAIN csv THEN EditBlock(table, csv[n.name].rows, b) ELSE None],
                        changes, document, n.name \in DOMAIN csv, work')
  BY ZenonT(30) DEF ImportParsed, Imported

\* One document is refused for another reason than the verification, or decides as said.
LEMMA ImportIs ==
  ASSUME WorkInv, ImportDocument
  PROVE  \/ pc' = "refused" /\ why' # "verification" /\ UNCHANGED <<todo, work, overlay>>
         \/ /\ UNCHANGED <<pc, why, overlay>>
            /\ \E n, sheets, loaded, changes, document, edited : ImportOf(n, sheets, loaded, changes, document, edited)
<1>1. PICK n, sheets, loaded, grows, adds :
        /\ pc = "documents" /\ n \in todo /\ sheets = ParseDocument(game[n.id].of)
        /\ loaded = LoadDocument(game, sheets)
        /\ grows = GrowEdits(n.name, sheets) /\ adds = AddEdits(n.name, sheets)
        /\ ImportLoaded(n, sheets, loaded, grows, adds)
  BY Zenon DEF ImportDocument
<1>2. n \in Named(game) /\ Discover(game) # Refused
  BY <1>1 DEF WorkInv
<1>3. sheets # Refused
  BY <1>1, <1>2, NamedParse
<1>. PICK changes : changes = grows \cup adds
  OBVIOUS
<1>. PICK document : document = EditDefinition(game[n.id].of, changes)
  OBVIOUS
<1>. PICK blocks : blocks = PlannedBlocks(sheets, loaded.blocks, changes)
  OBVIOUS
<1>4. \/ Refuse("document")
      \/ /\ loaded # Refused /\ grows # Refused /\ adds # Refused /\ (changes # {} => document # Refused)
         /\ ImportParsed(n, loaded.table, blocks, changes, document)
  BY <1>1, Zenon DEF ImportLoaded
<1>5. ASSUME NEW reason, reason # "verification", Refuse(reason)
      PROVE  pc' = "refused" /\ why' # "verification" /\ UNCHANGED <<todo, work, overlay>>
  BY <1>5, Zenon DEF Refuse
<1>6. CASE Refuse("document")
  BY <1>5, <1>6
<1>7. CASE /\ loaded # Refused /\ grows # Refused /\ adds # Refused /\ (changes # {} => document # Refused)
           /\ ImportParsed(n, loaded.table, blocks, changes, document)
  <2>. DEFINE given == n.name \in DOMAIN csv
              edited == [b \in blocks |-> IF given THEN EditBlock(loaded.table, csv[n.name].rows, b) ELSE None]
  <2>1. Planning(game[n.id].of, sheets, loaded, changes, document)
    BY <1>1, <1>3, <1>7, Zenon DEF Planning
  <2>2. PlannedChanges(n, sheets, changes)
    BY <1>1, <1>7, Zenon DEF PlannedChanges
  <2>3. \/ Refuse("cells") \/ Refuse("conflict")
        \/ /\ todo' = todo \ {n} /\ UNCHANGED <<pc, why, overlay>>
           /\ Imported(n, blocks, edited, changes, document, given, work')
    BY <1>7, ParsedIs, Zenon
  <2>4. EditedBy(edited, blocks, given, loaded.table, csv[n.name].rows)
    BY Zenon DEF EditedBy
  <2>. HIDE DEF edited
  <2>5. ASSUME todo' = todo \ {n}, Imported(n, blocks, edited, changes, document, given, work')
        PROVE  ImportOf(n, sheets, loaded, changes, document, edited)
    BY <1>1, <1>2, <2>1, <2>2, <2>4, <2>5, Zenon DEF ImportOf
  <2>6. CASE Refuse("cells") \/ Refuse("conflict")
    BY <1>5, <2>6
  <2>7. CASE /\ todo' = todo \ {n} /\ UNCHANGED <<pc, why, overlay>>
             /\ Imported(n, blocks, edited, changes, document, given, work')
    BY <2>5, <2>7, Zenon
  <2>. QED
    BY <2>3, <2>6, <2>7
<1>. QED
  BY <1>4, <1>6, <1>7

\* One document more: what it wants can be written, and its check fits.
LEMMA ImportAgrees ==
  ASSUME PlanAdmitted(game), Agreed(work, todo), NEW rest, rest = todo', rest \subseteq todo, todo \subseteq Named(game),
         NEW w, w = work',
         NEW n, NEW sheets, NEW loaded, NEW changes, NEW document, NEW edited,
         ImportOf(n, sheets, loaded, changes, document, edited)
  PROVE  Agreed(w, rest)
<1>. PICK doc : doc = game[n.id].of
  OBVIOUS
<1>. PICK blocks : blocks = PlannedBlocks(sheets, loaded.blocks, changes)
  OBVIOUS
<1>. PICK given : given = (n.name \in DOMAIN csv)
  OBVIOUS
<1>1. /\ n \in todo /\ n \in Named(game) /\ Discover(game) # Refused /\ rest = todo \ {n}
      /\ sheets = ParseDocument(doc) /\ PlannedChanges(n, sheets, changes)
      /\ Planning(doc, sheets, loaded, changes, document)
      /\ Imported(n, blocks, edited, changes, document, given, w)
  BY Zenon DEF ImportOf
<1>2. PICK rows : EditedBy(edited, blocks, given, loaded.table, rows)
  BY Zenon DEF ImportOf
<1>3. PlanApart(sheets, changes) /\ (changes # {} => given)
  BY <1>1, AdmittedApart
<1>4. edited = [b \in blocks |-> IF given THEN EditBlock(loaded.table, rows, b) ELSE None]
  BY <1>2, Zenon DEF EditedBy
<1>. PICK resources, expected : resources = work.resources /\ expected = work.expected
  OBVIOUS
<1>a. PICK begun, wanted, written, check :
       /\ begun = IF changes = {} THEN resources
                  ELSE Over(resources, [id \in {n.id} |-> [as |-> "definition", of |-> document]])
       /\ wanted = UNION {Wanted(b, edited[b]) : b \in blocks}
       /\ written = UNION {Written(b, edited[b]) : b \in blocks}
       /\ check = [id |-> n.id, document |-> document, count |-> Cardinality(blocks),
                   blocks |-> {<<b.file, IF edited[b] = None THEN DOMAIN b.rows ELSE DOMAIN edited[b].rows>> : b \in blocks}]
  OBVIOUS
<1>5. /\ Refused \notin Range(edited) /\ ~Conflict(expected, wanted) /\ ~Conflict(begun, written)
      /\ w = [resources |-> Register(begun, written), expected |-> Register(expected, wanted),
              intended |-> work.intended \cup (Range(edited) \ {None}),
              verify |-> work.verify \cup (IF changes # {} /\ given THEN {check} ELSE {})]
  BY <1>1, <1>a, Zenon DEF Imported
<1>b. PICK new, more : new = Register(begun, written) /\ more = Register(expected, wanted)
  OBVIOUS
<1>6. /\ w.resources = new /\ w.expected = more
      /\ w.intended = work.intended \cup (Range(edited) \ {None})
      /\ w.verify = work.verify \cup (IF changes # {} /\ given THEN {check} ELSE {})
  BY <1>5, <1>b
<1>7. /\ Kept(resources, expected) /\ Intended(work.intended, expected)
      /\ \A v \in work.verify : Fits(v, resources, expected) /\ \A m \in todo : m.id # v.id
  BY Zenon DEF Agreed
<1>8. \A x \in blocks : Edits(x, edited[x])
  <2>. TAKE x \in blocks
  <2>1. edited[x] = IF given THEN EditBlock(loaded.table, rows, x) ELSE None
    BY <1>4
  <2>2. edited[x] # Refused
    BY <1>4, <1>5 DEF Range
  <2>. QED
    BY <1>1, <1>3, <2>1, <2>2, BlockEdits
<1>9. ArePairs(wanted) /\ Wants(wanted, written) /\ written \subseteq wanted
  <2>1. wanted = WantedOf(blocks, edited) /\ written = WrittenOf(blocks, edited)
    BY <1>a, Zenon DEF WantedOf, WrittenOf
  <2>2. EditsAll(blocks, edited)
    BY <1>8, Zenon DEF EditsAll
  <2>. QED
    BY <2>1, <2>2, DocumentWants
<1>10. ArePairs(written)
  BY <1>9 DEF ArePairs
<1>11. Registered(more, expected, wanted) /\ Registered(new, begun, written)
  BY <1>5, <1>9, <1>10, <1>b, RegisterHas
<1>12. Pairs(expected) \subseteq Pairs(more) /\ wanted \subseteq Pairs(more)
  BY <1>11, Zenon DEF Registered
<1>13. Kept(new, more)
  <2>1. n.id \in Documents(game)
    BY <1>1, NamedParse
  <2>2. BegunAs(begun, resources, n.id, document)
    BY <1>a, Zenon DEF BegunAs
  <2>3. written \in SUBSET wanted
    BY <1>9
  <2>. PICK id : id = n.id
    OBVIOUS
  <2>4. Kept(Register(begun, written), Register(expected, wanted))
    BY <1>5, <1>7, <1>9, <2>1, <2>2, <2>3, ImportKept
  <2>. QED
    BY <2>4, <1>b
<1>14. Intended(w.intended, more)
  <2>. SUFFICES ASSUME NEW e \in w.intended PROVE EditedGood(e) /\ Parts(e.block.file, e) \subseteq Pairs(more)
    BY Zenon DEF Intended
  <2>1. CASE e \in work.intended
    <3>1. EditedGood(e) /\ Parts(e.block.file, e) \subseteq Pairs(expected)
      BY <1>7, <2>1, Zenon DEF Intended
    <3>. QED
      BY <1>12, <3>1
  <2>2. CASE e \in Range(edited) \ {None}
    <3>1. PICK x \in blocks : e = edited[x] /\ e # None
      BY <1>4, <2>2 DEF Range
    <3>2. Edits(x, e)
      BY <1>8, <3>1
    <3>3. e.block = x /\ EditedGood(e)
      BY <3>1, <3>2, Zenon DEF Edits
    <3>4. Wanted(x, e) = Parts(x.file, e)
      BY <3>1, Zenon DEF Wanted
    <3>5. Wanted(x, e) \subseteq wanted
      BY <3>1, <1>a
    <3>. QED
      BY <1>12, <3>3, <3>4, <3>5
  <2>. QED
    BY <1>6, <2>1, <2>2
<1>15. ASSUME NEW v \in w.verify PROVE Fits(v, new, more) /\ \A m \in rest : m.id # v.id
  <2>1. CASE v \in work.verify
    <3>1. Fits(v, resources, expected) /\ v.id # n.id /\ \A m \in rest : m.id # v.id
      BY <1>1, <1>7, <2>1
    <3>2. v.id \in DOMAIN resources
      BY <3>1, Zenon DEF Fits
    <3>3. v.id \in DOMAIN begun /\ begun[v.id] = resources[v.id]
      BY <3>1, <3>2, <1>a DEF Over
    <3>4. v.id \in DOMAIN new /\ new[v.id] = resources[v.id]
      BY <1>11, <3>3 DEF Registered
    <3>. QED
      BY <1>12, <3>1, <3>4, FitsMore
  <2>2. CASE changes # {} /\ given /\ v = check
    <3>. PICK read : read = ParseDocument(document)
      OBVIOUS
    <3>1. v.id = n.id /\ v.document = document /\ v.count = Cardinality(blocks)
          /\ v.blocks = {<<b.file, IF edited[b] = None THEN DOMAIN b.rows ELSE DOMAIN edited[b].rows>> : b \in blocks}
      BY <2>2, <1>a
    <3>2. Checks(v, n.id, document, blocks, edited)
      BY <3>1, Zenon DEF Checks
    <3>3. \A x \in blocks : Wanted(x, edited[x]) \subseteq Pairs(more)
      BY <1>12, <1>a
    <3>4. SheetsFit(v, read, more)
      BY <1>1, <1>3, <1>8, <2>2, <3>2, <3>3, CheckFits
    <3>5. n.id \in DOMAIN begun /\ begun[n.id] = [as |-> "definition", of |-> document]
      BY <2>2, <1>a DEF Over
    <3>6. n.id \in DOMAIN new /\ new[n.id] = [as |-> "definition", of |-> document]
      BY <1>11, <3>5 DEF Registered
    <3>7. Fits(v, new, more)
      BY <3>1, <3>4, <3>6, Zenon DEF Fits
    <3>8. \A m \in rest : m.id # v.id
      BY <1>1, <3>1, NamedOne
    <3>. QED
      BY <3>7, <3>8
  <2>. QED
    BY <1>6, <2>1, <2>2
<1>. QED
  BY <1>6, <1>13, <1>14, <1>15, Zenon DEF Agreed

-----------------------------------------------------------------------------
(* The invariant: what is decided can be written and is verified, and once it is
   written the overlay is what was decided. *)

AgreesInv ==
  /\ WorkInv /\ Agreed(work, todo)
  /\ pc = "documents" => PlanAdmitted(game)
  /\ pc = "verify" => overlay = work.resources
  /\ why # "verification"

\* Nothing decided is nothing to fail.
LEMMA NothingAgreed ==
  ASSUME NEW rest, NEW w, w = NoWork
  PROVE  Agreed(w, rest)
<1>1. /\ DOMAIN w.resources = {} /\ DOMAIN w.expected = {} /\ w.intended = {} /\ w.verify = {}
  BY DEF NoWork
<1>2. Pairs(w.expected) = {}
  BY <1>1 DEF Pairs
<1>3. Kept(w.resources, w.expected)
  BY <1>1, <1>2 DEF Kept, PartsFrom
<1>. QED
  BY <1>1, <1>3 DEF Agreed, Intended

\* And it stays so.
LEMMA NothingStays ==
  ASSUME work' = NoWork
  PROVE  Agreed(work, todo)'
<1>1. /\ DOMAIN work'.resources = {} /\ DOMAIN work'.expected = {} /\ work'.intended = {} /\ work'.verify = {}
  BY DEF NoWork
<1>2. Pairs(work'.expected) = {}
  BY <1>1 DEF Pairs
<1>3. Kept(work.resources, work.expected)'
  BY <1>1, <1>2 DEF Kept, PartsFrom
<1>4. Intended(work'.intended, work'.expected)
  BY <1>1 DEF Intended
<1>. QED
  BY <1>1, <1>3, <1>4 DEF Agreed

\* What is agreed is about the client and the plan only.
LEMMA AgreedStays ==
  ASSUME UNCHANGED <<game, plan>>, NEW w, NEW rest, Agreed(w, rest), work' = w, todo' = rest
  PROVE  Agreed(work, todo)'
<1>1. Possible' = Possible
  BY Zenon DEF Possible
<1>2. ASSUME NEW resources, NEW expected, Kept(resources, expected)
      PROVE  Kept(resources, expected)'
  <2>1. Final(resources)' = Final(resources)
    BY Zenon DEF Final
  <2>. QED
    BY <1>1, <1>2, <2>1, Zenon DEF Kept
<1>3. ASSUME NEW v, NEW resources, NEW expected, Fits(v, resources, expected)
      PROVE  Fits(v, resources, expected)'
  <2>1. Places(ParseDocument(v.document))' = Places(ParseDocument(v.document))
    <3>. PICK sheets : sheets = ParseDocument(v.document)
      OBVIOUS
    <3>1. \A at : at \in Places(sheets)' <=> at \in Places(sheets)
      BY <1>1 DEF Places
    <3>. QED
      BY <3>1
  <2>2. SheetsFit(v, ParseDocument(v.document), expected)'
    BY <1>3, <2>1, Zenon DEF Fits, SheetsFit
  <2>. QED
    BY <1>3, <2>2, Zenon DEF Fits
<1>4. /\ Kept(w.resources, w.expected) /\ Intended(w.intended, w.expected)
      /\ \A v \in w.verify : Fits(v, w.resources, w.expected) /\ \A m \in rest : m.id # v.id
  BY Zenon DEF Agreed
<1>5. Kept(w.resources, w.expected)'
  BY <1>2, <1>4
<1>6. \A v \in w.verify : Fits(v, w.resources, w.expected)'
  BY <1>3, <1>4
<1>. QED
  BY <1>4, <1>5, <1>6, Zenon DEF Agreed

\* Nothing is decided when the extraction is made.
LEMMA AgreesInit == Init => AgreesInv
<1>. SUFFICES ASSUME Init PROVE AgreesInv
  OBVIOUS
<1>1. pc = "edit" /\ work = NoWork /\ why = "nothing"
  BY Zenon DEF Init
<1>. QED
  BY <1>1, WorkInit, NothingAgreed DEF AgreesInv

\* Every step keeps what is decided fit to be verified.
LEMMA AgreesNext ==
  ASSUME AgreesInv, [Next]_vars
  PROVE  AgreesInv'
<1>1. /\ WorkInv /\ WorkInv' /\ Agreed(work, todo) /\ why # "verification"
      /\ pc = "documents" => PlanAdmitted(game)
      /\ pc = "verify" => overlay = work.resources
  BY WorkNext DEF AgreesInv
<1>2. CASE User
  <2>1. pc = "edit" /\ UNCHANGED <<pc, why, work>>
    BY <1>2, Zenon DEF User, Retype, DropRow, AddRow, Discard, WritePlan, Edited
  <2>2. work' = NoWork
    BY <1>1, <2>1 DEF WorkInv
  <2>3. Agreed(work, todo)'
    BY <2>2, NothingStays
  <2>. QED
    BY <1>1, <2>1, <2>3 DEF AgreesInv
<1>3. CASE Begin
  <2>1. /\ pc = "edit" /\ UNCHANGED <<game, csv, plan, work>>
        /\ \/ pc' = "documents" /\ PlanAdmitted(game) /\ UNCHANGED why
           \/ pc' = "refused" /\ why' = "plan"
    BY <1>3, Zenon DEF Begin, Refuse
  <2>2. work' = NoWork
    BY <1>1, <2>1 DEF WorkInv
  <2>3. Agreed(work, todo)'
    BY <2>2, NothingStays
  <2>4. PlanAdmitted(game) => PlanAdmitted(game)'
    BY <2>1, Zenon DEF PlanAdmitted
  <2>. QED
    BY <1>1, <2>1, <2>3, <2>4 DEF AgreesInv
<1>4. CASE ImportDocument
  <2>1. pc = "documents" /\ UNCHANGED <<game, csv, plan>>
    BY <1>4, Zenon DEF ImportDocument
  <2>2. PlanAdmitted(game)'
    BY <1>1, <2>1, Zenon DEF PlanAdmitted
  <2>3. CASE pc' = "refused" /\ why' # "verification" /\ UNCHANGED <<todo, work, overlay>>
    <3>. PICK w, rest : w = work /\ rest = todo
      OBVIOUS
    <3>1. Agreed(w, rest) /\ work' = w /\ todo' = rest
      BY <1>1, <2>3
    <3>2. Agreed(work, todo)'
      BY <2>1, <3>1, AgreedStays
    <3>. QED
      BY <1>1, <2>3, <3>2 DEF AgreesInv
  <2>4. CASE UNCHANGED <<pc, why, overlay>> /\
             \E n, sheets, loaded, changes, document, edited :
               ImportOf(n, sheets, loaded, changes, document, edited)
    <3>1. PICK n, sheets, loaded, changes, document, edited :
            ImportOf(n, sheets, loaded, changes, document, edited)
      BY <2>4
    <3>2. todo' \subseteq todo /\ todo \subseteq Named(game)
      <4>1. todo' = todo \ {n}
        BY <3>1, Zenon DEF ImportOf
      <4>. QED
        BY <1>1, <2>1, <4>1 DEF WorkInv
    <3>. PICK w, rest : w = work' /\ rest = todo'
      OBVIOUS
    <3>3. Agreed(w, rest)
      BY <1>1, <2>1, <3>1, <3>2, ImportAgrees
    <3>4. Agreed(work, todo)'
      BY <2>1, <3>3, AgreedStays
    <3>. QED
      BY <1>1, <2>1, <2>2, <2>4, <3>4 DEF AgreesInv
  <2>. QED
    BY <1>1, <1>4, <2>3, <2>4, ImportIs
<1>5. CASE Write
  <2>1. UNCHANGED <<game, plan, work, todo>> /\ pc' # "documents"
        /\ (pc' = "verify" => overlay' = work.resources) /\ why' \in {why, "io"}
    BY <1>5, Zenon DEF Write, Refuse
  <2>. PICK w, rest : w = work /\ rest = todo
    OBVIOUS
  <2>2. Agreed(work, todo)'
    BY <1>1, <2>1, AgreedStays
  <2>. QED
    BY <1>1, <2>1, <2>2 DEF AgreesInv
<1>6. CASE Verify
  <2>1. pc = "verify" /\ UNCHANGED <<game, plan>>
    BY <1>6, Zenon DEF Verify
  <2>2. /\ Kept(overlay, work.expected) /\ Intended(work.intended, work.expected)
        /\ \A v \in work.verify : Fits(v, overlay, work.expected)
    BY <1>1, <2>1 DEF Agreed
  <2>3. (\A e \in work.intended : BlockVerified(e)) /\ \A v \in work.verify : DocumentVerified(v)
    <3>. PICK edited, expected : edited = work.intended /\ expected = work.expected
      OBVIOUS
    <3>. QED
      BY <2>2, Verified
  <2>4. pc' = "done" /\ UNCHANGED <<why, todo, work, overlay>>
    BY <1>6, <2>3, Zenon DEF Verify
  <2>. PICK w, rest : w = work /\ rest = todo
    OBVIOUS
  <2>5. Agreed(work, todo)'
    BY <1>1, <2>1, <2>4, AgreedStays
  <2>. QED
    BY <1>1, <2>4, <2>5 DEF AgreesInv
<1>7. CASE Again
  <2>1. work' = NoWork /\ pc' = "edit" /\ why' = "nothing"
    BY <1>7, Zenon DEF Again
  <2>2. Agreed(work, todo)'
    BY <2>1, NothingStays
  <2>. QED
    BY <1>1, <2>1, <2>2 DEF AgreesInv
<1>8. CASE UNCHANGED vars
  <2>1. UNCHANGED <<game, csv, plan, pc, why, todo, work, overlay>>
    BY <1>8, Zenon DEF vars
  <2>. PICK w, rest : w = work /\ rest = todo
    OBVIOUS
  <2>2. Agreed(work, todo)'
    BY <1>1, <2>1, AgreedStays
  <2>3. PlanAdmitted(game) => PlanAdmitted(game)'
    BY <2>1, Zenon DEF PlanAdmitted
  <2>. QED
    BY <1>1, <2>1, <2>2, <2>3 DEF AgreesInv
<1>. QED
  BY <1>2, <1>3, <1>4, <1>5, <1>6, <1>7, <1>8, Zenon DEF Next

(* For every client tree, every plan and every CSV, and after any number of rounds:
   the verification of an overlay that was written as decided never fails.  The
   enable ranges and the offsets of every encoded block are read back as its rows,
   its resources have what it wants whichever document wanted them first, and a
   rewritten definition is loaded again with the blocks it was written with
   (verify_written, load_document_overlay, edit_block_with_defaults). *)
THEOREM Agrees == Spec => []VerificationAgrees
<1>1. AgreesInv => VerificationAgrees
  BY DEF AgreesInv, VerificationAgrees
<1>. QED
  BY AgreesInit, AgreesNext, <1>1, PTL DEF Spec
=============================================================================
