------------------------- MODULE ExtractVerify_proofs -------------------------
(***************************************************************************)
(* Theorems about ExtractVerify, for every number of runs, every number of *)
(* payload files and every number of changes by the user.                  *)
(***************************************************************************)
EXTENDS ExtractVerify, TLAPS

USE WritersAssumption, NobodyAssumption, FilesAssumption, UserMovesAssumption,
    NoFileAssumption, NoDirAssumption

\* The names are numbers, the two manifests after every payload.
LEMMA Names ==
  /\ Item \subseteq Name /\ Doc \subseteq Name /\ Item \cap Doc = {}
  /\ \A n \in Item : n \in Nat /\ n >= 1 /\ n <= Files
  /\ \A d \in Doc : d \in Nat /\ d > Files
  /\ \A n \in Name : n \in Item \/ n \in Doc
  /\ JsonDoc # YamlDoc
BY DEF Name, Item, Doc, JsonDoc, YamlDoc

\* The file a run is at is one of the names, a payload until the last.
LEMMA AtAName ==
  ASSUME TypeOK, NEW w \in Writer
  PROVE  /\ next[w] \in Nat /\ next[w] >= 1
         /\ next[w] <= Files => NameAt(w) = next[w] /\ NameAt(w) \in Item
         /\ next[w] > Files => /\ next[w] = Files + 1
                               /\ NameAt(w) = DocOf(w) /\ NameAt(w) \in Doc
         /\ NameAt(w) \in Name
<1>1. next[w] \in 1..(Files + 1)
  BY DEF TypeOK
<1> QED
  BY <1>1 DEF NameAt, DocOf, Doc, Name, Item

\* The values a file takes are told apart by writer and wholeness.
LEMMA FileValues ==
  /\ \A w \in Writer : Whole(w) \in File /\ Torn(w) \in File /\ Whole(w) # Torn(w)
  /\ \A w \in Writer : Whole(w).by = w /\ Torn(w).by = w
  /\ UserFile \in File /\ Mixed \in File /\ UserFile.by = Nobody /\ Mixed.by = Nobody
  /\ NoFile \notin File
  /\ \A w \in Writer : UserFile # Whole(w) /\ Mixed # Whole(w) /\ NoFile # Whole(w)
  /\ \A w \in Writer : \A x \in Writer : Torn(x) # Whole(w) /\ (Whole(x) = Whole(w) => x = w)
<1>1. \A w \in Writer \cup {Nobody} :
        /\ Whole(w) \in File /\ Torn(w) \in File
        /\ Whole(w).by = w /\ Torn(w).by = w
        /\ Whole(w).whole = TRUE /\ Torn(w).whole = FALSE
  BY DEF Whole, Torn, File
<1> QED
  BY <1>1 DEF UserFile, Mixed

\* What a filled file may hold.
LEMMA FilledValues ==
  ASSUME NEW w \in Writer, NEW f \in File \cup {NoFile}, NEW g \in Filled(w, f)
  PROVE  /\ g \in File \cup {NoFile}
         /\ f = Torn(w) => g = Whole(w)
         /\ f = NoFile => g = NoFile
         /\ g = Whole(w) \/ g = f \/ g = Mixed
         /\ f # NoFile => g # NoFile
<1>1. CASE f = Torn(w)
  BY <1>1, FileValues DEF Filled
<1>2. CASE f # Torn(w) /\ (f = NoFile \/ f = UserFile)
  <2>1. g \in {f}
    BY <1>2 DEF Filled
  <2> QED
    BY <1>2, <2>1, FileValues
<1>3. CASE f # Torn(w) /\ f # NoFile /\ f # UserFile
  <2>1. g \in {Whole(w), Mixed}
    BY <1>3 DEF Filled
  <2> QED
    BY <1>3, <2>1, FileValues
<1> QED
  BY <1>1, <1>2, <1>3

LEMMA InitInvariant == Init => IInv
<1> SUFFICES ASSUME Init PROVE IInv
  OBVIOUS
<1> USE DEF Init
<1>1. TypeOK
  <2>1. 1 \in 1..(Files + 1) /\ 0 \in 0..UserMoves
    OBVIOUS
  <2> QED
    BY <2>1 DEF TypeOK
<1>2. \A n \in Name : file[n] = NoFile /\ seen[n] = NoFile
  OBVIOUS
<1>3. PayloadsOfOneRun
  BY <1>2, Names DEF PayloadsOfOneRun
<1>4. ManifestLast
  BY <1>2, Names, FileValues DEF ManifestLast
<1>5. RunInv
  BY <1>2, Names DEF RunInv
<1>6. ScanInv
  BY <1>2, Names, FileValues DEF ScanInv
<1> QED
  BY <1>1, <1>3, <1>4, <1>5, <1>6 DEF IInv

\* The steps of a run that leave the disk alone.
Quiet(w) == Launch(w) \/ CheckOutput(w) \/ Plan(w) \/ PayloadsRefused(w) \/ Stops(w)

LEMMA QuietMoves ==
  ASSUME TypeOK, NEW w \in Writer, Quiet(w)
  PROVE  /\ UNCHANGED <<disk, moves, verifier, calm>>
         /\ \A x \in Writer \ {w} : pc'[x] = pc[x] /\ next'[x] = next[x]
         /\ TypeOK'
         /\ \/ /\ pc'[w] \in {"check", "plan", "stopped"}
               /\ next'[w] = next[w]
               /\ pc'[w] # "stopped" => pc[w] \in {"idle", "check"}
            \/ /\ pc[w] = "plan"
               /\ w \in Bare => pc'[w] = "open" /\ next'[w] = Files + 1
               /\ w \notin Bare => pc'[w] = "payloads" /\ next'[w] = 1
<1>1. UNCHANGED <<disk, moves, verifier, calm>>
  BY DEF Quiet, Launch, CheckOutput, Plan, PayloadsRefused, Stops
<1>2. CASE Plan(w)
  BY <1>1, <1>2 DEF Plan, GoTo, TypeOK, disk, verifier
<1>3. CASE CheckOutput(w)
  BY <1>1, <1>3 DEF CheckOutput, GoTo, TypeOK, disk, verifier
<1>4. CASE Launch(w) \/ PayloadsRefused(w) \/ Stops(w)
  BY <1>1, <1>4 DEF Launch, PayloadsRefused, Stops, GoTo, TypeOK, disk, verifier
<1> QED
  BY <1>2, <1>3, <1>4 DEF Quiet

LEMMA QuietKeeps ==
  ASSUME IInv, NEW w \in Writer, Quiet(w)
  PROVE  IInv'
<1> USE DEF IInv
<1>1. UNCHANGED <<disk, moves, verifier, calm>> /\ TypeOK'
  BY QuietMoves
<1>2. PayloadsOfOneRun'
  BY <1>1, QuietMoves DEF PayloadsOfOneRun, RunInv, undisturbed, disk
<1>3. ManifestLast'
  BY <1>1 DEF ManifestLast, undisturbed, disk
<1>4. RunInv'
  BY <1>1, QuietMoves DEF RunInv, disk
<1>5. ScanInv'
  BY <1>1 DEF ScanInv, undisturbed, disk, verifier, Present, Unread
<1> QED
  BY <1>1, <1>2, <1>3, <1>4, <1>5

LEMMA MakePayloadsKeeps ==
  ASSUME IInv, NEW w \in Writer, MakePayloads(w)
  PROVE  IInv'
<1> USE DEF IInv
<1>1. /\ pc[w] = "payloads" /\ payloads = NoDir /\ payloads' = w /\ calm' = FALSE
      /\ pc' = [pc EXCEPT ![w] = "open"] /\ UNCHANGED <<next, file, moves, verifier>>
  BY DEF MakePayloads, GoTo
<1>2. TypeOK'
  BY <1>1 DEF TypeOK, verifier
<1>3. next[w] = 1 /\ w \notin Bare /\ \A n \in Item : file[n] = NoFile
  BY <1>1 DEF RunInv
<1>4. PayloadsOfOneRun'
  BY <1>1, <1>3, FileValues, Names DEF PayloadsOfOneRun, TypeOK, undisturbed
<1>5. ManifestLast'
  BY <1>1 DEF ManifestLast, undisturbed
<1>6. RunInv'
  BY <1>1, <1>3 DEF RunInv, TypeOK
<1>7. ScanInv'
  BY <1>1 DEF ScanInv, undisturbed, verifier, Present, Unread
<1> QED
  BY <1>2, <1>4, <1>5, <1>6, <1>7

\* While the user stays out, a payload file that is whole is never written again.
LEMMA WholeStays ==
  ASSUME IInv, undisturbed, NEW w \in Writer, Extract(w),
         NEW n \in Item, NEW x \in Writer, file[n] = Whole(x)
  PROVE  file'[n] = Whole(x)
<1> USE DEF IInv
<1>1. CASE OpenFile(w) \/ FillFile(w)
  <2>1. PICK k \in Name : k = NameAt(w)
    BY AtAName
  <2>2. \A m \in Name \ {k} : file'[m] = file[m]
    BY <1>1, <2>1 DEF OpenFile, FillFile, TypeOK
  <2>3. pc[w] \in {"open", "fill"}
    BY <1>1 DEF OpenFile, FillFile
  <2>4. ASSUME n = k
        PROVE  FALSE
    <3>1. k = next[w] /\ next[w] <= Files
      BY <2>1, <2>4, AtAName, Names
    <3>2. w \notin Bare
      BY <2>3, <3>1, AtAName DEF RunInv
    <3>3. payloads = w
      BY <2>3, <3>2 DEF PayloadsOfOneRun
    <3>4. x = w
      BY <3>3, FileValues DEF PayloadsOfOneRun
    <3> QED
      BY <2>4, <3>1, <3>2, <3>3, <3>4, AtAName DEF PayloadsOfOneRun
  <2> QED
    BY <2>2, <2>4, Names
<1>2. CASE MakePayloads(w)
  BY <1>2 DEF MakePayloads
<1>3. CASE Quiet(w)
  BY <1>3, QuietMoves DEF disk
<1> QED
  BY <1>1, <1>2, <1>3 DEF Extract, Quiet

LEMMA OpenFileKeeps ==
  ASSUME IInv, NEW w \in Writer, OpenFile(w)
  PROVE  IInv'
<1> USE DEF IInv
<1>1. /\ pc[w] = "open" /\ calm' = FALSE
      /\ NameAt(w) \in Item => payloads # NoDir
      /\ file' = [file EXCEPT ![NameAt(w)] = Torn(w)]
      /\ pc' = [pc EXCEPT ![w] = "fill"]
      /\ UNCHANGED <<next, payloads, moves, verifier>>
  BY DEF OpenFile, GoTo
<1>2. PICK k \in Name : k = NameAt(w)
  BY AtAName
<1>3. file'[k] = Torn(w) /\ \A n \in Name \ {k} : file'[n] = file[n]
  BY <1>1, <1>2 DEF TypeOK
<1>4. TypeOK'
  BY <1>1, <1>2, FileValues DEF TypeOK, verifier
<1>5. \/ k \in Item /\ k = next[w] /\ k \notin Doc /\ k <= Files
      \/ k \in Doc /\ k = DocOf(w) /\ next[w] = Files + 1 /\ k \notin Item
  BY <1>2, AtAName, Names
<1>6. k \in Item => w \notin Bare
  BY <1>1, <1>5 DEF RunInv
<1>7. \A n \in Name : \A x \in Writer : file'[n] = Whole(x) => n # k /\ file[n] = Whole(x)
  BY <1>3, FileValues
<1>8. PayloadsOfOneRun'
  <2> SUFFICES ASSUME undisturbed PROVE PayloadsOfOneRun'
    BY <1>1 DEF PayloadsOfOneRun, undisturbed
  <2>1. payloads # Nobody /\ w \notin Bare => payloads = w
    BY <1>1 DEF PayloadsOfOneRun
  <2>2. \A n \in Item : file'[n] # NoFile => payloads \in Writer /\ file'[n].by = payloads
    BY <1>3, <1>6, <2>1, FileValues, Names DEF PayloadsOfOneRun
  <2>3. ASSUME NEW x \in Writer \ Bare, payloads = x, NEW n \in Item
        PROVE  n < next[x] <=> file'[n] = Whole(x)
    <3>1. n < next[x] <=> file[n] = Whole(x)
      BY <2>3 DEF PayloadsOfOneRun
    <3>2. CASE n = k
      <4>1. x = w /\ n = next[w]
        BY <1>5, <1>6, <2>1, <2>3, <3>2, Names
      <4> QED
        BY <1>3, <3>2, <4>1, FileValues, Names
    <3>3. CASE n # k
      BY <1>3, <3>1, <3>3, Names
    <3> QED
      BY <3>2, <3>3
  <2>4. ASSUME NEW x \in Writer \ Bare, pc'[x] = "fill", next[x] <= Files
        PROVE  file'[next[x]] = Torn(x)
    <3>1. CASE x = w
      BY <1>3, <1>5, <2>4, <3>1, Names, AtAName
    <3>2. CASE x # w
      <4>1. pc[x] = "fill" /\ payloads = x /\ w \in Bare
        BY <1>1, <2>1, <2>4, <3>2 DEF PayloadsOfOneRun, TypeOK
      <4>2. k \notin Item /\ next[x] \in Item
        BY <1>6, <2>4, <4>1, AtAName
      <4> QED
        BY <1>3, <2>4, <4>1, <4>2, Names DEF PayloadsOfOneRun
    <3> QED
      BY <3>1, <3>2
  <2> QED
    BY <1>1, <2>1, <2>2, <2>3, <2>4 DEF PayloadsOfOneRun, TypeOK
<1>9. ManifestLast'
  <2> SUFFICES ASSUME undisturbed, NEW x \in Writer, NEW d \in Doc, file'[d] = Whole(x),
                      NEW n \in Artifacts(x)
               PROVE  file'[n] = Whole(x)
    BY <1>1 DEF ManifestLast, undisturbed
  <2>1. file[d] = Whole(x) /\ file[n] = Whole(x) /\ n \in Item /\ x \notin Bare
    BY <1>7, Names DEF ManifestLast, Artifacts
  <2>2. next[x] = Files + 1 /\ payloads = x
    BY <2>1, FileValues, AtAName DEF RunInv, PayloadsOfOneRun
  <2>3. n # k
    BY <1>1, <1>5, <1>6, <2>1, <2>2, Names DEF PayloadsOfOneRun
  <2> QED
    BY <1>3, <2>1, <2>3, Names
<1>10. RunInv'
  <2>1. \A x \in Writer : \A d \in Doc :
          file'[d] # NoFile /\ file'[d].by = x => d = DocOf(x) /\ next[x] = Files + 1
    BY <1>3, <1>5, FileValues, Names DEF RunInv
  <2>2. payloads = NoDir => \A n \in Item : file'[n] = NoFile
    BY <1>1, <1>2, <1>3, Names DEF RunInv
  <2> QED
    BY <1>1, <2>1, <2>2 DEF RunInv, TypeOK, DocOf
<1>11. ScanInv'
  <2>1. \A n \in Item : \A x \in Writer : undisturbed /\ file[n] = Whole(x) => file'[n] = Whole(x)
    BY WholeStays DEF Extract
  <2> QED
    BY <1>1, <2>1 DEF ScanInv, undisturbed, verifier, Unread
<1> QED
  BY <1>4, <1>8, <1>9, <1>10, <1>11

LEMMA FillFileKeeps ==
  ASSUME IInv, NEW w \in Writer, FillFile(w)
  PROVE  IInv'
<1> USE DEF IInv
<1>1. PICK g \in Filled(w, file[NameAt(w)]) : file' = [file EXCEPT ![NameAt(w)] = g]
  BY DEF FillFile
<1>2. /\ pc[w] = "fill" /\ calm' = FALSE /\ UNCHANGED <<payloads, moves, verifier>>
      /\ IF next[w] <= Files
           THEN next' = [next EXCEPT ![w] = @ + 1] /\ pc' = [pc EXCEPT ![w] = "open"]
           ELSE next' = next /\ pc' = [pc EXCEPT ![w] = "done"]
  BY DEF FillFile, GoTo
<1>3. PICK k \in Name : k = NameAt(w)
  BY AtAName
<1>4. file[k] \in File \cup {NoFile}
  BY DEF TypeOK
<1>5. /\ g \in File \cup {NoFile}
      /\ file[k] = Torn(w) => g = Whole(w)
      /\ file[k] = NoFile => g = NoFile
      /\ g = Whole(w) \/ g = file[k] \/ g = Mixed
  BY <1>1, <1>3, <1>4, FilledValues
<1>6. file'[k] = g /\ \A n \in Name \ {k} : file'[n] = file[n]
  BY <1>1, <1>3 DEF TypeOK
<1>7. TypeOK'
  <2>1. file' \in [Name -> File \cup {NoFile}]
    BY <1>1, <1>3, <1>5 DEF TypeOK
  <2>2. next' \in [Writer -> 1..(Files + 1)]
    BY <1>2, AtAName DEF TypeOK
  <2>3. pc' \in [Writer -> {"idle", "check", "plan", "payloads", "open", "fill", "done", "stopped"}]
    BY <1>2 DEF TypeOK
  <2> QED
    BY <1>2, <2>1, <2>2, <2>3 DEF TypeOK, verifier
<1>8. \/ k \in Item /\ k = next[w] /\ k \notin Doc /\ k <= Files
      \/ k \in Doc /\ k = DocOf(w) /\ next[w] = Files + 1 /\ k \notin Item
  BY <1>3, AtAName, Names
<1>9. k \in Item => w \notin Bare
  BY <1>2, <1>8, Names DEF RunInv
<1>10. /\ \A x \in Writer \ {w} : next'[x] = next[x] /\ pc'[x] = pc[x]
       /\ k \in Item => next'[w] = next[w] + 1 /\ pc'[w] = "open"
       /\ k \in Doc => next'[w] = next[w] /\ pc'[w] = "done"
  BY <1>2, <1>8, Names, AtAName DEF TypeOK
<1>11. undisturbed /\ k \in Item => payloads = w /\ file[k] = Torn(w) /\ file'[k] = Whole(w)
  BY <1>2, <1>5, <1>6, <1>8, <1>9 DEF PayloadsOfOneRun
<1>12. PayloadsOfOneRun'
  <2> SUFFICES ASSUME undisturbed PROVE PayloadsOfOneRun'
    BY <1>2 DEF PayloadsOfOneRun, undisturbed
  <2>1. payloads # Nobody /\ (w \notin Bare => payloads = w)
    BY <1>2 DEF PayloadsOfOneRun
  <2>2. \A n \in Item : file'[n] # NoFile => payloads \in Writer /\ file'[n].by = payloads
    BY <1>6, <1>11, FileValues, Names DEF PayloadsOfOneRun
  <2>3. ASSUME NEW x \in Writer \ Bare, payloads = x, NEW n \in Item
        PROVE  n < next'[x] <=> file'[n] = Whole(x)
    <3>1. n < next[x] <=> file[n] = Whole(x)
      BY <2>3 DEF PayloadsOfOneRun
    <3>2. CASE n = k
      <4>1. x = w /\ n = next[w] /\ next'[w] = next[w] + 1
        BY <1>8, <1>10, <1>11, <2>3, <3>2
      <4> QED
        BY <1>11, <3>2, <4>1, <2>3, AtAName
    <3>3. CASE n # k
      <4>1. CASE x # w \/ k \in Doc
        BY <1>6, <1>10, <3>1, <3>3, <4>1, Names
      <4>2. CASE x = w /\ k \in Item
        <5>1. n < next[w] + 1 <=> n < next[w]
          BY <1>8, <3>3, <4>2, AtAName, Names
        <5> QED
          BY <1>6, <1>10, <3>1, <3>3, <4>2, <5>1, Names
      <4> QED
        BY <1>8, <4>1, <4>2
    <3> QED
      BY <3>2, <3>3
  <2>4. ASSUME NEW x \in Writer \ Bare, pc'[x] = "fill", next'[x] <= Files
        PROVE  file'[next'[x]] = Torn(x)
    <3>1. x # w
      BY <1>8, <1>10, <2>4
    <3>2. pc[x] = "fill" /\ next'[x] = next[x] /\ payloads = x /\ w \in Bare
      BY <1>10, <2>1, <2>4, <3>1 DEF PayloadsOfOneRun
    <3>3. k \notin Item /\ next[x] \in Item
      BY <1>9, <2>4, <3>2, AtAName
    <3> QED
      BY <1>6, <2>4, <3>2, <3>3, Names DEF PayloadsOfOneRun
  <2>5. ASSUME NEW x \in Writer \ Bare, pc'[x] \in {"open", "fill", "done"} \/ next'[x] > 1
        PROVE  payloads = x
    <3>1. CASE x = w
      BY <2>1, <3>1
    <3>2. CASE x # w
      BY <1>10, <2>5, <3>2 DEF PayloadsOfOneRun
    <3> QED
      BY <3>1, <3>2
  <2> QED
    BY <1>2, <2>1, <2>2, <2>3, <2>4, <2>5 DEF PayloadsOfOneRun
<1>13. RunInv'
  <2>1. ASSUME NEW x \in Writer, NEW d \in Doc, file'[d] # NoFile, file'[d].by = x
        PROVE  d = DocOf(x) /\ next'[x] = Files + 1
    <3>1. CASE d = k
      <4>1. x = w \/ file'[k] = file[k]
        BY <1>5, <1>6, <2>1, <3>1, FileValues
      <4> QED
        BY <1>6, <1>8, <1>10, <2>1, <3>1, <4>1, Names DEF RunInv
    <3>2. CASE d # k
      <4>1. d = DocOf(x) /\ next[x] = Files + 1
        BY <1>6, <2>1, <3>2, Names DEF RunInv
      <4>2. next'[x] = next[x]
        BY <1>8, <1>10, <4>1, Names, AtAName
      <4> QED
        BY <4>1, <4>2
    <3> QED
      BY <3>1, <3>2
  <2>2. payloads = NoDir => \A n \in Item : file'[n] = NoFile
    BY <1>5, <1>6, Names DEF RunInv
  <2> QED
    BY <1>2, <1>8, <1>9, <1>10, <2>1, <2>2 DEF RunInv
<1>14. ManifestLast'
  <2> SUFFICES ASSUME undisturbed, NEW x \in Writer, NEW d \in Doc, file'[d] = Whole(x),
                      NEW n \in Artifacts(x)
               PROVE  file'[n] = Whole(x)
    BY <1>2 DEF ManifestLast, undisturbed
  <2>1. next'[x] = Files + 1 /\ x \notin Bare /\ n \in Item
    BY <1>13, FileValues DEF RunInv, Artifacts
  <2>2. payloads = x
    BY <1>2, <1>12, <2>1 DEF PayloadsOfOneRun, undisturbed
  <2> QED
    BY <1>2, <1>12, <2>1, <2>2, Names DEF PayloadsOfOneRun, undisturbed
<1>15. ScanInv'
  <2>1. \A n \in Item : \A x \in Writer : undisturbed /\ file[n] = Whole(x) => file'[n] = Whole(x)
    BY WholeStays DEF Extract
  <2> QED
    BY <1>2, <2>1 DEF ScanInv, undisturbed, verifier, Unread
<1> QED
  BY <1>7, <1>12, <1>13, <1>14, <1>15

LEMMA UserKeeps ==
  ASSUME IInv, User
  PROVE  IInv'
<1> USE DEF IInv
<1>1. moves' = moves + 1 /\ moves < UserMoves /\ calm' = FALSE /\ UNCHANGED <<runs, verifier>>
  BY DEF User
<1>2. ~undisturbed'
  BY <1>1 DEF undisturbed, TypeOK
<1>3. /\ file' \in [Name -> File \cup {NoFile}]
      /\ payloads' \in Writer \cup {Nobody, NoDir}
      /\ \A n \in Name : file'[n] # file[n] => file'[n] \in {NoFile, UserFile}
      /\ payloads' = NoDir => \A n \in Item : file'[n] = NoFile
  <2>1. CASE UserEdits
    <3>1. PICK n \in Name : \E f \in {NoFile, UserFile} \ {file[n]} :
            (n \in Item => payloads # NoDir) /\ file' = [file EXCEPT ![n] = f]
      BY <2>1 DEF UserEdits
    <3> QED
      BY <2>1, <3>1, FileValues, Names DEF UserEdits, TypeOK, RunInv
  <2>2. CASE UserClears
    BY <2>2, Names DEF UserClears, TypeOK
  <2>3. CASE UserMakesPayloads
    BY <2>3 DEF UserMakesPayloads, TypeOK
  <2> QED
    BY <2>1, <2>2, <2>3 DEF User
<1>4. TypeOK'
  <2>1. moves' \in 0..UserMoves
    BY <1>1 DEF TypeOK
  <2> QED
    BY <1>1, <1>3, <2>1 DEF TypeOK, runs, verifier
<1>5. PayloadsOfOneRun' /\ ManifestLast'
  BY <1>2 DEF PayloadsOfOneRun, ManifestLast
<1>6. RunInv'
  BY <1>1, <1>3, FileValues, Names DEF RunInv, runs
<1>7. ScanInv'
  BY <1>1, <1>2 DEF ScanInv, verifier, Unread
<1> QED
  BY <1>4, <1>5, <1>6, <1>7

LEMMA VerificationKeeps ==
  ASSUME IInv, Verification
  PROVE  IInv'
<1> USE DEF IInv
<1>1. UNCHANGED <<runs, disk, moves>>
  BY DEF Verification, ListRoot, ReadMember, ListPayloads, LoadManifest, Verify
<1>2. PayloadsOfOneRun' /\ ManifestLast' /\ RunInv' /\ Present' = Present
  BY <1>1 DEF PayloadsOfOneRun, ManifestLast, RunInv, undisturbed, runs, disk, Present
<1>3. Present = {n \in Name : file[n] # NoFile} /\ Present \subseteq Name
  BY DEF Present
<1>4. CASE ListRoot
  <2>1. TypeOK'
    BY <1>1, <1>4, Names DEF ListRoot, TypeOK, runs, disk, Present
  <2>2. ScanInv'
    BY <1>1, <1>2, <1>4, Names DEF ListRoot, ScanInv, disk, undisturbed, FileValues, TypeOK, Whole, File
  <2> QED
    BY <1>2, <2>1, <2>2
<1>5. CASE ReadMember
  <2>1. PICK n \in Unread :
          IF file[n] = NoFile
            THEN verdict' = "refused" /\ vpc' = "ended" /\ seen' = seen
            ELSE seen' = [seen EXCEPT ![n] = file[n]] /\ UNCHANGED <<vpc, verdict>>
    BY <1>5 DEF ReadMember, Conclude
  <2>2. n \in Name /\ n \in listed /\ vpc \in {"docs", "items"}
        /\ UNCHANGED <<listed, listedDir, loaded, calm>>
    BY <1>5, <2>1 DEF ReadMember, Unread, TypeOK
  <2>3. \A m \in Name : seen'[m] = seen[m] \/ (m = n /\ seen'[m] = file[m] /\ file[m] # NoFile)
    BY <2>1, <2>2 DEF TypeOK
  <2>4. TypeOK'
    BY <1>1, <2>1, <2>2 DEF TypeOK, runs, disk
  <2>5. ScanInv'
    BY <1>1, <1>2, <2>1, <2>2, <2>3, Names DEF ScanInv, disk, undisturbed
  <2> QED
    BY <1>2, <2>4, <2>5
<1>6. CASE ListPayloads
  <2>1. /\ vpc = "docs" /\ Unread = {} /\ UNCHANGED <<listedDir, seen, loaded, calm>>
        /\ IF listedDir /\ payloads = NoDir
             THEN verdict' = "refused" /\ vpc' = "ended" /\ listed' = listed
             ELSE /\ vpc' = "items" /\ verdict' = verdict
                  /\ listed' = listed \cup (IF listedDir THEN Present \cap Item ELSE {})
    BY <1>6 DEF ListPayloads, Conclude
  <2>2. TypeOK'
    BY <1>1, <1>3, <2>1 DEF TypeOK, runs, disk
  <2>3. calm => listed' = IF vpc' = "items" THEN Present ELSE listed
    BY <1>3, <2>1, Names DEF ScanInv, RunInv
  <2>4. ScanInv'
    BY <1>1, <1>2, <2>1, <2>3, Names DEF ScanInv, disk, undisturbed
  <2> QED
    BY <1>2, <2>2, <2>4
<1>7. CASE LoadManifest
  <2>1. vpc = "items" /\ Unread = {} /\ UNCHANGED <<listed, listedDir, seen, calm>>
    BY <1>7 DEF LoadManifest
  <2>2. \/ /\ verdict' = "refused" /\ vpc' = "ended" /\ loaded' = loaded
        \/ /\ vpc' = "compare" /\ verdict' = verdict
           /\ \E d \in Doc : listed \cap Doc = {d} /\ file[d] # NoFile /\ loaded' = file[d]
    <3>1. CASE \E d \in Doc : listed \cap Doc = {d} /\ file[d] # NoFile
      <4>1. PICK d \in Doc : listed \cap Doc = {d} /\ file[d] # NoFile
        BY <3>1
      <4>2. (CHOOSE e \in Doc : listed \cap Doc = {e}) = d
        BY <4>1
      <4> QED
        BY <1>7, <3>1, <4>1, <4>2 DEF LoadManifest, Conclude
    <3>2. CASE ~\E d \in Doc : listed \cap Doc = {d} /\ file[d] # NoFile
      BY <1>7, <3>2 DEF LoadManifest, Conclude
    <3> QED
      BY <3>1, <3>2
  <2>3. TypeOK'
    BY <1>1, <2>1, <2>2, Names DEF TypeOK, runs, disk
  <2>4. Unread' = Unread
    BY <2>1 DEF Unread
  <2>5. ScanInv'
    BY <1>1, <1>2, <2>1, <2>2, <2>4 DEF ScanInv, disk, undisturbed
  <2> QED
    BY <1>2, <2>3, <2>5
<1>8. CASE Verify
  <2>1. /\ vpc' = "ended" /\ verdict' \in {"accepted", "refused"}
        /\ UNCHANGED <<listed, listedDir, seen, loaded, calm>>
    BY <1>8 DEF Verify, Conclude
  <2>2. TypeOK'
    BY <1>1, <2>1 DEF TypeOK, runs, disk
  <2>3. verdict' = "accepted" => \E w \in Writer : loaded' = Whole(w)
    BY <1>8, <2>1 DEF Verify, Conclude, Accepts
  <2>4. ScanInv'
    BY <1>1, <1>2, <2>1, <2>3 DEF ScanInv, disk, undisturbed
  <2> QED
    BY <1>2, <2>2, <2>4
<1> QED
  BY <1>4, <1>5, <1>6, <1>7, <1>8 DEF Verification

LEMMA NextInvariant == IInv /\ [Next]_vars => IInv'
<1> SUFFICES ASSUME IInv, [Next]_vars PROVE IInv'
  OBVIOUS
<1>1. CASE Next
  BY <1>1, QuietKeeps, MakePayloadsKeeps, OpenFileKeeps, FillFileKeeps, UserKeeps,
     VerificationKeeps DEF Next, Extract, Quiet
<1>2. CASE UNCHANGED vars
  BY <1>2 DEF vars, runs, disk, verifier, IInv, TypeOK, PayloadsOfOneRun, ManifestLast, RunInv,
     ScanInv, undisturbed, Present, Unread
<1> QED
  BY <1>1, <1>2

\* The invariant holds: payloads/ belongs to one run, the manifest is the mark
\* of a complete extraction, and an inventory is what was there.
THEOREM Invariant == Spec => []IInv
BY InitInvariant, NextInvariant, PTL DEF Spec

---------------------------------------------------------------------------
\* What the comparison accepts is an extraction when nothing has changed since.
LEMMA AcceptsExact ==
  ASSUME IInv, calm, vpc = "compare", NEW w \in Writer
  PROVE  Accepts(w) <=> IsExtractionOf(w)
<1> USE DEF IInv
<1>1. /\ listedDir <=> payloads # NoDir
      /\ listed = Present /\ \A n \in listed : seen[n] # NoFile
      /\ \A n \in Name : seen[n] # NoFile => seen[n] = file[n]
  BY DEF ScanInv, Unread
<1>2. \A n \in Name : seen[n] = file[n]
  BY <1>1 DEF Present, ScanInv
<1>3. PICK d \in Doc : listed \cap Doc = {d} /\ loaded = file[d]
  BY DEF ScanInv
<1>4. Artifacts(w) \subseteq Item /\ (Artifacts(w) # {} <=> w \notin Bare)
  BY Names DEF Artifacts, Item
<1>5. DocOf(w) \in Doc
  BY DEF DocOf, Doc
<1>6. ASSUME Accepts(w) PROVE IsExtractionOf(w)
  <2>1. /\ loaded = Whole(w) /\ \A n \in Artifacts(w) : seen[n] = Whole(w)
        /\ listed \ Doc = Artifacts(w) /\ (listedDir <=> Artifacts(w) # {})
    BY <1>6 DEF Accepts
  <2>2. d = DocOf(w)
    <3>1. file[d] # NoFile /\ file[d].by = w
      BY <1>3, <2>1, FileValues
    <3> QED
      BY <3>1 DEF RunInv
  <2>3. \A n \in Name : file[n] = IF n \in Artifacts(w) \cup {DocOf(w)} THEN Whole(w) ELSE NoFile
    BY <1>1, <1>2, <1>3, <1>4, <2>1, <2>2, Names DEF Present
  <2>4. file = [n \in Name |-> IF n \in Artifacts(w) \cup {DocOf(w)} THEN Whole(w) ELSE NoFile]
    BY <2>3 DEF TypeOK
  <2> QED
    BY <1>1, <1>4, <2>1, <2>4 DEF IsExtractionOf
<1>7. ASSUME IsExtractionOf(w) PROVE Accepts(w)
  <2>1. \A n \in Name : file[n] = IF n \in Artifacts(w) \cup {DocOf(w)} THEN Whole(w) ELSE NoFile
    BY <1>7 DEF IsExtractionOf
  <2>2. Whole(w) # NoFile
    BY FileValues
  <2>3. listed = Artifacts(w) \cup {DocOf(w)}
    BY <1>1, <1>4, <1>5, <2>1, <2>2, Names DEF Present
  <2>4. d = DocOf(w) /\ loaded = Whole(w)
    BY <1>3, <1>5, <2>1, <2>3, Names
  <2>5. listed \ Doc = Artifacts(w)
    BY <1>4, <1>5, <2>3, Names
  <2>6. \A n \in Artifacts(w) : seen[n] = Whole(w)
    BY <1>2, <1>4, <2>1, Names
  <2>7. listedDir <=> Artifacts(w) # {}
    BY <1>1, <1>4, <1>7 DEF IsExtractionOf
  <2> QED
    BY <2>4, <2>5, <2>6, <2>7 DEF Accepts
<1> QED
  BY <1>6, <1>7

\* A directory whose contents are an extraction lists one manifest.
LEMMA OneManifest ==
  ASSUME IInv, NEW w \in Writer, IsExtractionOf(w)
  PROVE  Present \cap Doc = {DocOf(w)} /\ file[DocOf(w)] # NoFile
<1>1. \A n \in Name : file[n] = IF n \in Artifacts(w) \cup {DocOf(w)} THEN Whole(w) ELSE NoFile
  BY DEF IsExtractionOf
<1>2. DocOf(w) \in Doc /\ Artifacts(w) \cap Doc = {}
  BY Names DEF DocOf, Doc, Artifacts
<1> QED
  BY <1>1, <1>2, FileValues, Names DEF Present

LEMMA VerdictStep == IInv /\ VerdictIsExact /\ [Next]_vars => VerdictIsExact'
<1> SUFFICES ASSUME IInv, VerdictIsExact, [Next]_vars, calm', vpc' = "ended"
             PROVE  /\ verdict' = "accepted" <=> \E w \in Writer : IsExtractionOf(w)'
                    /\ verdict' = "accepted" => loaded' \in {seen'[d] : d \in Doc}
  BY DEF VerdictIsExact
<1>1. CASE Verification
  <2>1. UNCHANGED <<payloads, file>>
    BY <1>1 DEF Verification, ListRoot, ReadMember, ListPayloads, LoadManifest, Verify, disk
  <2>2. \A w \in Writer : IsExtractionOf(w)' <=> IsExtractionOf(w)
    BY <2>1 DEF IsExtractionOf
  <2>3. CASE Verify
    <3>1. vpc = "compare" /\ calm /\ UNCHANGED <<loaded, seen>>
          /\ verdict' = IF \E w \in Writer : Accepts(w) THEN "accepted" ELSE "refused"
      BY <2>3 DEF Verify, Conclude
    <3>2. PICK d \in Doc : listed \cap Doc = {d} /\ loaded = file[d]
      BY <3>1 DEF IInv, ScanInv
    <3>3. loaded = seen[d]
      BY <3>1, <3>2, Names DEF IInv, ScanInv, Unread
    <3> QED
      BY <2>2, <3>1, <3>3, AcceptsExact
  <2>4. CASE LoadManifest
    <3>1. /\ vpc = "items" /\ calm /\ verdict' = "refused"
          /\ ~\E d \in Doc : listed \cap Doc = {d} /\ file[d] # NoFile
      BY <1>1, <2>4 DEF LoadManifest, Conclude
    <3>2. listed = Present
      BY <3>1 DEF IInv, ScanInv
    <3>3. \A w \in Writer : DocOf(w) \in Doc
      BY DEF DocOf, Doc
    <3> QED
      BY <2>2, <3>1, <3>2, <3>3, OneManifest
  <2>5. CASE ReadMember
    <3>1. calm /\ vpc \in {"docs", "items"}
      BY <2>5 DEF ReadMember
    <3>2. listed \subseteq Present
      BY <3>1 DEF IInv, ScanInv
    <3>3. \A n \in Unread : file[n] # NoFile
      BY <3>2 DEF Unread, Present
    <3> QED
      BY <2>5, <3>1, <3>3 DEF ReadMember
  <2>6. CASE ListPayloads
    BY <2>6 DEF ListPayloads, IInv, ScanInv
  <2>7. CASE ListRoot
    BY <2>7 DEF ListRoot
  <2> QED
    BY <1>1, <2>3, <2>4, <2>5, <2>6, <2>7 DEF Verification
<1>2. CASE User
  BY <1>2 DEF User
<1>3. ASSUME NEW w \in Writer, Extract(w)
      PROVE  UNCHANGED <<disk, verifier, calm>>
  BY <1>3, QuietMoves DEF Extract, Quiet, MakePayloads, OpenFile, FillFile, IInv
<1>4. CASE UNCHANGED <<disk, verifier, calm>>
  BY <1>4 DEF VerdictIsExact, IsExtractionOf, disk, verifier
<1> QED
  BY <1>1, <1>2, <1>3, <1>4 DEF Next, vars

\* A verification during which nothing changes accepts exactly the complete
\* extractions (VerdictIsExact).
THEOREM Exactness == Spec => []VerdictIsExact
<1>1. Init => VerdictIsExact
  BY DEF Init, VerdictIsExact
<1> QED
  BY <1>1, VerdictStep, InitInvariant, NextInvariant, PTL DEF Spec

LEMMA AcceptedStep == IInv /\ AcceptedStays /\ [Next]_vars => AcceptedStays'
<1> SUFFICES ASSUME IInv, AcceptedStays, [Next]_vars, undisturbed', verdict' = "accepted"
             PROVE  \A n \in Artifacts(loaded'.by) : file'[n] = Whole(loaded'.by)
  BY DEF AcceptedStays, Artifacts, Whole
<1>1. undisturbed
  BY DEF undisturbed, Next, User, Extract, Launch, CheckOutput, Plan, MakePayloads,
     PayloadsRefused, OpenFile, FillFile, Stops, Verification, ListRoot, ReadMember,
     ListPayloads, LoadManifest, Verify, vars, IInv, TypeOK
<1>2. CASE Verify
  <2>1. PICK w \in Writer : Accepts(w)
    BY <1>2 DEF Verify, Conclude
  <2>2. loaded' = Whole(w) /\ loaded'.by = w /\ file' = file
    BY <1>2, <2>1, FileValues DEF Verify, Accepts, disk
  <2>3. \A n \in Artifacts(w) : n \in Item /\ seen[n] = Whole(w)
    BY <2>1 DEF Accepts, Artifacts
  <2> QED
    BY <1>1, <2>2, <2>3 DEF IInv, ScanInv
<1>3. CASE verdict = "accepted" /\ loaded' = loaded
  <2>1. \A n \in Artifacts(loaded.by) : n \in Item /\ file[n] = Whole(loaded.by)
    BY <1>1, <1>3 DEF AcceptedStays, Artifacts
  <2>2. CASE Artifacts(loaded.by) = {}
    BY <1>3, <2>2
  <2>3. CASE Artifacts(loaded.by) # {}
    <3>1. loaded.by \in Writer
      BY <1>3, FileValues DEF IInv, ScanInv
    <3>2. ASSUME NEW w \in Writer, Extract(w), NEW n \in Artifacts(loaded.by)
          PROVE  file'[n] = Whole(loaded.by)
      BY <1>1, <2>1, <3>1, <3>2, WholeStays
    <3>3. CASE UNCHANGED file
      BY <1>3, <2>1, <3>3
    <3> QED
      BY <1>1, <1>3, <3>2, <3>3 DEF Next, User, undisturbed, Verification, ListRoot, ReadMember,
         ListPayloads, LoadManifest, Verify, disk, vars, IInv, TypeOK
  <2> QED
    BY <2>2, <2>3
<1>4. (verdict' = verdict /\ loaded' = loaded) \/ Verify \/ verdict' # "accepted"
  <2>1. ASSUME NEW w \in Writer, Extract(w) PROVE UNCHANGED <<verdict, loaded>>
    BY <2>1, QuietMoves DEF Extract, Quiet, MakePayloads, OpenFile, FillFile, verifier, IInv
  <2>2. CASE ListRoot \/ ReadMember \/ ListPayloads \/ LoadManifest
    BY <2>2 DEF ListRoot, ReadMember, ListPayloads, LoadManifest, Conclude, IInv, ScanInv
  <2> QED
    BY <2>1, <2>2 DEF Next, User, Verification, vars, verifier
<1> QED
  BY <1>2, <1>3, <1>4

\* What a verification accepts stays on disk, whatever other runs do
\* (AcceptedStays).
THEOREM Stability == Spec => []AcceptedStays
<1>1. Init => AcceptedStays
  BY DEF Init, AcceptedStays
<1> QED
  BY <1>1, AcceptedStep, InitInvariant, NextInvariant, PTL DEF Spec
===============================================================================
