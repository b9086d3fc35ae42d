------------------------------- MODULE Images -------------------------------
(***************************************************************************)
(* The bytes of a file, as the readers tell them apart.  An image has a    *)
(* length in bytes and, at some offsets, a record that stands for the      *)
(* bytes there (a header, a table, a block of texels); the bytes between   *)
(* are of no interest.  Images are equal exactly when their bytes are, so  *)
(* an image also stands for its SHA-256 digest.                            *)
(***************************************************************************)
EXTENDS Integers, Sequences, SequencesExt, FiniteSets, FiniteSetsExt, TLC

CONSTANTS Refused,    \* a reader's Err(..)
          Absent      \* an Option's None

\* What is made of a reader's Ok; its Err is passed on (the code's ?).
Try(result, Use(_)) == IF result = Refused THEN Refused ELSE Use(result)

Empty == [length |-> 0, heads |-> <<>>]

NoHead == [magic |-> "none"]

\* The record that begins at byte a (a signature compared, a field read).
At(img, a) == IF a \in DOMAIN img.heads THEN img.heads[a] ELSE NoHead

Is(img, magic) == At(img, 0).magic = magic

\* data[a..a + n]; the callers check that the range is inside.
Slice(img, a, n) ==
  [length |-> n,
   heads |-> [o \in {x - a : x \in {y \in DOMAIN img.heads : a <= y /\ y < a + n}} |->
                img.heads[o + a]]]

\* A record that takes n bytes, and nothing else.
Cell(n, head) == [length |-> n, heads |-> 0 :> head]

Pad(n) == [length |-> n, heads |-> <<>>]

\* extend_from_slice
Cat(a, b) ==
  [length |-> a.length + b.length,
   heads |-> [o \in DOMAIN a.heads \cup {x + a.length : x \in DOMAIN b.heads} |->
                IF o \in DOMAIN a.heads THEN a.heads[o] ELSE b.heads[o - a.length]]]

Join(images) == FoldLeft(Cat, Empty, images)

\* copy_from_slice of one record at byte a, over an image with room for it.
Put(img, a, head) == [img EXCEPT !.heads = (a :> head) @@ @]

Span(a, n) == [offset |-> a, length |-> n]

End(span) == span.offset + span.length

Total(numbers) == FoldLeft(LAMBDA a, b : a + b, 0, numbers)

Larger(a, b) == IF a >= b THEN a ELSE b
Lesser(a, b) == IF a <= b THEN a ELSE b
CeilDiv(a, b) == (a + b - 1) \div b

\* No two spans of the sequence share a byte.
Disjoint(spans) ==
  \A i, j \in DOMAIN spans :
    i # j /\ spans[i].length > 0 /\ spans[j].length > 0 =>
      End(spans[i]) <= spans[j].offset \/ End(spans[j]) <= spans[i].offset
=============================================================================
