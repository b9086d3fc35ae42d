------------------------------- MODULE Wrapper -------------------------------
(***************************************************************************)
(* The three wrappers a document is stored in: LPB around a Lua chunk      *)
(* (lpb.rs), SQEX under a key that is the file's name (sqwt.rs) and the    *)
(* scrambled XML container (scrambled.rs).  LPB and the scrambled          *)
(* container are modelled byte by byte; the block cipher is not: a block   *)
(* enciphered under one key is itself under no other.                      *)
(***************************************************************************)
EXTENDS Font, Bitwise

Byte(n) == n % 256
Bytes(values) == Cell(Len(values), [magic |-> "bytes", bytes |-> values])

\* The sequence itself, evaluated once.
Evaluated(values) == SubSeq(values, 1, Len(values))

Raw(img) == IF Is(img, "bytes") THEN At(img, 0).bytes ELSE <<>>

-----------------------------------------------------------------------------
(* LPB *)

RawMagic == <<114, 108, 117, 11>>       \* rlu\x0b
XorMagic == <<114, 108, 101, 12>>       \* rle\x0c
LuaSignature == <<27, 76, 117, 97, 81>>
XorKey == 115

IsLpb(img) == IsPrefix(RawMagic, Raw(img)) \/ IsPrefix(XorMagic, Raw(img))

Xored(values) == Evaluated([i \in DOMAIN values |-> values[i] ^^ XorKey])

\* extract: the three bytes before the payload's start belong to the chunk.
ExtractLpb(img) ==
  LET Decoded(data, raw, decoded) ==
        IF ~IsLpb(img) \/ Len(data) < (IF raw THEN 8 ELSE 16) \/ ~IsPrefix(LuaSignature, decoded)
        THEN Refused
        ELSE [raw |-> raw, tag |-> SubSeq(data, 5, 8), byte12 |-> IF raw THEN 0 ELSE data[13],
              size |-> IF raw THEN <<>> ELSE SubSeq(data, 9, 12), decoded |-> decoded]
      Of(data) ==
        IF IsPrefix(RawMagic, data) THEN Decoded(data, TRUE, SubSeq(data, 9, Len(data)))
        ELSE Decoded(data, FALSE, Xored(SubSeq(data, 14, Len(data))))
  IN Of(Raw(img))

\* The little-endian size word encode_lpb writes, for chunks under 256 bytes.
SizeWord(n) == <<Byte(n), 0, 0, 0>>

WriteLpb(file, size) ==
  IF file.raw THEN Bytes(RawMagic \o file.tag \o file.decoded)
  ELSE Bytes(XorMagic \o file.tag \o size \o <<file.byte12>> \o Xored(file.decoded))

EncodeLpb(file) ==
  IF IsPrefix(LuaSignature, file.decoded) THEN WriteLpb(file, SizeWord(Len(file.decoded))) ELSE Refused

\* rebuild_lpb keeps a size word that is not the chunk's length.
RebuildLpb(img, file) == IF ExtractLpb(img) = file THEN WriteLpb(file, file.size) ELSE Refused

-----------------------------------------------------------------------------
(* SQEX: whole blocks of eight under the name's key, the rest in the clear *)

Block == 8

Encipher(key, block) == [key |-> key, plain |-> block]

\* Under another key the block reads as something that is no plain block.
Decipher(key, block) ==
  IF block.key = key THEN block.plain ELSE [i \in DOMAIN block.plain |-> 256 + block.plain[i]]

SplitBlocks(document) ==
  [i \in 1..(Len(document) \div Block) |-> SubSeq(document, Block * (i - 1) + 1, Block * i)]

Tail8(document) == SubSeq(document, Block * (Len(document) \div Block) + 1, Len(document))

EncodeSqwt(document, name) ==
  LET plain == SplitBlocks(document) IN
  Cell(Block + Len(document),
       [magic |-> "SQEX", word |-> 0, tail |-> Tail8(document),
        blocks |-> [i \in DOMAIN plain |-> Encipher(name, plain[i])]])

IsSqwt(img) == Is(img, "SQEX") /\ At(img, 0).word = 0

DecodeSqwt(img, name) ==
  LET h == At(img, 0) IN
  IF img.length < Block \/ ~IsSqwt(img) THEN Refused
  ELSE [key |-> name, count |-> Len(h.blocks),
        document |-> FlattenSeq([i \in DOMAIN h.blocks |-> Decipher(name, h.blocks[i])]) \o h.tail]

-----------------------------------------------------------------------------
(* The scrambled container *)

Trailer == 241
Signature == <<239, 187, 191, 60, 63, 120, 109, 108>>   \* the mark and <?xml
Word(low, high) == low + 256 * high
Low(word) == word % 256
High(word) == word \div 256

KeyA(length) == (7 * length) % 65536

\* Widened before the addition; the complement of a 16-bit word.
KeyB(a) == 65535 - (((a + 1) \div 2^((a \div 3) % 4)) % 65536)

\* apply_word_key: every fourth byte's word from a start on, the last byte out of reach.
WordKey(buffer, start, key) ==
  LET o(i) == i - 1
      first(i) == o(i) >= start /\ (o(i) - start) % 4 = 0 /\ o(i) < Len(buffer) - 1
      second(i) == o(i) > start /\ (o(i) - 1 - start) % 4 = 0 /\ o(i) - 1 < Len(buffer) - 1
      key8(i) == IF first(i) THEN Low(key) ELSE IF second(i) THEN High(key) ELSE 0
  IN Evaluated([i \in DOMAIN buffer |-> buffer[i] ^^ key8(i)])

\* unscramble: the byte at 0 and the last change places, then two further in.
Unscramble(buffer) ==
  LET mirrored(o) == Len(buffer) - 1 - o
      moved(o) == (o < mirrored(o) /\ o % 2 = 0) \/ (mirrored(o) < o /\ mirrored(o) % 2 = 0)
  IN Evaluated([i \in DOMAIN buffer |-> IF moved(i - 1) THEN buffer[mirrored(i - 1) + 1] ELSE buffer[i]])

\* The byte one past a group of four, which no word pass covers.
FinalByte(buffer, a, b) ==
  IF Len(buffer) % 4 = 1 THEN [buffer EXCEPT ![Len(buffer)] = @ ^^ (Low(a) ^^ Low(b))] ELSE buffer

EncodeWithKey(document, b) ==
  LET a == KeyA(Len(document)) IN
  Bytes(Append(Unscramble(WordKey(WordKey(FinalByte(document, a, b), 2, b), 0, a)), Trailer))

EncodeScrambled(document) ==
  IF IsPrefix(Signature, document) THEN EncodeWithKey(document, KeyB(KeyA(Len(document)))) ELSE Refused

\* The second key is recovered from the two letters every document has there.
DecodeScrambled(img) ==
  LET Told(a, b, document) ==
        IF ~IsPrefix(Signature, document) THEN Refused
        ELSE [a |-> a, b |-> b, derived |-> b = KeyB(a), corrected |-> Len(document) % 4 = 1,
              document |-> document]
      Under(body, a, b) == Told(a, b, FinalByte(WordKey(WordKey(body, 0, a), 2, b), a, b))
      Of(body) ==
        IF Len(body) < 8 THEN Refused
        ELSE Under(body, KeyA(Len(body)), Word(body[7], body[8]) ^^ Word(109, 108))
      Trailed(data) ==
        IF data = <<>> \/ Last(data) # Trailer THEN Refused
        ELSE Of(Unscramble(SubSeq(data, 1, Len(data) - 1)))
  IN Trailed(Raw(img))
=============================================================================
