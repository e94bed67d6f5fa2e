------------------------------- MODULE Stream -------------------------------
(***************************************************************************)
(* A message as bytes: how words are encoded, the frame that tells the     *)
(* segments of a stream apart, and the packed form of words.               *)
(*                                                                         *)
(* src/serialization/pointers/pointer.utils.ts (the bits of pointers),     *)
(* message.ts (framing), packing.ts.                                       *)
(*                                                                         *)
(* A word is a sequence of 8 bytes, the least significant first. What is   *)
(* not packed is a sequence of words, what is packed one of bytes.         *)
(***************************************************************************)
EXTENDS Segments, FiniteSets, SequencesExt

CONSTANT MaxRun   \* how many words one byte counts: 255 in the code

ASSUME MaxRunAssumption == MaxRun \in Nat \ {0}

-----------------------------------------------------------------------------
(* The bits of words *)

(* At most 4 bytes of x, in two's complement if it is negative. *)
LittleEndian(n, x) == [i \in 1 .. n |-> (x \div 256 ^ (i - 1)) % 256]

FromLittleEndian(b) == FoldRight(LAMBDA d, x : d + 256 * x, b, 0)

ZeroBytes == [i \in 1 .. 8 |-> 0]

(* Of the codes for the elements of a list those of an eight byte element, *)
(* a pointer and a composite.                                              *)
ElementCode == [data |-> 5, pointers |-> 6, composite |-> 7]

(* What setStructPointer, setListPointer, setFarPointer and                *)
(* setInterfacePointer write, and the data as it is.                       *)
BytesOf(w) ==
  CASE w.t = "null" -> ZeroBytes
    [] w.t = "data" -> w.v
    [] w.t = "struct" -> LittleEndian(4, 4 * w.off) \o LittleEndian(2, w.size[1])
                         \o LittleEndian(2, w.size[2])
    [] w.t = "list" -> LittleEndian(4, 4 * w.off + 1)
                       \o LittleEndian(4, 8 * w.n + ElementCode[w.elem])
    [] w.t = "far" -> LittleEndian(4, 8 * (w.at[2] - 1) + (IF w.double THEN 4 ELSE 0) + 2)
                      \o LittleEndian(4, w.at[1] - 1)
    [] w.t = "cap" -> LittleEndian(4, 3) \o LittleEndian(4, w.id)

(* A word that data is read from. *)
DataOfBytes(b) == IF b = ZeroBytes THEN Null ELSE DataWord(b)

(* A word that a pointer is read from: getPointerType, getOffsetWords and  *)
(* the rest; the offset has a sign.  No count or number is 2^30 or more.   *)
PointerOfBytes(b) ==
  LET signed == FromLittleEndian([SubSeq(b, 1, 4) EXCEPT ![4] = IF @ > 127 THEN @ - 256 ELSE @])
      high == FromLittleEndian([SubSeq(b, 5, 8) EXCEPT ![4] = @ % 64])
      code == b[5] % 8
  IN  CASE b = ZeroBytes -> Null
        [] b[1] % 4 = 0 -> StructWord(signed \div 4, <<b[5] + 256 * b[6], b[7] + 256 * b[8]>>)
        [] b[1] % 4 = 1 -> ListWord(signed \div 4,
                                    IF code \in {6, 7} THEN <<"pointers", "composite">>[code - 5]
                                    ELSE "data", high \div 8)
        [] b[1] % 4 = 2 -> FarWord((b[1] \div 4) % 2 = 1, <<high + 1, signed \div 8 + 1>>)
        [] b[1] % 4 = 3 -> CapWord(high)

-----------------------------------------------------------------------------
(* Packing *)

(* getTagByte: a bit for each byte that is not zero. *)
TagByte(w) == FoldRight(LAMBDA b, x : 2 * x + (IF b = 0 THEN 0 ELSE 1), w, 0)

NonZero(w) == SelectSeq(w, LAMBDA b : b # 0)

ZeroTag == 0
SpanTag == 255
SpanThreshold == 2

(* pack, as far as it is: the output, the last tag, where the count of the *)
(* span is to be written, how many words the current range has.            *)
NothingPacked == [out |-> <<>>, tag |-> 1, at |-> 0, run |-> 0]

(* The end of a range: its count is written; what a byte cannot hold of it *)
(* is lost.                                                                *)
Counted(s) ==
  LET count == s.run % (MaxRun + 1)
  IN  CASE s.tag = ZeroTag -> Append(s.out, count)
        [] s.tag = SpanTag -> [s.out EXCEPT ![s.at] = count]
        [] OTHER -> s.out

(* Broken: a range may have one word more than a byte counts. *)
RoomForOneMore(s) == s.run <= MaxRun

Room(s) == s.run < MaxRun

(* The loop of pack, for one word: it goes on with a range of zero words,  *)
(* or of words that are copied as they are, or it starts anew.             *)
PackWord(s, w) ==
  LET tag == TagByte(w)
      out == Counted(s) \o <<tag>> \o NonZero(w)
  IN  IF s.tag = ZeroTag /\ tag = ZeroTag /\ Room(s) THEN [s EXCEPT !.run = @ + 1]
      ELSE IF s.tag = SpanTag /\ 8 - Len(NonZero(w)) < SpanThreshold /\ Room(s)
      THEN [s EXCEPT !.out = @ \o w, !.run = @ + 1]
      ELSE [out |-> IF tag = SpanTag THEN Append(out, 0) ELSE out,
            tag |-> tag, at |-> Len(out) + 1, run |-> 0]

Pack(words) == Counted(FoldLeft(PackWord, NothingPacked, words))

(* Whether byte k of a word is in a packed word with the tag, and how many *)
(* of the bytes up to it are.                                              *)
Present(tag, k) == (tag \div 2 ^ (k - 1)) % 2 = 1
PresentUpTo(tag, k) == Cardinality({j \in 1 .. k : Present(tag, j)})

(* getUnpackedByteLength, in words: from byte i on, with the last tag. *)
RECURSIVE UnpackedLengthFrom(_, _, _)
UnpackedLengthFrom(p, i, last) ==
  IF i > Len(p) THEN 0
  ELSE IF last = ZeroTag THEN p[i] + UnpackedLengthFrom(p, i + 1, 1)
  ELSE IF last = SpanTag THEN p[i] + UnpackedLengthFrom(p, i + 1 + 8 * p[i], 1)
  ELSE 1 + UnpackedLengthFrom(p, i + 1 + PresentUpTo(p[i], 8), p[i])

UnpackedLength(p) == UnpackedLengthFrom(p, 1, 1)

(* The loop of unpack. *)
RECURSIVE UnpackFrom(_, _, _)
UnpackFrom(p, i, last) ==
  LET zeros == [k \in 1 .. p[i] |-> ZeroBytes]
      span == [k \in 1 .. p[i] |-> SubSeq(p, i + 8 * k - 7, i + 8 * k)]
      word == [k \in 1 .. 8 |-> IF Present(p[i], k) THEN p[i + PresentUpTo(p[i], k)] ELSE 0]
  IN  IF i > Len(p) THEN <<>>
      ELSE IF last = ZeroTag THEN zeros \o UnpackFrom(p, i + 1, 1)
      ELSE IF last = SpanTag THEN span \o UnpackFrom(p, i + 1 + 8 * p[i], 1)
      ELSE <<word>> \o UnpackFrom(p, i + 1 + PresentUpTo(p[i], 8), p[i])

(* unpack writes into a buffer of the length that was computed before. *)
Unpack(p) == SubSeq(UnpackFrom(p, 1, 1), 1, UnpackedLength(p))

-----------------------------------------------------------------------------
(* Framing *)

(* Broken: there is no filler after an even number of segments. *)
FrameNumbersUnpadded(lens) == <<Len(lens) - 1>> \o lens

(* The numbers in the header of a stream: the segments but one, the length *)
(* of each, and a filler that makes the header a number of words.          *)
FrameNumbers(lens) ==
  <<Len(lens) - 1>> \o lens \o (IF Len(lens) % 2 = 0 THEN <<0>> ELSE <<>>)

(* getStreamFrame *)
StreamFrame(lens) ==
  LET x == FrameNumbers(lens)
  IN  [k \in 1 .. Len(x) \div 2 |-> LittleEndian(4, x[2 * k - 1]) \o LittleEndian(4, x[2 * k])]

SegmentBytes(m, s) == [i \in DOMAIN m.segs[s].words |-> BytesOf(m.segs[s].words[i])]
Lengths(m) == [s \in DOMAIN m.segs |-> Len(m.segs[s].words)]

(* The parts that are written one after the other: the header, and of each *)
(* segment the words that are allocated.                                   *)
Parts(m) == <<StreamFrame(Lengths(m))>> \o [s \in DOMAIN m.segs |-> SegmentBytes(m, s)]

ToArrayBuffer(m) == FlattenSeq(Parts(m))

(* Each part is packed by itself. *)
ToPackedArrayBuffer(m) == FlattenSeq([k \in DOMAIN Parts(m) |-> Pack(Parts(m)[k])])

(* The number at byte 4 * k of a stream. *)
NumberAt(words, k) ==
  FromLittleEndian(SubSeq(words[k \div 2 + 1], 4 * (k % 2) + 1, 4 * (k % 2) + 4))

(* getFramedSegments: the segments of a stream, or none if it throws. *)
FramedSegments(words) ==
  LET n == NumberAt(words, 0) + 1
      bytes == 4 + 4 * n
      header == (bytes + (bytes % 8)) \div 8
      from[s \in 1 .. n + 1] ==
        IF s = 1 THEN header ELSE from[s - 1] + NumberAt(words, s - 1)
  IN  IF 8 * header + 4 * n > 8 * Len(words) \/ from[n + 1] > Len(words) THEN <<>>
      ELSE [s \in 1 .. n |-> SubSeq(words, from[s] + 1, from[s + 1])]
=============================================================================
