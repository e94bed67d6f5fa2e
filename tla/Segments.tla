------------------------------ MODULE Segments ------------------------------
(***************************************************************************)
(* The memory of a message: segments of words, allocation, and the pointer *)
(* words that lead from one place to another.                              *)
(*                                                                         *)
(* src/serialization/segment.ts, message.ts, arena/ and the part of        *)
(* pointers/pointer.utils.ts that reads and writes single pointers.        *)
(*                                                                         *)
(* A word is zero (Null), a pointer, or data.  An address is a pair        *)
(* <<segment, word>>; both count from 1, where the code has byte offsets   *)
(* from 0.  The offset in a struct or list pointer counts, as in the code, *)
(* the words between the pointer and its content.                          *)
(***************************************************************************)
EXTENDS Integers, Sequences

CONSTANTS
  Data,      \* what a word of data can hold, apart from zero: numbers
  SegWords   \* DEFAULT_BUFFER_SIZE and MIN_SINGLE_SEGMENT_GROWTH, in words

ASSUME SegWordsAssumption == SegWords \in Nat \ {0}

-----------------------------------------------------------------------------
(* Words *)

Null == [t |-> "null"]
DataWord(v) == [t |-> "data", v |-> v]

(* A struct pointer; with the number of elements for an offset, the tag of *)
(* a composite list. size is <<data words, pointers>>.                     *)
StructWord(off, size) == [t |-> "struct", off |-> off, size |-> size]

(* elem is "data", "pointers" or "composite"; n counts elements, in a      *)
(* composite list the words of all elements. A data element is one word.   *)
ListWord(off, elem, n) == [t |-> "list", off |-> off, elem |-> elem, n |-> n]

(* setFarPointer: at is the address of the landing pad; in the first word  *)
(* of the landing pad of a double far pointer, that of the content.        *)
FarWord(double, at) == [t |-> "far", double |-> double, at |-> at]

CapWord(id) == [t |-> "cap", off |-> 0, id |-> id]

(* A pointer with another offset. Null is the pointer to an empty struct   *)
(* that follows it directly: the zero word.                                *)
WithOffset(w, off) ==
  LET v == IF w = Null THEN StructWord(0, <<0, 0>>) ELSE w
  IN  IF v.t = "struct" /\ v.size = <<0, 0>> /\ off = 0 THEN Null ELSE [v EXCEPT !.off = off]

-----------------------------------------------------------------------------
(* Messages *)

WordAt(m, a) == m.segs[a[1]].words[a[2]]

Plus(a, n) == <<a[1], a[2] + n>>

(* The word is in an allocated part of a segment. *)
Allocated(m, a) == a[1] \in DOMAIN m.segs /\ a[2] \in DOMAIN m.segs[a[1]].words

Write(m, a, w) == [m EXCEPT !.segs[a[1]].words[a[2]] = w]

Zeros(n) == [i \in 1 .. n |-> Null]

(* A new message with segment 0: in new Message() there is room for the    *)
(* root pointer and the rest is free; a message on an arena of its own     *)
(* takes the whole first buffer of the arena for allocated.                *)
NewMessage(single) ==
  [single |-> single,
   segs |-> <<[words |-> Zeros(IF single THEN 1 ELSE SegWords), cap |-> SegWords]>>]

(* Broken: one word too many. *)
HasCapacityLess(m, s, n) == m.segs[s].cap - Len(m.segs[s].words) >= n - 1

HasCapacity(m, s, n) == m.segs[s].cap - Len(m.segs[s].words) >= n

Larger(n) == IF n > SegWords THEN n ELSE SegWords

(* Segment.allocate, when there is room in segment s. *)
Extended(m, s, n) ==
  [m  |-> [m EXCEPT !.segs[s].words = @ \o Zeros(n)],
   at |-> <<s, Len(m.segs[s].words) + 1>>]

(* Segment.allocate: in the segment itself, or in what allocateSegment     *)
(* gives: a single segment arena gets a larger buffer, a multi segment     *)
(* arena one more segment.                                                 *)
Allocate(m, s, n) ==
  IF HasCapacity(m, s, n) THEN Extended(m, s, n)
  ELSE IF m.single THEN Extended([m EXCEPT !.segs[1].cap = @ + Larger(n)], 1, n)
  ELSE Extended([m EXCEPT !.segs = Append(@, [words |-> <<>>, cap |-> Larger(n)])],
                Len(m.segs) + 1, n)

-----------------------------------------------------------------------------
(* Reading pointers *)

IsNull(m, p) == WordAt(m, p) = Null
IsFar(m, p) == WordAt(m, p).t = "far"
IsDoubleFar(m, p) == IsFar(m, p) /\ WordAt(m, p).double

(* followFars: where the pointer itself is. *)
Target(m, p) ==
  IF IsDoubleFar(m, p) THEN Plus(WordAt(m, p).at, 1)
  ELSE IF IsFar(m, p) THEN WordAt(m, p).at
  ELSE p

IsComposite(w) == w.t = "list" /\ w.elem = "composite"

(* Where the first word that belongs to the object is: in a composite list *)
(* the tag.                                                                *)
Start(m, p) ==
  IF IsDoubleFar(m, p) THEN WordAt(m, WordAt(m, p).at).at
  ELSE LET t == Target(m, p)
           w == WordAt(m, t)
       IN  Plus(t, 1 + (IF w = Null THEN 0 ELSE w.off))

(* getContent: in a composite list the first element, after the tag. *)
Content(m, p) ==
  LET c == Start(m, p)
  IN  IF IsComposite(WordAt(m, Target(m, p))) THEN Plus(c, 1) ELSE c

-----------------------------------------------------------------------------
(* Writing pointers *)

(* initPointer: what is written to let p lead to content: the message, the *)
(* place for the pointer itself, and its offset.                           *)
InitPointer(m, content, p) ==
  IF p[1] = content[1] THEN [m |-> m, at |-> p, off |-> content[2] - p[2] - 1]
  ELSE IF ~HasCapacity(m, content[1], 1)
  THEN LET pad == Allocate(m, p[1], 2)
           far == Write(pad.m, p, FarWord(TRUE, pad.at))
       IN  [m |-> Write(far, pad.at, FarWord(FALSE, content)),
            at |-> Plus(pad.at, 1), off |-> 0]
  ELSE LET pad == Allocate(m, content[1], 1)
       IN  [m |-> Write(pad.m, p, FarWord(FALSE, pad.at)),
            at |-> pad.at, off |-> content[2] - pad.at[2] - 1]

(* initPointer and setStructPointer, setListPointer or setInterfacePointer *)
Link(m, content, p, w) ==
  LET r == InitPointer(m, content, p)
  IN  Write(r.m, r.at, WithOffset(w, r.off))

(* erasePointer: zero the pointer and its landing pad. *)
ErasePointer(m, p) ==
  LET pad == WordAt(m, p).at
      tag == IF IsDoubleFar(m, p) THEN Write(m, Plus(pad, 1), Null) ELSE m
      far == IF IsFar(m, p) THEN Write(tag, pad, Null) ELSE m
  IN  Write(far, p, Null)
=============================================================================
