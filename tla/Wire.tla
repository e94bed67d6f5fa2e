-------------------------------- MODULE Wire --------------------------------
(***************************************************************************)
(* A struct of a generated class at the root of a message: its setters,    *)
(* its getters, its unions and groups, and the trip of the message through *)
(* a stream, packed or not, after which it is used on.                     *)
(*                                                                         *)
(* src/zap/ (the classes), src/serialization/pointers/struct.utils.ts (the *)
(* accessors they call), message.ts, packing.ts.                           *)
(***************************************************************************)
EXTENDS Objects, Stream, RpcLayouts, SchemaLayouts, Bitwise

CONSTANTS
  Fill,       \* the bytes that numbers are filled with
  Contents,   \* the words that a text can have
  MaxCalls    \* bound on the number of calls

VARIABLES
  class,      \* the class of the struct
  msg,        \* the message
  orphan,     \* an Orphan and what it is an orphan of, or NoOrphan
  failed,     \* whether a call has thrown
  calls,      \* how many calls there have been
  last        \* the last call: the field, whether it wrote it, and what

vars == <<class, msg, orphan, failed, calls, last>>

Layout == RpcClasses @@ SchemaClasses

Depth == 3

Declared(c) ==
  {Layout[c].fields[n] : n \in DOMAIN Layout[c].fields} \cup
  {Layout[c].arms[n].f : n \in DOMAIN Layout[c].arms}

(* All classes but the groups, which are used as parts of others. *)
Classes ==
  DOMAIN Layout \
    {f.of : f \in {x \in UNION {Declared(c) : c \in DOMAIN Layout} : x.kind = "group"}}
-----------------------------------------------------------------------------
(* Fields *)

(* The fields of a class with those of its groups, each with the path to   *)
(* it and the discriminants that select it, from the outside in.           *)
RECURSIVE FieldsOf(_)
FieldsOf(c) ==
  LET l == Layout[c]
      When(n) == <<[at |-> l.which, is |-> l.arms[n].is]>>
      own == {[path |-> <<n>>, arms |-> <<>>, f |-> l.fields[n]] : n \in DOMAIN l.fields} \cup
             {[path |-> <<n>>, arms |-> When(n), f |-> l.arms[n].f] : n \in DOMAIN l.arms}
      Inside(e) == {[path |-> e.path \o g.path, arms |-> e.arms \o g.arms, f |-> g.f]
                      : g \in FieldsOf(e.f.of)}
  IN  own \cup UNION {Inside(e) : e \in {x \in own : x.f.kind = "group"}}

Fields == [c \in Classes |-> FieldsOf(c)]

IsPointer(e) == e.f.kind \in {"text", "list", "struct", "pointer"}

(* Where the pointer of the field is; getPointerSection *)
Slot(m, e) == LET o == ObjectAt(m, Root) IN Plus(o.at, o.size[1] + e.f.at)

-----------------------------------------------------------------------------
(* Numbers and booleans *)

(* n bytes of the data section, from byte at of it on. *)
GetBytes(m, at, n) ==
  LET w == BytesOf(WordAt(m, Plus(Content(m, Root), at \div 8)))
      first == at % 8
  IN  SubSeq(w, first + 1, first + n)

PutBytes(m, at, b) ==
  LET a == Plus(Content(m, Root), at \div 8)
      old == BytesOf(WordAt(m, a))
      first == at % 8
      new == [i \in 1 .. 8 |-> IF i - first \in DOMAIN b THEN b[i - first] ELSE old[i]]
  IN  Write(m, a, DataOfBytes(new))

XorBytes(a, b) == [i \in DOMAIN a |-> a[i] ^^ b[i]]

(* The getters use of the default the bytes they read of it. *)
GetNumber(m, f) ==
  XorBytes(GetBytes(m, f.at, f.bytes), [i \in 1 .. f.bytes |-> IF i <= f.masked THEN f.default[i] ELSE 0])

(* Broken: the default is left out. *)
SetNumberUnmasked(m, f, v) == PutBytes(m, f.at, v)

SetNumberAt(m, f, v) == PutBytes(m, f.at, XorBytes(v, f.default))

GetBit(m, f) ==
  LET b == GetBytes(m, f.at \div 8, 1)[1]
      stored == (b \div 2 ^ (f.at % 8)) % 2 = 1
  IN  stored # f.default

(* Broken: the other bits of the byte are lost. *)
SetBitAlone(m, f, v) ==
  PutBytes(m, f.at \div 8, <<IF v # f.default THEN 2 ^ (f.at % 8) ELSE 0>>)

(* Broken: a bit that is set already is added once more. *)
SetBitAdds(m, f, v) ==
  LET mask == 2 ^ (f.at % 8)
      b == GetBytes(m, f.at \div 8, 1)[1]
  IN  PutBytes(m, f.at \div 8, <<IF v # f.default THEN b + mask ELSE b - (b & mask)>>)

SetBitAt(m, f, v) ==
  LET mask == 2 ^ (f.at % 8)
      b == GetBytes(m, f.at \div 8, 1)[1]
      clear == b - (b & mask)
  IN  PutBytes(m, f.at \div 8, <<IF v # f.default THEN clear + mask ELSE clear>>)

-----------------------------------------------------------------------------
(* Unions *)

Which(m, at) == FromLittleEndian(GetBytes(m, at, 2))

(* testWhich, for all unions on the path. *)
Selected(m, e) == \A i \in DOMAIN e.arms : Which(m, e.arms[i].at) = e.arms[i].is

(* Broken: a discriminant is written as four bytes. *)
SelectWide(m, e) ==
  FoldLeft(LAMBDA x, a : PutBytes(x, a.at, LittleEndian(4, a.is)), m, e.arms)

(* The discriminants are written from the outside in: each group on the    *)
(* path by its _init method, the field by its setter.                      *)
Select(m, e) == FoldLeft(LAMBDA x, a : PutBytes(x, a.at, LittleEndian(2, a.is)), m, e.arms)

-----------------------------------------------------------------------------
(* What a field reads as *)

Scalar(kind, v) == Tree(kind, <<0, 0>>, 1, <<v>>, <<>>)
NumberValue(v) == Scalar("number", v)
BitValue(v) == Scalar("bit", LittleEndian(1, IF v THEN 1 ELSE 0))

TreeAt(m, p) == IF IsNull(m, p) THEN Leaf("unset") ELSE TreeOf(m, <<>>, ObjectAt(m, p), Depth)

ValueAt(m, e) ==
  CASE e.f.kind = "number" -> NumberValue(GetNumber(m, e.f))
    [] e.f.kind = "bit" -> BitValue(GetBit(m, e.f))
    [] IsPointer(e) -> TreeAt(m, Slot(m, e))
    [] OTHER -> Leaf("no value")

-----------------------------------------------------------------------------
(* Calls *)

Memory == [m |-> msg, caps |-> <<>>, ok |-> TRUE]

(* A call ends with g and the Orphan o. *)
Becomes(g, o, call) ==
  \E h \in {g} :
    /\ msg' = h.m
    /\ orphan' = o
    /\ failed' = ~h.ok
    /\ calls' = calls + 1
    /\ last' = call
    /\ UNCHANGED class

Wrote(e, v) == [path |-> e.path, wrote |-> TRUE, value |-> v]
Used(path) == [path |-> path, wrote |-> FALSE, value |-> Leaf("no value")]

(* checkDataBounds, checkPointerBounds *)
InBounds(e) ==
  LET bytes == 8 * ObjectAt(msg, Root).size[1]
  IN  CASE e.f.kind = "number" -> e.f.at + e.f.bytes <= bytes
        [] e.f.kind = "bit" -> e.f.at \div 8 < bytes
        [] IsPointer(e) -> e.f.at < ObjectAt(msg, Root).size[2]
        [] OTHER -> TRUE

Checked(e, g) == IF InBounds(e) THEN g ELSE [Memory EXCEPT !.ok = FALSE]

(* A call that writes v to e, which is all there is to it but for g. *)
Writes(e, v, g) == Becomes(Checked(e, g), orphan, Wrote(e, v))

(* What every setter begins with: the unions. *)
Selecting(e) == [Memory EXCEPT !.m = Select(@, e)]

SetNumber(e) ==
  /\ e.f.kind = "number"
  /\ \E b \in Fill :
       LET v == [i \in 1 .. e.f.bytes |-> b]
       IN  Writes(e, NumberValue(v), [Selecting(e) EXCEPT !.m = SetNumberAt(@, e.f, v)])

SetBit(e) ==
  /\ e.f.kind = "bit"
  /\ \E v \in BOOLEAN : Writes(e, BitValue(v), [Selecting(e) EXCEPT !.m = SetBitAt(@, e.f, v)])

(* The setter of an arm that has no value, and the _init method of a group *)
SetVoid(e) ==
  /\ e.f.kind \in {"void", "group"}
  /\ Writes(e, Leaf("no value"), Selecting(e))

(* An _init method, setText or adopt: the unions, then what the pointer    *)
(* leads to is erased.                                                     *)
Emptying(e) == Erase(Selecting(e), Slot(msg, e))

MayEmpty(e) == Avoids(ErasingMeets(TreeAt(msg, Slot(msg, e))))

Blank(kind, size, n) ==
  Tree(kind, size, n, [i \in 1 .. n * size[1] |-> Zero], [i \in 1 .. n * size[2] |-> Leaf("null")])

SizeOf(c) == Layout[c].size

InitStruct(e) ==
  /\ e.f.kind = "struct" /\ MayEmpty(e)
  /\ LET size == SizeOf(e.f.of)
     IN  Writes(e, Blank("struct", size, 1),
                [Emptying(e) EXCEPT !.m = NewStruct(@, Slot(@, e), size)])

ListShape(e, n) ==
  CASE e.f.of = "data" -> [elem |-> "data", size |-> <<1, 0>>, n |-> n]
    [] e.f.of = "pointers" -> [elem |-> "pointers", size |-> <<0, 1>>, n |-> n]
    [] OTHER -> [elem |-> "composite", size |-> SizeOf(e.f.of), n |-> n]

InitList(e) ==
  /\ e.f.kind = "list" /\ MayEmpty(e)
  /\ LET l == ListShape(e, 2)
     IN  Writes(e, Blank(l.elem, l.size, 2), [Emptying(e) EXCEPT !.m = NewList(@, Slot(@, e), l)])

(* Text.set: a list of bytes, here of words. *)
SetText(e) ==
  /\ e.f.kind = "text" /\ MayEmpty(e)
  /\ \E words \in Contents :
       LET l == [elem |-> "data", size |-> <<1, 0>>, n |-> Len(words)]
           Fills(m) ==
             LET at == Content(m, Slot(m, e))
             IN  FoldLeft(LAMBDA x, i : Write(x, Plus(at, i - 1), DataOfBytes(words[i])), m,
                          [i \in DOMAIN words |-> i])
       IN  Writes(e, Tree("data", l.size, l.n, words, <<>>),
                  [Emptying(e) EXCEPT !.m = Fills(NewList(@, Slot(@, e), l))])

(* Two fields are declared for the same, or the first for anything. *)
Accepts(e, of) == e.f.of = "any" \/ e.f.of = of

(* The setter of a struct, a list or a pointer: a copy of another field.   *)
(* The old content is erased by copyFrom, after the union is set.          *)
Set(e) ==
  /\ e.f.kind \in {"struct", "list", "pointer"}
  /\ \E src \in Fields[class] :
       /\ IsPointer(src) /\ src.path # e.path /\ Accepts(e, src.f.of) /\ Selected(msg, src)
       /\ src.f.at # e.f.at
       /\ Avoids(ErasingMeets(TreeAt(msg, Slot(msg, e))) \cup
                 CopyingMeets(TreeAt(msg, Slot(msg, src))))
       /\ Becomes(CopyFrom(Selecting(e), Slot(msg, src), Slot(msg, e)), orphan,
                  Wrote(e, ValueAt(msg, src)))

(* The getter of e, whose pointer is p.  getStruct and getList make an     *)
(* empty object of a null pointer, and move a struct, or a list of structs, *)
(* that is smaller than its class, as another arm may have left one.        *)
(* getStruct and getText refuse an object of another kind; getList takes it *)
(* as it is.                                                                *)
Got(h, e, p) ==
  LET o == ObjectAt(h.m, p)
      kinds == CASE e.f.kind = "struct" -> {"struct"}
                 [] e.f.kind = "text" -> {"data"}
                 [] OTHER -> {o.kind}
      Structs == e.f.kind = "struct" \/ (e.f.kind = "list" /\ e.f.of \notin {"data", "pointers"})
      Grown == CASE o.kind = "struct" -> Resize(h, p, SizeOf(e.f.of))
                 [] o.kind = "composite" -> ResizeElements(h, p, SizeOf(e.f.of))
                 [] OTHER -> h
  IN  IF IsNull(h.m, p)
      THEN CASE e.f.kind = "struct" -> [h EXCEPT !.m = NewStruct(@, p, SizeOf(e.f.of))]
             [] e.f.kind = "list" -> [h EXCEPT !.m = NewList(@, p, ListShape(e, 0))]
             [] OTHER -> h
      ELSE IF o.kind \notin kinds THEN [h EXCEPT !.ok = FALSE]
      ELSE IF Structs /\ TooSmall(o, SizeOf(e.f.of)) THEN Grown
      ELSE h

Get(e) ==
  /\ IsPointer(e) /\ Selected(msg, e)
  /\ \E p \in {Slot(msg, e)} :
       Becomes(Checked(e, Got(Memory, e, p)), orphan, Used(e.path))

(* _disown: what the getter gives is taken out. *)
Disown(e) ==
  /\ e.f.kind \in {"struct", "list", "pointer"} /\ Selected(msg, e)
  /\ orphan = NoOrphan
  /\ \E p \in {Slot(msg, e)} : \E g \in {Got(Memory, e, p)} :
       LET taken == [kind |-> "orphan", of |-> e.f.of, o |-> ObjectAt(g.m, p), tree |-> TreeAt(g.m, p)]
       IN  Becomes(IF g.ok THEN [g EXCEPT !.m = ErasePointer(@, p)] ELSE g,
                   IF g.ok THEN taken ELSE orphan, Wrote(e, Leaf("unset")))

(* _adopt: the union, then the pointer is erased and led to the orphan.    *)
Adopt(e) ==
  /\ orphan # NoOrphan
  /\ e.f.kind \in {"struct", "list", "pointer"} /\ Accepts(e, orphan.of)
  /\ MayEmpty(e) /\ Avoids(AdoptingMeets(msg, orphan.o, Slot(msg, e)))
  /\ Becomes([Emptying(e) EXCEPT !.m = Adopted(@, orphan.o, Slot(@, e))], NoOrphan,
             Wrote(e, orphan.tree))

-----------------------------------------------------------------------------
(* The trip *)

(* What is read where a pointer is looked for is one: the pointers that    *)
(* are found from the root, their landing pads and tags; the rest is data. *)
Decoded(segs) ==
  LET all == [single |-> FALSE,
              segs |-> [s \in DOMAIN segs |->
                [words |-> [i \in DOMAIN segs[s] |-> PointerOfBytes(segs[s][i])],
                 cap |-> Len(segs[s])]]]
      found == {Root} \cup SlotsOf(all, ObjectAt(all, Root), Depth)
      pads == {WordAt(all, p).at : p \in {q \in found : IsFar(all, q)}}
      tags == {Start(all, p) : p \in {q \in found : IsComposite(WordAt(all, Target(all, q)))}}
      pointers == found \cup pads \cup {Target(all, p) : p \in found} \cup tags
  IN  [all EXCEPT !.segs = [s \in DOMAIN segs |->
         [@[s] EXCEPT !.words = [i \in DOMAIN @ |->
            IF <<s, i>> \in pointers THEN @[i] ELSE DataOfBytes(segs[s][i])]]]]

Transmit ==
  \E packed \in BOOLEAN :
    LET stream == IF packed THEN Unpack(ToPackedArrayBuffer(msg)) ELSE ToArrayBuffer(msg)
        segs == FramedSegments(stream)
    IN  Becomes(IF segs = <<>> THEN [Memory EXCEPT !.ok = FALSE]
                ELSE [Memory EXCEPT !.m = Decoded(segs)], NoOrphan, Used(<<>>))

Init ==
  /\ class \in Classes
  /\ \E single \in BOOLEAN : msg = NewStruct(NewMessage(single), Root, SizeOf(class))
  /\ orphan = NoOrphan
  /\ failed = FALSE
  /\ calls = 0
  /\ last = Used(<<>>)

Next ==
  /\ ~failed /\ calls < MaxCalls
  /\ \/ \E e \in Fields[class] :
          \/ SetNumber(e) \/ SetBit(e) \/ SetVoid(e) \/ SetText(e) \/ InitStruct(e)
          \/ InitList(e) \/ Set(e) \/ Get(e) \/ Disown(e) \/ Adopt(e)
     \/ Transmit

Spec == Init /\ [][Next]_vars
-----------------------------------------------------------------------------
(* Properties *)

(* Every variable has its type: every data word eight bytes. *)
TypeOK ==
  /\ class \in Classes
  /\ \A s \in DOMAIN msg.segs : \A i \in DOMAIN msg.segs[s].words :
       LET b == BytesOf(msg.segs[s].words[i]) IN Len(b) = 8 /\ ToSet(b) \subseteq 0 .. 255
  /\ orphan.kind \in {"none", "orphan"}
  /\ failed \in BOOLEAN
  /\ calls \in 0 .. MaxCalls

(* No accessor of a class is out of the bounds of its struct, and no       *)
(* stream that was written is refused when it is read.                     *)
NeverThrows == ~failed

Readable(m) == {e \in Fields[class] : Selected(m, e)}

(* A new struct reads as its defaults, and a field that has just been      *)
(* written, whatever its arm and the accessor it was written with, can be  *)
(* read and reads as what was written.                                     *)
ReadsWhatWasWritten ==
  /\ calls = 0 => \A e \in Readable(msg) :
       /\ e.f.kind = "number" => ValueAt(msg, e) = NumberValue(e.f.default)
       /\ e.f.kind = "bit" => ValueAt(msg, e) = BitValue(e.f.default)
       /\ IsPointer(e) => ValueAt(msg, e) = Leaf("unset")
  /\ last.wrote /\ ~failed =>
       \E e \in Readable(msg) : e.path = last.path /\ ValueAt(msg, e) = last.value

(* No call changes a field but the one it is about, so long as the unions  *)
(* let it be read before and after: no two fields share a bit, a           *)
(* discriminant or a pointer, but those of different arms; and the trip    *)
(* through a stream changes nothing.                                       *)
OthersKeepTheirValues ==
  [][~failed' => \A e \in Readable(msg) \cap Readable(msg') :
       IsPrefix(e.path, last'.path) \/ ValueAt(msg', e) = ValueAt(msg, e)]_vars

(* A discriminant, and with it the arm that can be read, changes only by a *)
(* call that writes a field of that union: the arms that can be read of    *)
(* the other unions stay as they are.                                      *)
OtherUnionsStay ==
  [][~failed' => \A e \in Readable(msg) \ Readable(msg') :
       \E w \in Readable(msg') :
         /\ last'.wrote /\ w.path = last'.path
         /\ \E i \in DOMAIN e.arms, j \in DOMAIN w.arms :
              e.arms[i].at = w.arms[j].at /\ e.arms[i].is # w.arms[j].is]_vars

(* Packing loses nothing: the stream is unpacked into what was packed, and *)
(* the length that is computed for it beforehand is the length it has.     *)
UnpackInvertsPack ==
  LET packed == ToPackedArrayBuffer(msg)
  IN  /\ Unpack(packed) = ToArrayBuffer(msg)
      /\ UnpackedLength(packed) = Len(ToArrayBuffer(msg))

(* The segments that are found in a stream are those that were written. *)
FrameIsParsed ==
  FramedSegments(ToArrayBuffer(msg)) = [s \in DOMAIN msg.segs |-> SegmentBytes(msg, s)]
=============================================================================
