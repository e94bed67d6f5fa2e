------------------------------ MODULE Objects ------------------------------
(***************************************************************************)
(* Structs, lists and capabilities in the memory of a message: what is     *)
(* under a pointer, and the operations that make, copy, move and erase it. *)
(*                                                                         *)
(* src/serialization/pointers/: pointer.utils.ts, struct.utils.ts,         *)
(* orphan.ts.                                                              *)
(*                                                                         *)
(* The operations are written on a record h of the memory, the capability  *)
(* table and whether the code has not thrown so far: an access past the    *)
(* end of a buffer throws, and what was written before stays.              *)
(***************************************************************************)
EXTENDS Segments, FiniteSets, SequencesExt

CONSTANTS
  Zero,       \* what a zero word is read as
  Clients,    \* capabilities that are put into messages
  Avoided     \* kinds of calls that are left out: see Faults

(* The calls the code does not carry out, each by a name. *)
Faults == {
  "replaceData",     \* erase or dispose of a list of data: 8 words for each word
  "replaceStructs",  \* erase a list of structs that have data and pointers, or neither
  "copyStructs",     \* copy a list of structs that have data and pointers
  "copyFromInside",  \* replace an object by a part of itself
  "moveStructs",     \* adopt a list of structs through a double far pointer
  "upgradePointers", \* upgrade a list of structs that have pointers
  "moveCap"}         \* move a capability away from its pointer

ASSUME AvoidedAssumption == Avoided \subseteq Faults

Root == <<1, 1>>
NoOrphan == [kind |-> "none"]
WordBytes == 8

-----------------------------------------------------------------------------
(* Objects *)

(* What a pointer says of its object, and what an Orphan keeps of it: the  *)
(* kind, where the content is, the size of the struct or of an element,    *)
(* the number of elements, the capability. The capability is read off the  *)
(* pointer itself, which may be a far pointer.                             *)
ObjectAt(m, p) ==
  LET Obj(at, kind, size, n) == [kind |-> kind, at |-> at, size |-> size, n |-> n, id |-> 0]
      Described(w, tag, at) ==
        CASE w = Null -> Obj(at, "struct", <<0, 0>>, 1)
          [] w.t = "struct" -> Obj(at, "struct", w.size, 1)
          [] IsComposite(w) -> IF tag = Null THEN Obj(at, "composite", <<0, 0>>, 0)
                               ELSE Obj(at, "composite", tag.size, tag.off)
          [] w.t = "list" -> Obj(at, w.elem, IF w.elem = "data" THEN <<1, 0>> ELSE <<0, 1>>, w.n)
          [] w.t = "cap" -> [Obj(at, "cap", <<0, 0>>, 0) EXCEPT
                               !.id = IF IsFar(m, p) THEN WordAt(m, p).at[1] - 1 ELSE w.id]
  IN  Described(WordAt(m, Target(m, p)), WordAt(m, Start(m, p)), Content(m, p))

WordLength(size) == size[1] + size[2]
Words(o) == o.n * WordLength(o.size)
TagWords(o) == IF o.kind = "composite" THEN 1 ELSE 0

(* setStructPointer, setListPointer, setInterfacePointer *)
PointerTo(o) ==
  CASE o.kind = "struct" -> StructWord(0, o.size)
    [] o.kind = "composite" -> ListWord(0, "composite", Words(o))
    [] o.kind \in {"data", "pointers"} -> ListWord(0, o.kind, o.n)
    [] o.kind = "cap" -> CapWord(o.id)

(* The words of a section of an object: of each element the words from     *)
(* first, as many as the section has.                                      *)
Section(o, first, length) ==
  [k \in 1 .. o.n * length |->
    Plus(o.at, ((k - 1) \div length) * WordLength(o.size) + first + ((k - 1) % length))]

DataOf(o) == Section(o, 0, o.size[1])
KidsOf(o) == Section(o, o.size[1], o.size[2])

-----------------------------------------------------------------------------
(* What can be read back *)

Tree(kind, size, n, data, kids) ==
  [kind |-> kind, size |-> size, n |-> n, data |-> data, kids |-> kids]
Leaf(kind) == Tree(kind, <<0, 0>>, 0, <<>>, <<>>)

(* A word of data. *)
ValueOf(w) == IF w = Null THEN Zero ELSE w.v

(* The tree of structs, lists and capabilities under an object; fuel ends  *)
(* it where a corrupted message has a cycle.                               *)
RECURSIVE TreeOf(_, _, _, _)
TreeOf(m, caps, o, fuel) ==
  LET data == DataOf(o)
      kids == KidsOf(o)
      Under(p) == IF WordAt(m, p).t = "data" THEN Leaf("data as a pointer")
                  ELSE TreeOf(m, caps, ObjectAt(m, p), fuel - 1)
  IN  CASE fuel = 0 -> Leaf("too deep")
        [] o.kind = "cap" -> Leaf(IF o.id < Len(caps) THEN caps[o.id + 1] ELSE "no client")
        [] o.kind = "struct" /\ o.size = <<0, 0>> -> Leaf("null")
        [] \E i \in DOMAIN data : ~Allocated(m, data[i]) -> Leaf("outside")
        [] \E i \in DOMAIN kids : ~Allocated(m, kids[i]) -> Leaf("outside")
        [] \E i \in DOMAIN data : WordAt(m, data[i]).t \notin {"null", "data"} -> Leaf("a pointer as data")
        [] OTHER -> Tree(o.kind, o.size, o.n,
                         [i \in DOMAIN data |-> ValueOf(WordAt(m, data[i]))],
                         [i \in DOMAIN kids |-> Under(kids[i])])

RECURSIVE Nesting(_)
Nesting(t) == 1 + (IF t.kids = <<>> THEN 0 ELSE Max({Nesting(t.kids[i]) : i \in DOMAIN t.kids}))

RECURSIVE Subtrees(_)
Subtrees(t) == {t} \cup UNION {Subtrees(t.kids[i]) : i \in DOMAIN t.kids}

(* The addresses of the pointers under an object. *)
RECURSIVE SlotsOf(_, _, _)
SlotsOf(m, o, fuel) ==
  LET kids == ToSet(KidsOf(o))
  IN  IF fuel = 0 THEN {}
      ELSE kids \cup UNION {SlotsOf(m, ObjectAt(m, p), fuel - 1) : p \in kids}

-----------------------------------------------------------------------------
(* Erasing *)

(* Segment.fillZeroWords: a view past the end of the buffer cannot be made. *)
FillZero(h, a, n) ==
  IF ~h.ok THEN h
  ELSE IF a[2] - 1 + n > h.m.segs[a[1]].cap THEN [h EXCEPT !.ok = FALSE]
  ELSE [h EXCEPT !.m.segs[a[1]].words =
          [i \in DOMAIN @ |-> IF i \in a[2] .. a[2] + n - 1 THEN Null ELSE @[i]]]

(* Broken: the tag is counted once more. *)
ErasedWordsAndTag(o) ==
  CASE o.kind = "data" -> WordBytes * o.n
    [] o.kind = "composite" -> o.n + 1
    [] OTHER -> 0

(* The words to fill after the pointers of the content: in a list the      *)
(* bytes of its elements, in a list of structs their number.               *)
ErasedWords(o) ==
  CASE o.kind = "data" -> WordBytes * o.n
    [] o.kind = "composite" -> o.n
    [] OTHER -> 0

(* erase: the data of a struct or the tag of a list, then the pointers,    *)
(* which are looked for at the start of the struct or element, then the    *)
(* content of a list, then the pointer.  Data where a pointer is looked    *)
(* for counts as a failure: what it does depends on the bits.              *)
RECURSIVE Erase(_, _)

EraseContent(h, o) ==
  LET first == CASE o.kind = "struct" -> FillZero(h, o.at, o.size[1])
                 [] o.kind = "composite" -> FillZero(h, Plus(o.at, -1), 1)
                 [] OTHER -> h
  IN  FillZero(FoldLeft(Erase, first, Section(o, 0, o.size[2])), o.at, ErasedWords(o))

UnlessFailed(h, p) == IF h.ok THEN [h EXCEPT !.m = ErasePointer(@, p)] ELSE h

Erase(h, p) ==
  IF ~h.ok \/ IsNull(h.m, p) THEN h
  ELSE IF WordAt(h.m, p).t = "data" THEN [h EXCEPT !.ok = FALSE]
  ELSE UnlessFailed(EraseContent(h, ObjectAt(h.m, p)), p)

-----------------------------------------------------------------------------
(* Copying *)

(* Segment.copyWords, within one message *)
CopyWords(h, dst, src, n) ==
  [h EXCEPT !.m.segs[dst[1]].words =
     [i \in DOMAIN @ |-> IF i \in dst[2] .. dst[2] + n - 1
                         THEN WordAt(h.m, Plus(src, i - dst[2])) ELSE @[i]]]

(* The words that are copied as they are: the data of a struct or list; a  *)
(* list of structs with data as a whole, pointers included.                *)
CopiedWords(o) ==
  CASE o.kind = "struct" -> o.size[1]
    [] o.kind = "data" -> o.n
    [] o.kind = "composite" -> IF o.size[1] > 0 THEN Words(o) ELSE 0
    [] OTHER -> 0

(* copyFromInterface: another entry for the same client. *)
CopyInterface(h, o, p) ==
  IF o.id >= Len(h.caps) THEN h
  ELSE [h EXCEPT !.m = Write(@, p, CapWord(Len(h.caps))), !.caps = Append(@, h.caps[o.id + 1])]

RECURSIVE CopyFrom(_, _, _)

(* copyFromStruct, copyFromList: the data, then the pointers one by one;   *)
(* p is linked last, to the new space a.                                   *)
CopyContent(h, o, a, p) ==
  LET tag == TagWords(o)
      to == [o EXCEPT !.at = Plus(a.at, tag)]
      filled == CopyWords([h EXCEPT !.m = a.m], a.at, Plus(o.at, -tag), tag + CopiedWords(o))
      CopyKid(g, i) == CopyFrom(g, KidsOf(o)[i], KidsOf(to)[i])
      Linked(g) == IF g.ok THEN [g EXCEPT !.m = Link(@, a.at, p, PointerTo(o))] ELSE g
  IN  Linked(FoldLeft(CopyKid, filled, [i \in 1 .. o.n * o.size[2] |-> i]))

CopyObject(h, o, p) ==
  IF o.kind = "cap" THEN CopyInterface(h, o, p)
  ELSE CopyContent(h, o, Allocate(h.m, p[1], TagWords(o) + Words(o)), p)

(* copyFrom: what is there is erased first. *)
CopyFrom(h, src, p) ==
  LET CopyTo(e) == IF ~e.ok \/ IsNull(e.m, src) THEN e ELSE CopyObject(e, ObjectAt(e.m, src), p)
  IN  IF src = p \/ ~h.ok THEN h ELSE CopyTo(Erase(h, p))

-----------------------------------------------------------------------------
(* Moving *)

(* Broken: the tag of a list of structs is left behind. *)
RelinkToContent(m, src, dst) == Link(m, Content(m, src), dst, WordAt(m, Target(m, src)))

(* Let dst lead to what src leads to: of the old pointer all but the       *)
(* offset is kept.                                                         *)
Relink(m, src, dst) == Link(m, Start(m, src), dst, WordAt(m, Target(m, src)))

SmallerOf(a, b) == IF a < b THEN a ELSE b

(* Broken: as many words of the old place are wiped as the new one has. *)
ResizeWipingNew(h, p, size) ==
  LET o == ObjectAt(h.m, p)
      a == Allocate(h.m, p[1], WordLength(size))
      data == CopyWords([h EXCEPT !.m = a.m], a.at, o.at, SmallerOf(o.size[1], size[1]))
      linked == Link(data.m, a.at, p, StructWord(0, size))
  IN  FillZero([h EXCEPT !.m = linked], o.at, WordLength(size))

(* resize: a shallow copy; null pointers stay null, the old content is     *)
(* wiped.                                                                  *)
Resize(h, p, size) ==
  LET o == ObjectAt(h.m, p)
      a == Allocate(h.m, p[1], WordLength(size))
      data == CopyWords([h EXCEPT !.m = a.m], a.at, o.at, SmallerOf(o.size[1], size[1]))
      linked == Link(data.m, a.at, p, StructWord(0, size))
      Move(m, i) ==
        LET src == Plus(o.at, o.size[1] + i)
        IN  IF IsNull(m, src) THEN m ELSE Relink(m, src, Plus(a.at, size[1] + i))
      moved == FoldLeft(Move, linked,
                        [i \in 1 .. SmallerOf(o.size[2], size[2]) |-> i - 1])
  IN  FillZero([h EXCEPT !.m = moved], o.at, WordLength(o.size))

(* getList on a list of structs that is too small: of each element all     *)
(* words are copied to the start of the new one, and all pointers moved.   *)
ResizeElements(h, p, size) ==
  LET o == ObjectAt(h.m, p)
      a == Allocate(h.m, p[1], 1 + o.n * WordLength(size))
      new == [o EXCEPT !.size = size, !.at = Plus(a.at, 1)]
      tagged == Write(Link(a.m, a.at, p, PointerTo(new)), a.at, StructWord(o.n, size))
      from == KidsOf(o)
      to == Section(new, size[1], o.size[2])
      Move(m, k) == Relink(m, from[k], to[k])
      Element(g, i) ==
        LET d == CopyWords(g, Plus(new.at, i * WordLength(size)),
                           Plus(o.at, i * WordLength(o.size)), WordLength(o.size))
        IN  [d EXCEPT !.m = FoldLeft(Move, @, [j \in 1 .. o.size[2] |-> i * o.size[2] + j])]
      done == FoldLeft(Element, [h EXCEPT !.m = tagged], [i \in 1 .. o.n |-> i - 1])
  IN  FillZero(done, o.at, Words(o))

TooSmall(o, size) == o.size[1] < size[1] \/ o.size[2] < size[2]

(* Broken: no room for the tag. *)
NewListNoTag(m, p, l) ==
  LET o == [kind |-> l.elem, at |-> p, size |-> l.size, n |-> l.n, id |-> 0]
      a == Allocate(m, p[1], Words(o))
      tagged == IF TagWords(o) = 1 THEN Write(a.m, a.at, StructWord(l.n, l.size)) ELSE a.m
  IN  Link(tagged, a.at, p, PointerTo(o))

(* initList; in a composite list the tag comes first. *)
NewList(m, p, l) ==
  LET o == [kind |-> l.elem, at |-> p, size |-> l.size, n |-> l.n, id |-> 0]
      a == Allocate(m, p[1], TagWords(o) + Words(o))
      tagged == IF TagWords(o) = 1 THEN Write(a.m, a.at, StructWord(l.n, l.size)) ELSE a.m
  IN  Link(tagged, a.at, p, PointerTo(o))

NewStruct(m, p, size) ==
  LET a == Allocate(m, p[1], WordLength(size)) IN Link(a.m, a.at, p, StructWord(0, size))

(* Orphan._moveTo: the content is that of the first element; the offset in *)
(* a pointer to a list of structs is one less, for the tag.                *)
Adopted(m, o, p) ==
  LET r == InitPointer(m, o.at, p)
  IN  Write(r.m, r.at, WithOffset(PointerTo(o), r.off - TagWords(o)))

-----------------------------------------------------------------------------
(* What is left out *)

(* The faults an operation on a tree meets. *)
ErasingMeets(t) ==
  (IF \E u \in Subtrees(t) : u.kind = "data" /\ u.n > 0 THEN {"replaceData"} ELSE {}) \cup
  (IF \E u \in Subtrees(t) : u.kind = "composite" /\ (u.size[1] = 0 <=> u.size[2] = 0)
   THEN {"replaceStructs"} ELSE {})

CopyingMeets(t) ==
  IF \E u \in Subtrees(t) : /\ u.kind = "composite" /\ u.size[1] > 0
                          /\ \E i \in DOMAIN u.kids : u.kids[i].kind # "null"
  THEN {"copyStructs"} ELSE {}

MovingMeets(t) ==
  IF \E i \in DOMAIN t.kids : t.kids[i].kind \in Clients THEN {"moveCap"} ELSE {}

Avoids(faults) == faults \cap Avoided = {}

AdoptingMeets(m, o, p) ==
  (IF o.kind = "cap" /\ o.at[1] # p[1] THEN {"moveCap"} ELSE {}) \cup
  (IF o.kind = "composite" /\ o.at[1] # p[1] /\ ~HasCapacity(m, o.at[1], 1)
   THEN {"moveStructs"} ELSE {})
=============================================================================
