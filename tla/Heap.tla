-------------------------------- MODULE Heap --------------------------------
(***************************************************************************)
(* A message as its users build it: struct and list initialisation, deep   *)
(* copies, erasure, orphans, upgrades of structs that were written with an *)
(* older schema, and the trip through a stream.                            *)
(*                                                                         *)
(* src/serialization/pointers/: pointer.utils.ts, struct.utils.ts,         *)
(* orphan.ts; message.ts.                                                  *)
(***************************************************************************)
EXTENDS Objects

CONSTANTS
  Sizes,      \* sizes <<data words, pointers>> of structs
  Lists,      \* shapes of new lists: [elem, size, n]
  MaxWords,   \* bound on the words of a message
  MaxCaps,    \* bound on its capability table
  MaxCalls,   \* bound on the number of calls
  Depth       \* bound on the nesting of objects

VARIABLES
  msg,        \* the message: its segments
  capTable,   \* its capability table
  orphan,     \* an Orphan, or NoOrphan
  failed,     \* whether a call has thrown
  calls,      \* how many calls there have been
  read        \* what can be read back now, of the message and of the orphan:
              \* a function of the other variables

vars == <<msg, capTable, orphan, failed, calls, read>>

TreeAt(p) == TreeOf(msg, capTable, ObjectAt(msg, p), Depth + 2)

(* What can be read from a message after a call, and of an orphan o. *)
ReadBack(h, o) ==
  [root   |-> IF h.ok THEN TreeOf(h.m, h.caps, ObjectAt(h.m, Root), Depth + 2) ELSE Leaf("thrown"),
   orphan |-> IF o = NoOrphan THEN NoOrphan
              ELSE IF h.ok THEN TreeOf(h.m, h.caps, o, Depth + 2) ELSE Leaf("thrown")]

Slots == {Root} \cup SlotsOf(msg, ObjectAt(msg, Root), Depth + 1)

-----------------------------------------------------------------------------
(* Steps *)

Memory == [m |-> msg, caps |-> capTable, ok |-> TRUE]

WordsUsed(m) == FoldLeft(LAMBDA n, s : n + Len(s.words), 0, m.segs)

(* A call ends with g, and with the Orphan o; the bounds of the model. *)
Becomes(g, o) ==
  \E h \in {g} :
    /\ WordsUsed(h.m) <= MaxWords
    /\ Len(h.caps) <= MaxCaps
    /\ msg' = h.m
    /\ capTable' = h.caps
    /\ orphan' = o
    /\ failed' = ~h.ok
    /\ calls' = calls + 1
    /\ read' = ReadBack(h, o)
    /\ Nesting(read'.root) <= Depth

(* What many calls begin with: what p leads to is erased. *)
Emptying(p) == Erase(Memory, p)

Init ==
  /\ \E single \in BOOLEAN : msg = NewMessage(single)
  /\ capTable = <<>>
  /\ orphan = NoOrphan
  /\ failed = FALSE
  /\ calls = 0
  /\ read = ReadBack(Memory, NoOrphan)

(* initRoot, initStructAt and the generated _init methods *)
InitStruct(p) ==
  /\ Avoids(ErasingMeets(TreeAt(p)))
  /\ \E size \in Sizes : Becomes([Emptying(p) EXCEPT !.m = NewStruct(@, p, size)], orphan)

InitList(p) ==
  /\ Avoids(ErasingMeets(TreeAt(p)))
  /\ \E l \in Lists : Becomes([Emptying(p) EXCEPT !.m = NewList(@, p, l)], orphan)

(* A setter of a struct, or List.set of a list of data, that writes a word *)
SetWord(p) ==
  /\ \E a \in ToSet(DataOf(ObjectAt(msg, p))), v \in Data :
       Becomes([Memory EXCEPT !.m = Write(@, a, DataWord(v))], orphan)

(* The setter of an interface: addCap and setInterfacePointer; what was    *)
(* there is not erased.                                                    *)
SetInterface(p) ==
  /\ \E c \in Clients :
       Becomes([Memory EXCEPT !.m = Write(@, p, CapWord(Len(capTable))), !.caps = Append(@, c)],
               orphan)

(* setRoot, and the setters of structs and lists. *)
Copy(p) ==
  /\ \E src \in Slots :
       /\ Avoids(IF src = p THEN {}
                 ELSE ErasingMeets(TreeAt(p)) \cup CopyingMeets(TreeAt(src)))
       /\ Avoids(IF src \in SlotsOf(msg, ObjectAt(msg, p), Depth + 1)
                 THEN {"copyFromInside"} ELSE {})
       /\ Becomes(CopyFrom(Memory, src, p), orphan)

(* getStruct, getRoot: null is initialized, a struct of an older version   *)
(* of the schema gets more room.                                           *)
GetStruct(p) ==
  /\ \E size \in Sizes :
       LET o == ObjectAt(msg, p)
       IN  \/ /\ IsNull(msg, p)
              /\ Becomes([Memory EXCEPT !.m = NewStruct(@, p, size)], orphan)
           \/ /\ ~IsNull(msg, p) /\ o.kind = "struct" /\ TooSmall(o, size)
              /\ Avoids(MovingMeets(TreeAt(p)))
              /\ Becomes(Resize(Memory, p, size), orphan)

(* getList *)
GetList(p) ==
  /\ \E size \in Sizes :
       LET o == ObjectAt(msg, p)
       IN  \/ /\ IsNull(msg, p)
              /\ Becomes([Memory EXCEPT !.m = NewList(@, p,
                                           [elem |-> "composite", size |-> size, n |-> 0])], orphan)
           \/ /\ ~IsNull(msg, p) /\ o.kind = "composite" /\ TooSmall(o, size)
              /\ Avoids(IF o.size[2] > 0 \/ size[1] < o.size[1]
                        THEN {"upgradePointers"} ELSE {})
              /\ Becomes(ResizeElements(Memory, p, size), orphan)

(* disown: an Orphan keeps what the pointer said. *)
Disown(p) ==
  /\ orphan = NoOrphan
  /\ Becomes([Memory EXCEPT !.m = ErasePointer(@, p)], ObjectAt(msg, p))

Adopt(p) ==
  /\ orphan # NoOrphan
  /\ Avoids(ErasingMeets(TreeAt(p)))
  /\ Avoids(AdoptingMeets(msg, orphan, p))
  /\ Becomes([Emptying(p) EXCEPT !.m = Adopted(@, orphan, p)], NoOrphan)

(* Orphan.dispose: the content is wiped; what its pointers lead to stays.  *)
Dispose ==
  /\ orphan # NoOrphan
  /\ Avoids(IF orphan.kind \in {"data", "pointers", "composite"} /\ Words(orphan) > 0
            THEN {"replaceData"} ELSE {})
  /\ LET n == IF orphan.kind = "struct" THEN Words(orphan) ELSE WordBytes * Words(orphan)
     IN  Becomes(FillZero(Memory, orphan.at, n), NoOrphan)

(* toArrayBuffer, getFramedSegments and preallocateSegments: the allocated *)
(* part of each segment, taken for allocated as a whole on the other side. *)
(* The connection fills the capability table there in the same order.      *)
Received(m) ==
  [single |-> FALSE,
   segs |-> [s \in DOMAIN m.segs |-> [m.segs[s] EXCEPT !.cap = Len(m.segs[s].words)]]]

Transmit == Becomes([Memory EXCEPT !.m = Received(@)], NoOrphan)

(* Message.copy: the buffers of the arena, each taken for allocated as a   *)
(* whole; the copy has no capability table.                                *)
Copied(m) ==
  [m EXCEPT !.segs = [s \in DOMAIN @ |->
     [@[s] EXCEPT !.words = @ \o Zeros(m.segs[s].cap - Len(@))]]]

CopyMessage ==
  /\ capTable = <<>>
  /\ Becomes([Memory EXCEPT !.m = Copied(@)], NoOrphan)

Next ==
  /\ ~failed /\ calls < MaxCalls
  /\ \/ \E p \in Slots :
          \/ InitStruct(p) \/ InitList(p) \/ SetWord(p) \/ SetInterface(p) \/ Copy(p)
          \/ GetStruct(p) \/ GetList(p) \/ Disown(p) \/ Adopt(p)
     \/ Dispose \/ Transmit \/ CopyMessage

Spec == Init /\ [][Next]_vars
-----------------------------------------------------------------------------
(* Properties *)

(* The variables have their types: every word is one of the five kinds,    *)
(* and no segment is longer than its buffer.                               *)
TypeOK ==
  /\ \A s \in DOMAIN msg.segs : Len(msg.segs[s].words) <= msg.segs[s].cap
  /\ msg.single => Len(msg.segs) = 1
  /\ capTable \in Seq(Clients)
  /\ orphan = NoOrphan \/ orphan.kind \in {"struct", "data", "pointers", "composite", "cap"}
  /\ failed \in BOOLEAN
  /\ calls \in 0 .. MaxCalls

(* No call of the API throws: no access leaves its buffer, and no data is  *)
(* taken for a pointer.                                                    *)
NeverThrows == ~failed

(* The words that belong to an object, to the landing pad of a pointer.    *)
WordsOf(o) ==
  {Plus(o.at, i) : i \in -TagWords(o) .. (IF o.kind = "cap" THEN 0 ELSE Words(o)) - 1}

PadOf(m, p) ==
  IF ~IsFar(m, p) THEN {}
  ELSE {WordAt(m, p).at} \cup (IF IsDoubleFar(m, p) THEN {Target(m, p)} ELSE {})

(* The words of two objects, of their tags and landing pads, and those of  *)
(* the orphan, never overlap and lie in the allocated part of a segment:   *)
(* writing to one object cannot change another.                            *)
ObjectsDisjoint ==
  LET (* each owner has a name of its own: an address, or one that is none *)
      outer == {<<<<0, 0>>, {Root}>>} \cup
        (IF orphan = NoOrphan THEN {} ELSE {<<<<0, 1>>, WordsOf(orphan)>>})
      slots == Slots \cup (IF orphan = NoOrphan THEN {}
                          ELSE SlotsOf(msg, orphan, Depth + 1))
      owned == outer \cup
        {<<p, PadOf(msg, p) \cup (IF IsNull(msg, p) THEN {} ELSE WordsOf(ObjectAt(msg, p)))>>
           : p \in slots}
  IN  /\ \A x, y \in owned : x # y => x[2] \cap y[2] = {}
      /\ \A x \in owned : \A a \in x[2] : Allocated(msg, a)

(* The words that belong to a pointer, and to all that is under it. *)
RECURSIVE WordsUnder(_, _, _)
WordsUnder(m, p, fuel) ==
  LET o == ObjectAt(m, p)
  IN  {p} \cup PadOf(m, p) \cup
      (IF IsNull(m, p) THEN {}
       ELSE WordsOf(o) \cup
            UNION {IF fuel = 0 THEN {} ELSE WordsUnder(m, q, fuel - 1) : q \in ToSet(KidsOf(o))})

(* Erasing a pointer does not throw, and changes no word outside the       *)
(* pointer, its landing pads and the objects under it.                     *)
EraseStaysInside ==
  \A p \in Slots : Avoids(ErasingMeets(TreeAt(p))) =>
    LET e == Erase(Memory, p)
        inside == WordsUnder(msg, p, Depth + 1)
    IN  /\ e.ok
        /\ \A s \in DOMAIN msg.segs : \A i \in DOMAIN msg.segs[s].words :
             <<s, i>> \in inside \/ WordAt(e.m, <<s, i>>) = WordAt(msg, <<s, i>>)

(* What can be read back from the message is the tree that the calls so    *)
(* far describe: Trees is implemented.                                     *)
T == INSTANCE Trees WITH root <- read.root, orphan <- read.orphan

BuildsTheTree == T!Spec
=============================================================================
