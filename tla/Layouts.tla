------------------------------ MODULE Layouts ------------------------------
(***************************************************************************)
(* How the generated classes lay their fields out, and what each accessor  *)
(* they call stands for.                                                   *)
(*                                                                         *)
(* src/serialization/pointers/struct.utils.ts, mask.ts.                    *)
(*                                                                         *)
(* A field is read and written by one pair of accessors, with the offsets  *)
(* the class passes to them: in bytes for numbers, in bits for booleans,   *)
(* as an index for pointers.  Numbers are the sequences of their bytes,    *)
(* the least significant first, whatever they are read as.                 *)
(***************************************************************************)
EXTENDS Integers, Sequences, TLC

(* A number of so many bytes. Its default is a mask that is combined with  *)
(* what is stored, by exclusive or; masked says how many bytes of it the   *)
(* getter uses.                                                            *)
Number(bytes, offset) ==
  [kind |-> "number", at |-> offset, bytes |-> bytes,
   default |-> [i \in 1 .. bytes |-> 0], masked |-> bytes]

Uint8(offset) == Number(1, offset)
Uint16(offset) == Number(2, offset)
Uint32(offset) == Number(4, offset)
Uint64(offset) == Number(8, offset)
Int8(offset) == Number(1, offset)
Int16(offset) == Number(2, offset)
Int32(offset) == [Number(4, offset) EXCEPT !.masked = 2]
Int64(offset) == Number(8, offset)
Float32(offset) == Number(4, offset)
Float64(offset) == Number(8, offset)

(* A number with a default of one or two bytes. *)
WithDefault(f, v) ==
  [f EXCEPT !.default = [i \in 1 .. f.bytes |-> (v \div 256 ^ (i - 1)) % 256]]

(* A boolean; its default is a mask of the one bit. *)
Bit(offset, default) == [kind |-> "bit", at |-> offset, default |-> default]

(* Pointers, each to what the field is declared to hold: text, bytes, a    *)
(* struct or a list of structs of a class, a list of numbers or of         *)
(* pointers, anything.                                                     *)
TextAt(index) == [kind |-> "text", at |-> index, of |-> "text"]
BytesAt(index) == [kind |-> "list", at |-> index, of |-> "data"]
StructAt(index, of) == [kind |-> "struct", at |-> index, of |-> of]
ListAt(index, of) == [kind |-> "list", at |-> index, of |-> of]
PointerAt(index) == [kind |-> "pointer", at |-> index, of |-> "any"]

(* An arm of a union that has no value, and one that is a struct on the    *)
(* storage of its parent.                                                  *)
Void == [kind |-> "void"]
Group(of) == [kind |-> "group", of |-> of]

(* A field of a union, and the value of the discriminant that selects it.  *)
Arm(is, f) == [is |-> is, f |-> f]

None == [n \in {} |-> Void]

(* A class: the words of data and the pointers it has, the offset of its   *)
(* discriminant in bytes, the fields it always has, the arms of its union. *)
Union(size, which, fields, arms) ==
  [size |-> size, which |-> which, fields |-> fields, arms |-> arms]
Record(size, fields) == Union(size, 0, fields, None)
=============================================================================
