-------------------------------- MODULE Trees --------------------------------
(***************************************************************************)
(* What a message promises the program that builds it: it holds a tree of  *)
(* structs, lists and capabilities under its root, and each operation      *)
(* changes the subtree it is applied to and nothing else.  There are no    *)
(* segments, no pointers and no copies that could share anything.          *)
(***************************************************************************)
EXTENDS Integers, Sequences, SequencesExt

CONSTANTS
  Data,      \* what a word can hold, apart from zero
  Zero,      \* zero
  Sizes,     \* sizes <<data words, pointers>> of structs
  Lists,     \* shapes of new lists
  Clients    \* capabilities

VARIABLES
  root,      \* the tree under the root
  orphan     \* a tree that was taken out, or NoOrphan

vars == <<root, orphan>>

Nothing == [kind |-> "null", size |-> <<0, 0>>, n |-> 0, data |-> <<>>, kids |-> <<>>]
NoOrphan == [kind |-> "none"]

(* A fresh struct or list. A list of n elements of size <<d, p>> has n * d *)
(* words of data and n * p pointers. An empty struct is null.              *)
Blank(kind, size, n) ==
  IF kind = "struct" /\ size = <<0, 0>> THEN Nothing
  ELSE [kind |-> kind, size |-> size, n |-> n,
        data |-> [i \in 1 .. n * size[1] |-> Zero],
        kids |-> [i \in 1 .. n * size[2] |-> Nothing]]

Struct(size) == Blank("struct", size, 1)
List(shape) == Blank(shape.elem, shape.size, shape.n)
Cap(c) == [Nothing EXCEPT !.kind = c]

(* The places in a tree, as paths of child numbers. *)
RECURSIVE Paths(_)
Paths(t) == {<<>>} \cup
  UNION {{<<i>> \o q : q \in Paths(t.kids[i])} : i \in DOMAIN t.kids}

RECURSIVE At(_, _)
At(t, path) == IF path = <<>> THEN t ELSE At(t.kids[Head(path)], Tail(path))

RECURSIVE Put(_, _, _)
Put(t, path, x) ==
  IF path = <<>> THEN x
  ELSE [t EXCEPT !.kids[Head(path)] = Put(@, Tail(path), x)]

(* The first n of s, followed by fill. *)
Fit(s, n, fill) == [i \in 1 .. n |-> IF i <= Len(s) THEN s[i] ELSE fill]

(* s has n parts of length old; each is brought to length new. *)
FitAll(s, n, old, new, fill) ==
  FlattenSeq([i \in 1 .. n |-> Fit(SubSeq(s, (i - 1) * old + 1, i * old), new, fill)])

(* A struct or a list of structs, read by a program that knows a larger    *)
(* size for them.                                                          *)
Upgraded(t, size) ==
  IF t.size[1] < size[1] \/ t.size[2] < size[2]
  THEN [t EXCEPT !.size = size,
                 !.data = FitAll(@, t.n, t.size[1], size[1], Zero),
                 !.kids = FitAll(@, t.n, t.size[2], size[2], Nothing)]
  ELSE t
-----------------------------------------------------------------------------
Init == root = Nothing /\ orphan = NoOrphan

Set(path, x) == root' = Put(root, path, x)

InitStruct(path) == UNCHANGED orphan /\ \E size \in Sizes : Set(path, Struct(size))

InitList(path) == UNCHANGED orphan /\ \E shape \in Lists : Set(path, List(shape))

SetWord(path) ==
  /\ UNCHANGED orphan
  /\ LET t == At(root, path)
     IN  \E i \in DOMAIN t.data, v \in Data \cup {Zero} : Set(path, [t EXCEPT !.data[i] = v])

SetInterface(path) == UNCHANGED orphan /\ \E c \in Clients : Set(path, Cap(c))

(* What is replaced is gone before a tree that holds it is copied.         *)
Copy(path) ==
  /\ UNCHANGED orphan
  /\ \E src \in Paths(root) :
       Set(path, IF src = path \/ ~IsPrefix(src, path) THEN At(root, src)
                 ELSE At(Put(root, path, Nothing), src))

GetStruct(path) ==
  /\ UNCHANGED orphan
  /\ LET t == At(root, path)
     IN  \E size \in Sizes :
           \/ t = Nothing /\ Set(path, Struct(size))
           \/ t.kind = "struct" /\ Set(path, Upgraded(t, size))

GetList(path) ==
  /\ UNCHANGED orphan
  /\ LET t == At(root, path)
     IN  \E size \in Sizes :
           \/ t = Nothing /\ Set(path, Blank("composite", size, 0))
           \/ t.kind = "composite" /\ Set(path, Upgraded(t, size))

Disown(path) == orphan = NoOrphan /\ orphan' = At(root, path) /\ Set(path, Nothing)

Adopt(path) == orphan # NoOrphan /\ orphan' = NoOrphan /\ Set(path, orphan)

(* An orphan is disposed of, or left behind when the message is sent. *)
Drop == orphan' = NoOrphan /\ UNCHANGED root

Next ==
  \/ \E path \in Paths(root) :
       \/ SetWord(path) \/ InitStruct(path) \/ InitList(path) \/ SetInterface(path)
       \/ Copy(path) \/ GetStruct(path) \/ GetList(path) \/ Disown(path) \/ Adopt(path)
  \/ Drop

Spec == Init /\ [][Next]_vars
=============================================================================
