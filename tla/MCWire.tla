------------------------------- MODULE MCWire -------------------------------
(***************************************************************************)
(* Wire for TLC: numbers of zero bits and of one bits, texts with longer   *)
(* runs than a byte counts, and segments of a few words.                   *)
(***************************************************************************)
EXTENDS Wire

LOCAL Full == [i \in 1 .. 8 |-> 255]
LOCAL Some == [i \in 1 .. 8 |-> IF i = 3 THEN 7 ELSE 0]
LOCAL Most == [i \in 1 .. 8 |-> IF i = 8 THEN 0 ELSE 9]

WireZero == <<0, 0, 0, 0, 0, 0, 0, 0>>
WireContents == {<<Full, Full, Most, Full, Full>>, <<Some, WireZero, WireZero, WireZero, WireZero>>}
=============================================================================
