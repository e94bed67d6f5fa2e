------------------------------- MODULE MCHeap -------------------------------
(***************************************************************************)
(* Heap for TLC: segments of a few words, so that far and double far       *)
(* pointers are needed at once.                                            *)
(***************************************************************************)
EXTENDS Heap

HeapSizes == {<<0, 1>>, <<1, 1>>}
HeapLists == {[elem |-> "data", size |-> <<1, 0>>, n |-> 1],
              [elem |-> "pointers", size |-> <<0, 1>>, n |-> 2],
              [elem |-> "composite", size |-> <<1, 0>>, n |-> 2]}
=============================================================================
