----------------------------- MODULE RingQueue -----------------------------
(***************************************************************************)
(* The ring buffer under QueueClient and EmbargoClient (src/rpc/queue.ts). *)
(* A Queue keeps only where its elements begin and how many there are; the *)
(* elements are in a storage of its user, who stores an element at the     *)
(* index that push() returned (pushCall) and reads the one at front()      *)
(* before it calls pop() (flushQueue).                                     *)
(***************************************************************************)
EXTENDS Integers, Sequences

CONSTANTS Item,  \* what is queued
          Null,  \* an empty slot of the storage
          Cap    \* the length of the storage

ASSUME CapAssumption == Cap \in Nat
ASSUME NullAssumption == Null \notin Item

VARIABLES data,   \* the storage
          start,  \* index of the oldest element
          n,      \* number of elements
          taken   \* the element that was handled last

vars == <<data, start, n, taken>>

Slot == 0 .. Cap - 1

TypeOK == /\ data \in [Slot -> Item \cup {Null}]
          /\ start \in Nat /\ (Cap > 0 => start < Cap)
          /\ n \in 0 .. Cap
          /\ taken \in Item \cup {Null}

\* The storage may hold elements already: the constructor is told how many, at
\* most Cap here.  EmbargoClient tells it as many as there are; QueueClient tells
\* it callQueueSize, which may be more, and then no push() ever succeeds
\* (RpcConn.Resolution).
Init == /\ data \in [Slot -> Item \cup {Null}]
        /\ start = 0
        /\ n \in 0 .. Cap
        /\ \A i \in Slot : data[i] # Null <=> i < n
        /\ taken = Null

-----------------------------------------------------------------------------
(* Broken forms of some of the definitions below, for the mutant runs. *)

\* push() that takes the slot after the next free one.
PushIndexOffByOne == IF n >= Cap THEN -1 ELSE (start + n + 1) % Cap

\* pop() that does not wrap around.
AfterNoWrap(i) == i + 1

\* pop() that does not clear the slot.
ClearedNot(i) == data

-----------------------------------------------------------------------------
PushIndex == IF n >= Cap THEN -1 ELSE (start + n) % Cap
FrontIndex == IF n = 0 THEN -1 ELSE start

\* push(), and the element stored at the index it returns.
Push(x) ==
  /\ PushIndex # -1
  /\ data' = [data EXCEPT ![PushIndex] = x]
  /\ n' = n + 1
  /\ UNCHANGED <<start, taken>>

After(i) == (i + 1) % Cap
Cleared(i) == [data EXCEPT ![i] = Null]

\* The element at front() is handled, then pop().
Pop ==
  /\ FrontIndex # -1
  /\ taken' = data[FrontIndex]
  /\ data' = Cleared(start)
  /\ start' = After(start)
  /\ n' = n - 1

Next == Pop \/ \E x \in Item : Push(x)

Spec == Init /\ [][Next]_vars

-----------------------------------------------------------------------------
(* Properties *)

\* The slots that are used are those from start on, around the end: pop() keeps
\* no call alive that was handled, and push() overwrites none that waits.
Used(i) == \E j \in 0 .. n - 1 : i = (start + j) % Cap
SlotsMatch == \A i \in Slot : data[i] # Null <=> Used(i)

\* The element i places behind the front.
Nth(i) == data[(start + i) % Cap]

F == INSTANCE Fifo WITH NoItem <- Null, items <- [i \in 1 .. n |-> Nth(i - 1)]

\* The ring is a FIFO queue of Cap elements.
FifoImplemented == F!Spec
=============================================================================
