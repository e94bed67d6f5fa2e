-------------------------- MODULE RingQueueProofs --------------------------
(* The ring buffer is a FIFO queue, for every length of its storage. *)
EXTENDS RingQueue, TLAPS

\* What (i + j) % Cap is for an index i of the storage and j places further on:
\* the sum, wrapped around at most once.
LEMMA Wrap ==
  ASSUME NEW i \in Slot, NEW j \in 0 .. Cap
  PROVE  (i + j) % Cap = IF i + j < Cap THEN i + j ELSE i + j - Cap
<1>1. Cap \in Nat /\ Cap > 0
  BY CapAssumption DEF Slot
<1>2. CASE i + j < Cap
  BY <1>1, <1>2 DEF Slot
<1>3. CASE ~(i + j < Cap)
  BY <1>1, <1>3 DEF Slot
<1> QED
  BY <1>2, <1>3

\* Places less than Cap apart are different slots, and a place counted from the
\* slot after i is the one after the place counted from i.
LEMMA Places ==
  ASSUME NEW i \in Slot
  PROVE  /\ \A j \in 0 .. Cap : (i + j) % Cap \in Slot
         /\ \A j, k \in 0 .. Cap - 1 : (i + j) % Cap = (i + k) % Cap => j = k
         /\ \A j \in 0 .. Cap - 1 : (After(i) + j) % Cap = (i + (j + 1)) % Cap
         /\ (i + 0) % Cap = i
         /\ After(i) \in Slot
<1> Cap \in Nat /\ Cap > 0 /\ 1 \in 0 .. Cap
  BY CapAssumption DEF Slot
<1>1. ASSUME NEW j \in 0 .. Cap
      PROVE  (i + j) % Cap \in Slot
  BY Wrap DEF Slot
<1>2. ASSUME NEW j \in 0 .. Cap - 1, NEW k \in 0 .. Cap - 1, (i + j) % Cap = (i + k) % Cap
      PROVE  j = k
  <2>1. /\ (i + j) % Cap = IF i + j < Cap THEN i + j ELSE i + j - Cap
        /\ (i + k) % Cap = IF i + k < Cap THEN i + k ELSE i + k - Cap
    BY Wrap
  <2> QED
    BY <1>2, <2>1 DEF Slot
<1>3. After(i) = IF i + 1 < Cap THEN i + 1 ELSE 0
  BY Wrap DEF After, Slot
<1>4. After(i) \in Slot
  BY <1>3 DEF Slot
<1>5. ASSUME NEW j \in 0 .. Cap - 1
      PROVE  (After(i) + j) % Cap = (i + (j + 1)) % Cap
  <2>1. (After(i) + j) % Cap = IF After(i) + j < Cap THEN After(i) + j ELSE After(i) + j - Cap
    BY <1>4, Wrap
  <2>2. (i + (j + 1)) % Cap = IF i + (j + 1) < Cap THEN i + (j + 1) ELSE i + (j + 1) - Cap
    BY Wrap
  <2> QED
    BY <1>3, <2>1, <2>2 DEF Slot
<1>6. (i + 0) % Cap = i
  BY Wrap DEF Slot
<1> QED
  BY <1>1, <1>2, <1>4, <1>5, <1>6

-----------------------------------------------------------------------------
(* The invariant: the used slots are the n slots from start on. *)

IInv == TypeOK /\ SlotsMatch

LEMMA StartInSlot ==
  ASSUME TypeOK, Cap > 0
  PROVE  start \in Slot
BY CapAssumption DEF TypeOK, Slot

LEMMA InitInv == Init => IInv
<1> SUFFICES ASSUME Init PROVE IInv
  OBVIOUS
<1>1. TypeOK
  BY CapAssumption DEF Init, TypeOK
<1>2. ASSUME NEW i \in Slot
      PROVE  data[i] # Null <=> Used(i)
  <2>1. Cap > 0 /\ start = 0 /\ start \in Slot
    BY CapAssumption DEF Init, Slot
  <2>2. \A j \in 0 .. n - 1 : (start + j) % Cap = j
    BY <1>1, <2>1, Wrap, CapAssumption DEF TypeOK
  <2> QED
    BY <1>1, <2>2, CapAssumption DEF Init, Used, Slot, TypeOK
<1> QED
  BY <1>1, <1>2 DEF IInv, SlotsMatch

\* What push() does: the slot is a free one, next to the last used one.
LEMMA PushFacts ==
  ASSUME TypeOK, NEW x \in Item, Push(x)
  PROVE  /\ Cap > 0 /\ start \in Slot /\ n < Cap
         /\ (start + n) % Cap \in Slot
         /\ data' = [data EXCEPT ![(start + n) % Cap] = x]
         /\ n' = n + 1 /\ start' = start /\ taken' = taken
<1>1. n < Cap /\ PushIndex = (start + n) % Cap
  BY CapAssumption DEF Push, PushIndex, TypeOK
<1>2. Cap > 0 /\ start \in Slot
  BY <1>1, CapAssumption, StartInSlot DEF TypeOK
<1> QED
  BY <1>1, <1>2, Places DEF Push, TypeOK

LEMMA PopFacts ==
  ASSUME TypeOK, Pop
  PROVE  /\ Cap > 0 /\ start \in Slot /\ n > 0
         /\ data' = [data EXCEPT ![start] = Null]
         /\ n' = n - 1 /\ start' = After(start) /\ taken' = data[start]
<1>1. n > 0 /\ FrontIndex = start
  BY DEF Pop, FrontIndex, TypeOK
<1>2. Cap > 0 /\ start \in Slot
  BY <1>1, CapAssumption, StartInSlot DEF TypeOK
<1> QED
  BY <1>1, <1>2 DEF Pop, Cleared

LEMMA PushInv ==
  ASSUME IInv, NEW x \in Item, Push(x)
  PROVE  IInv'
<1> USE CapAssumption
<1> DEFINE p == (start + n) % Cap
<1>1. /\ TypeOK /\ Cap > 0 /\ start \in Slot /\ n < Cap /\ p \in Slot
      /\ data' = [data EXCEPT ![p] = x] /\ n' = n + 1 /\ start' = start /\ taken' = taken
  BY PushFacts DEF IInv
<1>2. TypeOK'
  BY <1>1 DEF TypeOK
<1>3. ASSUME NEW i \in Slot
      PROVE  data'[i] # Null <=> \E j \in 0 .. n : i = (start + j) % Cap
  <2>1. data[i] # Null <=> \E j \in 0 .. n - 1 : i = (start + j) % Cap
    BY DEF IInv, SlotsMatch, Used
  <2>2. CASE i = p
    BY <1>1, <2>2, NullAssumption DEF TypeOK
  <2>3. CASE i # p
    <3>1. data'[i] = data[i]
      BY <1>1, <2>3 DEF TypeOK
    <3>2. \A j \in 0 .. n : j = n \/ j \in 0 .. n - 1
      BY <1>1 DEF TypeOK
    <3>3. \A j \in 0 .. n - 1 : j \in 0 .. n
      BY <1>1 DEF TypeOK
    <3> QED
      BY <2>1, <2>3, <3>1, <3>2, <3>3
  <2> QED
    BY <2>2, <2>3
<1>4. n' - 1 = n
  BY <1>1 DEF TypeOK
<1>5. SlotsMatch'
  BY <1>1, <1>3, <1>4 DEF SlotsMatch, Used
<1> QED
  BY <1>2, <1>5 DEF IInv

LEMMA PopInv ==
  ASSUME IInv, Pop
  PROVE  IInv'
<1> USE CapAssumption
<1>1. /\ TypeOK /\ Cap > 0 /\ start \in Slot /\ n > 0
      /\ data' = [data EXCEPT ![start] = Null]
      /\ n' = n - 1 /\ start' = After(start) /\ taken' = data[start]
  BY PopFacts DEF IInv
<1>2. After(start) \in Slot
  BY <1>1, Places
<1>3. TypeOK'
  BY <1>1, <1>2 DEF TypeOK, Slot
<1>4. ASSUME NEW i \in Slot
      PROVE  data'[i] # Null <=> \E j \in 0 .. n - 2 : i = (After(start) + j) % Cap
  <2>1. data[i] # Null <=> \E j \in 0 .. n - 1 : i = (start + j) % Cap
    BY DEF IInv, SlotsMatch, Used
  <2>2. \A j \in 0 .. n - 2 : /\ (After(start) + j) % Cap = (start + (j + 1)) % Cap
                              /\ j + 1 \in 0 .. n - 1 /\ j + 1 \in 0 .. Cap - 1 /\ j + 1 # 0
    BY <1>1, Places DEF TypeOK
  <2>3. (start + 0) % Cap = start /\ 0 \in 0 .. Cap - 1
    BY <1>1, Places
  <2>4. CASE i = start
    <3>1. \A j \in 0 .. n - 2 : start # (After(start) + j) % Cap
      BY <1>1, <2>2, <2>3, Places
    <3> QED
      BY <1>1, <2>4, <3>1 DEF TypeOK
  <2>5. CASE i # start
    <3>1. data'[i] = data[i]
      BY <1>1, <2>5 DEF TypeOK
    <3>2. \A j \in 0 .. n - 1 : j = 0 \/ (j - 1 \in 0 .. n - 2 /\ (j - 1) + 1 = j)
      BY <1>1 DEF TypeOK
    <3>3. ASSUME NEW j \in 0 .. n - 1, i = (start + j) % Cap
          PROVE  \E k \in 0 .. n - 2 : i = (After(start) + k) % Cap
      <4>1. j - 1 \in 0 .. n - 2 /\ (j - 1) + 1 = j
        BY <2>3, <2>5, <3>2, <3>3
      <4>2. (After(start) + (j - 1)) % Cap = (start + j) % Cap
        BY <2>2, <4>1
      <4> QED
        BY <3>3, <4>1, <4>2
    <3>4. ASSUME NEW k \in 0 .. n - 2, i = (After(start) + k) % Cap
          PROVE  \E j \in 0 .. n - 1 : i = (start + j) % Cap
      BY <2>2, <3>4
    <3> QED
      BY <2>1, <3>1, <3>3, <3>4
  <2> QED
    BY <2>4, <2>5
<1>5. n' - 1 = n - 2
  BY <1>1 DEF TypeOK
<1>6. SlotsMatch'
  BY <1>1, <1>4, <1>5 DEF SlotsMatch, Used
<1> QED
  BY <1>3, <1>6 DEF IInv

\* The storage of the queue holds the calls that wait, in the slots from start
\* on, and nothing else.
THEOREM Invariant == Spec => []IInv
<1>1. ASSUME IInv, [Next]_vars PROVE IInv'
  <2>1. CASE Pop
    BY <1>1, <2>1, PopInv
  <2>2. ASSUME NEW x \in Item, Push(x) PROVE IInv'
    BY <1>1, <2>2, PushInv
  <2>3. CASE UNCHANGED vars
    BY <1>1, <2>3 DEF vars, IInv, TypeOK, SlotsMatch, Used
  <2> QED
    BY <1>1, <2>1, <2>2, <2>3 DEF Next
<1> QED
  BY <1>1, InitInv, PTL DEF Spec

\* The bookkeeping of push and pop stays in range: start is a slot, and n counts
\* no more elements than there are slots.
THEOREM TypeCorrect == Spec => []TypeOK
<1>1. IInv => TypeOK
  BY DEF IInv
<1> QED
  BY <1>1, Invariant, PTL

\* pop() leaves no reference to a call that was handled in the storage, and
\* push() never returns the slot of one that waits.
THEOREM Slots == Spec => []SlotsMatch
<1>1. IInv => SlotsMatch
  BY DEF IInv
<1> QED
  BY <1>1, Invariant, PTL

-----------------------------------------------------------------------------
(* The refinement *)

\* The elements from start on are items, n of them.
LEMMA ItemsFacts ==
  ASSUME IInv
  PROVE  /\ \A i \in 1 .. n : Nth(i - 1) \in Item /\ (start + (i - 1)) % Cap \in Slot
         /\ [i \in 1 .. n |-> Nth(i - 1)] \in Seq(Item)
         /\ Len([i \in 1 .. n |-> Nth(i - 1)]) = n
<1> USE CapAssumption
<1> TypeOK /\ n \in Nat
  BY DEF IInv, TypeOK
<1>1. Cap > 0 => start \in Slot
  BY StartInSlot
<1>2. ASSUME NEW i \in 1 .. n
      PROVE  Nth(i - 1) \in Item /\ (start + (i - 1)) % Cap \in Slot
  <2>1. Cap > 0 /\ i - 1 \in 0 .. n - 1 /\ i - 1 \in 0 .. Cap
    BY DEF TypeOK
  <2>2. (start + (i - 1)) % Cap \in Slot
    BY <1>1, <2>1, Places
  <2>3. Used((start + (i - 1)) % Cap)
    BY <2>1 DEF Used
  <2> QED
    BY <2>2, <2>3 DEF IInv, SlotsMatch, TypeOK, Nth
<1> QED
  BY <1>2

\* Both steps of the ring are steps of a FIFO queue.
LEMMA FifoStep ==
  ASSUME IInv, [Next]_vars
  PROVE  [F!Next]_<<[i \in 1 .. n |-> Nth(i - 1)], taken>>
<1> USE CapAssumption
<1> DEFINE items == [i \in 1 .. n |-> Nth(i - 1)]
<1> TypeOK
  BY DEF IInv
<1> n \in Nat
  BY DEF TypeOK
<1>2. \A i \in 1 .. n : Nth(i - 1) \in Item /\ (start + (i - 1)) % Cap \in Slot
  BY ItemsFacts
<1>3. items \in Seq(Item) /\ Len(items) = n
  BY ItemsFacts
<1>4. ASSUME NEW x \in Item, Push(x)
      PROVE  F!Put(x)
  <2> DEFINE p == (start + n) % Cap
  <2>1. /\ Cap > 0 /\ start \in Slot /\ n < Cap /\ p \in Slot
        /\ data' = [data EXCEPT ![p] = x] /\ n' = n + 1 /\ start' = start /\ taken' = taken
    BY <1>4, PushFacts
  <2>2. ASSUME NEW i \in 1 .. n
        PROVE  Nth(i - 1)' = Nth(i - 1)
    <3>1. (start + (i - 1)) % Cap # p
      <4>1. i - 1 \in 0 .. Cap - 1 /\ n \in 0 .. Cap - 1 /\ i - 1 # n
        BY <2>1
      <4> QED
        BY <2>1, <4>1, Places
    <3> QED
      BY <1>2, <2>1, <3>1 DEF Nth, TypeOK
  <2>3. ASSUME NEW i \in 1 .. n + 1, i = n + 1
        PROVE  Nth(i - 1)' = x
    <3>1. i - 1 = n
      BY <2>3
    <3> QED
      BY <2>1, <3>1 DEF Nth, TypeOK
  <2>4. [i \in 1 .. n |-> Nth(i - 1)]' = [i \in 1 .. n + 1 |-> Nth(i - 1)']
    BY <2>1
  <2>5. \A i \in 1 .. n + 1 : i = n + 1 \/ i \in 1 .. n
    OBVIOUS
  <2>6. [i \in 1 .. n + 1 |-> Nth(i - 1)'] = Append(items, x)
    <3>1. ASSUME NEW i \in 1 .. n + 1
          PROVE  Nth(i - 1)' = Append(items, x)[i]
      <4>1. CASE i = n + 1
        <5>1. Append(items, x)[i] = x
          BY <1>3, <4>1
        <5> QED
          BY <2>3, <4>1, <5>1
      <4>2. CASE i \in 1 .. n
        <5>1. Append(items, x)[i] = items[i] /\ items[i] = Nth(i - 1)
          BY <1>3, <4>2
        <5> QED
          BY <2>2, <4>2, <5>1
      <4> QED
        BY <2>5, <4>1, <4>2
    <3>2. Append(items, x) = [i \in 1 .. n + 1 |-> Append(items, x)[i]]
      BY <1>3
    <3> HIDE DEF items
    <3> QED
      BY <3>1, <3>2
  <2> HIDE DEF items
  <2>7. Len(items) < Cap
    BY <1>3, <2>1
  <2> QED
    BY <2>1, <2>4, <2>6, <2>7 DEF F!Put, items
<1>5. ASSUME Pop
      PROVE  F!Take
  <2>1. /\ Cap > 0 /\ start \in Slot /\ n > 0
        /\ data' = [data EXCEPT ![start] = Null]
        /\ n' = n - 1 /\ start' = After(start) /\ taken' = data[start]
    BY <1>5, PopFacts
  <2>2. (start + 0) % Cap = start
    BY <2>1, Places
  <2>3. items # <<>> /\ taken' = Head(items)
    <3>1. items[1] = data[start]
      BY <2>1, <2>2 DEF Nth
    <3> QED
      BY <1>3, <2>1, <3>1
  <2>4. ASSUME NEW i \in 1 .. n - 1
        PROVE  Nth(i - 1)' = Nth(i)
    <3>1. i - 1 \in 0 .. Cap - 1 /\ i \in 0 .. Cap - 1 /\ i # 0 /\ 0 \in 0 .. Cap - 1 /\ (i - 1) + 1 = i
      BY DEF TypeOK
    <3>2. (After(start) + (i - 1)) % Cap = (start + i) % Cap
      BY <2>1, <3>1, Places
    <3>3. (start + i) % Cap \in Slot /\ (start + i) % Cap # start
      BY <2>1, <2>2, <3>1, Places
    <3> QED
      BY <2>1, <3>2, <3>3 DEF Nth, TypeOK
  <2>5. [i \in 1 .. n |-> Nth(i - 1)]' = [i \in 1 .. n - 1 |-> Nth(i)]
    BY <2>1, <2>4
  <2>6. Tail(items) = [i \in 1 .. n - 1 |-> Nth(i)]
    BY <1>3, <2>1
  <2> HIDE DEF items
  <2> QED
    BY <2>3, <2>5, <2>6 DEF F!Take, items
<1>6. CASE UNCHANGED vars
  BY <1>6 DEF vars, Nth
<1> QED
  BY <1>4, <1>5, <1>6 DEF Next, F!Next

\* A call that is pushed is handled after those that wait already and before all
\* that come later, and the queue refuses a call only when Cap calls wait.
THEOREM Implements == Spec => FifoImplemented
<1>1. Init => F!Init
  <2> SUFFICES ASSUME Init PROVE F!Init
    OBVIOUS
  <2>1. IInv
    BY InitInv
  <2>2. /\ [i \in 1 .. n |-> Nth(i - 1)] \in Seq(Item)
        /\ Len([i \in 1 .. n |-> Nth(i - 1)]) = n
    BY <2>1, ItemsFacts
  <2>3. n <= Cap
    BY <2>1, CapAssumption DEF IInv, TypeOK
  <2> QED
    BY <2>2, <2>3 DEF Init, F!Init
<1>2. IInv /\ [Next]_vars => [F!Next]_<<[i \in 1 .. n |-> Nth(i - 1)], taken>>
  BY FifoStep
<1> QED
  BY <1>1, <1>2, Invariant, PTL DEF Spec, FifoImplemented, F!Spec
=============================================================================
