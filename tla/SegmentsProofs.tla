--------------------------- MODULE SegmentsProofs ---------------------------
(***************************************************************************)
(* Allocation gives words nobody has, and a pointer leads to the content   *)
(* it was linked to, whatever segments the two are in and however full     *)
(* these are.                                                              *)
(***************************************************************************)
EXTENDS Segments, SequenceTheorems, TLAPS

Address == Nat \X Nat

ObjectWord ==
  [t : {"struct"}, off : Int, size : Nat \X Nat] \cup
  [t : {"list"}, off : Int, elem : {"data", "pointers", "composite"}, n : Nat] \cup
  [t : {"cap"}, off : Int, id : Nat]

Word ==
  {Null} \cup {DataWord(v) : v \in Data} \cup ObjectWord \cup
  [t : {"far"}, double : BOOLEAN, at : Address]

Segment == {g \in [words : Seq(Word), cap : Nat] : Len(g.words) <= g.cap}

Message ==
  {m \in [single : BOOLEAN, segs : Seq(Segment)] :
     m.segs # <<>> /\ (m.single => Len(m.segs) = 1)}

(* Every word of m is in m2 as it was, but for those at the addresses P. *)
KeepsBut(m, m2, P) ==
  /\ m2 \in Message
  /\ DOMAIN m.segs \subseteq DOMAIN m2.segs
  /\ \A a \in Address : Allocated(m, a) =>
       Allocated(m2, a) /\ (a \in P \/ WordAt(m2, a) = WordAt(m, a))

(* at is the first of n new words of m2, which are zero. *)
FreshIn(m, m2, at, n) ==
  /\ at \in Address /\ at[1] \in DOMAIN m2.segs /\ at[2] > 0
  /\ \A i \in 0 .. n - 1 : /\ ~Allocated(m, Plus(at, i))
                           /\ Allocated(m2, Plus(at, i))
                           /\ WordAt(m2, Plus(at, i)) = Null

-----------------------------------------------------------------------------
(* The parts of a message *)

LEMMA MessageParts ==
  ASSUME NEW m \in Message, NEW s \in DOMAIN m.segs
  PROVE  /\ m.single \in BOOLEAN
         /\ m.segs \in Seq(Segment)
         /\ Len(m.segs) \in Nat /\ DOMAIN m.segs = 1 .. Len(m.segs)
         /\ s \in Nat /\ s > 0
         /\ m.segs[s] \in Segment
         /\ m.segs[s].words \in Seq(Word)
         /\ Len(m.segs[s].words) \in Nat
         /\ DOMAIN m.segs[s].words = 1 .. Len(m.segs[s].words)
         /\ m.segs[s].cap \in Nat
         /\ Len(m.segs[s].words) <= m.segs[s].cap
         /\ m.single => s = 1 /\ Len(m.segs) = 1
<1>1. m.single \in BOOLEAN /\ m.segs \in Seq(Segment) /\ (m.single => Len(m.segs) = 1)
  BY DEF Message
<1>2. Len(m.segs) \in Nat /\ DOMAIN m.segs = 1 .. Len(m.segs)
  BY <1>1, LenProperties
<1>3. m.segs[s] \in Segment
  BY <1>1, <1>2, ElementOfSeq
<1>4. /\ m.segs[s].words \in Seq(Word) /\ m.segs[s].cap \in Nat
      /\ Len(m.segs[s].words) <= m.segs[s].cap
  BY <1>3 DEF Segment
<1>5. /\ Len(m.segs[s].words) \in Nat
      /\ DOMAIN m.segs[s].words = 1 .. Len(m.segs[s].words)
  BY <1>4, LenProperties
<1> QED
  BY <1>1, <1>2, <1>3, <1>4, <1>5

\* A message with another segment g in the place of segment s.
LEMMA OtherSegment ==
  ASSUME NEW m \in Message, NEW s \in DOMAIN m.segs, NEW g \in Segment
  PROVE  LET m2 == [m EXCEPT !.segs[s] = g]
         IN  /\ m2 \in Message
             /\ m2.single = m.single
             /\ DOMAIN m2.segs = DOMAIN m.segs
             /\ \A r \in DOMAIN m.segs : m2.segs[r] = IF r = s THEN g ELSE m.segs[r]
<1> DEFINE m2 == [m EXCEPT !.segs[s] = g]
<1>1. /\ m.segs \in Seq(Segment) /\ s \in 1 .. Len(m.segs) /\ m.segs # <<>>
      /\ m \in [single : BOOLEAN, segs : Seq(Segment)]
      /\ Len(m.segs) \in Nat /\ DOMAIN m.segs = 1 .. Len(m.segs)
  BY MessageParts DEF Message
<1>2. m2.segs = [m.segs EXCEPT ![s] = g] /\ m2.single = m.single
  BY <1>1
<1>3. /\ m2.segs \in Seq(Segment) /\ Len(m2.segs) = Len(m.segs)
      /\ \A r \in 1 .. Len(m.segs) : m2.segs[r] = IF r = s THEN g ELSE m.segs[r]
  BY <1>1, <1>2, ExceptSeq
<1>4. DOMAIN m2.segs = DOMAIN m.segs
  BY <1>1, <1>2
<1>5. m2.segs # <<>>
  BY <1>1, <1>3, EmptySeq
<1>6. m2 \in Message
  BY <1>1, <1>2, <1>3, <1>5 DEF Message
<1> QED
  BY <1>1, <1>2, <1>3, <1>4, <1>6

-----------------------------------------------------------------------------
(* Writing *)

\* Writing a word changes that word and nothing else.
LEMMA WriteOne ==
  ASSUME NEW m \in Message, NEW a \in Address, Allocated(m, a), NEW w \in Word
  PROVE  /\ KeepsBut(m, Write(m, a, w), {a})
         /\ WordAt(Write(m, a, w), a) = w
         /\ Write(m, a, w).single = m.single
         /\ DOMAIN Write(m, a, w).segs = DOMAIN m.segs
         /\ \A s \in DOMAIN m.segs : \A n \in Nat :
              HasCapacity(Write(m, a, w), s, n) <=> HasCapacity(m, s, n)
         /\ \A b \in Address : Allocated(Write(m, a, w), b) <=> Allocated(m, b)
<1> DEFINE s == a[1]
           g == [m.segs[s] EXCEPT !.words[a[2]] = w]
           m2 == [m EXCEPT !.segs[s] = g]
<1>1. s \in DOMAIN m.segs /\ a[2] \in DOMAIN m.segs[s].words
  BY DEF Allocated
<1>2. /\ m.segs[s].words \in Seq(Word) /\ a[2] \in 1 .. Len(m.segs[s].words)
      /\ m.segs[s] \in [words : Seq(Word), cap : Nat]
      /\ Len(m.segs[s].words) <= m.segs[s].cap
  BY <1>1, MessageParts DEF Segment
<1>3. g.words = [m.segs[s].words EXCEPT ![a[2]] = w] /\ g.cap = m.segs[s].cap
  BY <1>2
<1>4. /\ g.words \in Seq(Word) /\ Len(g.words) = Len(m.segs[s].words)
      /\ DOMAIN g.words = DOMAIN m.segs[s].words
      /\ \A j \in 1 .. Len(m.segs[s].words) :
           g.words[j] = IF j = a[2] THEN w ELSE m.segs[s].words[j]
  BY <1>2, <1>3, ExceptSeq
<1>5. g \in Segment
  BY <1>2, <1>3, <1>4 DEF Segment
<1>6. Write(m, a, w) = m2
  BY <1>1, <1>2 DEF Write, Message
<1>7. /\ m2 \in Message /\ m2.single = m.single /\ DOMAIN m2.segs = DOMAIN m.segs
      /\ \A r \in DOMAIN m.segs : m2.segs[r] = IF r = s THEN g ELSE m.segs[r]
  BY <1>1, <1>5, OtherSegment
<1>8. WordAt(m2, a) = w
  BY <1>1, <1>2, <1>4, <1>7 DEF WordAt
<1>9. \A b \in Address : Allocated(m2, b) <=> Allocated(m, b)
  BY <1>1, <1>4, <1>7 DEF Allocated
<1>10. ASSUME NEW b \in Address, Allocated(m, b), b # a
       PROVE  WordAt(m2, b) = WordAt(m, b)
  <2>1. b[1] \in DOMAIN m.segs /\ b[2] \in DOMAIN m.segs[b[1]].words
    BY <1>10 DEF Allocated
  <2>2. CASE b[1] = s
    <3>1. b[2] # a[2]
      BY <1>10, <2>2 DEF Address
    <3>2. b[2] \in 1 .. Len(m.segs[s].words)
      BY <2>1, <2>2, <1>1, MessageParts
    <3>3. WordAt(m2, b) = g.words[b[2]]
      BY <1>1, <1>7, <2>2 DEF WordAt
    <3>4. g.words[b[2]] = m.segs[s].words[b[2]]
      BY <1>4, <3>1, <3>2
    <3> QED
      BY <2>2, <3>3, <3>4 DEF WordAt
  <2>3. CASE b[1] # s
    BY <1>7, <2>1, <2>3 DEF WordAt
  <2> QED
    BY <2>2, <2>3
<1>11. \A r \in DOMAIN m.segs : \A n \in Nat : HasCapacity(m2, r, n) <=> HasCapacity(m, r, n)
  BY <1>1, <1>3, <1>4, <1>7 DEF HasCapacity
<1>12. KeepsBut(m, m2, {a})
  BY <1>7, <1>9, <1>10 DEF KeepsBut
<1> QED
  BY <1>6, <1>7, <1>8, <1>9, <1>11, <1>12
-----------------------------------------------------------------------------
(* Allocating *)

LEMMA WithZeros ==
  ASSUME NEW q \in Seq(Word), NEW n \in Nat
  PROVE  /\ q \o Zeros(n) \in Seq(Word) /\ Len(q \o Zeros(n)) = Len(q) + n
         /\ DOMAIN (q \o Zeros(n)) = 1 .. Len(q) + n
         /\ \A i \in 1 .. Len(q) : (q \o Zeros(n))[i] = q[i]
         /\ \A i \in 1 .. n : (q \o Zeros(n))[Len(q) + i] = Null
<1>1. Null \in Word
  BY DEF Word
<1>2. Zeros(n) \in [1 .. n -> Word] /\ \A i \in 1 .. n : Zeros(n)[i] = Null
  BY <1>1 DEF Zeros
<1>3. Zeros(n) \in Seq(Word) /\ Len(Zeros(n)) = n
  BY <1>2, SeqDef, LenProperties
<1>4. /\ q \o Zeros(n) \in Seq(Word) /\ Len(q \o Zeros(n)) = Len(q) + n
      /\ \A i \in 1 .. Len(q) + n :
           (q \o Zeros(n))[i] = IF i <= Len(q) THEN q[i] ELSE Zeros(n)[i - Len(q)]
  BY <1>3, ConcatProperties
<1>5. DOMAIN (q \o Zeros(n)) = 1 .. Len(q) + n
  BY <1>4, LenProperties
<1>6. Len(q) \in Nat
  BY LenProperties
<1> HIDE DEF Zeros
<1>7. ASSUME NEW i \in 1 .. n
      PROVE  (q \o Zeros(n))[Len(q) + i] = Null
  <2>1. (q \o Zeros(n))[Len(q) + i] = Zeros(n)[i]
    BY <1>4, <1>6
  <2> QED
    BY <1>2, <2>1
<1> QED
  BY <1>4, <1>5, <1>6, <1>7

\* In a segment with room, the new words are the ones after the last word.
LEMMA ExtendedIsFresh ==
  ASSUME NEW m \in Message, NEW s \in DOMAIN m.segs, NEW n \in Nat, HasCapacity(m, s, n)
  PROVE  LET r == Extended(m, s, n)
         IN  /\ KeepsBut(m, r.m, {}) /\ FreshIn(m, r.m, r.at, n)
             /\ r.at[1] = s
             /\ r.m.single = m.single
<1> DEFINE old == m.segs[s].words
           g == [m.segs[s] EXCEPT !.words = old \o Zeros(n)]
           m2 == [m EXCEPT !.segs[s] = g]
           k == Len(old)
           at == <<s, k + 1>>
<1>1. /\ old \in Seq(Word) /\ Len(old) \in Nat /\ m.segs[s].cap \in Nat /\ s \in Nat
      /\ m.segs[s] \in [words : Seq(Word), cap : Nat]
      /\ DOMAIN old = 1 .. Len(old)
  BY MessageParts DEF Segment
<1>3. /\ old \o Zeros(n) \in Seq(Word) /\ Len(old \o Zeros(n)) = Len(old) + n
      /\ DOMAIN (old \o Zeros(n)) = 1 .. Len(old) + n
      /\ \A i \in 1 .. Len(old) : (old \o Zeros(n))[i] = old[i]
      /\ \A i \in 1 .. n : (old \o Zeros(n))[Len(old) + i] = Null
  BY <1>1, WithZeros
<1>4. g.words = old \o Zeros(n) /\ g.cap = m.segs[s].cap
  BY <1>1
<1>5. Len(old) + n <= m.segs[s].cap
  BY <1>1 DEF HasCapacity
<1>6. g \in Segment
  BY <1>1, <1>3, <1>4, <1>5 DEF Segment
<1>7. Extended(m, s, n) = [m |-> m2, at |-> at]
  BY <1>1 DEF Extended, Message
<1>8. /\ m2 \in Message /\ m2.single = m.single /\ DOMAIN m2.segs = DOMAIN m.segs
      /\ \A r \in DOMAIN m.segs : m2.segs[r] = IF r = s THEN g ELSE m.segs[r]
  BY <1>6, OtherSegment
<1>9. DOMAIN g.words = 1 .. Len(old) + n
  BY <1>3, <1>4
<1>10. k \in Nat /\ s \in Nat
  BY <1>1
<1>11. DOMAIN old = 1 .. k
  BY <1>1
<1>12. \A i \in 1 .. n : g.words[k + i] = Null
  BY <1>3, <1>4
<1>13. \A i \in 1 .. k : g.words[i] = old[i]
  BY <1>3, <1>4
<1>14. DOMAIN g.words = 1 .. k + n
  BY <1>9
<1>words. DOMAIN m.segs[s].words = 1 .. k
  BY <1>11
<1> HIDE DEF g, m2, k
<1>15. ASSUME NEW a \in Address, Allocated(m, a)
       PROVE  Allocated(m2, a) /\ WordAt(m2, a) = WordAt(m, a)
  <2>1. a[1] \in DOMAIN m.segs /\ a[2] \in DOMAIN m.segs[a[1]].words
    BY <1>15 DEF Allocated
  <2>2. CASE a[1] = s
    <3>1. a[2] \in 1 .. k
      BY <1>11, <2>1, <2>2
    <3>2. g.words[a[2]] = old[a[2]] /\ a[2] \in DOMAIN g.words
      BY <1>10, <1>13, <1>14, <3>1
    <3> QED
      BY <1>8, <2>1, <2>2, <3>2 DEF Allocated, WordAt
  <2>3. CASE a[1] # s
    BY <1>8, <2>1, <2>3 DEF Allocated, WordAt
  <2> QED
    BY <2>2, <2>3
<1>16. ASSUME NEW i \in 0 .. n - 1
       PROVE  /\ ~Allocated(m, Plus(at, i)) /\ Allocated(m2, Plus(at, i))
              /\ WordAt(m2, Plus(at, i)) = Null
  <2> DEFINE b == Plus(at, i)
             j == k + (i + 1)
  <2>1. b[1] = s /\ b[2] = j
    BY <1>10 DEF Plus
  <2>2. j \in 1 .. k + n /\ j \notin 1 .. k
    BY <1>10
  <2>3. g.words[j] = Null
    BY <1>12
  <2>5. m2.segs[s] = g /\ s \in DOMAIN m2.segs
    BY <1>8
  <2> HIDE DEF b, j, old, at
  <2>4. ~Allocated(m, b)
    BY <1>words, <2>1, <2>2 DEF Allocated
  <2>6. Allocated(m2, b)
    BY <1>14, <2>1, <2>2, <2>5 DEF Allocated
  <2>7. WordAt(m2, b) = Null
    BY <2>1, <2>3, <2>5 DEF WordAt
  <2> QED
    BY <2>4, <2>6, <2>7 DEF b
<1>17. KeepsBut(m, m2, {})
  BY <1>8, <1>15 DEF KeepsBut
<1>18. FreshIn(m, m2, at, n)
  BY <1>8, <1>10, <1>16 DEF FreshIn, Address
<1> QED
  BY <1>7, <1>8, <1>17, <1>18 DEF k

LEMMA LargerIsEnough ==
  ASSUME NEW n \in Nat
  PROVE  Larger(n) \in Nat /\ Larger(n) >= n
BY SegWordsAssumption DEF Larger

\* A larger buffer for the one segment: the words stay, and there is room.
LEMMA LargerBuffer ==
  ASSUME NEW m \in Message, m.single, NEW n \in Nat
  PROVE  LET m2 == [m EXCEPT !.segs[1].cap = @ + Larger(n)]
         IN  /\ KeepsBut(m, m2, {}) /\ m2.single = m.single
             /\ DOMAIN m2.segs = DOMAIN m.segs /\ 1 \in DOMAIN m.segs
             /\ HasCapacity(m2, 1, n)
             /\ \A a \in Address : Allocated(m2, a) <=> Allocated(m, a)
<1> DEFINE g == [m.segs[1] EXCEPT !.cap = @ + Larger(n)]
           m2 == [m EXCEPT !.segs[1].cap = @ + Larger(n)]
           m3 == [m EXCEPT !.segs[1] = g]
<1>1. 1 \in DOMAIN m.segs
  <2>1. Len(m.segs) = 1 /\ m.segs \in Seq(Segment)
    BY DEF Message
  <2> QED
    BY <2>1, LenProperties
<1>2. /\ m.segs[1].words \in Seq(Word) /\ m.segs[1].cap \in Nat
      /\ Len(m.segs[1].words) <= m.segs[1].cap /\ Len(m.segs[1].words) \in Nat
      /\ m.segs[1] \in [words : Seq(Word), cap : Nat]
  BY <1>1, MessageParts DEF Segment
<1>3. g.words = m.segs[1].words /\ g.cap = m.segs[1].cap + Larger(n)
  BY <1>2
<1>4. g \in Segment
  BY <1>2, <1>3, LargerIsEnough DEF Segment
<1>5. m2 = m3
  BY <1>1, <1>2 DEF Message
<1> HIDE DEF g
<1>6. /\ m3 \in Message /\ m3.single = m.single /\ DOMAIN m3.segs = DOMAIN m.segs
      /\ \A r \in DOMAIN m.segs : m3.segs[r] = IF r = 1 THEN g ELSE m.segs[r]
  BY <1>1, <1>4, OtherSegment
<1> HIDE DEF m3
<1>7. \A r \in DOMAIN m.segs : m3.segs[r].words = m.segs[r].words
  BY <1>3, <1>6
<1>8. \A a \in Address : /\ Allocated(m3, a) <=> Allocated(m, a)
                         /\ Allocated(m, a) => WordAt(m3, a) = WordAt(m, a)
  BY <1>6, <1>7 DEF Allocated, WordAt
<1>9. KeepsBut(m, m3, {})
  BY <1>6, <1>8 DEF KeepsBut
<1>10. HasCapacity(m3, 1, n)
  BY <1>1, <1>2, <1>3, <1>6, LargerIsEnough DEF HasCapacity
<1> QED
  BY <1>1, <1>5, <1>6, <1>8, <1>9, <1>10

\* One more segment: it is empty and has room.
LEMMA OneMoreSegment ==
  ASSUME NEW m \in Message, ~m.single, NEW n \in Nat
  PROVE  LET m2 == [m EXCEPT !.segs = Append(@, [words |-> <<>>, cap |-> Larger(n)])]
         IN  /\ KeepsBut(m, m2, {}) /\ m2.single = m.single
             /\ Len(m.segs) + 1 \in DOMAIN m2.segs
             /\ HasCapacity(m2, Len(m.segs) + 1, n)
             /\ \A a \in Address : Allocated(m2, a) <=> Allocated(m, a)
<1> DEFINE g == [words |-> <<>>, cap |-> Larger(n)]
           m2 == [m EXCEPT !.segs = Append(@, g)]
<1>1. /\ m.segs \in Seq(Segment) /\ Len(m.segs) \in Nat
      /\ DOMAIN m.segs = 1 .. Len(m.segs)
      /\ m \in [single : BOOLEAN, segs : Seq(Segment)]
  BY LenProperties DEF Message
<1>2. g \in Segment
  <2>1. <<>> \in Seq(Word) /\ Len(<<>>) = 0
    BY EmptySeq
  <2>2. g \in [words : Seq(Word), cap : Nat]
    BY <2>1, LargerIsEnough
  <2> QED
    BY <2>1, <2>2, LargerIsEnough DEF Segment
<1>3. g.cap = Larger(n) /\ g.words = <<>> /\ Len(g.words) = 0 /\ DOMAIN g.words = {}
  BY EmptySeq
<1> HIDE DEF g
<1>4. /\ m2.segs = Append(m.segs, g) /\ m2.single = m.single
      /\ m2 \in [single : BOOLEAN, segs : Seq(Segment)]
  BY <1>1, <1>2, AppendProperties
<1>5. /\ Len(m2.segs) = Len(m.segs) + 1
      /\ DOMAIN m2.segs = 1 .. Len(m.segs) + 1
      /\ m2.segs[Len(m.segs) + 1] = g
      /\ \A r \in DOMAIN m.segs : m2.segs[r] = m.segs[r]
  BY <1>1, <1>2, <1>4, AppendProperties, LenProperties
<1>6. m2 \in Message
  <2>1. m2.segs # <<>>
    BY <1>1, <1>4, <1>5, EmptySeq
  <2> QED
    BY <1>4, <2>1 DEF Message
<1>7. \A a \in Address : /\ Allocated(m2, a) <=> Allocated(m, a)
                         /\ Allocated(m, a) => WordAt(m2, a) = WordAt(m, a)
  <2> SUFFICES ASSUME NEW a \in Address
               PROVE  /\ Allocated(m2, a) <=> Allocated(m, a)
                      /\ Allocated(m, a) => WordAt(m2, a) = WordAt(m, a)
    OBVIOUS
  <2>1. CASE a[1] \in DOMAIN m.segs
    BY <1>1, <1>5, <2>1 DEF Allocated, WordAt
  <2>2. CASE a[1] \notin DOMAIN m.segs
    <3>1. ~Allocated(m, a)
      BY <2>2 DEF Allocated
    <3>2. a[1] \in DOMAIN m2.segs => a[1] = Len(m.segs) + 1
      BY <1>1, <1>5, <2>2
    <3> QED
      BY <1>3, <1>5, <3>1, <3>2 DEF Allocated
  <2> QED
    BY <2>1, <2>2
<1>8. HasCapacity(m2, Len(m.segs) + 1, n)
  BY <1>3, <1>5, LargerIsEnough DEF HasCapacity
<1>9. Len(m.segs) + 1 \in DOMAIN m2.segs /\ m2.single = m.single
  BY <1>1, <1>4, <1>5
<1>10. DOMAIN m.segs \subseteq DOMAIN m2.segs
  BY <1>1, <1>5
<1> HIDE DEF m2
<1>11. KeepsBut(m, m2, {})
  BY <1>6, <1>7, <1>10 DEF KeepsBut
<1> QED
  BY <1>7, <1>8, <1>9, <1>11 DEF g, m2

\* Whatever the segment asked for, and however full it is, allocate gives words
\* that no object has, all of them zero and next to each other, and leaves every
\* word of the message as it was (Segment.allocate, allocateSegment).
THEOREM AllocateIsFresh ==
  ASSUME NEW m \in Message, NEW s \in DOMAIN m.segs, NEW n \in Nat
  PROVE  LET r == Allocate(m, s, n)
         IN  /\ KeepsBut(m, r.m, {}) /\ FreshIn(m, r.m, r.at, n)
             /\ HasCapacity(m, s, n) => r.at[1] = s
<1>1. CASE HasCapacity(m, s, n)
  BY <1>1, ExtendedIsFresh DEF Allocate
<1>2. CASE ~HasCapacity(m, s, n) /\ m.single
  <2> DEFINE m2 == [m EXCEPT !.segs[1].cap = @ + Larger(n)]
             r == Extended(m2, 1, n)
  <2>1. /\ KeepsBut(m, m2, {}) /\ 1 \in DOMAIN m2.segs /\ HasCapacity(m2, 1, n)
        /\ \A a \in Address : Allocated(m2, a) <=> Allocated(m, a)
        /\ m2 \in Message
    BY <1>2, LargerBuffer DEF KeepsBut
  <2>2. KeepsBut(m2, r.m, {}) /\ FreshIn(m2, r.m, r.at, n)
    BY <2>1, ExtendedIsFresh
  <2>3. Allocate(m, s, n) = r
    BY <1>2 DEF Allocate
  <2> HIDE DEF m2, r
  <2>4. KeepsBut(m, r.m, {})
    BY <2>1, <2>2 DEF KeepsBut
  <2>5. \A i \in 0 .. n - 1 : Plus(r.at, i) \in Address
    BY <2>2 DEF FreshIn, Plus, Address
  <2>6. FreshIn(m, r.m, r.at, n)
    BY <2>1, <2>2, <2>5 DEF FreshIn
  <2> QED
    BY <1>2, <2>3, <2>4, <2>6
<1>3. CASE ~HasCapacity(m, s, n) /\ ~m.single
  <2> DEFINE m2 == [m EXCEPT !.segs = Append(@, [words |-> <<>>, cap |-> Larger(n)])]
             k == Len(m.segs) + 1
             r == Extended(m2, k, n)
  <2>1. /\ KeepsBut(m, m2, {}) /\ k \in DOMAIN m2.segs /\ HasCapacity(m2, k, n)
        /\ \A a \in Address : Allocated(m2, a) <=> Allocated(m, a)
        /\ m2 \in Message
    BY <1>3, OneMoreSegment DEF KeepsBut
  <2>2. KeepsBut(m2, r.m, {}) /\ FreshIn(m2, r.m, r.at, n)
    BY <2>1, ExtendedIsFresh
  <2>3. Allocate(m, s, n) = r
    BY <1>3 DEF Allocate
  <2> HIDE DEF m2, r
  <2>4. KeepsBut(m, r.m, {})
    BY <2>1, <2>2 DEF KeepsBut
  <2>5. \A i \in 0 .. n - 1 : Plus(r.at, i) \in Address
    BY <2>2 DEF FreshIn, Plus, Address
  <2>6. FreshIn(m, r.m, r.at, n)
    BY <2>1, <2>2, <2>5 DEF FreshIn
  <2> QED
    BY <1>3, <2>3, <2>4, <2>6
<1> QED
  BY <1>1, <1>2, <1>3

-----------------------------------------------------------------------------
(* Linking *)

LEMMA WithOffsetIsAWord ==
  ASSUME NEW w \in ObjectWord, NEW off \in Int
  PROVE  /\ WithOffset(w, off) \in Word
         /\ WithOffset(w, off).t # "far"
         /\ WithOffset(w, off) = Null => off = 0
         /\ WithOffset(w, off) # Null => WithOffset(w, off).off = off
<1>1. w.t \in {"struct", "list", "cap"}
  BY DEF ObjectWord
<1>2. w # Null
  BY <1>1 DEF Null
<1>3. [w EXCEPT !.off = off] \in ObjectWord /\ [w EXCEPT !.off = off].off = off
  BY DEF ObjectWord
<1>4. [w EXCEPT !.off = off] # Null
  BY <1>3 DEF ObjectWord, Null
<1>5. [w EXCEPT !.off = off].t # "far"
  BY <1>3 DEF ObjectWord
<1>6. Null \in Word /\ Null.t # "far" /\ ObjectWord \subseteq Word
  BY DEF Word, Null
<1>7. CASE w.t = "struct" /\ w.size = <<0, 0>> /\ off = 0
  <2>1. WithOffset(w, off) = Null
    BY <1>2, <1>7 DEF WithOffset
  <2> QED
    BY <1>6, <1>7, <2>1
<1>8. CASE ~(w.t = "struct" /\ w.size = <<0, 0>> /\ off = 0)
  <2>1. WithOffset(w, off) = [w EXCEPT !.off = off]
    BY <1>2, <1>8 DEF WithOffset
  <2> QED
    BY <1>3, <1>4, <1>5, <1>6, <2>1
<1> QED
  BY <1>7, <1>8

LEMMA FarIsAWord ==
  ASSUME NEW a \in Address, NEW d \in BOOLEAN
  PROVE  /\ FarWord(d, a) \in Word /\ FarWord(d, a).t = "far"
         /\ FarWord(d, a).double = d /\ FarWord(d, a).at = a
         /\ FarWord(d, a) # Null
BY DEF FarWord, Word, Null

LEMMA PlusMoves ==
  ASSUME NEW a \in Address, NEW n \in Nat
  PROVE  Plus(a, n) \in Address /\ Plus(a, n)[1] = a[1] /\ Plus(a, n)[2] = a[2] + n
BY DEF Address, Plus

LEMMA KeepsButTransitive ==
  ASSUME NEW m, NEW m2, NEW m3, NEW P, NEW Q,
         KeepsBut(m, m2, P), KeepsBut(m2, m3, Q)
  PROVE  KeepsBut(m, m3, P \cup Q)
BY DEF KeepsBut

\* A pointer word that is not a far pointer leads past itself by its offset.
LEMMA NearLeads ==
  ASSUME NEW m \in Message, NEW a \in Address, NEW content \in Address,
         a[1] = content[1], NEW w \in ObjectWord,
         WordAt(m, a) = WithOffset(w, content[2] - a[2] - 1)
  PROVE  /\ ~IsFar(m, a)
         /\ Plus(a, 1 + (IF WordAt(m, a) = Null THEN 0 ELSE WordAt(m, a).off)) = content
<1> DEFINE off == content[2] - a[2] - 1
<1>1. off \in Int
  BY DEF Address
<1>2. /\ WordAt(m, a).t # "far"
      /\ (IF WordAt(m, a) = Null THEN 0 ELSE WordAt(m, a).off) = off
  BY <1>1, WithOffsetIsAWord
<1>3. Plus(a, 1 + off) = <<a[1], content[2]>>
  BY DEF Plus, Address
<1>4. content = <<content[1], content[2]>>
  BY DEF Address
<1> QED
  BY <1>2, <1>3, <1>4 DEF IsFar

\* Whatever is linked, from wherever: afterwards the pointer leads to the
\* content, directly, through a landing pad in the segment of the content, or
\* through a double far pointer, and says of it what was asked for; no other
\* word of the message has changed (initPointer with setStructPointer or
\* setListPointer).
THEOREM LinkLeads ==
  ASSUME NEW m \in Message, NEW content \in Address, content[1] \in DOMAIN m.segs,
         NEW p \in Address, Allocated(m, p), NEW w \in ObjectWord
  PROVE  LET m2 == Link(m, content, p, w)
         IN  /\ KeepsBut(m, m2, {p})
             /\ Start(m2, p) = content
             /\ \E off \in Int : WordAt(m2, Target(m2, p)) = WithOffset(w, off)
<1> DEFINE m2 == Link(m, content, p, w)
<1>1. CASE p[1] = content[1]
  <2> DEFINE off == content[2] - p[2] - 1
             v == WithOffset(w, off)
  <2>1. off \in Int
    BY DEF Address
  <2>2. v \in Word
    BY <2>1, WithOffsetIsAWord
  <2>3. m2 = Write(m, p, v)
    BY <1>1 DEF Link, InitPointer
  <2>4. KeepsBut(m, m2, {p}) /\ WordAt(m2, p) = v
    BY <2>2, <2>3, WriteOne
  <2>5. m2 \in Message
    BY <2>4 DEF KeepsBut
  <2> HIDE DEF m2
  <2>6. /\ ~IsFar(m2, p)
        /\ Plus(p, 1 + (IF WordAt(m2, p) = Null THEN 0 ELSE WordAt(m2, p).off)) = content
    BY <1>1, <2>4, <2>5, NearLeads
  <2>7. Target(m2, p) = p /\ ~IsDoubleFar(m2, p)
    BY <2>6 DEF Target, IsDoubleFar
  <2>8. Start(m2, p) = content
    BY <2>6, <2>7 DEF Start
  <2> QED
    BY <2>1, <2>4, <2>7, <2>8 DEF m2
<1>2. CASE p[1] # content[1] /\ HasCapacity(m, content[1], 1)
  <2> DEFINE pad == Allocate(m, content[1], 1)
             at == pad.at
             far == FarWord(FALSE, at)
             m1 == Write(pad.m, p, far)
             off == content[2] - at[2] - 1
             v == WithOffset(w, off)
  <2>1. /\ KeepsBut(m, pad.m, {}) /\ FreshIn(m, pad.m, at, 1) /\ at[1] = content[1]
    BY <1>2, AllocateIsFresh
  <2>2. at \in Address /\ off \in Int
    BY <2>1 DEF FreshIn, Address
  <2>3. ~Allocated(m, at) /\ Allocated(pad.m, at)
    <3>1. Plus(at, 0) = at
      BY <2>2 DEF Plus, Address
    <3> HIDE DEF pad, at
    <3> QED
      BY <2>1, <3>1 DEF FreshIn
  <2>4. pad.m \in Message /\ Allocated(pad.m, p) /\ at # p
    BY <2>1, <2>3 DEF KeepsBut
  <2>5. far \in Word
    BY <2>2, FarIsAWord
  <2>6. v \in Word
    BY <2>2, WithOffsetIsAWord
  <2>7. m2 = Write(m1, at, v)
    BY <1>2 DEF Link, InitPointer
  <2> HIDE DEF pad, at, far, off, v
  <2>8. KeepsBut(pad.m, m1, {p}) /\ WordAt(m1, p) = far /\ Allocated(m1, at)
    BY <2>2, <2>3, <2>4, <2>5, WriteOne
  <2>9. m1 \in Message /\ Allocated(m1, p)
    BY <2>4, <2>8 DEF KeepsBut
  <2> HIDE DEF m1, m2
  <2>10. KeepsBut(m1, m2, {at}) /\ WordAt(m2, at) = v
    BY <2>2, <2>6, <2>7, <2>8, <2>9, WriteOne
  <2>11. WordAt(m2, p) = far /\ m2 \in Message
    BY <2>4, <2>8, <2>9, <2>10 DEF KeepsBut
  <2>12. KeepsBut(m, m2, {p, at})
    BY <2>1, <2>8, <2>10, KeepsButTransitive
  <2>13. KeepsBut(m, m2, {p})
    BY <2>3, <2>12 DEF KeepsBut
  <2>14. far.t = "far" /\ far.double = FALSE /\ far.at = at
    BY <2>2, FarIsAWord DEF far
  <2>15. Target(m2, p) = at /\ ~IsDoubleFar(m2, p)
    BY <2>11, <2>14 DEF Target, IsDoubleFar, IsFar
  <2>16. Plus(at, 1 + (IF WordAt(m2, at) = Null THEN 0 ELSE WordAt(m2, at).off)) = content
    BY <2>1, <2>2, <2>10, <2>11, NearLeads DEF v, off
  <2>17. Start(m2, p) = content
    BY <2>15, <2>16 DEF Start
  <2> QED
    BY <2>2, <2>10, <2>13, <2>15, <2>17 DEF v, m2
<1>3. CASE p[1] # content[1] /\ ~HasCapacity(m, content[1], 1)
  <2> DEFINE pad == Allocate(m, p[1], 2)
             at == pad.at
             next == Plus(at, 1)
             far == FarWord(TRUE, at)
             lead == FarWord(FALSE, content)
             v == WithOffset(w, 0)
             m1 == Write(pad.m, p, far)
             m3 == Write(m1, at, lead)
  <2>1. KeepsBut(m, pad.m, {}) /\ FreshIn(m, pad.m, at, 2)
    <3>1. p[1] \in DOMAIN m.segs
      BY DEF Allocated
    <3> QED
      BY <3>1, AllocateIsFresh
  <2>2. at \in Address
    BY <2>1 DEF FreshIn
  <2>3. next \in Address /\ next # at
    <3>1. next = <<at[1], at[2] + 1>>
      BY DEF Plus
    <3> HIDE DEF next, at
    <3> QED
      BY <2>2, <3>1 DEF Address
  <2>4. Plus(at, 0) = at
    BY <2>2 DEF Plus, Address
  <2>5. far \in Word /\ lead \in Word /\ v \in Word
    <3>1. TRUE \in BOOLEAN /\ FALSE \in BOOLEAN /\ 0 \in Int
      OBVIOUS
    <3> HIDE DEF at
    <3>2. far \in Word /\ lead \in Word
      BY <2>2, <3>1, FarIsAWord
    <3>3. v \in Word
      BY <3>1, WithOffsetIsAWord
    <3> QED
      BY <3>2, <3>3
  <2>6. m2 = Write(m3, next, v)
    BY <1>3 DEF Link, InitPointer
  <2>7. 0 \in 0 .. 2 - 1 /\ 1 \in 0 .. 2 - 1
    OBVIOUS
  <2> HIDE DEF pad, at, far, lead, v
  <2>8. /\ ~Allocated(m, at) /\ Allocated(pad.m, at)
        /\ ~Allocated(m, next) /\ Allocated(pad.m, next)
    BY <2>1, <2>4, <2>7 DEF FreshIn
  <2> HIDE DEF next, m2
  <2>9. pad.m \in Message /\ Allocated(pad.m, p) /\ at # p /\ next # p
    BY <2>1, <2>8 DEF KeepsBut
  <2>10. /\ KeepsBut(pad.m, m1, {p}) /\ WordAt(m1, p) = far
         /\ Allocated(m1, at) /\ Allocated(m1, next) /\ Allocated(m1, p)
    <3> HIDE DEF m3
    <3>1. /\ KeepsBut(pad.m, m1, {p}) /\ WordAt(m1, p) = far
          /\ \A b \in Address : Allocated(m1, b) <=> Allocated(pad.m, b)
      BY <2>5, <2>9, WriteOne
    <3> HIDE DEF m1
    <3> QED
      BY <2>2, <2>3, <2>8, <2>9, <3>1
  <2>11. m1 \in Message
    BY <2>10 DEF KeepsBut
  <2> HIDE DEF m1
  <2>12. /\ KeepsBut(m1, m3, {at}) /\ WordAt(m3, at) = lead
         /\ Allocated(m3, next) /\ Allocated(m3, at) /\ Allocated(m3, p)
    BY <2>2, <2>3, <2>5, <2>10, <2>11, WriteOne
  <2>13. m3 \in Message
    BY <2>12 DEF KeepsBut
  <2> HIDE DEF m3
  <2>14. KeepsBut(m3, m2, {next}) /\ WordAt(m2, next) = v
    BY <2>3, <2>5, <2>6, <2>12, <2>13, WriteOne
  <2>15. WordAt(m2, at) = lead
    BY <2>2, <2>3, <2>12, <2>14 DEF KeepsBut
  <2>16. WordAt(m2, p) = far
    BY <2>9, <2>10, <2>12, <2>14 DEF KeepsBut
  <2>17. KeepsBut(m, m2, {p, at, next})
    <3>1. KeepsBut(m, m1, {p})
      BY <2>1, <2>10, KeepsButTransitive
    <3>2. KeepsBut(m, m3, {p, at})
      BY <3>1, <2>12, KeepsButTransitive
    <3> QED
      BY <3>2, <2>14, KeepsButTransitive
  <2>18. KeepsBut(m, m2, {p})
    BY <2>8, <2>17 DEF KeepsBut
  <2>19. far.t = "far" /\ far.double = TRUE /\ far.at = at /\ lead.at = content
    BY <2>2, FarIsAWord DEF far, lead
  <2>20. Target(m2, p) = next /\ IsDoubleFar(m2, p)
    BY <2>16, <2>19 DEF Target, IsDoubleFar, IsFar, next
  <2>21. Start(m2, p) = content
    BY <2>15, <2>16, <2>19, <2>20 DEF Start
  <2> QED
    BY <2>14, <2>18, <2>20, <2>21 DEF v, m2
<1> QED
  BY <1>1, <1>2, <1>3
=============================================================================
