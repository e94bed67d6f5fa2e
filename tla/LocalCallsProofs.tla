-------------------------- MODULE LocalCallsProofs --------------------------
(***************************************************************************)
(* Promise pipelining inside one vat.  A promise that has an answer passes *)
(* a call on, along promises of ever earlier calls; where the call ends up *)
(* (Target) is a recursive function, and what is shown of it first is how  *)
(* it changes when a promise is resolved.  The invariant has calls "in the *)
(* air": those that a flush has taken out of a queue and not placed yet.   *)
(***************************************************************************)
EXTENDS LocalCalls, TLAPS, FiniteSetTheorems, WellFoundedInduction, SequenceTheorems

-----------------------------------------------------------------------------
(* The invariant.  C is the calls, T the methods started, w the calls in the air. *)

Earlier(c, n) == c.k = "promise" => c.i < n
RecordOK(c, n) ==
  /\ Earlier(c.on, n) /\ Earlier(c.arg, n) /\ Earlier(c.res, n) /\ Earlier(c.answer, n)
  /\ c.answer # NoAnswer => c.place = "over" /\ c.queue = <<>>
  /\ c.place \in {"returned", "threw"} => c.hops # 0
  /\ Len(c.queue) <= CallQueueSize
CallsOK(C) == /\ C \in Seq(CallRecord) /\ Len(C) <= MaxCalls
              /\ \A n \in DOMAIN C : RecordOK(C[n], n)

\* A method that ended or runs is in the log, one that waits is not.
Ran(T, n) == \E i \in DOMAIN T : T[i].n = n
RunsOK(C, T) ==
  /\ T \in Seq([n : Call, object : Object])
  /\ \A i \in DOMAIN T : T[i].n \in DOMAIN C /\ C[T[i].n].place # "queued"
  /\ \A i, j \in DOMAIN T : T[i].n = T[j].n => i = j
  /\ \A n \in DOMAIN C : C[n].place \in {"running", "returned"} \/ C[n].out = "fulfilled"
                           => Ran(T, n)

\* A call that waits is in the queue of the promise it is at, or in the air.
In(n, w) == \E i \in DOMAIN w : w[i] = n
Distinct(w) == \A i, j \in DOMAIN w : w[i] = w[j] => i = j
QueuesOK(C, w) ==
  /\ \A m \in DOMAIN C : \A j \in DOMAIN C[m].queue :
       LET q == C[m].queue[j] IN
       q \in DOMAIN C /\ C[q].place = "queued" /\ C[q].at = m /\ ~In(q, w)
  /\ \A m \in DOMAIN C : Distinct(C[m].queue)
  /\ \A q : In(q, w) => q \in DOMAIN C /\ C[q].place = "queued"
  /\ Distinct(w)
  /\ \A n \in DOMAIN C : C[n].place = "queued" /\ ~In(n, w)
                           => C[n].at \in DOMAIN C /\ In(n, C[C[n].at].queue)

\* It waits where the promise it was made on leads, and was started there.
AimOK(C, T, w) ==
  /\ \A n \in DOMAIN C : C[n].place = "queued" /\ ~In(n, w)
                           => Target(C, C[n].on) = Promise(C[n].at)
  /\ \A i \in DOMAIN T : Target(C, C[T[i].n].on) = Server(T[i].object)

\* Two calls on one promise, the later one not made during a flush, stay in order.
Behind(C, n1, n2) == /\ n1 < n2 /\ C[n1].on = C[n2].on /\ C[n1].on.k = "promise"
                     /\ C[n2].during = 0
Before(w, n1, n2) == \A i, j \in DOMAIN w : w[i] = n1 /\ w[j] = n2 => i < j
OrderOK(C, T, w) ==
  \A n1, n2 \in DOMAIN C : Behind(C, n1, n2) =>
    /\ \A i, j \in DOMAIN T : T[i].n = n1 /\ T[j].n = n2 => i < j
    /\ Ran(T, n2) => C[n1].place # "queued"
    /\ \A m \in DOMAIN C : Before(C[m].queue, n1, n2)
    /\ In(n1, w) /\ C[n2].place = "queued" => In(n2, w)
    /\ Before(w, n1, n2)

Sound(C, T, w) == /\ CallsOK(C) /\ RunsOK(C, T) /\ QueuesOK(C, w)
                  /\ AimOK(C, T, w) /\ OrderOK(C, T, w)

\* Between two steps nothing is in the air.
LocalInv == Sound(calls, delivered, <<>>)

-----------------------------------------------------------------------------
(* Where a call on a promise ends up. *)

\* Induction, without an operator as a parameter.
LEMMA LeastNatural ==
  ASSUME NEW T, T \subseteq Nat, T # {}
  PROVE  \E x \in T : \A y \in T : x <= y
<1>1. IsWellFoundedOn(OpToRel(<, Nat), Nat)
  BY NatLessThanWellFounded
<1>2. PICK x \in T : \A y \in T : ~(<<y, x>> \in OpToRel(<, Nat))
  BY <1>1, WFMin
<1>3. \A y \in T : ~(y < x)
  BY <1>2 DEF OpToRel
<1>. QED
  BY <1>3

\* Links that lead to ever smaller numbers, until one stops: f is what each leads to.
Follows(f, stop, base, link, n) ==
  /\ f = [m \in 1 .. n |-> f[m]]
  /\ \A m \in 1 .. n : f[m] = IF m \in stop THEN base[m] ELSE f[link[m]]

LEMMA FollowsExists ==
  ASSUME NEW n \in Nat, NEW stop, NEW base, NEW link,
         \A m \in 1 .. n : m \in stop \/ link[m] \in 1 .. m - 1
  PROVE  \E f : Follows(f, stop, base, link, n)
<1> DEFINE T == {i \in 0 .. n : ~\E f : Follows(f, stop, base, link, i)}
<1> SUFFICES ASSUME T # {} PROVE FALSE
  OBVIOUS
<1>1. PICK l \in T : \A i \in T : l <= i
  <2>1. T \subseteq Nat
    OBVIOUS
  <2> HIDE DEF T
  <2>. QED
    BY <2>1, LeastNatural
<1>2. l \in 0 .. n /\ ~\E f : Follows(f, stop, base, link, l)
  BY <1>1
<1>3. l # 0
  <2>1. Follows([m \in 1 .. 0 |-> 0], stop, base, link, 0)
    BY DEF Follows
  <2>. QED
    BY <1>2, <2>1
<1>4. l - 1 \in 0 .. n /\ l - 1 \notin T
  BY <1>1, <1>2, <1>3
<1>5. PICK f : Follows(f, stop, base, link, l - 1)
  BY <1>4
<1> HIDE DEF T
<1>6. PICK x : x = IF l \in stop THEN base[l] ELSE f[link[l]]
  OBVIOUS
<1>7. PICK g : g = [m \in 1 .. l |-> IF m = l THEN x ELSE f[m]]
  OBVIOUS
<1>8. g[l] = x /\ \A m \in 1 .. l - 1 : g[m] = f[m]
  BY <1>2, <1>3, <1>7
<1>9. ASSUME NEW m \in 1 .. l PROVE g[m] = IF m \in stop THEN base[m] ELSE g[link[m]]
  <2>1. m \in 1 .. n /\ (m \in stop \/ link[m] \in 1 .. l - 1)
    BY <1>2
  <2>2. m \in stop \/ g[link[m]] = f[link[m]]
    BY <1>8, <2>1
  <2>3. CASE m = l
    BY <1>6, <1>8, <2>2, <2>3
  <2>4. CASE m # l
    <3>1. m \in 1 .. l - 1
      BY <1>2, <2>4
    <3>2. f[m] = IF m \in stop THEN base[m] ELSE f[link[m]]
      BY <1>5, <3>1 DEF Follows
    <3>. QED
      BY <1>8, <2>2, <3>1, <3>2
  <2>. QED
    BY <2>3, <2>4
<1>10. g = [m \in 1 .. l |-> g[m]]
  BY <1>7
<1>. QED
  BY <1>2, <1>9, <1>10 DEF Follows

\* What the kinds of client say of its fields.
LEMMA Clients ==
  /\ NullClient.k = "null" /\ NoAnswer.k = "none" /\ NoAnswer \notin Client
  /\ NullClient \in Client /\ NullClient # NoAnswer
  /\ \A o \in Object : Server(o) \in Client /\ Server(o).k = "server" /\ Server(o).i = o
  /\ \A m : Promise(m).k = "promise" /\ Promise(m).i = m /\ (Promise(m) \in Client <=> m \in Call)
  /\ \A c \in Client : /\ c.k \in {"null", "server", "promise"} /\ c.i \in Nat
                       /\ c.k = "promise" => c = Promise(c.i) /\ c.i \in Call
                       /\ c.k = "server" => c = Server(c.i) /\ c.i \in Object
                       /\ c.k = "null" => c = NullClient
<1>1. \A m : [k |-> "promise", i |-> m].i = m /\ [k |-> "promise", i |-> m].k = "promise"
  OBVIOUS
<1>2. Call \subseteq Nat \ {0} /\ Object \subseteq Nat
  BY BoundsAssumption DEF Call, Object
<1>3. \A o \in Object : Server(o) \in Client /\ Server(o).k = "server" /\ Server(o).i = o
  BY DEF Client, Server
<1>4. \A m : Promise(m).k = "promise" /\ Promise(m).i = m
  BY <1>1 DEF Promise
<1>5. ASSUME NEW c \in Client
      PROVE  /\ c.k \in {"null", "server", "promise"} /\ c.i \in Nat
             /\ c.k = "promise" => c = Promise(c.i) /\ c.i \in Call
             /\ c.k = "server" => c = Server(c.i) /\ c.i \in Object
             /\ c.k = "null" => c = NullClient
  <2>1. CASE c = NullClient
    BY <2>1 DEF NullClient
  <2>2. CASE \E o \in Object : c = Server(o)
    <3>1. PICK o \in Object : c = Server(o)
      BY <2>2
    <3>. QED
      BY <1>2, <1>3, <3>1
  <2>3. CASE \E m \in Call : c = Promise(m)
    <3>1. PICK m \in Call : c = Promise(m)
      BY <2>3
    <3>. QED
      BY <1>2, <1>4, <3>1
  <2>. QED
    BY <2>1, <2>2, <2>3 DEF Client
<1>6. NullClient.k = "null" /\ NoAnswer.k = "none" /\ NullClient \in Client
  BY DEF NullClient, NoAnswer, Client
<1>7. \A m : Promise(m) \in Client <=> m \in Call
  <2>1. \A m : Promise(m) \in Client => m \in Call
    BY <1>4, <1>5
  <2>2. \A m \in Call : Promise(m) \in Client
    BY DEF Client
  <2>. QED
    BY <2>1, <2>2
<1>8. NoAnswer \notin Client /\ NullClient # NoAnswer
  BY <1>5, <1>6
<1>. QED
  BY <1>3, <1>4, <1>5, <1>6, <1>7, <1>8

\* What Target needs of the calls: an answer is a client, a promise among them an
\* earlier one.
Linked(C) == /\ C \in Seq(CallRecord) /\ Len(C) <= MaxCalls
             /\ \A m \in DOMAIN C : Earlier(C[m].answer, m)

\* An answer that is a promise is the promise of an earlier call.
LEMMA AnswerFacts ==
  ASSUME NEW C, Linked(C), NEW m \in DOMAIN C
  PROVE  /\ Len(C) \in Nat /\ DOMAIN C = 1 .. Len(C) /\ m \in Nat \ {0}
         /\ C[m].answer \in Client \cup {NoAnswer}
         /\ C[m].answer.k = "promise"
              => C[m].answer = Promise(C[m].answer.i) /\ C[m].answer.i \in 1 .. m - 1
<1>1. /\ Len(C) \in Nat /\ DOMAIN C = 1 .. Len(C) /\ m \in Nat \ {0} /\ C[m] \in CallRecord
  BY DEF Linked
<1>2. C[m].answer \in Client \cup {NoAnswer}
  BY <1>1 DEF CallRecord
<1>3. ASSUME C[m].answer.k = "promise"
      PROVE  C[m].answer = Promise(C[m].answer.i) /\ C[m].answer.i \in 1 .. m - 1
  <2>1. C[m].answer \in Client
    BY <1>2, <1>3, Clients
  <2>2. C[m].answer = Promise(C[m].answer.i) /\ C[m].answer.i \in Call
    BY <1>3, <2>1, Clients
  <2>3. C[m].answer.i < m
    BY <1>3 DEF Linked, Earlier
  <2>. QED
    BY <1>1, <2>2, <2>3, BoundsAssumption DEF Call
<1>. QED
  BY <1>1, <1>2, <1>3

\* The unfolding of Target.
LEMMA TargetIs ==
  ASSUME NEW C, Linked(C)
  PROVE  /\ \A c : c.k # "promise" => Target(C, c) = c
         /\ \A m \in DOMAIN C : Target(C, Promise(m)) =
              IF C[m].answer = NoAnswer THEN Promise(m) ELSE Target(C, C[m].answer)
<1> DEFINE R(f) == [m \in DOMAIN C |->
                     LET a == C[m].answer IN
                     IF a = NoAnswer THEN Promise(m)
                     ELSE IF a.k = "promise" THEN f[a.i] ELSE a]
           target == CHOOSE f : f = R(f)
<1>1. \A c : Target(C, c) = IF c.k = "promise" THEN target[c.i] ELSE c
  BY DEF Target
<1>2. Len(C) \in Nat /\ DOMAIN C = 1 .. Len(C)
  BY DEF Linked
<1>3. PICK stop : stop = {m \in DOMAIN C : C[m].answer.k # "promise"}
  OBVIOUS
<1>4. PICK base : base = [m \in DOMAIN C |-> IF C[m].answer = NoAnswer THEN Promise(m)
                                             ELSE C[m].answer]
  OBVIOUS
<1>5. PICK link : link = [m \in DOMAIN C |-> C[m].answer.i]
  OBVIOUS
<1>6. \A m \in 1 .. Len(C) : m \in stop \/ link[m] \in 1 .. m - 1
  BY <1>2, <1>3, <1>5, AnswerFacts
<1>7. PICK f : Follows(f, stop, base, link, Len(C))
  BY <1>2, <1>6, FollowsExists
<1>8. f = R(f)
  <2>1. f = [m \in DOMAIN C |-> f[m]]
    BY <1>2, <1>7 DEF Follows
  <2>2. ASSUME NEW m \in DOMAIN C PROVE f[m] = R(f)[m]
    <3>1. f[m] = IF m \in stop THEN base[m] ELSE f[link[m]]
      BY <1>2, <1>7 DEF Follows
    <3>2. base[m] = (IF C[m].answer = NoAnswer THEN Promise(m) ELSE C[m].answer)
          /\ link[m] = C[m].answer.i /\ (m \in stop <=> C[m].answer.k # "promise")
      BY <1>3, <1>4, <1>5
    <3>3. C[m].answer.k = "promise" => C[m].answer # NoAnswer
      BY Clients
    <3>4. R(f)[m] = (IF C[m].answer = NoAnswer THEN Promise(m)
                     ELSE IF C[m].answer.k = "promise" THEN f[C[m].answer.i] ELSE C[m].answer)
      OBVIOUS
    <3> HIDE DEF R
    <3>. QED
      BY <3>1, <3>2, <3>3, <3>4
  <2>3. R(f) = [m \in DOMAIN C |-> R(f)[m]]
    OBVIOUS
  <2> HIDE DEF R
  <2>. QED
    BY <2>1, <2>2, <2>3
<1>9. target = R(target)
  <2> HIDE DEF R
  <2>. QED
    BY <1>8
<1> HIDE DEF target
<1>10. ASSUME NEW m \in DOMAIN C
       PROVE  Target(C, Promise(m)) =
                IF C[m].answer = NoAnswer THEN Promise(m) ELSE Target(C, C[m].answer)
  <2>1. Target(C, Promise(m)) = target[m]
    BY <1>1, Clients
  <2>2. target[m] = (IF C[m].answer = NoAnswer THEN Promise(m)
                     ELSE IF C[m].answer.k = "promise" THEN target[C[m].answer.i] ELSE C[m].answer)
    BY <1>9
  <2>3. Target(C, C[m].answer) =
          IF C[m].answer.k = "promise" THEN target[C[m].answer.i] ELSE C[m].answer
    BY <1>1
  <2> HIDE DEF R
  <2>. QED
    BY <2>1, <2>2, <2>3
<1>11. \A c : c.k # "promise" => Target(C, c) = c
  BY <1>1
<1>. QED
  BY <1>10, <1>11

\* What a call is made on is a client, a promise among them one of C.
Known(C, c) == c \in Client /\ (c.k = "promise" => c.i \in DOMAIN C)

\* It leads to a server, to nothing, or to a promise that has no answer, and that is
\* no later one.
LEMMA TargetEnds ==
  ASSUME NEW C, Linked(C), NEW c, Known(C, c)
  PROVE  /\ Target(C, c) \in Client
         /\ Target(C, c).k = "promise" =>
              /\ Target(C, c) = Promise(Target(C, c).i)
              /\ Target(C, c).i \in 1 .. c.i /\ Target(C, c).i \in DOMAIN C
              /\ C[Target(C, c).i].answer = NoAnswer
              /\ c.k = "promise"
<1> DEFINE Leads(m) == /\ Target(C, Promise(m)) \in Client
                       /\ Target(C, Promise(m)).k = "promise" =>
                            /\ Target(C, Promise(m)).i \in 1 .. m
                            /\ C[Target(C, Promise(m)).i].answer = NoAnswer
           T == {m \in DOMAIN C : ~Leads(m)}
<1>1. Len(C) \in Nat /\ DOMAIN C = 1 .. Len(C)
  BY DEF Linked
<1>2. ASSUME NEW m \in DOMAIN C, \A l \in 1 .. m - 1 : Leads(l) PROVE Leads(m)
  <2>1. Target(C, Promise(m)) =
          IF C[m].answer = NoAnswer THEN Promise(m) ELSE Target(C, C[m].answer)
    BY TargetIs
  <2>2. /\ m \in Nat \ {0} /\ C[m].answer \in Client \cup {NoAnswer}
        /\ C[m].answer.k = "promise"
              => C[m].answer = Promise(C[m].answer.i) /\ C[m].answer.i \in 1 .. m - 1
    BY AnswerFacts
  <2>3. CASE C[m].answer = NoAnswer
    <3>1. Target(C, Promise(m)) = Promise(m) /\ Promise(m).i = m
      BY <2>1, <2>3, Clients
    <3>2. m \in Call
      BY <1>1, BoundsAssumption DEF Linked, Call
    <3>. QED
      BY <2>2, <2>3, <3>1, <3>2, Clients
  <2>4. CASE C[m].answer # NoAnswer /\ C[m].answer.k = "promise"
    <3>1. PICK l \in 1 .. m - 1 : C[m].answer = Promise(l)
      BY <2>2, <2>4
    <3>2. Target(C, Promise(m)) = Target(C, Promise(l)) /\ Leads(l)
      BY <1>2, <2>1, <2>4, <3>1
    <3>3. 1 .. l \subseteq 1 .. m
      BY <2>2, <3>1
    <3>. QED
      BY <3>2, <3>3
  <2>5. CASE C[m].answer # NoAnswer /\ C[m].answer.k # "promise"
    <3>1. Target(C, Promise(m)) = C[m].answer
      BY <2>1, <2>5, TargetIs
    <3>. QED
      BY <2>2, <2>5, <3>1
  <2>. QED
    BY <2>3, <2>4, <2>5
<1>3. ASSUME T # {} PROVE FALSE
  <2>1. PICK m \in T : \A l \in T : m <= l
    <3>1. T \subseteq Nat
      BY <1>1
    <3> HIDE DEF T
    <3>. QED
      BY <1>3, <3>1, LeastNatural
  <2>2. m \in DOMAIN C /\ ~Leads(m)
    BY <2>1
  <2>3. ASSUME NEW l \in 1 .. m - 1 PROVE Leads(l)
    <3>1. l \in DOMAIN C /\ l \notin T
      BY <1>1, <2>1, <2>2
    <3> HIDE DEF Leads
    <3>. QED
      BY <3>1
  <2> HIDE DEF Leads
  <2>. QED
    BY <1>2, <2>2, <2>3
<1>4. \A m \in DOMAIN C : Leads(m)
  <2> HIDE DEF Leads
  <2>. QED
    BY <1>3
<1>5. CASE c.k = "promise"
  <2>1. PICK m \in DOMAIN C : c = Promise(m) /\ c.i = m
    BY <1>5, Clients DEF Known
  <2>2. Leads(m)
    BY <1>4
  <2>3. PICK t : t = Target(C, Promise(m))
    OBVIOUS
  <2>4. t \in Client /\ (t.k = "promise" => t.i \in 1 .. m /\ C[t.i].answer = NoAnswer)
    BY <2>2, <2>3
  <2>5. t.k = "promise" => t = Promise(t.i) /\ t.i \in DOMAIN C
    BY <1>1, <2>1, <2>4, Clients
  <2>. QED
    BY <1>5, <2>1, <2>3, <2>4, <2>5
<1>6. CASE c.k # "promise"
  BY <1>6, TargetIs DEF Known
<1>. QED
  BY <1>5, <1>6

\* Nothing but answers changes where a promise leads; more calls do not.
LEMMA TargetSame ==
  ASSUME NEW C, Linked(C), NEW D, Linked(D), DOMAIN C \subseteq DOMAIN D,
         \A m \in DOMAIN C : D[m].answer = C[m].answer,
         NEW c, Known(C, c)
  PROVE  Target(D, c) = Target(C, c)
<1> DEFINE Same(m) == Target(D, Promise(m)) = Target(C, Promise(m))
           T == {m \in DOMAIN C : ~Same(m)}
<1>1. Len(C) \in Nat /\ DOMAIN C = 1 .. Len(C)
  BY DEF Linked
<1>2. ASSUME NEW m \in DOMAIN C, \A l \in 1 .. m - 1 : Same(l) PROVE Same(m)
  <2>1. Target(C, Promise(m)) =
          IF C[m].answer = NoAnswer THEN Promise(m) ELSE Target(C, C[m].answer)
    BY TargetIs
  <2>2. Target(D, Promise(m)) =
          IF C[m].answer = NoAnswer THEN Promise(m) ELSE Target(D, C[m].answer)
    BY TargetIs
  <2>3. Target(C, C[m].answer) = Target(D, C[m].answer)
    <3>1. CASE C[m].answer.k = "promise"
      <4>1. PICK l \in 1 .. m - 1 : C[m].answer = Promise(l)
        BY <3>1, AnswerFacts
      <4>. QED
        BY <1>2, <4>1
    <3>2. CASE C[m].answer.k # "promise"
      BY <3>2, TargetIs
    <3>. QED
      BY <3>1, <3>2
  <2>. QED
    BY <2>1, <2>2, <2>3
<1>3. ASSUME T # {} PROVE FALSE
  <2>1. PICK m \in T : \A l \in T : m <= l
    <3>1. T \subseteq Nat
      BY <1>1
    <3> HIDE DEF T
    <3>. QED
      BY <1>3, <3>1, LeastNatural
  <2>2. m \in DOMAIN C /\ ~Same(m)
    BY <2>1
  <2>3. ASSUME NEW l \in 1 .. m - 1 PROVE Same(l)
    <3>1. l \in DOMAIN C /\ l \notin T
      BY <1>1, <2>1, <2>2
    <3> HIDE DEF Same
    <3>. QED
      BY <3>1
  <2> HIDE DEF Same
  <2>. QED
    BY <1>2, <2>2, <2>3
<1>4. \A m \in DOMAIN C : Same(m)
  <2> HIDE DEF Same
  <2>. QED
    BY <1>3
<1>5. CASE c.k = "promise"
  BY <1>4, <1>5, Clients DEF Known
<1>6. CASE c.k # "promise"
  BY <1>6, TargetIs
<1>. QED
  BY <1>5, <1>6

\* When the promise of call n is resolved to r, what led to it leads where r does, and
\* nothing else changes.
LEMMA TargetResolved ==
  ASSUME NEW C, Linked(C), NEW D, Linked(D), DOMAIN D = DOMAIN C,
         NEW n \in DOMAIN C, C[n].answer = NoAnswer, NEW r, Known(C, r), Earlier(r, n),
         D[n].answer = r,
         \A m \in DOMAIN C : m # n => D[m].answer = C[m].answer,
         NEW c, Known(C, c)
  PROVE  /\ Target(D, r) = Target(C, r)
         /\ Target(D, c) = IF Target(C, c) = Promise(n) THEN Target(C, r) ELSE Target(C, c)
<1> DEFINE Goes(m) == Target(D, Promise(m)) =
                        IF Target(C, Promise(m)) = Promise(n) THEN Target(D, r)
                        ELSE Target(C, Promise(m))
           T == {m \in DOMAIN C : ~Goes(m)}
<1>1. Len(C) \in Nat /\ DOMAIN C = 1 .. Len(C)
  BY DEF Linked
<1>2. ASSUME NEW m \in DOMAIN C, \A l \in 1 .. m - 1 : Goes(l) PROVE Goes(m)
  <2>1. Target(C, Promise(m)) =
          IF C[m].answer = NoAnswer THEN Promise(m) ELSE Target(C, C[m].answer)
    BY TargetIs
  <2>2. Target(D, Promise(m)) =
          IF D[m].answer = NoAnswer THEN Promise(m) ELSE Target(D, D[m].answer)
    BY TargetIs
  <2>3. CASE m = n
    <3>1. r # NoAnswer
      BY Clients DEF Known
    <3>. QED
      BY <2>1, <2>2, <2>3, <3>1
  <2>4. CASE m # n
    <3>1. D[m].answer = C[m].answer /\ Promise(m) # Promise(n)
      BY <2>4, Clients
    <3>2. CASE C[m].answer = NoAnswer
      BY <2>1, <2>2, <3>1, <3>2
    <3>3. CASE C[m].answer # NoAnswer /\ C[m].answer.k = "promise"
      <4>1. PICK l \in 1 .. m - 1 : C[m].answer = Promise(l)
        BY <3>3, AnswerFacts
      <4>2. /\ Target(C, Promise(m)) = Target(C, Promise(l))
            /\ Target(D, Promise(m)) = Target(D, Promise(l))
        BY <2>1, <2>2, <3>1, <3>3, <4>1
      <4>. QED
        BY <1>2, <4>1, <4>2
    <3>4. CASE C[m].answer # NoAnswer /\ C[m].answer.k # "promise"
      <4>1. /\ Target(C, Promise(m)) = C[m].answer
            /\ Target(D, Promise(m)) = C[m].answer
        BY <2>1, <2>2, <3>1, <3>4, TargetIs
      <4>2. C[m].answer # Promise(n)
        BY <3>4, Clients
      <4>. QED
        BY <4>1, <4>2
    <3>. QED
      BY <3>2, <3>3, <3>4
  <2>. QED
    BY <2>3, <2>4
<1>3. ASSUME T # {} PROVE FALSE
  <2>1. PICK m \in T : \A l \in T : m <= l
    <3>1. T \subseteq Nat
      BY <1>1
    <3> HIDE DEF T
    <3>. QED
      BY <1>3, <3>1, LeastNatural
  <2>2. m \in DOMAIN C /\ ~Goes(m)
    BY <2>1
  <2>3. ASSUME NEW l \in 1 .. m - 1 PROVE Goes(l)
    <3>1. l \in DOMAIN C /\ l \notin T
      BY <1>1, <2>1, <2>2
    <3> HIDE DEF Goes
    <3>. QED
      BY <3>1
  <2> HIDE DEF Goes
  <2>. QED
    BY <1>2, <2>2, <2>3
<1>4. \A m \in DOMAIN C : Goes(m)
  <2> HIDE DEF Goes
  <2>. QED
    BY <1>3
<1>5. ASSUME NEW x, Known(C, x)
      PROVE  Target(D, x) = IF Target(C, x) = Promise(n) THEN Target(D, r) ELSE Target(C, x)
  <2>1. CASE x.k = "promise"
    BY <1>4, <1>5, <2>1, Clients DEF Known
  <2>2. CASE x.k # "promise"
    <3>1. x # Promise(n)
      BY <2>2, Clients
    <3>. QED
      BY <2>2, <3>1, TargetIs
  <2>. QED
    BY <2>1, <2>2
<1>6. Target(C, r) # Promise(n)
  <2>1. Target(C, r).k = "promise" => Target(C, r).i \in 1 .. r.i /\ r.k = "promise"
    BY TargetEnds
  <2>2. r.k = "promise" => r.i < n /\ r.i \in Nat
    BY Clients DEF Earlier, Known
  <2>3. n \in Nat
    BY <1>1
  <2>. QED
    BY <2>1, <2>2, <2>3, Clients
<1>7. Target(D, r) = Target(C, r)
  BY <1>5, <1>6
<1>. QED
  BY <1>5, <1>7

-----------------------------------------------------------------------------
(* A call in the air is placed. *)

\* A call of well formed calls, and what it was made on.
LEMMA CallFacts ==
  ASSUME NEW C, CallsOK(C), NEW n \in DOMAIN C
  PROVE  /\ Linked(C) /\ C \in Seq(CallRecord) /\ C[n] \in CallRecord /\ n \in Call /\ n \in Nat
         /\ DOMAIN C = 1 .. Len(C) /\ Len(C) \in Nat
         /\ Known(C, C[n].on) /\ Known(C, C[n].arg) /\ Known(C, C[n].res)
         /\ RecordOK(C[n], n)
<1>1. /\ C \in Seq(CallRecord) /\ C[n] \in CallRecord /\ DOMAIN C = 1 .. Len(C) /\ Len(C) \in Nat
      /\ Len(C) <= MaxCalls /\ n \in Nat \ {0} /\ RecordOK(C[n], n)
  BY DEF CallsOK
<1>2. Linked(C)
  BY DEF Linked, CallsOK, RecordOK
<1>3. n \in Call
  BY <1>1, BoundsAssumption DEF Call
<1>4. ASSUME NEW c \in Client, Earlier(c, n) PROVE Known(C, c)
  <2>1. c.k = "promise" => c.i \in Nat \ {0}
    BY Clients, BoundsAssumption DEF Call
  <2>. QED
    BY <1>1, <1>4, <2>1 DEF Earlier, Known
<1>5. C[n].on \in Client /\ C[n].arg \in Client /\ C[n].res \in Client
  BY <1>1 DEF CallRecord
<1>. QED
  BY <1>1, <1>2, <1>3, <1>4, <1>5 DEF RecordOK

\* n is the first of those in the air, w2 the others.
Taken(w, w2, n) ==
  /\ In(n, w) /\ \A q : In(q, w2) <=> In(q, w) /\ q # n
  /\ Distinct(w2)
  /\ \A n1, n2 : Before(w, n1, n2) => Before(w2, n1, n2)
  /\ \A n1 : In(n1, w) /\ n1 # n => ~Before(w, n1, n)

\* Those in the air are taken from the front.
LEMMA TailTaken ==
  ASSUME NEW S, NEW w \in Seq(S), w # <<>>, Distinct(w)
  PROVE  Taken(w, Tail(w), Head(w))
<1> DEFINE t == Tail(w)
<1>1. /\ Len(w) \in Nat \ {0} /\ DOMAIN w = 1 .. Len(w) /\ DOMAIN t = 1 .. Len(w) - 1
      /\ Head(w) = w[1] /\ \A i \in DOMAIN t : t[i] = w[i + 1]
  OBVIOUS
<1> HIDE DEF t
<1>2. ASSUME NEW q, In(q, t) PROVE In(q, w) /\ q # Head(w)
  <2>1. PICK i \in DOMAIN t : t[i] = q
    BY <1>2 DEF In
  <2>2. i + 1 \in DOMAIN w /\ 1 \in DOMAIN w /\ w[i + 1] = q /\ i + 1 # 1
    BY <1>1, <2>1
  <2>3. w[i + 1] # w[1]
    BY <2>2 DEF Distinct
  <2>. QED
    BY <1>1, <2>2, <2>3 DEF In
<1>3. ASSUME NEW q, In(q, w), q # Head(w) PROVE In(q, t)
  <2>1. PICK i \in DOMAIN w : w[i] = q
    BY <1>3 DEF In
  <2>2. i # 1
    BY <1>1, <1>3, <2>1
  <2>3. i - 1 \in DOMAIN t /\ t[i - 1] = w[i]
    BY <1>1, <2>1, <2>2
  <2>. QED
    BY <2>1, <2>3 DEF In
<1>4. Distinct(t)
  <2> SUFFICES ASSUME NEW i \in DOMAIN t, NEW j \in DOMAIN t, t[i] = t[j] PROVE i = j
    BY DEF Distinct
  <2>1. i + 1 \in DOMAIN w /\ j + 1 \in DOMAIN w /\ w[i + 1] = w[j + 1]
    BY <1>1
  <2>2. i + 1 = j + 1
    BY <2>1 DEF Distinct
  <2>. QED
    BY <1>1, <2>2
<1>5. ASSUME NEW n1, NEW n2, Before(w, n1, n2) PROVE Before(t, n1, n2)
  <2> SUFFICES ASSUME NEW i \in DOMAIN t, NEW j \in DOMAIN t, t[i] = n1, t[j] = n2 PROVE i < j
    BY DEF Before
  <2>1. i + 1 \in DOMAIN w /\ j + 1 \in DOMAIN w /\ w[i + 1] = n1 /\ w[j + 1] = n2
    BY <1>1
  <2>2. i + 1 < j + 1
    BY <1>5, <2>1 DEF Before
  <2>. QED
    BY <1>1, <2>2
<1>6. ASSUME NEW n1, In(n1, w), n1 # Head(w), Before(w, n1, Head(w)) PROVE FALSE
  <2>1. PICK i \in DOMAIN w : w[i] = n1
    BY <1>6 DEF In
  <2>2. i < 1
    BY <1>1, <1>6, <2>1 DEF Before
  <2>. QED
    BY <1>1, <2>1, <2>2
<1>7. In(Head(w), w)
  BY <1>1 DEF In
<1>. QED
  BY <1>2, <1>3, <1>4, <1>5, <1>6, <1>7 DEF Taken, t

\* Only call n moves; what calls were made on and what they were answered stays.
Moves(C, D, n) ==
  /\ n \in DOMAIN C /\ DOMAIN D = DOMAIN C
  /\ \A m \in DOMAIN C : /\ D[m].on = C[m].on /\ D[m].arg = C[m].arg /\ D[m].answer = C[m].answer
                         /\ D[m].during = C[m].during /\ D[m].res = C[m].res
                         /\ m # n => /\ D[m].place = C[m].place /\ D[m].at = C[m].at
                                     /\ D[m].hops = C[m].hops /\ D[m].out = C[m].out
SameQueues(C, D) == \A m \in DOMAIN C : D[m].queue = C[m].queue

\* What was made on a client leads where it did.
StaysAimed(C, D) == \A c : Known(C, c) => Known(D, c) /\ Target(D, c) = Target(C, c)

\* As long as no answer changes, every client leads where it did.
LEMMA AimedSame ==
  ASSUME NEW C, Linked(C), NEW D, Linked(D), DOMAIN C \subseteq DOMAIN D,
         \A m \in DOMAIN C : D[m].answer = C[m].answer
  PROVE  StaysAimed(C, D)
<1> SUFFICES ASSUME NEW c, Known(C, c) PROVE Known(D, c) /\ Target(D, c) = Target(C, c)
  BY DEF StaysAimed
<1>1. Known(D, c)
  BY DEF Known
<1>. QED
  BY <1>1, TargetSame

\* The calls stay well formed if call n, which waited, does.
LEMMA MovesCalls ==
  ASSUME NEW C, CallsOK(C), NEW D, D \in Seq(CallRecord), NEW n, Moves(C, D, n),
         C[n].place = "queued",
         D[n].place \in {"returned", "threw"} => D[n].hops # 0,
         \A m \in DOMAIN C : /\ Len(D[m].queue) <= CallQueueSize
                             /\ D[m].queue # C[m].queue => C[m].answer = NoAnswer
  PROVE  CallsOK(D) /\ StaysAimed(C, D)
<1>1. DOMAIN D = DOMAIN C /\ Len(D) = Len(C)
  BY DEF Moves, CallsOK
<1>2. ASSUME NEW m \in DOMAIN D PROVE RecordOK(D[m], m)
  <2>1. RecordOK(C[m], m) /\ m \in DOMAIN C
    BY <1>1 DEF CallsOK
  <2>2. /\ D[m].on = C[m].on /\ D[m].arg = C[m].arg /\ D[m].answer = C[m].answer
        /\ D[m].res = C[m].res
    BY <2>1 DEF Moves
  <2>3. Earlier(D[m].on, m) /\ Earlier(D[m].arg, m) /\ Earlier(D[m].res, m) /\ Earlier(D[m].answer, m)
    BY <2>1, <2>2 DEF RecordOK
  <2>4. C[m].answer # NoAnswer => m # n
    BY <2>1 DEF RecordOK
  <2>5. D[m].answer # NoAnswer => D[m].place = "over" /\ D[m].queue = <<>>
    BY <2>1, <2>2, <2>4 DEF RecordOK, Moves
  <2>6. D[m].place \in {"returned", "threw"} => D[m].hops # 0
    BY <2>1 DEF RecordOK, Moves
  <2>. QED
    BY <2>1, <2>3, <2>5, <2>6 DEF RecordOK
<1>3. CallsOK(D)
  BY <1>1, <1>2 DEF CallsOK
<1>4. Linked(C) /\ Linked(D)
  BY <1>3 DEF Linked, CallsOK, RecordOK
<1>5. \A m \in DOMAIN C : D[m].answer = C[m].answer
  BY DEF Moves
<1>. QED
  BY <1>1, <1>3, <1>4, <1>5, AimedSame

\* The order in which calls were made stays.
LEMMA MovesBehind ==
  ASSUME NEW C, NEW D, NEW n, Moves(C, D, n), NEW n1 \in DOMAIN C, NEW n2 \in DOMAIN C,
         Behind(D, n1, n2)
  PROVE  Behind(C, n1, n2)
BY DEF Moves, Behind

\* Call n does not wait any more: it was started, or rejected.
LEMMA LeavesQueues ==
  ASSUME NEW C, NEW D, NEW n, NEW w, NEW w2, QueuesOK(C, w), Taken(w, w2, n),
         Moves(C, D, n), SameQueues(C, D), D[n].place # "queued"
  PROVE  QueuesOK(D, w2)
<1>1. DOMAIN D = DOMAIN C /\ In(n, w) /\ \A q : In(q, w2) <=> In(q, w) /\ q # n
  BY DEF Moves, Taken
<1>2. ASSUME NEW m \in DOMAIN D, NEW j \in DOMAIN D[m].queue, NEW q, q = D[m].queue[j]
      PROVE  q \in DOMAIN D /\ D[q].place = "queued" /\ D[q].at = m /\ ~In(q, w2)
  <2>1. D[m].queue = C[m].queue
    BY <1>1, <1>2 DEF SameQueues
  <2>2. q \in DOMAIN C /\ C[q].place = "queued" /\ C[q].at = m /\ ~In(q, w)
    BY <1>1, <1>2, <2>1 DEF QueuesOK
  <2>. QED
    BY <1>1, <2>2 DEF Moves
<1>3. \A m \in DOMAIN D : Distinct(D[m].queue)
  BY <1>1 DEF QueuesOK, SameQueues
<1>4. \A q : In(q, w2) => q \in DOMAIN D /\ D[q].place = "queued"
  BY <1>1 DEF QueuesOK, Moves
<1>5. ASSUME NEW m \in DOMAIN D, D[m].place = "queued", ~In(m, w2)
      PROVE  D[m].at \in DOMAIN D /\ In(m, D[D[m].at].queue)
  <2>1. m # n /\ ~In(m, w) /\ C[m].place = "queued" /\ D[m].at = C[m].at
    BY <1>1, <1>5 DEF Moves
  <2>2. C[m].at \in DOMAIN C /\ In(m, C[C[m].at].queue)
    BY <1>1, <2>1 DEF QueuesOK
  <2>. QED
    BY <1>1, <2>1, <2>2 DEF SameQueues
<1>6. Distinct(w2)
  BY DEF Taken
<1>. QED
  BY <1>2, <1>3, <1>4, <1>5, <1>6 DEF QueuesOK

\* Nobody waits in front of call n: it is the first in the air, and it leads elsewhere
\* than those in queues.
LEMMA FirstInAir ==
  ASSUME NEW C, NEW T, NEW w, NEW w2, NEW n, OrderOK(C, T, w), AimOK(C, T, w), Taken(w, w2, n),
         NEW n1 \in DOMAIN C, n \in DOMAIN C, n \in Nat, Behind(C, n1, n),
         C[n1].place = "queued"
  PROVE  /\ ~In(n1, w)
         /\ Target(C, C[n].on) = Promise(C[n1].at)
<1>1. Before(w, n1, n)
  BY DEF OrderOK
<1>2. ~In(n1, w)
  <2>1. CASE n1 = n
    BY <2>1, <1>1 DEF Behind
  <2>2. CASE n1 # n
    BY <2>2, <1>1 DEF Taken
  <2>. QED
    BY <2>1, <2>2
<1>3. Target(C, C[n1].on) = Promise(C[n1].at)
  BY <1>2 DEF AimOK
<1>. QED
  BY <1>2, <1>3 DEF Behind

\* What placing a call does not change.
Kept(d, c) == /\ d.on = c.on /\ d.arg = c.arg /\ d.answer = c.answer /\ d.during = c.during
              /\ d.res = c.res /\ d.out = c.out /\ d.eager = c.eager

\* The ways a call is placed.
RunningAt(C, n, o, hop) == [C EXCEPT ![n] = Put(C[n], "running", o, hop)]
Logged(T, n, o) == Append(T, [n |-> n, object |-> o])
QueuedAt(C, n, t, hop) == [C EXCEPT ![n] = Put(C[n], "queued", t, hop),
                                    ![t].queue = Append(C[t].queue, n)]
RejectedAt(C, n) == [C EXCEPT ![n] = Rejected(C[n])]
RefusedAt(C, n) == [C EXCEPT ![n] = Refused(C[n])]

\* A call that is placed is still a call.
LEMMA PutFacts ==
  ASSUME NEW c, NEW place, NEW at, NEW hop, c \in CallRecord, place \in {"queued", "running"},
         at \in Nat, hop \in Nat
  PROVE  /\ Put(c, place, at, hop) \in CallRecord
         /\ Put(c, place, at, hop).place = place /\ Put(c, place, at, hop).at = at
         /\ Kept(Put(c, place, at, hop), c) /\ Put(c, place, at, hop).queue = c.queue
<1>1. PICK d : d = Put(c, place, at, hop)
  OBVIOUS
<1>2. c.hops + hop \in Nat
  BY DEF CallRecord
<1>3. d = [c EXCEPT !.place = place, !.at = at, !.hops = c.hops + hop]
  BY <1>1 DEF Put
<1>4. d \in CallRecord
  BY <1>2, <1>3 DEF CallRecord
<1>5. d.place = place /\ d.at = at /\ d.queue = c.queue /\ Kept(d, c)
  BY <1>3 DEF CallRecord, Kept
<1>. QED
  BY <1>1, <1>4, <1>5

\* A call in the air is started at the server that it leads to.
LEMMA StartsCall ==
  ASSUME NEW C, NEW T, NEW w, NEW w2, NEW n, Sound(C, T, w), Taken(w, w2, n),
         NEW o \in Object, Target(C, C[n].on) = Server(o), NEW hop \in {0, 1},
         NEW D, D = RunningAt(C, n, o, hop), NEW U, U = Logged(T, n, o)
  PROVE  Sound(D, U, w2) /\ Moves(C, D, n) /\ StaysAimed(C, D)
<1>1. CallsOK(C) /\ RunsOK(C, T) /\ QueuesOK(C, w) /\ AimOK(C, T, w) /\ OrderOK(C, T, w)
  BY DEF Sound
<1>2. n \in DOMAIN C /\ C[n].place = "queued" /\ In(n, w)
  BY <1>1 DEF QueuesOK, Taken
<1>3. /\ C \in Seq(CallRecord) /\ C[n] \in CallRecord /\ n \in Call /\ n \in Nat
      /\ RecordOK(C[n], n) /\ DOMAIN C = 1 .. Len(C) /\ Len(C) \in Nat
  BY <1>1, <1>2, CallFacts
<1>4. PICK c : c = Put(C[n], "running", o, hop)
  OBVIOUS
<1>5. /\ c \in CallRecord /\ c.place = "running" /\ c.on = C[n].on /\ c.arg = C[n].arg
      /\ c.answer = C[n].answer /\ c.during = C[n].during /\ c.res = C[n].res /\ c.queue = C[n].queue
      /\ c.out = C[n].out
  <2>1. o \in Nat /\ hop \in Nat /\ "running" \in {"queued", "running"}
    BY DEF Object
  <2>2. c \in CallRecord /\ c.place = "running" /\ Kept(c, C[n]) /\ c.queue = C[n].queue
    BY <1>3, <1>4, <2>1, PutFacts
  <2>. QED
    BY <2>2 DEF Kept
<1>6. D \in Seq(CallRecord) /\ DOMAIN D = DOMAIN C /\ D[n] = c /\ \A m \in DOMAIN C : m # n => D[m] = C[m]
  BY <1>2, <1>3, <1>4, <1>5 DEF RunningAt
<1>7. Moves(C, D, n) /\ SameQueues(C, D)
  BY <1>2, <1>5, <1>6 DEF Moves, SameQueues
<1>8. CallsOK(D) /\ StaysAimed(C, D)
  <2>1. \A m \in DOMAIN C : /\ Len(D[m].queue) <= CallQueueSize
                            /\ D[m].queue # C[m].queue => C[m].answer = NoAnswer
    BY <1>1, <1>7 DEF SameQueues, CallsOK, RecordOK
  <2>2. D[n].place \in {"returned", "threw"} => D[n].hops # 0
    BY <1>5, <1>6
  <2>. QED
    BY <1>1, <1>2, <1>6, <1>7, <2>1, <2>2, MovesCalls
<1>9. /\ T \in Seq([n : Call, object : Object]) /\ Len(T) \in Nat /\ DOMAIN T = 1 .. Len(T)
      /\ U \in Seq([n : Call, object : Object]) /\ DOMAIN U = 1 .. Len(T) + 1
      /\ U[Len(T) + 1].n = n /\ U[Len(T) + 1].object = o
      /\ \A i \in DOMAIN T : U[i] = T[i]
  BY <1>1, <1>3 DEF RunsOK, Logged
<1>10. \A i \in DOMAIN T : T[i].n \in DOMAIN C /\ T[i].n # n /\ C[T[i].n].place # "queued"
  BY <1>1, <1>2 DEF RunsOK
<1>11. \A m : Ran(U, m) <=> Ran(T, m) \/ m = n
  <2>1. ASSUME NEW m, Ran(U, m) PROVE Ran(T, m) \/ m = n
    <3>1. PICK i \in DOMAIN U : U[i].n = m
      BY <2>1 DEF Ran
    <3>2. i \in DOMAIN T \/ i = Len(T) + 1
      BY <1>9
    <3>. QED
      BY <1>9, <3>1, <3>2 DEF Ran
  <2>2. ASSUME NEW m, Ran(T, m) PROVE Ran(U, m)
    <3>1. PICK i \in DOMAIN T : T[i].n = m
      BY <2>2 DEF Ran
    <3>2. i \in DOMAIN U /\ U[i].n = m
      BY <1>9, <3>1
    <3>. QED
      BY <3>2 DEF Ran
  <2>3. Ran(U, n)
    <3>1. Len(T) + 1 \in DOMAIN U
      BY <1>9
    <3>. QED
      BY <1>9, <3>1 DEF Ran
  <2>. QED
    BY <2>1, <2>2, <2>3
<1>12. RunsOK(D, U)
  <2>1. ASSUME NEW i \in DOMAIN U PROVE U[i].n \in DOMAIN D /\ D[U[i].n].place # "queued"
    <3>1. CASE i \in DOMAIN T
      BY <1>6, <1>9, <1>10, <3>1
    <3>2. CASE i = Len(T) + 1
      BY <1>2, <1>5, <1>6, <1>9, <3>2
    <3>. QED
      BY <1>9, <3>1, <3>2
  <2>2. ASSUME NEW i \in DOMAIN U, NEW j \in DOMAIN U, U[i].n = U[j].n PROVE i = j
    <3>1. CASE i \in DOMAIN T /\ j \in DOMAIN T
      BY <1>1, <1>9, <2>2, <3>1 DEF RunsOK
    <3>2. CASE i = Len(T) + 1 /\ j \in DOMAIN T
      BY <1>9, <1>10, <2>2, <3>2
    <3>3. CASE i \in DOMAIN T /\ j = Len(T) + 1
      BY <1>9, <1>10, <2>2, <3>3
    <3>. QED
      BY <1>9, <3>1, <3>2, <3>3
  <2>3. ASSUME NEW m \in DOMAIN D, D[m].place \in {"running", "returned"} \/ D[m].out = "fulfilled"
        PROVE  Ran(U, m)
    <3>1. CASE m = n
      BY <1>11, <3>1
    <3>2. CASE m # n
      BY <1>1, <1>6, <1>11, <2>3, <3>2 DEF RunsOK
    <3>. QED
      BY <3>1, <3>2
  <2>. QED
    BY <1>9, <2>1, <2>2, <2>3 DEF RunsOK
<1>13. QueuesOK(D, w2)
  <2>1. D[n].place # "queued"
    BY <1>5, <1>6
  <2>. QED
    BY <1>1, <1>7, <2>1, LeavesQueues
<1>14. AimOK(D, U, w2)
  <2>1. ASSUME NEW m \in DOMAIN C PROVE Target(D, D[m].on) = Target(C, C[m].on)
    <3>1. Known(C, C[m].on)
      BY <1>1, CallFacts
    <3>2. D[m].on = C[m].on
      BY <1>7 DEF Moves
    <3>. QED
      BY <1>8, <3>1, <3>2 DEF StaysAimed
  <2>2. ASSUME NEW m \in DOMAIN D, D[m].place = "queued", ~In(m, w2)
        PROVE  Target(D, D[m].on) = Promise(D[m].at)
    <3>1. m # n /\ D[m] = C[m]
      BY <1>5, <1>6, <2>2
    <3>2. ~In(m, w)
      BY <2>2, <3>1 DEF Taken
    <3>. QED
      BY <1>1, <1>6, <2>1, <2>2, <3>1, <3>2 DEF AimOK
  <2>3. ASSUME NEW i \in DOMAIN U PROVE Target(D, D[U[i].n].on) = Server(U[i].object)
    <3>1. CASE i \in DOMAIN T
      BY <1>1, <1>9, <1>10, <2>1, <3>1 DEF AimOK
    <3>2. CASE i = Len(T) + 1
      BY <1>2, <1>9, <2>1, <3>2
    <3>. QED
      BY <1>9, <3>1, <3>2
  <2>. QED
    BY <2>2, <2>3 DEF AimOK
<1>15. OrderOK(D, U, w2)
  <2> SUFFICES ASSUME NEW n1 \in DOMAIN C, NEW n2 \in DOMAIN C, Behind(D, n1, n2)
               PROVE  /\ \A i, j \in DOMAIN U : U[i].n = n1 /\ U[j].n = n2 => i < j
                      /\ Ran(U, n2) => D[n1].place # "queued"
                      /\ \A m \in DOMAIN D : Before(D[m].queue, n1, n2)
                      /\ In(n1, w2) /\ D[n2].place = "queued" => In(n2, w2)
                      /\ Before(w2, n1, n2)
    BY <1>6 DEF OrderOK
  <2>1. Behind(C, n1, n2) /\ n1 # n2
    <3>1. Behind(C, n1, n2)
      BY <1>7, MovesBehind
    <3>2. n1 \in Nat /\ n2 \in Nat /\ n1 < n2
      BY <1>3, <3>1 DEF Behind
    <3>. QED
      BY <3>1, <3>2
  <2>2. /\ \A i, j \in DOMAIN T : T[i].n = n1 /\ T[j].n = n2 => i < j
        /\ Ran(T, n2) => C[n1].place # "queued"
        /\ \A m \in DOMAIN C : Before(C[m].queue, n1, n2)
        /\ In(n1, w) /\ C[n2].place = "queued" => In(n2, w)
        /\ Before(w, n1, n2)
    BY <1>1, <2>1 DEF OrderOK
  <2>3. ASSUME NEW i \in DOMAIN U, NEW j \in DOMAIN U, U[i].n = n1, U[j].n = n2 PROVE i < j
    <3>1. CASE i \in DOMAIN T /\ j \in DOMAIN T
      BY <1>9, <2>2, <2>3, <3>1
    <3>2. CASE i \in DOMAIN T /\ j = Len(T) + 1
      BY <1>9, <3>2
    <3>3. CASE i = Len(T) + 1 /\ j \in DOMAIN T
      <4>1. n1 = n /\ T[j].n = n2
        BY <1>9, <2>3, <3>3
      <4>2. Ran(T, n2)
        BY <3>3, <4>1 DEF Ran
      <4>. QED
        BY <1>2, <2>2, <4>1, <4>2
    <3>. QED
      BY <1>9, <2>1, <2>3, <3>1, <3>2, <3>3
  <2>4. ASSUME Ran(U, n2), D[n1].place = "queued" PROVE FALSE
    <3>1. n1 # n /\ C[n1].place = "queued"
      BY <1>5, <1>6, <2>4
    <3>2. n2 = n
      BY <1>11, <2>2, <2>4, <3>1
    <3>3. Server(o) = Promise(C[n1].at)
      BY <1>1, <1>2, <1>3, <2>1, <3>1, <3>2, FirstInAir
    <3>. QED
      BY <3>3, Clients
  <2>5. \A m \in DOMAIN D : Before(D[m].queue, n1, n2)
    BY <1>6, <1>7, <2>2 DEF SameQueues
  <2>6. ASSUME In(n1, w2), D[n2].place = "queued" PROVE In(n2, w2)
    <3>1. In(n1, w) /\ n2 # n /\ C[n2].place = "queued"
      BY <1>5, <1>6, <2>6 DEF Taken
    <3>. QED
      BY <2>2, <3>1 DEF Taken
  <2>7. Before(w2, n1, n2)
    BY <2>2 DEF Taken
  <2>. QED
    BY <2>3, <2>4, <2>5, <2>6, <2>7
<1>. QED
  BY <1>7, <1>8, <1>12, <1>13, <1>14, <1>15 DEF Sound

\* Rejection changes the place of a call and, at its outermost Fulfiller, its outcome.
LEMMA RejectedFacts ==
  ASSUME NEW c, c \in CallRecord
  PROVE  /\ Rejected(c) \in CallRecord /\ Rejected(c).queue = c.queue
         /\ Rejected(c).on = c.on /\ Rejected(c).arg = c.arg /\ Rejected(c).answer = c.answer
         /\ Rejected(c).during = c.during /\ Rejected(c).res = c.res
         /\ Rejected(c).place \in {"over", "threw"} /\ Rejected(c).hops = c.hops
         /\ Rejected(c).place = "threw" => c.hops # 0
         /\ Rejected(c).out = "fulfilled" => c.out = "fulfilled"
<1>1. CASE c.hops = 0
  <2>1. Rejected(c) = [c EXCEPT !.place = "over", !.out = "rejected"]
    BY <1>1 DEF Rejected
  <2>. QED
    BY <2>1 DEF CallRecord
<1>2. CASE c.hops # 0
  <2>1. Rejected(c) = [c EXCEPT !.place = "threw"]
    BY <1>2 DEF Rejected
  <2>. QED
    BY <1>2, <2>1 DEF CallRecord
<1>. QED
  BY <1>1, <1>2

\* A call in the air is rejected.
LEMMA RejectsCall ==
  ASSUME NEW C, NEW T, NEW w, NEW w2, NEW n, Sound(C, T, w), n \in DOMAIN C,
         Taken(w, w2, n), NEW D, D = RejectedAt(C, n)
  PROVE  Sound(D, T, w2) /\ Moves(C, D, n) /\ StaysAimed(C, D)
<1>1. CallsOK(C) /\ RunsOK(C, T) /\ QueuesOK(C, w) /\ AimOK(C, T, w) /\ OrderOK(C, T, w)
  BY DEF Sound
<1>2. /\ C \in Seq(CallRecord) /\ C[n] \in CallRecord /\ n \in Nat
      /\ DOMAIN C = 1 .. Len(C) /\ Len(C) \in Nat /\ Linked(C)
  BY <1>1, CallFacts
<1>3. PICK c : c = Rejected(C[n])
  OBVIOUS
<1>4. /\ c \in CallRecord /\ c.queue = C[n].queue
      /\ c.on = C[n].on /\ c.arg = C[n].arg /\ c.answer = C[n].answer
      /\ c.during = C[n].during /\ c.res = C[n].res
      /\ c.place \in {"over", "threw"} /\ c.hops = C[n].hops
      /\ c.place = "threw" => C[n].hops # 0
      /\ c.out = "fulfilled" => C[n].out = "fulfilled"
  BY <1>2, <1>3, RejectedFacts
<1>5. D \in Seq(CallRecord) /\ DOMAIN D = DOMAIN C /\ D[n] = c /\ \A m \in DOMAIN C : m # n => D[m] = C[m]
  BY <1>2, <1>3, <1>4 DEF RejectedAt
<1>6. Moves(C, D, n) /\ SameQueues(C, D)
  BY <1>4, <1>5 DEF Moves, SameQueues
<1>7. C[n].answer = NoAnswer
  <2>1. C[n].place # "over"
    BY <1>1 DEF Taken, QueuesOK
  <2>. QED
    BY <1>1, <2>1 DEF CallsOK, RecordOK
<1>8. CallsOK(D) /\ StaysAimed(C, D)
  <2>1. ASSUME NEW m \in DOMAIN D PROVE RecordOK(D[m], m)
    <3>1. RecordOK(C[m], m)
      BY <1>1, <1>5 DEF CallsOK
    <3>2. CASE m # n
      BY <1>5, <3>1, <3>2
    <3>3. CASE m = n
      <4>1. /\ c.place \in {"returned", "threw"} => c.hops # 0
            /\ c.answer # NoAnswer => c.place = "over" /\ c.queue = <<>>
        BY <1>4, <1>7
      <4>2. /\ Earlier(c.on, m) /\ Earlier(c.arg, m) /\ Earlier(c.res, m) /\ Earlier(c.answer, m)
            /\ Len(c.queue) <= CallQueueSize
        BY <1>4, <3>1, <3>3 DEF RecordOK
      <4>. QED
        BY <1>5, <3>3, <4>1, <4>2 DEF RecordOK
    <3>. QED
      BY <3>2, <3>3
  <2>2. CallsOK(D)
    BY <1>1, <1>2, <1>5, <2>1 DEF CallsOK
  <2>3. Linked(D)
    BY <2>2 DEF Linked, CallsOK, RecordOK
  <2>4. \A m \in DOMAIN C : D[m].answer = C[m].answer
    BY <1>6 DEF Moves
  <2>. QED
    BY <1>2, <1>5, <2>2, <2>3, <2>4, AimedSame
<1>9. RunsOK(D, T)
  <2>1. \A i \in DOMAIN T : T[i].n \in DOMAIN D /\ D[T[i].n].place # "queued"
    BY <1>1, <1>4, <1>5 DEF RunsOK
  <2>2. ASSUME NEW m \in DOMAIN D, D[m].place \in {"running", "returned"} \/ D[m].out = "fulfilled"
        PROVE  Ran(T, m)
    <3>1. CASE m = n
      BY <1>1, <1>4, <1>5, <2>2, <3>1 DEF RunsOK
    <3>2. CASE m # n
      BY <1>1, <1>5, <2>2, <3>2 DEF RunsOK
    <3>. QED
      BY <3>1, <3>2
  <2>. QED
    BY <1>1, <2>1, <2>2 DEF RunsOK
<1>10. D[n].place # "queued" /\ \A m \in DOMAIN C : D[m].place = "queued" => m # n /\ C[m].place = "queued"
  BY <1>4, <1>5
<1>11. \A q : In(q, w2) => In(q, w)
  BY DEF Taken
<1>12. \A q : In(q, w) /\ q # n => In(q, w2)
  BY DEF Taken
<1>13. QueuesOK(D, w2)
  BY <1>1, <1>6, <1>10, LeavesQueues
<1>14. AimOK(D, T, w2)
  <2>1. ASSUME NEW m \in DOMAIN C PROVE Target(D, D[m].on) = Target(C, C[m].on)
    <3>1. Known(C, C[m].on)
      BY <1>1, CallFacts
    <3>2. D[m].on = C[m].on
      BY <1>6 DEF Moves
    <3>. QED
      BY <1>8, <3>1, <3>2 DEF StaysAimed
  <2>2. ASSUME NEW m \in DOMAIN D, D[m].place = "queued", ~In(m, w2)
        PROVE  Target(D, D[m].on) = Promise(D[m].at)
    <3>1. m # n /\ D[m] = C[m] /\ ~In(m, w)
      BY <1>5, <1>10, <1>12, <2>2
    <3>. QED
      BY <1>1, <1>5, <2>1, <2>2, <3>1 DEF AimOK
  <2>3. ASSUME NEW i \in DOMAIN T PROVE Target(D, D[T[i].n].on) = Server(T[i].object)
    <3>1. T[i].n \in DOMAIN C
      BY <1>1 DEF RunsOK
    <3>. QED
      BY <1>1, <2>1, <3>1 DEF AimOK
  <2>. QED
    BY <2>2, <2>3 DEF AimOK
<1>15. OrderOK(D, T, w2)
  <2> SUFFICES ASSUME NEW n1 \in DOMAIN C, NEW n2 \in DOMAIN C, Behind(D, n1, n2)
               PROVE  /\ \A i, j \in DOMAIN T : T[i].n = n1 /\ T[j].n = n2 => i < j
                      /\ Ran(T, n2) => D[n1].place # "queued"
                      /\ \A m \in DOMAIN D : Before(D[m].queue, n1, n2)
                      /\ In(n1, w2) /\ D[n2].place = "queued" => In(n2, w2)
                      /\ Before(w2, n1, n2)
    BY <1>5 DEF OrderOK
  <2>1. Behind(C, n1, n2)
    BY <1>6, MovesBehind
  <2>2. /\ \A i, j \in DOMAIN T : T[i].n = n1 /\ T[j].n = n2 => i < j
        /\ Ran(T, n2) => C[n1].place # "queued"
        /\ \A m \in DOMAIN C : Before(C[m].queue, n1, n2)
        /\ In(n1, w) /\ C[n2].place = "queued" => In(n2, w)
        /\ Before(w, n1, n2)
    BY <1>1, <2>1 DEF OrderOK
  <2>3. Ran(T, n2) => D[n1].place # "queued"
    BY <1>10, <2>2
  <2>4. \A m \in DOMAIN D : Before(D[m].queue, n1, n2)
    BY <1>5, <1>6, <2>2 DEF SameQueues
  <2>5. In(n1, w2) /\ D[n2].place = "queued" => In(n2, w2)
    BY <1>10, <1>11, <1>12, <2>2
  <2>6. Before(w2, n1, n2)
    BY <2>2 DEF Taken
  <2>. QED
    BY <2>2, <2>3, <2>4, <2>5, <2>6
<1>. QED
  BY <1>6, <1>8, <1>9, <1>13, <1>14, <1>15 DEF Sound

\* One element of a sequence is replaced.
LEMMA ChangedAt ==
  ASSUME NEW S, NEW s, s \in Seq(S), NEW n, n \in DOMAIN s, NEW x, x \in S,
         NEW t, t = [s EXCEPT ![n] = x]
  PROVE  /\ t \in Seq(S) /\ DOMAIN t = DOMAIN s /\ t[n] = x
         /\ \A m \in DOMAIN s : m # n => t[m] = s[m]
OBVIOUS

\* A call in the air is queued on the promise that it leads to.
LEMMA WaitsCall ==
  ASSUME NEW C, NEW T, NEW w, NEW w2, NEW n, Sound(C, T, w), Taken(w, w2, n),
         NEW t \in DOMAIN C, Target(C, C[n].on) = Promise(t), C[t].answer = NoAnswer, t # n,
         Len(C[t].queue) # CallQueueSize, NEW hop \in {0, 1},
         NEW D, D = QueuedAt(C, n, t, hop)
  PROVE  Sound(D, T, w2) /\ Moves(C, D, n) /\ StaysAimed(C, D)
<1>1. CallsOK(C) /\ RunsOK(C, T) /\ QueuesOK(C, w) /\ AimOK(C, T, w) /\ OrderOK(C, T, w)
  BY DEF Sound
<1>2. n \in DOMAIN C /\ C[n].place = "queued" /\ In(n, w)
  BY <1>1 DEF QueuesOK, Taken
<1>3. /\ C \in Seq(CallRecord) /\ C[n] \in CallRecord /\ n \in Call /\ n \in Nat
      /\ DOMAIN C = 1 .. Len(C) /\ Len(C) \in Nat /\ C[t] \in CallRecord /\ t \in Nat
      /\ RecordOK(C[t], t)
  BY <1>1, <1>2, CallFacts
<1>4. PICK c : c = Put(C[n], "queued", t, hop)
  OBVIOUS
<1>5. /\ c \in CallRecord /\ c.place = "queued" /\ c.at = t /\ c.queue = C[n].queue
      /\ c.on = C[n].on /\ c.arg = C[n].arg /\ c.answer = C[n].answer /\ c.during = C[n].during
      /\ c.res = C[n].res /\ c.out = C[n].out
  <2>1. hop \in Nat /\ "queued" \in {"queued", "running"}
    OBVIOUS
  <2>2. c \in CallRecord /\ c.place = "queued" /\ c.at = t /\ Kept(c, C[n]) /\ c.queue = C[n].queue
    BY <1>3, <1>4, <2>1, PutFacts
  <2>. QED
    BY <2>2 DEF Kept
<1>6. PICK q : q = Append(C[t].queue, n)
  OBVIOUS
<1>7. /\ C[t].queue \in Seq(Call) /\ Len(C[t].queue) \in Nat /\ Len(C[t].queue) < CallQueueSize
      /\ q \in Seq(Call) /\ DOMAIN C[t].queue = 1 .. Len(C[t].queue)
      /\ DOMAIN q = 1 .. Len(C[t].queue) + 1 /\ Len(q) <= CallQueueSize
      /\ q[Len(C[t].queue) + 1] = n /\ \A j \in DOMAIN C[t].queue : q[j] = C[t].queue[j]
  <2>1. C[t].queue \in Seq(Call)
    BY <1>3 DEF CallRecord
  <2>2. Len(C[t].queue) \in Nat /\ Len(C[t].queue) < CallQueueSize
    BY <1>3, <2>1, BoundsAssumption DEF RecordOK
  <2>. QED
    BY <1>3, <1>6, <2>1, <2>2, BoundsAssumption
<1>8. PICK d : d = [C[t] EXCEPT !.queue = q]
  OBVIOUS
<1>9. /\ d \in CallRecord /\ d.queue = q /\ d.on = C[t].on /\ d.arg = C[t].arg
      /\ d.answer = C[t].answer /\ d.during = C[t].during /\ d.res = C[t].res
      /\ d.place = C[t].place /\ d.at = C[t].at /\ d.hops = C[t].hops /\ d.out = C[t].out
  BY <1>3, <1>7, <1>8 DEF CallRecord
<1>10. D = [C EXCEPT ![n] = c, ![t] = d]
  BY <1>4, <1>6, <1>8 DEF QueuedAt
<1>11. /\ D \in Seq(CallRecord) /\ DOMAIN D = DOMAIN C /\ D[n] = c /\ D[t] = d
       /\ \A m \in DOMAIN C : m # n /\ m # t => D[m] = C[m]
  <2>1. PICK E : E = [C EXCEPT ![n] = c]
    OBVIOUS
  <2>2. /\ E \in Seq(CallRecord) /\ DOMAIN E = DOMAIN C /\ E[n] = c
        /\ \A m \in DOMAIN C : m # n => E[m] = C[m]
    BY <1>2, <1>3, <1>5, <2>1, ChangedAt
  <2>3. t \in DOMAIN E /\ E \in Seq(CallRecord) /\ d \in CallRecord
    BY <1>9, <2>2
  <2>4. PICK F : F = [E EXCEPT ![t] = d]
    OBVIOUS
  <2>5. /\ F \in Seq(CallRecord) /\ DOMAIN F = DOMAIN E /\ F[t] = d
        /\ \A m \in DOMAIN E : m # t => F[m] = E[m]
    BY <2>3, <2>4, ChangedAt
  <2>6. D = F
    BY <1>10, <2>1, <2>4
  <2>. QED
    BY <1>2, <2>2, <2>5, <2>6
<1>12. Moves(C, D, n)
  <2>1. ASSUME NEW m \in DOMAIN C
        PROVE  /\ D[m].on = C[m].on /\ D[m].arg = C[m].arg /\ D[m].answer = C[m].answer
               /\ D[m].during = C[m].during /\ D[m].res = C[m].res
               /\ m # n => /\ D[m].place = C[m].place /\ D[m].at = C[m].at
                           /\ D[m].hops = C[m].hops /\ D[m].out = C[m].out
    <3>1. CASE m = n
      BY <1>5, <1>11, <3>1
    <3>2. CASE m = t
      BY <1>9, <1>11, <3>2
    <3>3. CASE m # n /\ m # t
      BY <1>11, <3>3
    <3>. QED
      BY <3>1, <3>2, <3>3
  <2>. QED
    BY <1>2, <1>11, <2>1 DEF Moves
<1>13. \A m \in DOMAIN C : m # t => D[m].queue = C[m].queue
  BY <1>5, <1>11
<1>14. CallsOK(D) /\ StaysAimed(C, D)
  <2>1. ASSUME NEW m \in DOMAIN C
        PROVE  /\ Len(D[m].queue) <= CallQueueSize
               /\ D[m].queue # C[m].queue => C[m].answer = NoAnswer
    <3>1. CASE m = t
      BY <1>7, <1>9, <1>11, <3>1
    <3>2. CASE m # t
      <4>1. D[m].queue = C[m].queue
        BY <1>13, <3>2
      <4>. QED
        BY <1>1, <4>1 DEF CallsOK, RecordOK
    <3>. QED
      BY <3>1, <3>2
  <2>2. D[n].place \in {"returned", "threw"} => D[n].hops # 0
    BY <1>5, <1>11
  <2>. QED
    BY <1>1, <1>2, <1>11, <1>12, <2>1, <2>2, MovesCalls
<1>15. \A m \in DOMAIN C : D[m].place = C[m].place
  BY <1>2, <1>5, <1>11, <1>12 DEF Moves
<1>16. RunsOK(D, T)
  <2>1. \A m \in DOMAIN C : D[m].out = C[m].out
    BY <1>5, <1>11, <1>12 DEF Moves
  <2>. QED
    BY <1>1, <1>11, <1>15, <2>1 DEF RunsOK
<1>17. \A m \in DOMAIN C : \A j \in DOMAIN D[m].queue :
         \/ j \in DOMAIN C[m].queue /\ D[m].queue[j] = C[m].queue[j]
         \/ m = t /\ j = Len(C[t].queue) + 1 /\ D[m].queue[j] = n
  <2>1. D[t].queue = q
    BY <1>9, <1>11
  <2>2. \A j \in DOMAIN q : \/ j \in DOMAIN C[t].queue /\ q[j] = C[t].queue[j]
                            \/ j = Len(C[t].queue) + 1 /\ q[j] = n
    BY <1>7
  <2>. QED
    BY <1>13, <2>1, <2>2
<1>18. \A m \in DOMAIN C : \A j \in DOMAIN C[m].queue :
         /\ C[m].queue[j] \in DOMAIN C /\ C[C[m].queue[j]].place = "queued"
         /\ C[C[m].queue[j]].at = m /\ ~In(C[m].queue[j], w) /\ C[m].queue[j] # n
  BY <1>1, <1>2 DEF QueuesOK
<1>19. QueuesOK(D, w2)
  <2>1. ASSUME NEW m \in DOMAIN D, NEW j \in DOMAIN D[m].queue, NEW x, x = D[m].queue[j]
        PROVE  x \in DOMAIN D /\ D[x].place = "queued" /\ D[x].at = m /\ ~In(x, w2)
    <3>1. CASE j \in DOMAIN C[m].queue /\ x = C[m].queue[j]
      <4>1. x \in DOMAIN C /\ C[x].place = "queued" /\ C[x].at = m /\ ~In(x, w) /\ x # n
        BY <1>11, <1>18, <2>1, <3>1
      <4>2. D[x].at = C[x].at
        BY <1>12, <4>1 DEF Moves
      <4>. QED
        BY <1>11, <1>15, <4>1, <4>2 DEF Taken
    <3>2. CASE m = t /\ x = n
      BY <1>2, <1>5, <1>11, <3>2 DEF Taken
    <3>. QED
      BY <1>11, <1>17, <2>1, <3>1, <3>2
  <2>2. ASSUME NEW m \in DOMAIN D PROVE Distinct(D[m].queue)
    <3> SUFFICES ASSUME NEW i \in DOMAIN D[m].queue, NEW j \in DOMAIN D[m].queue,
                        D[m].queue[i] = D[m].queue[j]
                 PROVE  i = j
      BY DEF Distinct
    <3>1. Distinct(C[m].queue)
      BY <1>1, <1>11 DEF QueuesOK
    <3>2. CASE i \in DOMAIN C[m].queue /\ D[m].queue[i] = C[m].queue[i]
      <4>1. D[m].queue[j] # n
        BY <1>11, <1>18, <3>2
      <4>2. j \in DOMAIN C[m].queue /\ D[m].queue[j] = C[m].queue[j]
        BY <1>11, <1>17, <4>1
      <4>3. PICK f : f = C[m].queue
        OBVIOUS
      <4>4. i \in DOMAIN f /\ j \in DOMAIN f /\ f[i] = f[j]
        BY <3>2, <4>2, <4>3
      <4>5. Distinct(f)
        BY <3>1, <4>3
      <4>. QED
        BY <4>4, <4>5 DEF Distinct
    <3>3. CASE m = t /\ i = Len(C[t].queue) + 1 /\ D[m].queue[i] = n
      <4>1. ~(j \in DOMAIN C[m].queue /\ D[m].queue[j] = C[m].queue[j])
        BY <1>11, <1>18, <3>3
      <4>2. m = t /\ j = Len(C[t].queue) + 1
        BY <1>11, <1>17, <4>1
      <4>. QED
        BY <3>3, <4>2
    <3>. QED
      BY <1>11, <1>17, <3>2, <3>3
  <2>3. \A x : In(x, w2) => x \in DOMAIN D /\ D[x].place = "queued"
    BY <1>1, <1>11, <1>15 DEF QueuesOK, Taken
  <2>4. ASSUME NEW m \in DOMAIN D, D[m].place = "queued", ~In(m, w2)
        PROVE  D[m].at \in DOMAIN D /\ In(m, D[D[m].at].queue)
    <3>1. CASE m = n
      <4>1. Len(C[t].queue) + 1 \in DOMAIN D[t].queue /\ D[t].queue[Len(C[t].queue) + 1] = n
        <5>1. Len(C[t].queue) + 1 \in DOMAIN q
          BY <1>7
        <5>2. D[t].queue = q
          BY <1>9, <1>11
        <5>. QED
          BY <1>7, <5>1, <5>2
      <4>. QED
        BY <1>5, <1>11, <3>1, <4>1 DEF In
    <3>2. CASE m # n
      <4>1. ~In(m, w) /\ C[m].place = "queued" /\ D[m].at = C[m].at
        BY <1>11, <1>12, <1>15, <2>4, <3>2 DEF Taken, Moves
      <4>2. C[m].at \in DOMAIN C /\ In(m, C[C[m].at].queue)
        BY <1>1, <1>11, <4>1 DEF QueuesOK
      <4>3. PICK j \in DOMAIN C[C[m].at].queue : C[C[m].at].queue[j] = m
        BY <4>2 DEF In
      <4>4. j \in DOMAIN D[C[m].at].queue /\ D[C[m].at].queue[j] = m
        <5>1. CASE C[m].at = t
          <6>1. D[t].queue = q
            BY <1>9, <1>11
          <6>2. j \in DOMAIN C[t].queue /\ C[t].queue[j] = m
            BY <4>3, <5>1
          <6>3. j \in DOMAIN q /\ q[j] = m
            BY <1>7, <6>2
          <6>. QED
            BY <5>1, <6>1, <6>3
        <5>2. CASE C[m].at # t
          BY <1>13, <4>2, <4>3, <5>2
        <5>. QED
          BY <5>1, <5>2
      <4>. QED
        BY <1>11, <4>1, <4>2, <4>4 DEF In
    <3>. QED
      BY <3>1, <3>2
  <2>5. Distinct(w2)
    BY DEF Taken
  <2>. QED
    BY <2>1, <2>2, <2>3, <2>4, <2>5 DEF QueuesOK
<1>20. AimOK(D, T, w2)
  <2>1. ASSUME NEW m \in DOMAIN C PROVE Target(D, D[m].on) = Target(C, C[m].on)
    <3>1. Known(C, C[m].on)
      BY <1>1, CallFacts
    <3>2. D[m].on = C[m].on
      BY <1>12 DEF Moves
    <3>. QED
      BY <1>14, <3>1, <3>2 DEF StaysAimed
  <2>2. ASSUME NEW m \in DOMAIN D, D[m].place = "queued", ~In(m, w2)
        PROVE  Target(D, D[m].on) = Promise(D[m].at)
    <3>1. CASE m = n
      BY <1>2, <1>5, <1>11, <2>1, <3>1
    <3>2. CASE m # n
      <4>1. ~In(m, w) /\ C[m].place = "queued" /\ D[m].at = C[m].at
        BY <1>11, <1>12, <1>15, <2>2, <3>2 DEF Taken, Moves
      <4>. QED
        BY <1>1, <1>11, <2>1, <4>1 DEF AimOK
    <3>. QED
      BY <3>1, <3>2
  <2>3. ASSUME NEW i \in DOMAIN T PROVE Target(D, D[T[i].n].on) = Server(T[i].object)
    <3>1. T[i].n \in DOMAIN C
      BY <1>1 DEF RunsOK
    <3>. QED
      BY <1>1, <2>1, <3>1 DEF AimOK
  <2>. QED
    BY <2>2, <2>3 DEF AimOK
<1>21. OrderOK(D, T, w2)
  <2> SUFFICES ASSUME NEW n1 \in DOMAIN C, NEW n2 \in DOMAIN C, Behind(D, n1, n2)
               PROVE  /\ \A i, j \in DOMAIN T : T[i].n = n1 /\ T[j].n = n2 => i < j
                      /\ Ran(T, n2) => D[n1].place # "queued"
                      /\ \A m \in DOMAIN D : Before(D[m].queue, n1, n2)
                      /\ In(n1, w2) /\ D[n2].place = "queued" => In(n2, w2)
                      /\ Before(w2, n1, n2)
    BY <1>11 DEF OrderOK
  <2>1. Behind(C, n1, n2) /\ n1 # n2
    <3>1. Behind(C, n1, n2)
      BY <1>12, MovesBehind
    <3>2. n1 \in Nat /\ n2 \in Nat /\ n1 < n2
      BY <1>3, <3>1 DEF Behind
    <3>. QED
      BY <3>1, <3>2
  <2>2. /\ \A i, j \in DOMAIN T : T[i].n = n1 /\ T[j].n = n2 => i < j
        /\ Ran(T, n2) => C[n1].place # "queued"
        /\ \A m \in DOMAIN C : Before(C[m].queue, n1, n2)
        /\ In(n1, w) /\ C[n2].place = "queued" => In(n2, w)
        /\ Before(w, n1, n2)
    BY <1>1, <2>1 DEF OrderOK
  <2>3. Ran(T, n2) => D[n1].place # "queued"
    BY <1>15, <2>2
  <2>4. ASSUME NEW m \in DOMAIN D PROVE Before(D[m].queue, n1, n2)
    <3> SUFFICES ASSUME NEW i \in DOMAIN D[m].queue, NEW j \in DOMAIN D[m].queue,
                        D[m].queue[i] = n1, D[m].queue[j] = n2
                 PROVE  i < j
      BY DEF Before
    <3>1. CASE n1 # n /\ n2 # n
      <4>1. /\ i \in DOMAIN C[m].queue /\ C[m].queue[i] = n1
            /\ j \in DOMAIN C[m].queue /\ C[m].queue[j] = n2
        BY <1>11, <1>17, <3>1
      <4>. QED
        BY <1>11, <2>2, <4>1 DEF Before
    <3>2. CASE n1 = n
      <4>1. n2 # n
        BY <2>1, <3>2
      <4>2. j \in DOMAIN C[m].queue /\ C[m].queue[j] = n2
        BY <1>11, <1>17, <4>1
      <4>3. C[n2].place = "queued" /\ ~In(n2, w)
        BY <1>11, <1>18, <4>2
      <4>. QED
        BY <1>2, <2>2, <3>2, <4>3
    <3>3. CASE n1 # n /\ n2 = n
      <4>1. i \in DOMAIN C[m].queue /\ C[m].queue[i] = n1
        BY <1>11, <1>17, <3>3
      <4>2. ~(j \in DOMAIN C[m].queue /\ D[m].queue[j] = C[m].queue[j])
        BY <1>11, <1>18, <3>3
      <4>3. m = t /\ j = Len(C[t].queue) + 1
        BY <1>11, <1>17, <4>2
      <4>. QED
        BY <1>7, <4>1, <4>3
    <3>. QED
      BY <3>1, <3>2, <3>3
  <2>5. ASSUME In(n1, w2), D[n2].place = "queued" PROVE In(n2, w2)
    <3>1. In(n1, w) /\ n1 # n /\ C[n2].place = "queued"
      BY <1>15, <2>5 DEF Taken
    <3>2. n2 # n
      BY <2>2, <3>1 DEF Taken
    <3>. QED
      BY <2>2, <3>1, <3>2 DEF Taken
  <2>6. Before(w2, n1, n2)
    BY <2>2 DEF Taken
  <2>. QED
    BY <2>2, <2>3, <2>4, <2>5, <2>6
<1>. QED
  BY <1>12, <1>14, <1>16, <1>19, <1>20, <1>21 DEF Sound

\* Calls are only added, what they were made on stays and leads where it did.
Grows(C, D) == /\ DOMAIN C \subseteq DOMAIN D /\ StaysAimed(C, D)
               /\ \A m \in DOMAIN C : D[m].on = C[m].on

\* Growth is transitive.
LEMMA GrowsOn ==
  ASSUME NEW A, NEW B, NEW C, Grows(A, B), Grows(B, C)
  PROVE  Grows(A, C)
BY DEF Grows, StaysAimed

\* The same, but for the promise of call n, and of those made after it.
GrowsBefore(C, D, n) == /\ DOMAIN C \subseteq DOMAIN D
                        /\ \A c : Known(C, c) /\ Earlier(c, n) =>
                                    Known(D, c) /\ Target(D, c) = Target(C, c)
                        /\ \A m \in DOMAIN C : D[m].on = C[m].on

\* The last call that was made, and that nobody has a promise of.
Newest(C, n) == n = Len(C) /\ C[n].hops = 0 /\ C[n].queue = <<>>

\* The record of a call that was refused when it was made.
LEMMA RefusedFacts ==
  ASSUME NEW c, c \in CallRecord, c.hops = 0, NEW d, d = Rejected(c), NEW e, e = Refused(c)
  PROVE  /\ e \in CallRecord /\ e.answer = NullClient /\ e.place = "over" /\ e.out = "rejected"
         /\ e.queue = c.queue /\ e.queue = d.queue /\ e.on = d.on /\ e.arg = d.arg
         /\ e.during = d.during /\ e.res = d.res /\ e.place = d.place /\ e.out = d.out
         /\ e.at = d.at
<1>1. d = [c EXCEPT !.place = "over", !.out = "rejected"]
  BY DEF Rejected
<1>2. PICK a : a = NullClient
  OBVIOUS
<1>3. a \in Client
  BY <1>2, Clients
<1>4. e = [d EXCEPT !.answer = a]
  BY <1>2 DEF Refused
<1>. QED
  BY <1>1, <1>2, <1>3, <1>4 DEF CallRecord

\* A new call is refused: nothing waits for it, and no call was made on its promise.
LEMMA RefusesCall ==
  ASSUME NEW C, NEW T, NEW w, NEW w2, NEW n, Sound(C, T, w), n \in DOMAIN C,
         Taken(w, w2, n), Newest(C, n), NEW E, E = RefusedAt(C, n)
  PROVE  Sound(E, T, w2) /\ GrowsBefore(C, E, n)
<1>1. PICK D : D = RejectedAt(C, n)
  OBVIOUS
<1>2. Sound(D, T, w2) /\ Moves(C, D, n) /\ StaysAimed(C, D)
  BY <1>1, RejectsCall
<1>3. /\ CallsOK(D) /\ RunsOK(D, T) /\ QueuesOK(D, w2) /\ AimOK(D, T, w2) /\ OrderOK(D, T, w2)
  BY <1>2 DEF Sound
<1>4. /\ C \in Seq(CallRecord) /\ C[n] \in CallRecord /\ n \in Nat /\ n = Len(C)
      /\ DOMAIN C = 1 .. Len(C) /\ C[n].hops = 0 /\ C[n].queue = <<>>
  BY CallFacts DEF Sound, Newest
<1>5. PICK d, e : d = Rejected(C[n]) /\ e = Refused(C[n])
  OBVIOUS
<1>6. /\ e \in CallRecord /\ e.answer = NullClient /\ e.place = "over" /\ e.out = "rejected"
      /\ e.queue = <<>> /\ e.queue = d.queue /\ e.on = d.on /\ e.arg = d.arg
      /\ e.during = d.during /\ e.res = d.res /\ e.place = d.place /\ e.out = d.out
      /\ e.at = d.at
  BY <1>4, <1>5, RefusedFacts
<1>7. /\ E \in Seq(CallRecord) /\ DOMAIN E = DOMAIN C /\ Len(E) = Len(C) /\ E[n] = e
      /\ \A m \in DOMAIN C : m # n => E[m] = C[m]
  BY <1>4, <1>5, <1>6 DEF RefusedAt
<1>8. /\ DOMAIN D = DOMAIN C /\ D[n] = d /\ \A m \in DOMAIN C : m # n => D[m] = C[m]
  BY <1>1, <1>4, <1>5 DEF RejectedAt
<1>9. \A m \in DOMAIN D : /\ E[m].on = D[m].on /\ E[m].arg = D[m].arg /\ E[m].during = D[m].during
                          /\ E[m].res = D[m].res /\ E[m].place = D[m].place
                          /\ E[m].out = D[m].out /\ E[m].at = D[m].at /\ E[m].queue = D[m].queue
  BY <1>6, <1>7, <1>8
<1>10. CallsOK(E)
  <2>1. RecordOK(E[n], n)
    <3>1. RecordOK(D[n], n)
      BY <1>3, <1>8 DEF CallsOK
    <3>2. Earlier(NullClient, n)
      BY Clients DEF Earlier
    <3>. QED
      BY <1>6, <1>7, <1>8, <3>1, <3>2 DEF RecordOK
  <2>2. \A m \in DOMAIN E : RecordOK(E[m], m)
    BY <1>3, <1>7, <1>8, <2>1 DEF CallsOK
  <2>3. Len(C) <= MaxCalls
    BY DEF Sound, CallsOK
  <2>. QED
    BY <1>7, <2>2, <2>3 DEF CallsOK
<1>11. ASSUME NEW c, Known(C, c), Earlier(c, n)
       PROVE  Known(E, c) /\ Known(D, c) /\ Target(E, c) = Target(D, c)
  <2>1. Linked(D) /\ Linked(E)
    BY <1>3, <1>10 DEF Linked, CallsOK, RecordOK
  <2>2. Known(E, c) /\ Known(D, c)
    BY <1>7, <1>8, <1>11 DEF Known
  <2>3. D[n].answer = NoAnswer
    <3>1. C[n].place = "queued" /\ RecordOK(C[n], n)
      BY DEF Sound, QueuesOK, CallsOK, Taken
    <3>2. C[n].answer = NoAnswer
      BY <3>1 DEF RecordOK
    <3>. QED
      BY <1>2, <3>2 DEF Moves
  <2>4. /\ Known(D, NullClient) /\ Earlier(NullClient, n) /\ E[n].answer = NullClient
        /\ \A m \in DOMAIN D : m # n => E[m].answer = D[m].answer
    BY <1>6, <1>7, <1>8, Clients DEF Known, Earlier
  <2>5. Target(E, c) = IF Target(D, c) = Promise(n) THEN Target(D, NullClient) ELSE Target(D, c)
    <3>1. DOMAIN E = DOMAIN D /\ n \in DOMAIN D
      BY <1>7, <1>8
    <3>2. PICK r : r = NullClient
      OBVIOUS
    <3>3. Target(E, c) = IF Target(D, c) = Promise(n) THEN Target(D, r) ELSE Target(D, c)
      BY ONLY <2>1, <2>2, <2>3, <2>4, <3>1, <3>2, TargetResolved
    <3>. QED
      BY <3>2, <3>3
  <2>6. Target(D, c) # Promise(n)
    <3>1. Target(D, c).k = "promise" => Target(D, c).i \in 1 .. c.i /\ c.k = "promise"
      BY <2>1, <2>2, TargetEnds
    <3>2. c.k = "promise" => c.i < n /\ c.i \in Nat
      BY <1>11, Clients DEF Earlier, Known
    <3>. QED
      BY <1>4, <3>1, <3>2, Clients
  <2>. QED
    BY <2>2, <2>5, <2>6
<1>12. \A m \in DOMAIN D : Target(E, E[m].on) = Target(D, D[m].on)
  <2>1. ASSUME NEW m \in DOMAIN D PROVE Target(E, E[m].on) = Target(D, D[m].on)
    <3>1. Known(D, D[m].on) /\ RecordOK(D[m], m) /\ m \in Nat /\ m <= n
      BY <1>3, <1>4, <1>8, CallFacts
    <3>2. Known(C, D[m].on)
      BY <1>8, <3>1 DEF Known
    <3>3. Earlier(D[m].on, n)
      <4>1. D[m].on.k = "promise" => D[m].on.i \in Nat /\ D[m].on.i < m
        BY <3>1, Clients DEF Known, RecordOK, Earlier
      <4>. QED
        BY <1>4, <3>1, <4>1 DEF Earlier
    <3>. QED
      BY <1>9, <1>11, <3>2, <3>3
  <2>. QED
    BY <2>1
<1>13. RunsOK(E, T)
  BY <1>3, <1>7, <1>8, <1>9 DEF RunsOK
<1>14. QueuesOK(E, w2)
  <2>1. ASSUME NEW m \in DOMAIN E, NEW j \in DOMAIN E[m].queue, NEW q, q = E[m].queue[j]
        PROVE  q \in DOMAIN E /\ E[q].place = "queued" /\ E[q].at = m /\ ~In(q, w2)
    <3>1. m \in DOMAIN D /\ E[m].queue = D[m].queue
      BY <1>7, <1>8, <1>9
    <3>2. q \in DOMAIN D /\ D[q].place = "queued" /\ D[q].at = m /\ ~In(q, w2)
      BY <1>3, <2>1, <3>1 DEF QueuesOK
    <3>. QED
      BY <1>7, <1>8, <1>9, <3>2
  <2>2. \A m \in DOMAIN E : Distinct(E[m].queue)
    BY <1>3, <1>7, <1>8, <1>9 DEF QueuesOK
  <2>3. \A q : In(q, w2) => q \in DOMAIN E /\ E[q].place = "queued"
    BY <1>3, <1>7, <1>8, <1>9 DEF QueuesOK
  <2>4. ASSUME NEW m \in DOMAIN E, E[m].place = "queued", ~In(m, w2)
        PROVE  E[m].at \in DOMAIN E /\ In(m, E[E[m].at].queue)
    <3>1. m \in DOMAIN D /\ D[m].place = "queued" /\ E[m].at = D[m].at
      BY <1>7, <1>8, <1>9, <2>4
    <3>2. D[m].at \in DOMAIN D /\ In(m, D[D[m].at].queue)
      BY <1>3, <2>4, <3>1 DEF QueuesOK
    <3>. QED
      BY <1>7, <1>8, <1>9, <3>1, <3>2
  <2>5. Distinct(w2)
    BY <1>3 DEF QueuesOK
  <2>. QED
    BY ONLY <2>1, <2>2, <2>3, <2>4, <2>5 DEF QueuesOK
<1>15. AimOK(E, T, w2)
  <2>1. \A i \in DOMAIN T : T[i].n \in DOMAIN D
    BY <1>3 DEF RunsOK
  <2>. QED
    BY <1>3, <1>7, <1>8, <1>9, <1>12, <2>1 DEF AimOK
<1>16. OrderOK(E, T, w2)
  <2> SUFFICES ASSUME NEW n1 \in DOMAIN D, NEW n2 \in DOMAIN D, Behind(E, n1, n2)
               PROVE  /\ \A i, j \in DOMAIN T : T[i].n = n1 /\ T[j].n = n2 => i < j
                      /\ Ran(T, n2) => E[n1].place # "queued"
                      /\ \A m \in DOMAIN E : Before(E[m].queue, n1, n2)
                      /\ In(n1, w2) /\ E[n2].place = "queued" => In(n2, w2)
                      /\ Before(w2, n1, n2)
    BY <1>7, <1>8 DEF OrderOK
  <2>1. Behind(D, n1, n2)
    BY <1>9 DEF Behind
  <2>2. /\ \A i, j \in DOMAIN T : T[i].n = n1 /\ T[j].n = n2 => i < j
        /\ Ran(T, n2) => D[n1].place # "queued"
        /\ \A m \in DOMAIN D : Before(D[m].queue, n1, n2)
        /\ In(n1, w2) /\ D[n2].place = "queued" => In(n2, w2)
        /\ Before(w2, n1, n2)
    BY <1>3, <2>1 DEF OrderOK
  <2>. QED
    BY <1>7, <1>8, <1>9, <2>2
<1>17. GrowsBefore(C, E, n)
  <2>1. \A m \in DOMAIN C : E[m].on = C[m].on
    BY <1>2, <1>8, <1>9 DEF Moves
  <2>2. ASSUME NEW c, Known(C, c), Earlier(c, n)
        PROVE  Known(E, c) /\ Target(E, c) = Target(C, c)
    BY <1>2, <1>11, <2>2 DEF StaysAimed
  <2>. QED
    BY <1>7, <2>1, <2>2 DEF GrowsBefore
<1>. QED
  BY <1>10, <1>13, <1>14, <1>15, <1>16, <1>17 DEF Sound

State(C, T) == [calls |-> C, delivered |-> T]
IsState(s) == s = State(s.calls, s.delivered)

\* client.call() on a call in the air, on a client that leads where it does.
LEMMA Places ==
  ASSUME NEW C, NEW T, NEW w, NEW w2, NEW n, Sound(C, T, w), Taken(w, w2, n),
         NEW client, Known(C, client), Target(C, C[n].on) = Target(C, client),
         NEW hop \in {0, 1}, hop = 0 => Newest(C, n),
         NEW s, s = Placed(State(C, T), n, client, hop)
  PROVE  /\ IsState(s) /\ Sound(s.calls, s.delivered, w2) /\ GrowsBefore(C, s.calls, n)
         /\ hop = 1 => Grows(C, s.calls)
<1>1. n \in DOMAIN C /\ C[n].place = "queued"
  BY DEF Sound, QueuesOK, Taken
<1>2. /\ C \in Seq(CallRecord) /\ C[n] \in CallRecord /\ n \in Nat /\ Linked(C)
      /\ Known(C, C[n].on) /\ RecordOK(C[n], n)
  BY <1>1, CallFacts DEF Sound
<1>3. PICK t : t = Target(C, client)
  OBVIOUS
<1>4. /\ t \in Client /\ Target(C, C[n].on) = t
      /\ t.k = "promise" => /\ t = Promise(t.i) /\ t.i \in DOMAIN C
                            /\ C[t.i].answer = NoAnswer /\ t.i # n
  <2>1. /\ t \in Client /\ Target(C, C[n].on) = t
        /\ t.k = "promise" => /\ t = Promise(t.i) /\ t.i \in DOMAIN C
                              /\ C[t.i].answer = NoAnswer
                              /\ t.i \in 1 .. C[n].on.i /\ C[n].on.k = "promise"
    BY <1>2, <1>3, TargetEnds
  <2>2. C[n].on.k = "promise" => C[n].on.i < n /\ C[n].on.i \in Nat
    BY <1>2, Clients DEF RecordOK, Earlier, Known
  <2>. QED
    BY <1>2, <2>1, <2>2
<1>5. PICK S : S = State(C, T)
  OBVIOUS
<1>10. S.calls = C /\ S.delivered = T /\ \A D : [S EXCEPT !.calls = D] = State(D, T)
  BY <1>5 DEF State
<1>11. PICK E : E = [C EXCEPT ![n] = Put(C[n], "queued", t.i, hop)]
  OBVIOUS
<1>12. s = CASE t.k = "server" ->
                  State(RunningAt(C, n, t.i, hop), Logged(T, n, t.i))
             [] t.k = "promise" /\ ~QueueFull(C[t.i].queue) ->
                  [S EXCEPT !.calls = [E EXCEPT ![t.i].queue = Enqueued(E[t.i].queue, n)]]
             [] OTHER -> [S EXCEPT !.calls = IF hop = 0 THEN RefusedAt(C, n) ELSE RejectedAt(C, n)]
  <2>1. s = Placed(S, n, client, hop) /\ t = Target(S.calls, client)
    BY <1>3, <1>5, <1>10
  <2>2. CASE t.k = "server"
    <3>1. s = State([S.calls EXCEPT ![n] = Put(S.calls[n], "running", t.i, hop)],
                    Append(S.delivered, [n |-> n, object |-> t.i]))
      BY ONLY <2>1, <2>2 DEF Placed, State
    <3>. QED
      BY ONLY <1>10, <2>2, <3>1 DEF RunningAt, Logged
  <2>3. CASE t.k = "promise" /\ ~QueueFull(C[t.i].queue)
    <3>1. t.k # "server" /\ ~QueueFull(S.calls[t.i].queue)
      BY <1>10, <2>3
    <3>2. PICK F : F = [S.calls EXCEPT ![n] = Put(S.calls[n], "queued", t.i, hop)]
      OBVIOUS
    <3>5. s = [S EXCEPT !.calls = [S.calls EXCEPT ![n] = Put(@, "queued", t.i, hop),
                                                  ![t.i].queue = Enqueued(@, n)]]
      BY ONLY <2>1, <2>3, <3>1 DEF Placed
    <3>3. s = [S EXCEPT !.calls = [F EXCEPT ![t.i].queue = Enqueued(F[t.i].queue, n)]]
      BY ONLY <3>2, <3>5
    <3>4. F = E
      BY ONLY <1>10, <1>11, <3>2
    <3>. QED
      BY ONLY <2>3, <3>1, <3>3, <3>4
  <2>4. CASE t.k # "server" /\ ~(t.k = "promise" /\ ~QueueFull(C[t.i].queue))
    <3>1. s = [S EXCEPT !.calls = [S.calls EXCEPT ![n] = IF hop = 0 THEN Refused(S.calls[n])
                                                         ELSE Rejected(S.calls[n])]]
      BY ONLY <1>10, <2>1, <2>4 DEF Placed
    <3>. QED
      BY ONLY <1>10, <2>4, <3>1 DEF RejectedAt, RefusedAt
  <2>. QED
    BY <2>2, <2>3, <2>4
<1>6. \A D, U : State(D, U).calls = D /\ State(D, U).delivered = U /\ IsState(State(D, U))
  BY DEF State, IsState
<1>13. \A D : Moves(C, D, n) /\ StaysAimed(C, D) => Grows(C, D) /\ GrowsBefore(C, D, n)
  BY DEF Moves, StaysAimed, Grows, GrowsBefore
<1>7. CASE t.k = "server"
  <2>1. PICK o \in Object : o = t.i
    BY <1>4, <1>7, Clients
  <2>2. PICK D : D = RunningAt(C, n, o, hop)
    OBVIOUS
  <2>3. PICK U : U = Logged(T, n, o)
    OBVIOUS
  <2>4. s = State(D, U)
    BY <1>7, <1>12, <2>1, <2>2, <2>3
  <2>5. Target(C, C[n].on) = Server(o)
    BY <1>4, <1>7, <2>1, Clients
  <2>6. Sound(C, T, w) /\ Taken(w, w2, n) /\ hop \in {0, 1}
    OBVIOUS
  <2>7. Sound(D, U, w2) /\ Moves(C, D, n) /\ StaysAimed(C, D)
    BY ONLY <2>2, <2>3, <2>5, <2>6, StartsCall
  <2>. QED
    BY <1>6, <1>13, <2>4, <2>7
<1>8. CASE t.k = "promise" /\ ~QueueFull(C[t.i].queue)
  <2>1. PICK i \in DOMAIN C : i = t.i
    BY <1>4, <1>8
  <2>2. PICK D : D = QueuedAt(C, n, i, hop)
    OBVIOUS
  <2>3. s = State(D, T)
    <3>1. s = State([E EXCEPT ![t.i].queue = Enqueued(E[t.i].queue, n)], T)
      BY <1>8, <1>10, <1>12
    <3>2. E[i] = C[i]
      BY <1>2, <1>4, <1>8, <1>11, <2>1
    <3>3. D = [E EXCEPT ![i].queue = Append(C[i].queue, n)]
      BY <1>11, <2>1, <2>2 DEF QueuedAt
    <3>. QED
      BY <2>1, <3>1, <3>2, <3>3 DEF Enqueued
  <2>4. /\ Target(C, C[n].on) = Promise(i) /\ C[i].answer = NoAnswer /\ i # n
        /\ Len(C[i].queue) # CallQueueSize
    BY <1>4, <1>8, <2>1 DEF QueueFull
  <2>5. Sound(C, T, w) /\ Taken(w, w2, n) /\ hop \in {0, 1} /\ i \in DOMAIN C
    OBVIOUS
  <2>6. Sound(D, T, w2) /\ Moves(C, D, n) /\ StaysAimed(C, D)
    BY ONLY <2>2, <2>4, <2>5, WaitsCall
  <2>. QED
    BY <1>6, <1>13, <2>3, <2>6
<1>9. CASE t.k # "server" /\ ~(t.k = "promise" /\ ~QueueFull(C[t.i].queue)) /\ hop = 1
  <2>1. PICK D : D = RejectedAt(C, n)
    OBVIOUS
  <2>2. s = State(D, T)
    BY <1>9, <1>10, <1>12, <2>1
  <2>3. Sound(C, T, w) /\ Taken(w, w2, n) /\ n \in DOMAIN C
    BY <1>1
  <2>4. Sound(D, T, w2) /\ Moves(C, D, n) /\ StaysAimed(C, D)
    BY ONLY <2>1, <2>3, RejectsCall
  <2>. QED
    BY <1>6, <1>13, <2>2, <2>4
<1>14. CASE t.k # "server" /\ ~(t.k = "promise" /\ ~QueueFull(C[t.i].queue)) /\ hop = 0
  <2>1. PICK D : D = RefusedAt(C, n)
    OBVIOUS
  <2>2. s = State(D, T)
    BY <1>10, <1>12, <1>14, <2>1
  <2>3. Sound(C, T, w) /\ Taken(w, w2, n) /\ n \in DOMAIN C /\ Newest(C, n)
    BY <1>1, <1>14
  <2>4. Sound(D, T, w2) /\ GrowsBefore(C, D, n)
    BY ONLY <2>1, <2>3, RefusesCall
  <2>. QED
    BY <1>6, <1>14, <2>2, <2>4
<1>. QED
  BY <1>7, <1>8, <1>9, <1>14

InFront(m, w) == <<m>> \o w
WithCall(C, on, arg, eager, during) == Append(C, NewCall(on, arg, eager, during))

\* A new call is in the air, in front of the others.  If it is not made during a flush
\* there are no others.
LEMMA MakesCall ==
  ASSUME NEW C, NEW T, NEW w, Sound(C, T, w), w \in Seq(Call), Len(C) < MaxCalls,
         NEW on, Known(C, on), NEW arg, Known(C, arg), NEW eager, eager \in BOOLEAN,
         NEW during, during \in Call \cup {0}, during = 0 => w = <<>>,
         NEW m, m = Len(C) + 1, NEW D, D = WithCall(C, on, arg, eager, during),
         NEW v, v = InFront(m, w)
  PROVE  /\ Sound(D, T, v) /\ Taken(v, w, m) /\ StaysAimed(C, D)
         /\ m \in DOMAIN D /\ D[m].on = on /\ DOMAIN C \subseteq DOMAIN D
         /\ \A l \in DOMAIN C : D[l] = C[l]
         /\ Newest(D, m) /\ \A x : Known(C, x) => Earlier(x, m)
<1>1. CallsOK(C) /\ RunsOK(C, T) /\ QueuesOK(C, w) /\ AimOK(C, T, w) /\ OrderOK(C, T, w)
  BY DEF Sound
<1>2. /\ C \in Seq(CallRecord) /\ Len(C) \in Nat /\ DOMAIN C = 1 .. Len(C)
      /\ m \in Call /\ m \in Nat \ {0} /\ m \notin DOMAIN C
  BY <1>1, BoundsAssumption DEF CallsOK, Call
<1>3. PICK c : c = NewCall(on, arg, eager, during)
  OBVIOUS
<1>4. /\ c \in CallRecord /\ c.on = on /\ c.arg = arg /\ c.during = during
      /\ c.place = "queued" /\ c.answer = NoAnswer /\ c.res = NullClient /\ c.out = "pending"
      /\ c.queue = <<>> /\ c.hops = 0
  <2>1. /\ c = [on |-> on, arg |-> arg, eager |-> eager, during |-> during, place |-> "queued",
                at |-> 0, hops |-> 0, res |-> NullClient, answer |-> NoAnswer,
                out |-> "pending", queue |-> <<>>]
    BY <1>3 DEF NewCall
  <2>2. on \in Client /\ arg \in Client /\ NullClient \in Client
    BY Clients DEF Known
  <2>. QED
    BY <2>1, <2>2 DEF CallRecord
<1>5. /\ D \in Seq(CallRecord) /\ Len(D) = m /\ DOMAIN D = DOMAIN C \cup {m} /\ D[m] = c
      /\ \A l \in DOMAIN C : D[l] = C[l]
  BY <1>2, <1>3, <1>4 DEF WithCall
<1>6. \A x : Known(C, x) => Earlier(x, m)
  BY <1>2 DEF Known, Earlier
<1>7. CallsOK(D)
  <2>1. RecordOK(D[m], m)
    <3>1. Earlier(NullClient, m) /\ Earlier(NoAnswer, m)
      BY Clients DEF Earlier
    <3>2. Len(c.queue) <= CallQueueSize
      BY <1>4, BoundsAssumption
    <3>3. Earlier(c.on, m) /\ Earlier(c.arg, m) /\ Earlier(c.res, m) /\ Earlier(c.answer, m)
      BY <1>4, <1>6, <3>1
    <3>. QED
      BY <1>4, <1>5, <3>2, <3>3 DEF RecordOK
  <2>2. \A l \in DOMAIN D : RecordOK(D[l], l)
    BY <1>1, <1>5, <2>1 DEF CallsOK
  <2>3. Len(D) <= MaxCalls
    BY <1>2, <1>5, BoundsAssumption
  <2>. QED
    BY <1>5, <2>2, <2>3 DEF CallsOK
<1>8. StaysAimed(C, D)
  <2>1. Linked(C) /\ Linked(D)
    BY <1>1, <1>7 DEF Linked, CallsOK, RecordOK
  <2>2. DOMAIN C \subseteq DOMAIN D /\ \A l \in DOMAIN C : D[l].answer = C[l].answer
    BY <1>5
  <2>. QED
    BY <2>1, <2>2, AimedSame
<1>9. /\ Len(w) \in Nat /\ DOMAIN w = 1 .. Len(w) /\ v \in Seq(Call) /\ v # <<>>
      /\ Head(v) = m /\ Tail(v) = w /\ DOMAIN v = 1 .. Len(w) + 1 /\ v[1] = m
      /\ \A i \in DOMAIN w : v[i + 1] = w[i]
  BY <1>2 DEF InFront
<1>10. \A q : In(q, w) => q \in DOMAIN C /\ C[q].place = "queued"
  BY <1>1 DEF QueuesOK
<1>18. ASSUME NEW k \in DOMAIN v, k # 1
       PROVE  k \in Nat /\ k - 1 \in DOMAIN w /\ (k - 1) + 1 = k /\ v[k] = w[k - 1]
  <2>1. k \in Nat /\ k - 1 \in DOMAIN w /\ (k - 1) + 1 = k
    BY ONLY <1>9, <1>18
  <2>. QED
    BY <1>9, <2>1
<1>11. Distinct(v)
  <2> SUFFICES ASSUME NEW i \in DOMAIN v, NEW j \in DOMAIN v, v[i] = v[j] PROVE i = j
    BY DEF Distinct
  <2>1. \A k \in DOMAIN v : k # 1 => k - 1 \in DOMAIN w /\ v[k] = w[k - 1]
    BY <1>18
  <2>2. \A k \in DOMAIN w : w[k] # m
    BY <1>2, <1>10 DEF In
  <2>3. CASE i = 1 \/ j = 1
    BY <1>9, <2>1, <2>2, <2>3
  <2>4. CASE i # 1 /\ j # 1
    <3>1. i - 1 \in DOMAIN w /\ j - 1 \in DOMAIN w /\ w[i - 1] = w[j - 1]
      BY <2>1, <2>4
    <3>2. i - 1 = j - 1
      BY <1>1, <3>1 DEF QueuesOK, Distinct
    <3>. QED
      BY <1>9, <3>2
  <2>. QED
    BY <2>3, <2>4
<1>12. Taken(v, w, m)
  <2>1. Taken(v, Tail(v), Head(v))
    BY <1>9, <1>11, TailTaken
  <2>. QED
    BY <1>9, <2>1
<1>13. \A q : In(q, v) <=> In(q, w) \/ q = m
  BY <1>2, <1>10, <1>12 DEF Taken
<1>14. RunsOK(D, T)
  BY <1>1, <1>4, <1>5 DEF RunsOK
<1>15. QueuesOK(D, v)
  <2>1. \A l \in DOMAIN D : l = m => D[l].queue = <<>>
    BY <1>4, <1>5
  <2>2. ASSUME NEW l \in DOMAIN D, NEW j \in DOMAIN D[l].queue, NEW q, q = D[l].queue[j]
        PROVE  q \in DOMAIN D /\ D[q].place = "queued" /\ D[q].at = l /\ ~In(q, v)
    <3>1. l \in DOMAIN C /\ D[l] = C[l]
      BY <1>5, <2>1, <2>2
    <3>2. q \in DOMAIN C /\ C[q].place = "queued" /\ C[q].at = l /\ ~In(q, w)
      BY <1>1, <2>2, <3>1 DEF QueuesOK
    <3>. QED
      BY <1>2, <1>5, <1>13, <3>2
  <2>3. \A l \in DOMAIN D : Distinct(D[l].queue)
    <3>1. Distinct(<<>>)
      BY DEF Distinct
    <3>. QED
      BY <1>1, <1>5, <2>1, <3>1 DEF QueuesOK
  <2>4. \A q : In(q, v) => q \in DOMAIN D /\ D[q].place = "queued"
    BY <1>4, <1>5, <1>10, <1>13
  <2>5. ASSUME NEW l \in DOMAIN D, D[l].place = "queued", ~In(l, v)
        PROVE  D[l].at \in DOMAIN D /\ In(l, D[D[l].at].queue)
    <3>1. l \in DOMAIN C /\ D[l] = C[l] /\ ~In(l, w)
      BY <1>5, <1>13, <2>5
    <3>2. C[l].at \in DOMAIN C /\ In(l, C[C[l].at].queue)
      BY <1>1, <2>5, <3>1 DEF QueuesOK
    <3>. QED
      BY <1>5, <3>1, <3>2
  <2>. QED
    BY ONLY <1>11, <2>2, <2>3, <2>4, <2>5 DEF QueuesOK
<1>16. AimOK(D, T, v)
  <2>1. ASSUME NEW l \in DOMAIN C PROVE Target(D, D[l].on) = Target(C, C[l].on)
    <3>1. Known(C, C[l].on)
      BY <1>1, CallFacts
    <3>. QED
      BY <1>5, <1>8, <3>1 DEF StaysAimed
  <2>2. ASSUME NEW l \in DOMAIN D, D[l].place = "queued", ~In(l, v)
        PROVE  Target(D, D[l].on) = Promise(D[l].at)
    <3>1. l \in DOMAIN C /\ D[l] = C[l] /\ ~In(l, w)
      BY <1>5, <1>13, <2>2
    <3>. QED
      BY <1>1, <2>1, <2>2, <3>1 DEF AimOK
  <2>3. ASSUME NEW i \in DOMAIN T PROVE Target(D, D[T[i].n].on) = Server(T[i].object)
    <3>1. T[i].n \in DOMAIN C
      BY <1>1 DEF RunsOK
    <3>. QED
      BY <1>1, <2>1, <3>1 DEF AimOK
  <2>. QED
    BY <2>2, <2>3 DEF AimOK
<1>17. OrderOK(D, T, v)
  <2> SUFFICES ASSUME NEW n1 \in DOMAIN D, NEW n2 \in DOMAIN D, Behind(D, n1, n2)
               PROVE  /\ \A i, j \in DOMAIN T : T[i].n = n1 /\ T[j].n = n2 => i < j
                      /\ Ran(T, n2) => D[n1].place # "queued"
                      /\ \A l \in DOMAIN D : Before(D[l].queue, n1, n2)
                      /\ In(n1, v) /\ D[n2].place = "queued" => In(n2, v)
                      /\ Before(v, n1, n2)
    BY DEF OrderOK
  <2>1. n1 \in DOMAIN C /\ n1 # m
    <3>1. n1 < n2 /\ n1 \in Nat /\ n2 \in Nat /\ n2 <= m
      BY <1>2, <1>5 DEF Behind
    <3>. QED
      BY <1>2, <1>5, <3>1
  <2>2. CASE n2 = m
    <3>1. w = <<>>
      BY <1>4, <1>5, <2>2 DEF Behind
    <3>2. ~In(n1, v)
      BY <1>13, <2>1, <3>1 DEF In
    <3>3. \A i \in DOMAIN T : T[i].n # m
      BY <1>1, <1>2 DEF RunsOK
    <3>4. \A l \in DOMAIN D : ~In(m, D[l].queue)
      <4>1. ASSUME NEW l \in DOMAIN D, NEW j \in DOMAIN D[l].queue PROVE D[l].queue[j] # m
        <5>1. l \in DOMAIN C /\ D[l] = C[l]
          BY <1>4, <1>5, <4>1
        <5>2. C[l].queue[j] \in DOMAIN C
          BY <1>1, <4>1, <5>1 DEF QueuesOK
        <5>. QED
          BY <1>2, <5>1, <5>2
      <4>. QED
        BY <4>1 DEF In
    <3>5. ~Ran(T, n2) /\ \A l \in DOMAIN D : Before(D[l].queue, n1, n2)
      BY <2>2, <3>3, <3>4 DEF Ran, Before, In
    <3>6. Before(v, n1, n2)
      BY <3>2 DEF Before, In
    <3>. QED
      BY <2>2, <3>2, <3>3, <3>5, <3>6
  <2>3. CASE n2 # m
    <3>1. n2 \in DOMAIN C /\ Behind(C, n1, n2)
      BY <1>5, <2>1, <2>3 DEF Behind
    <3>2. /\ \A i, j \in DOMAIN T : T[i].n = n1 /\ T[j].n = n2 => i < j
          /\ Ran(T, n2) => C[n1].place # "queued"
          /\ \A l \in DOMAIN C : Before(C[l].queue, n1, n2)
          /\ In(n1, w) /\ C[n2].place = "queued" => In(n2, w)
          /\ Before(w, n1, n2)
      BY <1>1, <2>1, <3>1 DEF OrderOK
    <3>3. \A l \in DOMAIN D : Before(D[l].queue, n1, n2)
      BY <1>4, <1>5, <3>2 DEF Before
    <3>4. Before(v, n1, n2)
      <4> SUFFICES ASSUME NEW i \in DOMAIN v, NEW j \in DOMAIN v, v[i] = n1, v[j] = n2 PROVE i < j
        BY DEF Before
      <4>1. i # 1 /\ j # 1
        BY <1>9, <2>1, <2>3
      <4>2. /\ i - 1 \in DOMAIN w /\ j - 1 \in DOMAIN w /\ i \in Nat /\ j \in Nat
            /\ (i - 1) + 1 = i /\ (j - 1) + 1 = j
        BY <1>18, <4>1
      <4>3. w[i - 1] = n1 /\ w[j - 1] = n2
        BY <1>18, <4>1
      <4>4. i - 1 < j - 1
        BY <3>2, <4>2, <4>3 DEF Before
      <4>. QED
        BY <4>2, <4>4
    <3>. QED
      BY <1>5, <1>13, <2>1, <3>1, <3>2, <3>3, <3>4
  <2>. QED
    BY <2>2, <2>3
<1>19. Newest(D, m)
  BY <1>4, <1>5 DEF Newest
<1>. QED
  BY <1>4, <1>5, <1>6, <1>7, <1>8, <1>12, <1>14, <1>15, <1>16, <1>17, <1>19 DEF Sound

\* A call is placed, and may call its parameter as it starts.
LEMMA Dispatches ==
  ASSUME NEW C, NEW T, NEW w, NEW w2, NEW n, Sound(C, T, w), Taken(w, w2, n), w2 \in Seq(Call),
         NEW client, Known(C, client), Target(C, C[n].on) = Target(C, client), NEW hop \in {0, 1},
         hop = 0 => Newest(C, n), NEW during \in Call \cup {0}, during = 0 => w2 = <<>>,
         NEW s, s = Dispatched(State(C, T), n, client, hop, during)
  PROVE  IsState(s) /\ Sound(s.calls, s.delivered, w2) /\ (hop = 1 => Grows(C, s.calls))
<1>1. PICK s1 : s1 = Placed(State(C, T), n, client, hop)
  OBVIOUS
<1>2. /\ IsState(s1) /\ Sound(s1.calls, s1.delivered, w2)
      /\ GrowsBefore(C, s1.calls, n) /\ (hop = 1 => Grows(C, s1.calls))
  <2>1. Sound(C, T, w) /\ Taken(w, w2, n) /\ Known(C, client) /\ Target(C, C[n].on) = Target(C, client)
        /\ hop \in {0, 1} /\ (hop = 0 => Newest(C, n))
    OBVIOUS
  <2>. QED
    BY ONLY <1>1, <2>1, Places
<1>3. PICK D, U : D = s1.calls /\ U = s1.delivered
  OBVIOUS
<1>4. s1 = State(D, U) /\ Sound(D, U, w2) /\ (hop = 1 => Grows(C, D))
  BY <1>2, <1>3 DEF IsState
<1>5. n \in DOMAIN D
  BY <1>2, <1>3 DEF GrowsBefore, Sound, QueuesOK, Taken
<1>6. PICK c : c = D[n]
  OBVIOUS
<1>7. PICK m : m = Len(D) + 1
  OBVIOUS
<1>8. PICK E : E = Append(D, NewCall(c.arg, NullClient, FALSE, during))
  OBVIOUS
<1>9. s = IF c.place = "running" /\ c.eager /\ m <= MaxCalls
          THEN Placed(State(E, U), m, c.arg, 0) ELSE s1
  <2>1. s1.calls = D /\ s1.delivered = U /\ [s1 EXCEPT !.calls = E] = State(E, U)
    BY <1>4 DEF State
  <2>2. s = IF s1.calls[n].place = "running" /\ s1.calls[n].eager /\ Len(s1.calls) + 1 <= MaxCalls
            THEN Placed([s1 EXCEPT !.calls = Append(s1.calls, NewCall(s1.calls[n].arg, NullClient,
                                                                     FALSE, during))],
                        Len(s1.calls) + 1, s1.calls[n].arg, 0)
            ELSE s1
    BY ONLY <1>1, s = Dispatched(State(C, T), n, client, hop, during) DEF Dispatched
  <2>. QED
    BY ONLY <1>6, <1>7, <1>8, <2>1, <2>2
<1>10. CASE ~(c.place = "running" /\ c.eager /\ m <= MaxCalls)
  BY <1>2, <1>3, <1>9, <1>10
<1>11. CASE c.place = "running" /\ c.eager /\ m <= MaxCalls
  <2>1. CallsOK(D) /\ Known(D, c.arg) /\ Known(D, NullClient) /\ Len(D) \in Nat
    <3>1. CallsOK(D)
      BY <1>4 DEF Sound
    <3>2. Known(D, c.arg) /\ Len(D) \in Nat
      BY <1>5, <1>6, <3>1, CallFacts
    <3>. QED
      BY <3>1, <3>2, Clients DEF Known
  <2>2. PICK on : on = c.arg
    OBVIOUS
  <2>3. PICK v : v = InFront(m, w2)
    OBVIOUS
  <2>4. /\ Sound(D, U, w2) /\ w2 \in Seq(Call) /\ Len(D) < MaxCalls /\ Known(D, on)
        /\ during \in Call \cup {0} /\ (during = 0 => w2 = <<>>) /\ m = Len(D) + 1
    BY <1>4, <1>7, <1>8, <1>11, <2>1, <2>2, BoundsAssumption
  <2>11. PICK e, nil : e = FALSE /\ nil = NullClient
    OBVIOUS
  <2>12. e \in BOOLEAN /\ Known(D, nil) /\ E = WithCall(D, on, nil, e, during)
    BY <1>8, <2>1, <2>2, <2>11 DEF WithCall
  <2>5. /\ Sound(E, U, v) /\ Taken(v, w2, m) /\ StaysAimed(D, E)
        /\ m \in DOMAIN E /\ E[m].on = on /\ DOMAIN D \subseteq DOMAIN E
        /\ \A l \in DOMAIN D : E[l] = D[l]
        /\ Newest(E, m) /\ \A x : Known(D, x) => Earlier(x, m)
    BY ONLY <2>3, <2>4, <2>12, MakesCall
  <2>6. Known(E, on) /\ Target(E, E[m].on) = Target(E, on) /\ 0 \in {0, 1}
    BY <2>4, <2>5 DEF StaysAimed
  <2>7. s = Placed(State(E, U), m, on, 0)
    BY <1>9, <1>11, <2>2
  <2>8. IsState(s) /\ Sound(s.calls, s.delivered, w2) /\ GrowsBefore(E, s.calls, m)
    <3>1. PICK h : h = 0
      OBVIOUS
    <3>2. h \in {0, 1} /\ (h = 0 => Newest(E, m)) /\ s = Placed(State(E, U), m, on, h)
      BY <2>5, <2>7, <3>1
    <3>. QED
      BY ONLY <2>5, <2>6, <3>2, Places
  <2>9. Grows(D, s.calls)
    BY <2>5, <2>8 DEF Grows, GrowsBefore, StaysAimed
  <2>. QED
    BY <1>4, <2>8, <2>9, GrowsOn
<1>. QED
  BY <1>10, <1>11

-----------------------------------------------------------------------------
(* The flush of a queue: one call after the other is taken from the air. *)

\* f is what the recursive function in Flush() computes.
Flushes(f, s, q, r, n, i) ==
  /\ f = [j \in 0 .. i |-> f[j]] /\ f[0] = s
  /\ \A j \in 1 .. i : f[j] = Released(f[j - 1], q[j], r, n)

\* There is a function that does what the recursive one of Flush() says.
LEMMA FlushesExists ==
  ASSUME NEW s, NEW q, NEW r, NEW n, NEW k \in Nat
  PROVE  \E f : Flushes(f, s, q, r, n, k)
<1> DEFINE T == {i \in 0 .. k : ~\E f : Flushes(f, s, q, r, n, i)}
<1> SUFFICES ASSUME T # {} PROVE FALSE
  OBVIOUS
<1>1. PICK l \in T : \A i \in T : l <= i
  <2>1. T \subseteq Nat
    OBVIOUS
  <2> HIDE DEF T
  <2>. QED
    BY <2>1, LeastNatural
<1>2. l \in 0 .. k /\ ~\E f : Flushes(f, s, q, r, n, l)
  BY <1>1
<1>3. l # 0
  <2>1. PICK f : f = [j \in 0 .. 0 |-> s]
    OBVIOUS
  <2>2. Flushes(f, s, q, r, n, 0)
    BY <2>1 DEF Flushes
  <2>. QED
    BY <1>2, <2>2
<1>4. l - 1 \in 0 .. k /\ l - 1 \notin T
  BY <1>1, <1>2, <1>3
<1>5. PICK f : Flushes(f, s, q, r, n, l - 1)
  BY <1>4
<1> HIDE DEF T
<1>6. PICK x : x = Released(f[l - 1], q[l], r, n)
  OBVIOUS
<1>7. PICK g : g = [j \in 0 .. l |-> IF j = l THEN x ELSE f[j]]
  OBVIOUS
<1>8. g[l] = x /\ \A j \in 0 .. l - 1 : g[j] = f[j]
  BY <1>2, <1>3, <1>7
<1>9. ASSUME NEW j \in 1 .. l PROVE g[j] = Released(g[j - 1], q[j], r, n)
  <2>1. g[j - 1] = f[j - 1]
    BY <1>2, <1>8
  <2>2. CASE j = l
    BY <1>6, <1>8, <2>1, <2>2
  <2>3. CASE j # l
    <3>1. j \in 1 .. l - 1 /\ j \in 0 .. l - 1
      BY <1>2, <2>3
    <3>2. f[j] = Released(f[j - 1], q[j], r, n)
      BY <1>5, <3>1 DEF Flushes
    <3>. QED
      BY <1>8, <2>1, <3>1, <3>2
  <2>. QED
    BY <2>2, <2>3
<1>10. g = [j \in 0 .. l |-> g[j]] /\ g[0] = s
  <2>1. f[0] = s /\ 0 \in 0 .. l - 1
    BY <1>2, <1>3, <1>5 DEF Flushes
  <2>. QED
    BY <1>7, <1>8, <2>1
<1>11. Flushes(g, s, q, r, n, l)
  BY ONLY <1>9, <1>10 DEF Flushes
<1>. QED
  BY <1>2, <1>11

\* The unfolding of Flush.
LEMMA FlushIs ==
  ASSUME NEW s, NEW q, Len(q) \in Nat, NEW r, NEW n
  PROVE  \E f : Flushes(f, s, q, r, n, Len(q)) /\ Flush(s, q, r, n) = f[Len(q)]
<1> DEFINE R(f) == [j \in 0 .. Len(q) |->
                     IF j = 0 THEN s ELSE Released(f[j - 1], q[j], r, n)]
           flushed == CHOOSE f : f = R(f)
<1>1. Flush(s, q, r, n) = flushed[Len(q)]
  BY DEF Flush
<1>2. PICK g : Flushes(g, s, q, r, n, Len(q))
  BY FlushesExists
<1>3. g = R(g)
  <2>1. g = [j \in 0 .. Len(q) |-> g[j]]
    BY <1>2 DEF Flushes
  <2>2. ASSUME NEW j \in 0 .. Len(q)
        PROVE  g[j] = IF j = 0 THEN s ELSE Released(g[j - 1], q[j], r, n)
    <3>1. CASE j = 0
      BY <1>2, <3>1 DEF Flushes
    <3>2. CASE j # 0
      <4>1. j \in 1 .. Len(q)
        BY <3>2
      <4>. QED
        BY <1>2, <3>2, <4>1 DEF Flushes
    <3>. QED
      BY <3>1, <3>2
  <2>. QED
    BY <2>1, <2>2
<1>4. flushed = R(flushed)
  <2> HIDE DEF R
  <2>. QED
    BY <1>3
<1> HIDE DEF flushed
<1>5. PICK f : f = flushed
  OBVIOUS
<1>6. f = R(f)
  BY <1>4, <1>5
<1>7. \A j \in 0 .. Len(q) : f[j] = IF j = 0 THEN s ELSE Released(f[j - 1], q[j], r, n)
  BY <1>6
<1>8. f = [j \in 0 .. Len(q) |-> f[j]]
  <2>1. DOMAIN R(f) = 0 .. Len(q) /\ R(f) = [j \in 0 .. Len(q) |-> R(f)[j]]
    OBVIOUS
  <2> HIDE DEF R
  <2>. QED
    BY <1>6, <2>1
<1>9. f[0] = s /\ \A j \in 1 .. Len(q) : f[j] = Released(f[j - 1], q[j], r, n)
  BY <1>7
<1>10. Flushes(f, s, q, r, n, Len(q))
  BY ONLY <1>8, <1>9 DEF Flushes
<1>. QED
  BY <1>1, <1>5, <1>10

\* One call is taken from the air.
LEMMA Releases ==
  ASSUME NEW C, NEW T, NEW w, NEW w2, NEW n, Sound(C, T, w), Taken(w, w2, n), w2 \in Seq(Call),
         NEW r, Known(C, r), Target(C, C[n].on) = Target(C, r),
         NEW during, during \in Call, NEW s, s = Released(State(C, T), n, r, during)
  PROVE  IsState(s) /\ Sound(s.calls, s.delivered, w2) /\ Grows(C, s.calls)
<1>1. n \in DOMAIN C
  BY DEF Sound, QueuesOK, Taken
<1>2. CASE r = NullClient
  <2>1. PICK D : D = RejectedAt(C, n)
    OBVIOUS
  <2>2. s = State(D, T)
    <3>1. PICK S : S = State(C, T)
      OBVIOUS
    <3>2. S.calls = C /\ [S EXCEPT !.calls = D] = State(D, T)
      BY ONLY <3>1 DEF State
    <3>3. s = [S EXCEPT !.calls = [S.calls EXCEPT ![n] = Rejected(S.calls[n])]]
      BY <1>2, <3>1 DEF Released
    <3>. QED
      BY ONLY <2>1, <3>2, <3>3 DEF RejectedAt
  <2>3. Sound(C, T, w) /\ Taken(w, w2, n)
    OBVIOUS
  <2>4. Sound(D, T, w2) /\ Moves(C, D, n) /\ StaysAimed(C, D)
    BY ONLY <1>1, <2>1, <2>3, RejectsCall
  <2>5. IsState(s) /\ s.calls = D /\ s.delivered = T
    BY ONLY <2>2 DEF State, IsState
  <2>6. Grows(C, D)
    BY <2>4 DEF Grows, Moves
  <2>. QED
    BY <2>4, <2>5, <2>6
<1>3. CASE r # NullClient
  <2>1. PICK hop : hop = 1
    OBVIOUS
  <2>2. s = Dispatched(State(C, T), n, r, hop, during)
    BY <1>3, <2>1 DEF Released
  <2>3. /\ Sound(C, T, w) /\ Taken(w, w2, n) /\ w2 \in Seq(Call) /\ Known(C, r)
        /\ Target(C, C[n].on) = Target(C, r)
    OBVIOUS
  <2>4. /\ hop \in {0, 1} /\ during \in Call \cup {0} /\ (during = 0 => w2 = <<>>)
        /\ (hop = 0 => Newest(C, n))
    BY <2>1, BoundsAssumption DEF Call
  <2>. QED
    BY ONLY <2>1, <2>2, <2>3, <2>4, Dispatches
<1>. QED
  BY <1>2, <1>3

\* The calls of queue q that are left when j of them were taken.
Rest(q, j) == SubSeq(q, j + 1, Len(q))

\* What is left of a queue after the first j calls.
LEMMA RestFacts ==
  ASSUME NEW q, q \in Seq(Call)
  PROVE  /\ Len(q) \in Nat /\ Rest(q, 0) = q /\ Rest(q, Len(q)) = <<>>
         /\ \A j \in 0 .. Len(q) : /\ Rest(q, j) \in Seq(Call)
                                   /\ \A x : In(x, Rest(q, j)) => In(x, q)
         /\ \A j \in 1 .. Len(q) : /\ Rest(q, j - 1) # <<>> /\ Head(Rest(q, j - 1)) = q[j]
                                   /\ Tail(Rest(q, j - 1)) = Rest(q, j)
<1>1. Len(q) \in Nat /\ DOMAIN q = 1 .. Len(q) /\ \A i \in DOMAIN q : q[i] \in Call
  OBVIOUS
<1>2. ASSUME NEW j \in 0 .. Len(q)
      PROVE  Rest(q, j) \in Seq(Call) /\ \A x : In(x, Rest(q, j)) => In(x, q)
  <2>1. j + 1 \in Int /\ Len(q) \in Int /\ \A i \in j + 1 .. Len(q) : q[i] \in Call
    BY <1>1
  <2>2. /\ Rest(q, j) \in Seq(Call)
        /\ Len(Rest(q, j)) = IF j + 1 <= Len(q) THEN Len(q) - (j + 1) + 1 ELSE 0
        /\ \A i \in 1 .. Len(q) - (j + 1) + 1 : Rest(q, j)[i] = q[j + 1 + i - 1]
    BY <2>1, SubSeqProperties DEF Rest
  <2>3. PICK p : p = Rest(q, j)
    OBVIOUS
  <2>4. p \in Seq(Call) /\ Len(p) = Len(q) - j
    <3>1. (IF j + 1 <= Len(q) THEN Len(q) - (j + 1) + 1 ELSE 0) = Len(q) - j
      <4>1. PICK l : l = Len(q)
        OBVIOUS
      <4>2. l \in Nat /\ j \in Nat /\ j <= l
        BY <1>1, <4>1
      <4>3. CASE j + 1 <= l
        BY ONLY <4>1, <4>2, <4>3
      <4>4. CASE ~(j + 1 <= l)
        <5>1. l - j = 0
          BY ONLY <4>2, <4>4
        <5>. QED
          BY ONLY <4>1, <4>4, <5>1
      <4>. QED
        BY ONLY <4>3, <4>4
    <3>2. p \in Seq(Call) /\ Len(p) = IF j + 1 <= Len(q) THEN Len(q) - (j + 1) + 1 ELSE 0
      BY <2>2, <2>3
    <3>. QED
      BY ONLY <3>1, <3>2
  <2>5. ASSUME NEW x, In(x, p) PROVE In(x, q)
    <3>1. PICK i \in DOMAIN p : p[i] = x
      BY <2>5 DEF In
    <3>2. i \in 1 .. Len(q) - (j + 1) + 1 /\ j + 1 + i - 1 \in DOMAIN q
      BY <1>1, <2>4
    <3>3. q[j + 1 + i - 1] = x
      BY <2>2, <2>3, <3>1, <3>2
    <3>. QED
      BY <3>2, <3>3 DEF In
  <2>. QED
    BY <2>2, <2>3, <2>5
<1>3. Rest(q, 0) = q
  <2>1. SubSeq(q, 1, Len(q)) = q
    BY SubSeqFull
  <2>2. 0 + 1 = 1
    OBVIOUS
  <2>. QED
    BY <2>1, <2>2 DEF Rest
<1>4. Rest(q, Len(q)) = <<>>
  <2>1. Len(q) + 1 \in Int /\ Len(q) \in Int /\ Len(q) < Len(q) + 1
    BY <1>1
  <2>. QED
    BY <2>1, SubSeqEmpty DEF Rest
<1>5. ASSUME NEW j \in 1 .. Len(q)
      PROVE  /\ Rest(q, j - 1) # <<>> /\ Head(Rest(q, j - 1)) = q[j]
             /\ Tail(Rest(q, j - 1)) = Rest(q, j)
  <2>1. (j - 1) + 1 = j /\ Len(q) \in j .. Len(q)
    BY <1>1
  <2>2. Rest(q, j - 1) = SubSeq(q, j, Len(q))
    BY <2>1 DEF Rest
  <2>3. Head(SubSeq(q, j, Len(q))) = q[j] /\ Tail(SubSeq(q, j, Len(q))) = SubSeq(q, j + 1, Len(q))
    BY <2>1, HeadTailOfSubSeq
  <2>4. SubSeq(q, j, Len(q)) # <<>>
    <3>1. /\ j \in Int /\ Len(q) \in Int /\ \A i \in j .. Len(q) : q[i] \in Call
      BY <1>1
    <3>2. Len(SubSeq(q, j, Len(q))) = IF j <= Len(q) THEN Len(q) - j + 1 ELSE 0
      BY <3>1, SubSeqProperties
    <3>3. PICK p : p = SubSeq(q, j, Len(q))
      OBVIOUS
    <3>4. Len(p) # 0
      BY <1>1, <3>2, <3>3
    <3>. QED
      BY <3>3, <3>4
  <2>. QED
    BY <2>2, <2>3, <2>4 DEF Rest
<1>. QED
  BY <1>1, <1>2, <1>3, <1>4, <1>5

\* A flush leaves nothing in the air: what waited is made on the client that the promise
\* was resolved to, which is where it leads by now.
LEMMA FlushKeeps ==
  ASSUME NEW C, NEW T, NEW q, Sound(C, T, q), q \in Seq(Call), NEW r, Known(C, r),
         \A x : In(x, q) => Target(C, C[x].on) = Target(C, r),
         NEW n, n \in Call, NEW s, s = Flush(State(C, T), q, r, n)
  PROVE  IsState(s) /\ Sound(s.calls, s.delivered, <<>>) /\ Grows(C, s.calls)
<1>1. PICK S : S = State(C, T)
  OBVIOUS
<1>2. S.calls = C /\ S.delivered = T /\ IsState(S)
  BY <1>1 DEF State, IsState
<1>3. Len(q) \in Nat
  OBVIOUS
<1>4. PICK f : Flushes(f, S, q, r, n, Len(q)) /\ s = f[Len(q)]
  BY <1>1, <1>3, FlushIs
<1> DEFINE Good(j) == /\ IsState(f[j]) /\ Grows(C, f[j].calls)
                      /\ Sound(f[j].calls, f[j].delivered, Rest(q, j))
           Bad == {j \in 0 .. Len(q) : ~Good(j)}
<1>5. Good(0)
  <2>1. f[0] = S /\ Rest(q, 0) = q
    BY <1>4, RestFacts DEF Flushes
  <2>2. Grows(C, C)
    BY DEF Grows, StaysAimed
  <2>. QED
    BY <1>2, <2>1, <2>2
<1>6. ASSUME NEW j \in 1 .. Len(q), Good(j - 1) PROVE Good(j)
  <2>1. PICK D, U : D = f[j - 1].calls /\ U = f[j - 1].delivered
    OBVIOUS
  <2>2. PICK w, w2, x : w = Rest(q, j - 1) /\ w2 = Rest(q, j) /\ x = q[j]
    OBVIOUS
  <2>3. Sound(D, U, w) /\ Grows(C, D) /\ f[j - 1] = State(D, U)
    BY <1>6, <2>1, <2>2 DEF IsState
  <2>4. j - 1 \in 0 .. Len(q) /\ j \in 0 .. Len(q)
    BY <1>3
  <2>5. w \in Seq(Call) /\ w2 \in Seq(Call) /\ w # <<>> /\ Head(w) = x /\ Tail(w) = w2
    BY <2>2, <2>4, RestFacts
  <2>6. Taken(w, w2, x)
    <3>1. Distinct(w)
      BY <2>3 DEF Sound, QueuesOK
    <3>. QED
      BY <2>5, <3>1, TailTaken
  <2>7. Known(D, r) /\ Target(D, D[x].on) = Target(D, r)
    <3>1. In(x, q)
      BY <2>2, <2>4, <2>6, RestFacts DEF Taken
    <3>2. x \in DOMAIN C
      BY <3>1 DEF Sound, QueuesOK
    <3>3. CallsOK(C)
      BY DEF Sound
    <3>4. Known(C, C[x].on)
      BY <3>2, <3>3, CallFacts
    <3>5. D[x].on = C[x].on /\ Target(D, C[x].on) = Target(C, C[x].on) /\ Known(D, r)
          /\ Target(D, r) = Target(C, r)
      BY <2>3, <3>2, <3>4 DEF Grows, StaysAimed
    <3>. QED
      BY <3>1, <3>5
  <2>8. PICK t : t = f[j]
    OBVIOUS
  <2>9. t = Released(State(D, U), x, r, n)
    BY <1>4, <2>2, <2>3, <2>8 DEF Flushes
  <2>10. IsState(t) /\ Sound(t.calls, t.delivered, w2) /\ Grows(D, t.calls)
    BY ONLY n \in Call, <2>3, <2>5, <2>6, <2>7, <2>9, Releases
  <2>11. Grows(C, t.calls)
    BY <2>3, <2>10, GrowsOn
  <2>. QED
    BY <2>2, <2>8, <2>10, <2>11
<1>7. ASSUME Bad # {} PROVE FALSE
  <2>1. PICK j \in Bad : \A i \in Bad : j <= i
    <3>1. Bad \subseteq Nat
      BY <1>3
    <3> HIDE DEF Bad
    <3>. QED
      BY <1>7, <3>1, LeastNatural
  <2>2. j \in 0 .. Len(q) /\ ~Good(j)
    BY <2>1
  <2>3. j # 0
    <3> HIDE DEF Good
    <3>. QED
      BY <1>5, <2>2
  <2>4. j \in 1 .. Len(q) /\ j - 1 \in 0 .. Len(q) /\ j - 1 \notin Bad
    <3>1. j \in 1 .. Len(q) /\ j - 1 \in 0 .. Len(q) /\ j - 1 < j
      BY <1>3, <2>2, <2>3
    <3> HIDE DEF Bad
    <3>. QED
      BY <2>1, <3>1
  <2>5. Good(j - 1)
    <3> HIDE DEF Good
    <3>. QED
      BY <2>4
  <2> HIDE DEF Good
  <2>. QED
    BY <1>6, <2>2, <2>4, <2>5
<1>8. Good(Len(q))
  <2>1. Len(q) \in 0 .. Len(q)
    BY <1>3
  <2> HIDE DEF Good
  <2>. QED
    BY <1>7, <2>1
<1>9. Rest(q, Len(q)) = <<>>
  BY RestFacts
<1>. QED
  BY <1>4, <1>8, <1>9

-----------------------------------------------------------------------------
(* The steps: a method ends, its outcome comes back, its promise is resolved. *)

\* What the end of a call does not change.
SameCall(d, c) == /\ d.on = c.on /\ d.arg = c.arg /\ d.during = c.during
                  /\ d \in CallRecord /\ d.place \notin {"queued", "running"}
With(C, n, d) == [C EXCEPT ![n] = d]

\* One call is replaced by what became of it.
LEMMA WithFacts ==
  ASSUME NEW C, C \in Seq(CallRecord), NEW n, n \in DOMAIN C, NEW d, SameCall(d, C[n]),
         NEW D, D = With(C, n, d)
  PROVE  /\ D \in Seq(CallRecord) /\ DOMAIN D = DOMAIN C /\ Len(D) = Len(C) /\ D[n] = d
         /\ \A m \in DOMAIN C : m # n => D[m] = C[m]
         /\ \A m \in DOMAIN C : /\ D[m].on = C[m].on /\ D[m].arg = C[m].arg
                                /\ D[m].during = C[m].during
<1>1. /\ D \in Seq(CallRecord) /\ DOMAIN D = DOMAIN C /\ Len(D) = Len(C) /\ D[n] = d
      /\ \A m \in DOMAIN C : m # n => D[m] = C[m]
  BY DEF With, SameCall
<1>. QED
  BY <1>1 DEF SameCall

\* Nothing in the air.
LEMMA EmptyAir == ~(\E q : In(q, <<>>)) /\ Distinct(<<>>) /\ \A n1, n2 : Before(<<>>, n1, n2)
BY DEF In, Distinct, Before

\* A call whose method was started goes on, towards its caller.
LEMMA GoesOn ==
  ASSUME NEW C, NEW T, Sound(C, T, <<>>), NEW n, n \in DOMAIN C,
         C[n].place \in {"running", "returned", "threw"}, NEW d, SameCall(d, C[n]),
         d.queue = C[n].queue, d.answer = C[n].answer, Earlier(d.res, n),
         d.place \in {"returned", "threw"} => d.hops # 0,
         d.place = "returned" \/ d.out = "fulfilled" =>
           C[n].place \in {"running", "returned"} \/ C[n].out = "fulfilled",
         NEW D, D = With(C, n, d)
  PROVE  Sound(D, T, <<>>)
<1>1. CallsOK(C) /\ RunsOK(C, T) /\ QueuesOK(C, <<>>) /\ AimOK(C, T, <<>>) /\ OrderOK(C, T, <<>>)
  BY DEF Sound
<1>2. C \in Seq(CallRecord) /\ Linked(C) /\ RecordOK(C[n], n)
  BY <1>1, CallFacts
<1>3. /\ D \in Seq(CallRecord) /\ DOMAIN D = DOMAIN C /\ Len(D) = Len(C) /\ D[n] = d
      /\ \A m \in DOMAIN C : m # n => D[m] = C[m]
      /\ \A m \in DOMAIN C : /\ D[m].on = C[m].on /\ D[m].arg = C[m].arg
                             /\ D[m].during = C[m].during
  BY <1>2, WithFacts
<1>4. /\ \A m \in DOMAIN C : D[m].queue = C[m].queue /\ D[m].answer = C[m].answer
      /\ \A m \in DOMAIN C : D[m].place = "queued" <=> C[m].place = "queued"
      /\ \A m \in DOMAIN C : C[m].place = "queued" => D[m].at = C[m].at
  BY <1>3 DEF SameCall
<1>5. CallsOK(D) /\ StaysAimed(C, D)
  <2>1. RecordOK(d, n)
    <3>1. C[n].answer = NoAnswer
      BY <1>2 DEF RecordOK
    <3>. QED
      BY <1>2, <3>1 DEF RecordOK, SameCall
  <2>2. \A m \in DOMAIN D : RecordOK(D[m], m)
    BY <1>1, <1>3, <2>1 DEF CallsOK
  <2>3. CallsOK(D)
    BY <1>1, <1>3, <2>2 DEF CallsOK
  <2>4. Linked(D)
    BY <2>3 DEF Linked, CallsOK, RecordOK
  <2>. QED
    BY <1>2, <1>3, <1>4, <2>3, <2>4, AimedSame
<1>6. RunsOK(D, T)
  <2>1. ASSUME NEW m \in DOMAIN D, D[m].place \in {"running", "returned"} \/ D[m].out = "fulfilled"
        PROVE  Ran(T, m)
    <3>1. C[m].place \in {"running", "returned"} \/ C[m].out = "fulfilled"
      BY <1>3, <2>1 DEF SameCall
    <3>. QED
      BY <1>1, <1>3, <3>1 DEF RunsOK
  <2>2. \A i \in DOMAIN T : T[i].n \in DOMAIN D /\ D[T[i].n].place # "queued"
    BY <1>1, <1>3, <1>4 DEF RunsOK
  <2>. QED
    BY <1>1, <2>1, <2>2 DEF RunsOK
<1>7. QueuesOK(D, <<>>)
  <2>1. ASSUME NEW m \in DOMAIN D, NEW j \in DOMAIN D[m].queue, NEW q, q = D[m].queue[j]
        PROVE  q \in DOMAIN D /\ D[q].place = "queued" /\ D[q].at = m /\ ~In(q, <<>>)
    <3>1. D[m].queue = C[m].queue
      BY <1>3, <1>4
    <3>2. q \in DOMAIN C /\ C[q].place = "queued" /\ C[q].at = m
      BY <1>1, <1>3, <2>1, <3>1 DEF QueuesOK
    <3>. QED
      BY <1>3, <1>4, <3>2, EmptyAir
  <2>2. \A m \in DOMAIN D : Distinct(D[m].queue)
    BY <1>1, <1>3, <1>4 DEF QueuesOK
  <2>3. ASSUME NEW m \in DOMAIN D, D[m].place = "queued"
        PROVE  D[m].at \in DOMAIN D /\ In(m, D[D[m].at].queue)
    <3>1. C[m].place = "queued" /\ D[m].at = C[m].at
      BY <1>3, <1>4, <2>3
    <3>2. C[m].at \in DOMAIN C /\ In(m, C[C[m].at].queue)
      BY <1>1, <1>3, <3>1, EmptyAir DEF QueuesOK
    <3>. QED
      BY <1>3, <1>4, <3>1, <3>2
  <2>. QED
    BY <2>1, <2>2, <2>3, EmptyAir DEF QueuesOK
<1>8. \A m \in DOMAIN C : Target(D, D[m].on) = Target(C, C[m].on)
  <2>1. ASSUME NEW m \in DOMAIN C PROVE Target(D, D[m].on) = Target(C, C[m].on)
    <3>1. Known(C, C[m].on)
      BY <1>1, CallFacts
    <3>. QED
      BY <1>3, <1>5, <3>1 DEF StaysAimed
  <2>. QED
    BY <2>1
<1>9. AimOK(D, T, <<>>)
  <2>1. \A i \in DOMAIN T : T[i].n \in DOMAIN C
    BY <1>1 DEF RunsOK
  <2>2. \A m \in DOMAIN C : C[m].place = "queued" => Target(C, C[m].on) = Promise(C[m].at)
    BY <1>1, EmptyAir DEF AimOK
  <2>. QED
    BY <1>1, <1>3, <1>4, <1>8, <2>1, <2>2 DEF AimOK
<1>10. OrderOK(D, T, <<>>)
  <2> SUFFICES ASSUME NEW n1 \in DOMAIN C, NEW n2 \in DOMAIN C, Behind(D, n1, n2)
               PROVE  /\ \A i, j \in DOMAIN T : T[i].n = n1 /\ T[j].n = n2 => i < j
                      /\ Ran(T, n2) => D[n1].place # "queued"
                      /\ \A m \in DOMAIN D : Before(D[m].queue, n1, n2)
    BY <1>3, EmptyAir DEF OrderOK
  <2>1. Behind(C, n1, n2)
    BY <1>3 DEF Behind
  <2>2. /\ \A i, j \in DOMAIN T : T[i].n = n1 /\ T[j].n = n2 => i < j
        /\ Ran(T, n2) => C[n1].place # "queued"
        /\ \A m \in DOMAIN C : Before(C[m].queue, n1, n2)
    BY <1>1, <2>1 DEF OrderOK
  <2>. QED
    BY <1>3, <1>4, <2>2
<1>. QED
  BY <1>5, <1>6, <1>7, <1>9, <1>10 DEF Sound

\* The promise of a call is resolved to r: the calls of its queue are in the air, and
\* lead where r does.
LEMMA Resolves ==
  ASSUME NEW C, NEW T, Sound(C, T, <<>>), NEW n, n \in DOMAIN C,
         C[n].place \in {"running", "returned"}, NEW r, Known(C, r), Earlier(r, n),
         NEW d, SameCall(d, C[n]), d.queue = <<>>, d.answer = r, d.place = "over",
         Earlier(d.res, n), NEW D, D = With(C, n, d), NEW q, q = C[n].queue
  PROVE  /\ Sound(D, T, q) /\ q \in Seq(Call) /\ Known(D, r) /\ n \in Call
         /\ \A x : In(x, q) => Target(D, D[x].on) = Target(D, r)
<1>1. CallsOK(C) /\ RunsOK(C, T) /\ QueuesOK(C, <<>>) /\ AimOK(C, T, <<>>) /\ OrderOK(C, T, <<>>)
  BY DEF Sound
<1>2. /\ C \in Seq(CallRecord) /\ C[n] \in CallRecord /\ Linked(C) /\ RecordOK(C[n], n)
      /\ n \in Call
  BY <1>1, CallFacts
<1>3. /\ D \in Seq(CallRecord) /\ DOMAIN D = DOMAIN C /\ Len(D) = Len(C) /\ D[n] = d
      /\ \A m \in DOMAIN C : m # n => D[m] = C[m]
      /\ \A m \in DOMAIN C : /\ D[m].on = C[m].on /\ D[m].arg = C[m].arg
                             /\ D[m].during = C[m].during
  BY <1>2, WithFacts
<1>4. q \in Seq(Call) /\ C[n].answer = NoAnswer
  BY <1>2 DEF CallRecord, RecordOK
<1>5. /\ \A m \in DOMAIN C : D[m].place = "queued" <=> C[m].place = "queued"
      /\ \A m \in DOMAIN C : C[m].place = "queued" => D[m].at = C[m].at
      /\ \A m \in DOMAIN C : m # n => D[m].queue = C[m].queue
      /\ D[n].queue = <<>>
  BY <1>3 DEF SameCall
<1>6. CallsOK(D)
  <2>1. RecordOK(d, n)
    <3>1. Earlier(d.on, n) /\ Earlier(d.arg, n) /\ Earlier(d.res, n) /\ Earlier(d.answer, n)
      BY <1>2 DEF RecordOK, SameCall
    <3>2. Len(d.queue) <= CallQueueSize
      BY BoundsAssumption
    <3>. QED
      BY <3>1, <3>2 DEF RecordOK
  <2>2. \A m \in DOMAIN D : RecordOK(D[m], m)
    BY <1>1, <1>3, <2>1 DEF CallsOK
  <2>. QED
    BY <1>1, <1>3, <2>2 DEF CallsOK
<1>7. /\ Target(D, r) = Target(C, r) /\ Known(D, r)
      /\ \A c : Known(C, c) => Target(D, c) = IF Target(C, c) = Promise(n) THEN Target(C, r)
                                              ELSE Target(C, c)
  <2>1. Linked(D)
    BY <1>6 DEF Linked, CallsOK, RecordOK
  <2>2. D[n].answer = r /\ \A m \in DOMAIN C : m # n => D[m].answer = C[m].answer
    BY <1>3
  <2>3. Known(D, r)
    BY <1>3 DEF Known
  <2>4. Linked(C) /\ DOMAIN D = DOMAIN C /\ C[n].answer = NoAnswer /\ Known(C, r) /\ Earlier(r, n)
        /\ n \in DOMAIN C
    BY <1>2, <1>3, <1>4
  <2>5. ASSUME NEW c, Known(C, c)
        PROVE  /\ Target(D, r) = Target(C, r)
               /\ Target(D, c) = IF Target(C, c) = Promise(n) THEN Target(C, r) ELSE Target(C, c)
    BY ONLY <2>1, <2>2, <2>4, <2>5, TargetResolved
  <2>6. Target(D, r) = Target(C, r)
    BY <2>4, <2>5
  <2>. QED
    BY <2>3, <2>5, <2>6
<1>8. \A m \in DOMAIN C : C[m].place = "queued" =>
         /\ Target(C, C[m].on) = Promise(C[m].at)
         /\ C[m].at \in DOMAIN C /\ In(m, C[C[m].at].queue)
  BY <1>1, EmptyAir DEF AimOK, QueuesOK
<1>9. \A x : In(x, q) => x \in DOMAIN C /\ C[x].place = "queued" /\ C[x].at = n
  BY <1>1 DEF QueuesOK, In
<1>10. \A m \in DOMAIN C : C[m].place = "queued" /\ C[m].at = n => In(m, q)
  BY <1>8
<1>11. \A m \in DOMAIN C : Target(D, D[m].on) = IF Target(C, C[m].on) = Promise(n) THEN Target(C, r)
                                                ELSE Target(C, C[m].on)
  <2>1. ASSUME NEW m \in DOMAIN C
        PROVE  Target(D, D[m].on) = IF Target(C, C[m].on) = Promise(n) THEN Target(C, r)
                                    ELSE Target(C, C[m].on)
    <3>1. Known(C, C[m].on) /\ D[m].on = C[m].on
      BY <1>1, <1>3, <2>1, CallFacts
    <3>. QED
      BY <1>7, <3>1
  <2>. QED
    BY <2>1
<1>12. \A x : In(x, q) => Target(D, D[x].on) = Target(D, r)
  BY <1>7, <1>8, <1>9, <1>11
<1>13. RunsOK(D, T)
  <2>1. ASSUME NEW m \in DOMAIN D, D[m].place \in {"running", "returned"} \/ D[m].out = "fulfilled"
        PROVE  Ran(T, m)
    <3>1. C[m].place \in {"running", "returned"} \/ C[m].out = "fulfilled"
      BY <1>3, <2>1
    <3>. QED
      BY <1>1, <1>3, <3>1 DEF RunsOK
  <2>2. \A i \in DOMAIN T : T[i].n \in DOMAIN D /\ D[T[i].n].place # "queued"
    BY <1>1, <1>3, <1>5 DEF RunsOK
  <2>. QED
    BY <1>1, <2>1, <2>2 DEF RunsOK
<1>14. QueuesOK(D, q)
  <2>1. ASSUME NEW m \in DOMAIN D, NEW j \in DOMAIN D[m].queue, NEW x, x = D[m].queue[j]
        PROVE  x \in DOMAIN D /\ D[x].place = "queued" /\ D[x].at = m /\ ~In(x, q)
    <3>1. m # n
      BY <1>5, <2>1
    <3>2. D[m].queue = C[m].queue
      BY <1>3, <1>5, <3>1
    <3>3. x \in DOMAIN C /\ C[x].place = "queued" /\ C[x].at = m
      BY <1>1, <1>3, <2>1, <3>2 DEF QueuesOK
    <3>. QED
      BY <1>3, <1>5, <1>9, <3>1, <3>3
  <2>2. \A m \in DOMAIN D : Distinct(D[m].queue)
    BY <1>1, <1>3, <1>5, EmptyAir DEF QueuesOK
  <2>3. \A x : In(x, q) => x \in DOMAIN D /\ D[x].place = "queued"
    BY <1>3, <1>5, <1>9
  <2>4. ASSUME NEW m \in DOMAIN D, D[m].place = "queued", ~In(m, q)
        PROVE  D[m].at \in DOMAIN D /\ In(m, D[D[m].at].queue)
    <3>1. C[m].place = "queued" /\ D[m].at = C[m].at
      BY <1>3, <1>5, <2>4
    <3>2. C[m].at \in DOMAIN C /\ In(m, C[C[m].at].queue) /\ C[m].at # n
      BY <1>3, <1>8, <2>4, <3>1
    <3>. QED
      BY <1>3, <1>5, <3>1, <3>2
  <2>5. Distinct(q)
    BY <1>1 DEF QueuesOK
  <2>. QED
    BY ONLY <2>1, <2>2, <2>3, <2>4, <2>5 DEF QueuesOK
<1>15. AimOK(D, T, q)
  <2>1. ASSUME NEW m \in DOMAIN D, D[m].place = "queued", ~In(m, q)
        PROVE  Target(D, D[m].on) = Promise(D[m].at)
    <3>1. C[m].place = "queued" /\ D[m].at = C[m].at
      BY <1>3, <1>5, <2>1
    <3>2. Target(C, C[m].on) = Promise(C[m].at) /\ C[m].at # n
      BY <1>3, <1>8, <2>1, <3>1
    <3>3. Promise(C[m].at) # Promise(n)
      BY <3>2, Clients
    <3>. QED
      BY <1>3, <1>11, <3>1, <3>2, <3>3
  <2>2. ASSUME NEW i \in DOMAIN T PROVE Target(D, D[T[i].n].on) = Server(T[i].object)
    <3>1. T[i].n \in DOMAIN C /\ T[i].object \in Object
      <4>1. PICK R : R = [n : Call, object : Object]
        OBVIOUS
      <4>2. T \in Seq(R)
        BY ONLY <1>1, <4>1 DEF RunsOK
      <4>3. i \in 1 .. Len(T)
        BY ONLY <2>2, <4>2
      <4>4. T[i] \in R
        BY ONLY <4>2, <4>3, ElementOfSeq
      <4>5. T[i].object \in Object
        BY ONLY <4>1, <4>4
      <4>. QED
        BY ONLY <1>1, <2>2, <4>5 DEF RunsOK
    <3>2. Target(C, C[T[i].n].on) = Server(T[i].object)
      BY <1>1 DEF AimOK
    <3>3. Server(T[i].object) # Promise(n)
      BY <3>1, Clients
    <3>. QED
      BY <1>11, <3>1, <3>2, <3>3
  <2>. QED
    BY <2>1, <2>2 DEF AimOK
<1>16. OrderOK(D, T, q)
  <2> SUFFICES ASSUME NEW n1 \in DOMAIN C, NEW n2 \in DOMAIN C, Behind(D, n1, n2)
               PROVE  /\ \A i, j \in DOMAIN T : T[i].n = n1 /\ T[j].n = n2 => i < j
                      /\ Ran(T, n2) => D[n1].place # "queued"
                      /\ \A m \in DOMAIN D : Before(D[m].queue, n1, n2)
                      /\ In(n1, q) /\ D[n2].place = "queued" => In(n2, q)
                      /\ Before(q, n1, n2)
    BY <1>3 DEF OrderOK
  <2>1. Behind(C, n1, n2)
    BY <1>3 DEF Behind
  <2>2. /\ \A i, j \in DOMAIN T : T[i].n = n1 /\ T[j].n = n2 => i < j
        /\ Ran(T, n2) => C[n1].place # "queued"
        /\ \A m \in DOMAIN C : Before(C[m].queue, n1, n2)
    BY <1>1, <2>1 DEF OrderOK
  <2>3. \A m \in DOMAIN D : Before(D[m].queue, n1, n2)
    BY <1>3, <1>5, <2>2, EmptyAir
  <2>4. ASSUME In(n1, q), D[n2].place = "queued" PROVE In(n2, q)
    <3>1. Target(C, C[n1].on) = Promise(n)
      BY <1>8, <1>9, <2>4
    <3>2. C[n2].place = "queued" /\ Target(C, C[n2].on) = Promise(C[n2].at)
      BY <1>5, <1>8, <2>4
    <3>3. C[n1].on = C[n2].on
      BY <2>1 DEF Behind
    <3>4. C[n2].at = n
      BY <3>1, <3>2, <3>3, Clients
    <3>. QED
      BY <1>10, <3>2, <3>4
  <2>5. Ran(T, n2) => D[n1].place # "queued"
    BY <1>5, <2>2
  <2>6. Before(q, n1, n2)
    BY <2>2
  <2>. QED
    BY <2>2, <2>3, <2>4, <2>5, <2>6
<1>. QED
  BY <1>2, <1>4, <1>6, <1>7, <1>12, <1>13, <1>14, <1>15, <1>16 DEF Sound

\* The record of a call whose promise is resolved.
LEMMA ResolvedFacts ==
  ASSUME NEW c, c \in CallRecord, NEW r, r \in Client, NEW d, d = Resolved(c, r)
  PROVE  /\ d \in CallRecord /\ d.queue = <<>> /\ d.answer = r /\ d.place = "over"
         /\ d.on = c.on /\ d.arg = c.arg /\ d.during = c.during /\ d.res = c.res
<1>1. d = [c EXCEPT !.answer = r, !.out = "fulfilled", !.place = "over", !.queue = <<>>]
  BY DEF Resolved, EmptyQueue
<1>2. PICK q, a : q = <<>> /\ a = r
  OBVIOUS
<1>3. /\ q \in Seq(Call) /\ a \in Client \cup {NoAnswer}
      /\ "over" \in {"queued", "running", "returned", "threw", "over"}
  BY <1>2
<1>4. d = [c EXCEPT !.answer = a, !.out = "fulfilled", !.place = "over", !.queue = q]
  BY <1>1, <1>2
<1>5. /\ d \in CallRecord /\ d.queue = q /\ d.answer = a /\ d.place = "over"
      /\ d.on = c.on /\ d.arg = c.arg /\ d.during = c.during /\ d.res = c.res
  BY ONLY c \in CallRecord, <1>3, <1>4 DEF CallRecord
<1>. QED
  BY <1>2, <1>5

\* Fulfiller.fulfill() for a call whose method returned: the queue is flushed, and nothing is
\* left in the air.
LEMMA Fulfils ==
  ASSUME NEW C, NEW T, Sound(C, T, <<>>), NEW n, n \in DOMAIN C,
         C[n].place \in {"running", "returned"}, NEW r, Known(C, r), Earlier(r, n),
         NEW b, b \in CallRecord, b.on = C[n].on, b.arg = C[n].arg, b.during = C[n].during,
         b.queue = C[n].queue, b.res = C[n].res, NEW B, B = With(C, n, b),
         NEW s, s = Fulfilled(State(B, T), n, r)
  PROVE  Sound(s.calls, s.delivered, <<>>)
<1>1. /\ C \in Seq(CallRecord) /\ C[n] \in CallRecord /\ RecordOK(C[n], n)
  BY CallFacts DEF Sound
<1>2. PICK d : d = Resolved(b, r)
  OBVIOUS
<1>3. /\ d \in CallRecord /\ d.queue = <<>> /\ d.answer = r /\ d.place = "over"
      /\ d.on = b.on /\ d.arg = b.arg /\ d.during = b.during /\ d.res = b.res
  <2>1. r \in Client
    BY DEF Known
  <2>. QED
    BY <1>2, <2>1, ResolvedFacts
<1>4. SameCall(d, C[n]) /\ Earlier(d.res, n)
  BY <1>1, <1>3 DEF SameCall, RecordOK
<1>5. PICK D, q : D = With(C, n, d) /\ q = C[n].queue
  OBVIOUS
<1>6. /\ Sound(D, T, q) /\ q \in Seq(Call) /\ Known(D, r) /\ n \in Call
      /\ \A x : In(x, q) => Target(D, D[x].on) = Target(D, r)
  <2>1. /\ Sound(C, T, <<>>) /\ n \in DOMAIN C /\ C[n].place \in {"running", "returned"}
        /\ Known(C, r) /\ Earlier(r, n)
    OBVIOUS
  <2>. QED
    BY ONLY <1>3, <1>4, <1>5, <2>1, Resolves
<1>7. s = Flush(State(D, T), q, r, n)
  <2>1. PICK S : S = State(B, T)
    OBVIOUS
  <2>2. S.calls = B /\ \A E : [S EXCEPT !.calls = E] = State(E, T)
    BY ONLY <2>1 DEF State
  <2>3. s = Flush([S EXCEPT !.calls = [S.calls EXCEPT ![n] = Resolved(S.calls[n], r)]],
                  S.calls[n].queue, r, n)
    BY <2>1 DEF Fulfilled, FlushOrder
  <2>4. B[n] = b /\ [B EXCEPT ![n] = d] = D
    BY <1>1, <1>5 DEF With
  <2>5. S.calls[n].queue = q /\ [S.calls EXCEPT ![n] = Resolved(S.calls[n], r)] = D
    BY <1>2, <1>5, <2>2, <2>4
  <2>6. [S EXCEPT !.calls = [S.calls EXCEPT ![n] = Resolved(S.calls[n], r)]] = State(D, T)
    BY <2>2, <2>5
  <2>. QED
    BY ONLY <2>3, <2>5, <2>6
<1>. QED
  BY <1>6, <1>7, FlushKeeps

\* A new call is made and placed in one step.
LEMMA KeepsCallClient ==
  ASSUME LocalInv, NEW c \in {Server(0)} \cup Made, NEW arg \in {NullClient} \cup Made,
         NEW eager \in Eager, CallClient(c, arg, eager)
  PROVE  LocalInv'
<1>1. PICK C, T : C = calls /\ T = delivered
  OBVIOUS
<1>2. PICK e, during : e = eager /\ during = 0
  OBVIOUS
<1>3. PICK w, m, v, D : /\ w = <<>> /\ m = Len(C) + 1 /\ v = InFront(m, w)
                        /\ D = WithCall(C, c, arg, e, during)
  OBVIOUS
<1>4. Sound(C, T, w) /\ C \in Seq(CallRecord) /\ Len(C) \in Nat
  BY <1>1, <1>3 DEF LocalInv, Sound, CallsOK
<1>5. Known(C, c) /\ Known(C, arg)
  <2>1. \A l \in DOMAIN C : l \in Call
    BY <1>4, CallFacts DEF Sound
  <2>2. 0 \in Object
    BY DEF Object
  <2>3. ASSUME NEW x, x \in Made PROVE Known(C, x)
    <3>1. PICK l \in DOMAIN C : x = Promise(l)
      BY <1>1, <2>3 DEF Made
    <3>. QED
      BY <2>1, <3>1, Clients DEF Known
  <2>4. Known(C, Server(0)) /\ Known(C, NullClient)
    BY <2>2, Clients DEF Known
  <2>. QED
    BY <2>3, <2>4
<1>6. /\ w \in Seq(Call) /\ Len(C) < MaxCalls /\ e \in BOOLEAN /\ during \in Call \cup {0}
      /\ (during = 0 => w = <<>>) /\ m = Len(C) + 1
  BY <1>1, <1>2, <1>3, EagerAssumption DEF CallClient
<1>7. /\ Sound(D, T, v) /\ Taken(v, w, m) /\ StaysAimed(C, D)
      /\ m \in DOMAIN D /\ D[m].on = c /\ DOMAIN C \subseteq DOMAIN D
      /\ \A l \in DOMAIN C : D[l] = C[l]
      /\ Newest(D, m)
  <2>1. v = InFront(m, w) /\ D = WithCall(C, c, arg, e, during)
    BY <1>3
  <2>. QED
    BY ONLY <1>4, <1>5, <1>6, <2>1, MakesCall
<1>8. PICK hop, s : hop = 0 /\ s = Dispatched(State(D, T), m, c, hop, during)
  OBVIOUS
<1>9. calls' = s.calls /\ delivered' = s.delivered
  <2>1. [calls |-> Append(calls, NewCall(c, arg, eager, 0)), delivered |-> delivered] = State(D, T)
    BY <1>1, <1>2, <1>3 DEF State, WithCall
  <2>. QED
    BY <1>1, <1>2, <1>3, <1>8, <2>1 DEF CallClient, Run
<1>10. hop \in {0, 1} /\ Known(D, c) /\ Target(D, D[m].on) = Target(D, c)
  BY <1>5, <1>7, <1>8 DEF StaysAimed
<1>11. IsState(s) /\ Sound(s.calls, s.delivered, w)
  BY ONLY <1>6, <1>7, <1>8, <1>10, Dispatches
<1>. QED
  BY <1>3, <1>9, <1>11 DEF LocalInv

\* A method throws: nobody but the innermost Fulfiller of the call is told.
LEMMA KeepsThrows ==
  ASSUME LocalInv, NEW n, n \in DOMAIN calls, Throws(n)
  PROVE  LocalInv'
<1>1. PICK C, T, d : C = calls /\ T = delivered /\ d = Rejected(C[n])
  OBVIOUS
<1>2. Sound(C, T, <<>>) /\ n \in DOMAIN C /\ C[n].place = "running"
  BY <1>1 DEF LocalInv, Throws
<1>3. C[n] \in CallRecord /\ RecordOK(C[n], n)
  BY <1>2, CallFacts DEF Sound
<1>4. /\ d \in CallRecord /\ d.queue = C[n].queue /\ d.answer = C[n].answer /\ d.res = C[n].res
      /\ d.place \in {"over", "threw"} /\ (d.place = "threw" => d.hops # 0)
      /\ (d.out = "fulfilled" => C[n].out = "fulfilled")
      /\ d.on = C[n].on /\ d.arg = C[n].arg /\ d.during = C[n].during
  BY <1>1, <1>3, RejectedFacts
<1>5. SameCall(d, C[n]) /\ Earlier(d.res, n)
  BY <1>3, <1>4 DEF SameCall, RecordOK
<1>6. PICK D : D = With(C, n, d)
  OBVIOUS
<1>7. Sound(D, T, <<>>)
  BY <1>2, <1>4, <1>5, <1>6, GoesOn
<1>8. calls' = D /\ delivered' = T
  BY <1>1, <1>6 DEF Throws, With
<1>. QED
  BY <1>7, <1>8 DEF LocalInv

\* A method returns: its promise is resolved, or the result is on its way back.
LEMMA KeepsReturns ==
  ASSUME LocalInv, NEW n, n \in DOMAIN calls, NEW r, r \in Results(n), Returns(n, r)
  PROVE  LocalInv'
<1>1. PICK C, T : C = calls /\ T = delivered
  OBVIOUS
<1>2. Sound(C, T, <<>>) /\ n \in DOMAIN C /\ C[n].place = "running"
  BY <1>1 DEF LocalInv, Returns
<1>3. C[n] \in CallRecord /\ RecordOK(C[n], n) /\ Known(C, C[n].arg) /\ C \in Seq(CallRecord)
  BY <1>2, CallFacts DEF Sound
<1>4. Known(C, r) /\ Earlier(r, n)
  <2>1. r \in {NullClient, Server(1), C[n].arg} /\ 1 \in Object
    BY <1>1 DEF Results, Object
  <2>2. CASE r = C[n].arg
    BY <1>3, <2>2 DEF RecordOK
  <2>3. CASE r # C[n].arg
    BY <2>1, <2>3, Clients DEF Known, Earlier
  <2>. QED
    BY <2>2, <2>3
<1>5. State(C, T) = [calls |-> calls, delivered |-> delivered]
  BY <1>1 DEF State
<1>6. CASE C[n].hops = 0
  <2>1. PICK s : s = Fulfilled(State(C, T), n, r)
    OBVIOUS
  <2>2. calls' = s.calls /\ delivered' = s.delivered
    BY <1>1, <1>5, <1>6, <2>1 DEF Returns, Run
  <2>3. PICK b : b = C[n]
    OBVIOUS
  <2>4. /\ b \in CallRecord /\ b.on = C[n].on /\ b.arg = C[n].arg /\ b.during = C[n].during
        /\ b.queue = C[n].queue /\ b.res = C[n].res
    BY <1>3, <2>3
  <2>5. C = With(C, n, b)
    BY <1>3, <2>3 DEF With
  <2>6. C[n].place \in {"running", "returned"}
    BY <1>2
  <2>7. Sound(s.calls, s.delivered, <<>>)
    BY ONLY <1>2, <1>4, <2>1, <2>4, <2>5, <2>6, Fulfils
  <2>. QED
    BY <2>2, <2>7 DEF LocalInv
<1>7. CASE C[n].hops # 0
  <2>1. PICK d : d = [C[n] EXCEPT !.place = "returned", !.res = r]
    OBVIOUS
  <2>2. /\ d \in CallRecord /\ d.queue = C[n].queue /\ d.answer = C[n].answer /\ d.res = r
        /\ d.place = "returned" /\ d.hops = C[n].hops
        /\ d.on = C[n].on /\ d.arg = C[n].arg /\ d.during = C[n].during
    BY <1>3, <1>4, <2>1 DEF CallRecord, Known
  <2>3. SameCall(d, C[n]) /\ Earlier(d.res, n) /\ d.hops # 0
    BY <1>4, <1>7, <2>2 DEF SameCall
  <2>4. PICK D : D = With(C, n, d)
    OBVIOUS
  <2>5. Sound(D, T, <<>>)
    BY <1>2, <2>2, <2>3, <2>4, GoesOn
  <2>6. calls' = D /\ delivered' = T
    <3>1. PICK S : S = State(C, T)
      OBVIOUS
    <3>2. /\ S.calls = C /\ S.delivered = T
          /\ \A E : [S EXCEPT !.calls = E].calls = E /\ [S EXCEPT !.calls = E].delivered = T
      BY ONLY <3>1 DEF State
    <3>3. PICK s : s = [S EXCEPT !.calls[n].place = "returned", !.calls[n].res = r]
      OBVIOUS
    <3>4. calls' = s.calls /\ delivered' = s.delivered
      BY <1>1, <1>5, <1>7, <3>1, <3>3 DEF Returns, Run
    <3>5. s.delivered = T /\ s.calls = [S.calls EXCEPT ![n].place = "returned", ![n].res = r]
      BY ONLY <3>2, <3>3
    <3>6. [C EXCEPT ![n].place = "returned", ![n].res = r] = D
      BY <1>2, <1>3, <2>1, <2>4 DEF With
    <3>. QED
      BY <3>2, <3>4, <3>5, <3>6
  <2>. QED
    BY <2>5, <2>6 DEF LocalInv
<1>. QED
  BY <1>6, <1>7

\* The result or the exception of a call reaches the Fulfiller one further out.
LEMMA KeepsJoins ==
  ASSUME LocalInv, NEW n, n \in DOMAIN calls, Joins(n)
  PROVE  LocalInv'
<1>1. PICK C, T, b : C = calls /\ T = delivered /\ b = JoinStep(C[n])
  OBVIOUS
<1>2. Sound(C, T, <<>>) /\ n \in DOMAIN C /\ C[n].place \in {"returned", "threw"}
  BY <1>1 DEF LocalInv, Joins
<1>3. /\ C[n] \in CallRecord /\ RecordOK(C[n], n) /\ Known(C, C[n].res) /\ C \in Seq(CallRecord)
      /\ C[n].hops - 1 \in Nat
  <2>1. C[n] \in CallRecord /\ RecordOK(C[n], n) /\ Known(C, C[n].res) /\ C \in Seq(CallRecord)
    BY <1>2, CallFacts DEF Sound
  <2>2. C[n].hops \in Nat /\ C[n].hops # 0
    BY <1>2, <2>1 DEF CallRecord, RecordOK
  <2>. QED
    BY <2>1, <2>2
<1>4. /\ b \in CallRecord /\ b.queue = C[n].queue /\ b.answer = C[n].answer /\ b.res = C[n].res
      /\ b.place = C[n].place /\ b.out = C[n].out
      /\ b.on = C[n].on /\ b.arg = C[n].arg /\ b.during = C[n].during
  <2>1. PICK h : h = C[n].hops - 1
    OBVIOUS
  <2>2. b = [C[n] EXCEPT !.hops = h] /\ h \in Nat
    BY <1>1, <1>3, <2>1 DEF JoinStep
  <2>. QED
    BY <1>3, <2>2 DEF CallRecord
<1>5. PICK B : B = With(C, n, b)
  OBVIOUS
<1>6. PICK S : S = State(B, T)
  OBVIOUS
<1>7. /\ S.calls = B /\ S.delivered = T /\ B[n] = b
      /\ \A d : [S EXCEPT !.calls = [S.calls EXCEPT ![n] = d]] = State(With(C, n, d), T)
  <2>1. S.calls = B /\ S.delivered = T /\ \A E : [S EXCEPT !.calls = E] = State(E, T)
    BY ONLY <1>6 DEF State
  <2>2. B[n] = b /\ \A d : [B EXCEPT ![n] = d] = With(C, n, d)
    BY <1>2, <1>3, <1>5 DEF With
  <2>. QED
    BY ONLY <2>1, <2>2
<1>8. [calls |-> [calls EXCEPT ![n] = JoinStep(calls[n])], delivered |-> delivered] = S
  BY <1>1, <1>5, <1>6 DEF State, With
<1>9. Run(IF C[n].place = "threw" THEN [S EXCEPT !.calls = [S.calls EXCEPT ![n] = Rejected(S.calls[n])]]
          ELSE IF S.calls[n].hops = 0 THEN Fulfilled(S, n, C[n].res)
          ELSE S)
  BY <1>1, <1>8 DEF Joins
<1>10. CASE C[n].place = "threw"
  <2>1. PICK d : d = Rejected(b)
    OBVIOUS
  <2>2. /\ d \in CallRecord /\ d.queue = C[n].queue /\ d.answer = C[n].answer /\ d.res = C[n].res
        /\ d.place \in {"over", "threw"} /\ (d.place = "threw" => d.hops # 0)
        /\ (d.out = "fulfilled" => C[n].out = "fulfilled")
        /\ d.on = C[n].on /\ d.arg = C[n].arg /\ d.during = C[n].during
    <3>1. /\ d \in CallRecord /\ d.queue = b.queue /\ d.on = b.on /\ d.arg = b.arg
          /\ d.answer = b.answer /\ d.during = b.during /\ d.res = b.res
          /\ d.place \in {"over", "threw"} /\ d.hops = b.hops
          /\ (d.place = "threw" => b.hops # 0) /\ (d.out = "fulfilled" => b.out = "fulfilled")
      BY ONLY <1>4, <2>1, RejectedFacts
    <3>. QED
      BY <1>4, <3>1
  <2>3. SameCall(d, C[n]) /\ Earlier(d.res, n)
    BY <1>3, <2>2 DEF SameCall, RecordOK
  <2>4. PICK D : D = With(C, n, d)
    OBVIOUS
  <2>5. Sound(D, T, <<>>)
    BY <1>2, <2>2, <2>3, <2>4, GoesOn
  <2>6. calls' = D /\ delivered' = T
    <3>1. Run(State(D, T))
      BY <1>7, <1>9, <1>10, <2>1, <2>4
    <3>. QED
      BY <3>1 DEF Run, State
  <2>. QED
    BY <2>5, <2>6 DEF LocalInv
<1>11. CASE C[n].place # "threw" /\ b.hops = 0
  <2>1. PICK s : s = Fulfilled(State(B, T), n, C[n].res)
    OBVIOUS
  <2>2. calls' = s.calls /\ delivered' = s.delivered
    BY <1>6, <1>7, <1>9, <1>11, <2>1 DEF Run
  <2>3. C[n].place \in {"running", "returned"} /\ Earlier(C[n].res, n)
    BY <1>2, <1>3, <1>11 DEF RecordOK
  <2>4. Sound(s.calls, s.delivered, <<>>)
    BY ONLY <1>2, <1>3, <1>4, <1>5, <2>1, <2>3, Fulfils
  <2>. QED
    BY <2>2, <2>4 DEF LocalInv
<1>12. CASE C[n].place # "threw" /\ b.hops # 0
  <2>1. SameCall(b, C[n]) /\ Earlier(b.res, n)
    BY <1>2, <1>3, <1>4 DEF SameCall, RecordOK
  <2>2. Sound(B, T, <<>>)
    BY <1>2, <1>4, <1>5, <1>12, <2>1, GoesOn
  <2>3. calls' = B /\ delivered' = T
    BY <1>7, <1>9, <1>12 DEF Run
  <2>. QED
    BY <2>2, <2>3 DEF LocalInv
<1>. QED
  BY <1>10, <1>11, <1>12

\* Between two steps no call is in the air, and the calls, the log and the queues agree:
\* the inductive invariant of Fulfiller, EmbargoClient and the local answers.
THEOREM Invariant == Spec => []LocalInv
<1>1. Init => LocalInv
  <2> SUFFICES ASSUME Init PROVE LocalInv
    OBVIOUS
  <2>1. PICK C, T : C = calls /\ T = delivered
    OBVIOUS
  <2>2. C = <<>> /\ T = <<>>
    BY <2>1 DEF Init
  <2>3. DOMAIN C = {} /\ DOMAIN T = {} /\ C \in Seq(CallRecord) /\ Len(C) = 0
        /\ T \in Seq([n : Call, object : Object])
    BY <2>2
  <2>4. CallsOK(C)
    BY <2>3, BoundsAssumption DEF CallsOK
  <2>5. RunsOK(C, T)
    BY <2>3 DEF RunsOK
  <2>6. QueuesOK(C, <<>>)
    BY <2>3, EmptyAir DEF QueuesOK
  <2>7. AimOK(C, T, <<>>) /\ OrderOK(C, T, <<>>)
    BY <2>3 DEF AimOK, OrderOK
  <2>. QED
    BY <2>1, <2>4, <2>5, <2>6, <2>7 DEF LocalInv, Sound
<1>2. LocalInv /\ [Next]_vars => LocalInv'
  <2> SUFFICES ASSUME LocalInv, [Next]_vars PROVE LocalInv'
    OBVIOUS
  <2>1. ASSUME NEW c \in {Server(0)} \cup Made, NEW arg \in {NullClient} \cup Made,
               NEW eager \in Eager, CallClient(c, arg, eager)
        PROVE  LocalInv'
    BY <2>1, KeepsCallClient
  <2>2. ASSUME NEW n, Ends(n) PROVE LocalInv'
    BY <2>2, KeepsThrows, KeepsReturns DEF Ends
  <2>3. ASSUME NEW n, Callback(n) PROVE LocalInv'
    BY <2>3, KeepsJoins DEF Callback
  <2>4. CASE UNCHANGED vars
    BY <2>4 DEF LocalInv, vars
  <2>. QED
    BY <2>1, <2>2, <2>3, <2>4 DEF Next
<1>. QED
  BY <1>1, <1>2, PTL DEF Spec

-----------------------------------------------------------------------------
(* What follows from it. *)

\* The calls and the log keep their types and their bounds.
THEOREM TypeCorrect == Spec => []TypeOK
<1>1. LocalInv => TypeOK
  <2> SUFFICES ASSUME LocalInv PROVE TypeOK
    OBVIOUS
  <2>1. /\ calls \in Seq(CallRecord) /\ Len(calls) <= MaxCalls
        /\ \A n \in DOMAIN calls : RecordOK(calls[n], n)
        /\ delivered \in Seq([n : Call, object : Object])
    BY DEF LocalInv, Sound, CallsOK, RunsOK
  <2>. QED
    BY <2>1 DEF TypeOK, RecordOK
<1>. QED
  BY <1>1, Invariant, PTL

\* A method is started at most once.
LEMMA StartsFacts ==
  ASSUME LocalInv, NEW n
  PROVE  /\ \A i, j \in Starts(n) : i = j
         /\ Starts(n) # {} <=> Ran(delivered, n)
         /\ \A i \in Starts(n) : Starts(n) = {i}
<1>1. \A i, j \in Starts(n) : i = j
  BY DEF Starts, LocalInv, Sound, RunsOK
<1>2. Starts(n) # {} <=> Ran(delivered, n)
  BY DEF Starts, Ran
<1>. QED
  BY <1>1, <1>2

\* However often a flush queues a call again, its method is started at most once, and a
\* caller has results only of a method that was started.
THEOREM StartedOnce == Spec => []RunOnce
<1>1. LocalInv => RunOnce
  <2> SUFFICES ASSUME LocalInv, NEW n \in DOMAIN calls
               PROVE  /\ Cardinality(Starts(n)) <= 1
                      /\ calls[n].out = "fulfilled" => Starts(n) # {}
    BY DEF RunOnce
  <2>1. Cardinality(Starts(n)) <= 1
    <3>1. CASE Starts(n) = {}
      BY <3>1, FS_EmptySet
    <3>2. CASE Starts(n) # {}
      <4>1. PICK i : i \in Starts(n)
        BY <3>2
      <4>2. Starts(n) = {i}
        BY <4>1, StartsFacts
      <4>. QED
        BY <4>2, FS_Singleton
    <3>. QED
      BY <3>1, <3>2
  <2>2. calls[n].out = "fulfilled" => Ran(delivered, n)
    BY DEF LocalInv, Sound, RunsOK
  <2>. QED
    BY <2>1, <2>2, StartsFacts
<1>. QED
  BY <1>1, Invariant, PTL

\* A call that waits is in the queue of one Fulfiller, once, and that Fulfiller has no
\* answer; any other call is in none: what flushQueue() and Fulfiller.call() must keep.
THEOREM QueuedOnce == Spec => []QueuedInOnePlace
<1>1. LocalInv => QueuedInOnePlace
  <2> SUFFICES ASSUME LocalInv, NEW n \in DOMAIN calls, NEW places,
                      places = {p \in Call \X (1 .. CallQueueSize) :
                                  /\ p[1] \in DOMAIN calls /\ p[2] \in DOMAIN calls[p[1]].queue
                                  /\ calls[p[1]].queue[p[2]] = n}
               PROVE  IF calls[n].place = "queued"
                      THEN /\ \E j \in 1 .. CallQueueSize : places = {<<calls[n].at, j>>}
                           /\ calls[calls[n].at].answer = NoAnswer
                      ELSE places = {}
    BY DEF QueuedInOnePlace
  <2>1. CallsOK(calls) /\ QueuesOK(calls, <<>>)
    BY DEF LocalInv, Sound
  <2>2. \A m \in DOMAIN calls : \A j \in DOMAIN calls[m].queue :
          calls[m].queue[j] = n => calls[n].place = "queued" /\ calls[n].at = m
    BY <2>1 DEF QueuesOK
  <2>3. ASSUME calls[n].place # "queued" PROVE places = {}
    BY <2>2, <2>3
  <2>4. ASSUME calls[n].place = "queued"
        PROVE  /\ \E j \in 1 .. CallQueueSize : places = {<<calls[n].at, j>>}
               /\ calls[calls[n].at].answer = NoAnswer
    <3>1. PICK m : m = calls[n].at
      OBVIOUS
    <3>2. m \in DOMAIN calls /\ In(n, calls[m].queue)
      BY <2>1, <2>4, <3>1, EmptyAir DEF QueuesOK
    <3>3. PICK j \in DOMAIN calls[m].queue : calls[m].queue[j] = n
      BY <3>2 DEF In
    <3>4. /\ calls[m] \in CallRecord /\ m \in Call /\ RecordOK(calls[m], m)
      BY <2>1, <3>2, CallFacts
    <3>5. j \in 1 .. CallQueueSize
      <4>1. calls[m].queue \in Seq(Call) /\ Len(calls[m].queue) <= CallQueueSize
        BY <3>4 DEF CallRecord, RecordOK
      <4>. QED
        BY <3>3, <4>1, BoundsAssumption
    <3>6. <<m, j>> \in places
      BY <3>2, <3>3, <3>4, <3>5
    <3>7. ASSUME NEW p \in places PROVE p = <<m, j>>
      <4>1. PICK a \in Call, k \in 1 .. CallQueueSize : p = <<a, k>>
        OBVIOUS
      <4>2. a \in DOMAIN calls /\ k \in DOMAIN calls[a].queue /\ calls[a].queue[k] = n
        BY <3>7, <4>1
      <4>3. a = m
        BY <2>2, <3>1, <4>2
      <4>4. Distinct(calls[m].queue)
        BY <2>1, <3>2 DEF QueuesOK
      <4>5. k = j
        BY <3>3, <4>2, <4>3, <4>4 DEF Distinct
      <4>. QED
        BY <4>1, <4>3, <4>5
    <3>8. places = {<<m, j>>}
      BY <3>6, <3>7
    <3>9. calls[m].answer = NoAnswer
      BY <3>3, <3>4 DEF RecordOK
    <3>. QED
      BY <3>1, <3>5, <3>8, <3>9
  <2>. QED
    BY <2>3, <2>4
<1>. QED
  BY <1>1, Invariant, PTL

\* Calls on one promise are started in the order in which they were made, however often
\* they were queued on the way, but for a call that a method makes during the flush.
THEOREM StartedInOrder == Spec => []OrderedUnlessReentrant
<1>1. LocalInv => OrderedUnlessReentrant
  <2> SUFFICES ASSUME LocalInv, NEW n1 \in DOMAIN calls, NEW n2 \in DOMAIN calls,
                      n1 < n2, calls[n1].on = calls[n2].on, calls[n1].on.k = "promise",
                      Starts(n1) # {}, Starts(n2) # {}, calls[n2].during = 0
               PROVE  Started(n1) < Started(n2)
    BY DEF OrderedUnlessReentrant
  <2>1. Started(n1) \in Starts(n1) /\ Started(n2) \in Starts(n2)
    BY DEF Started
  <2>2. Behind(calls, n1, n2)
    BY DEF Behind
  <2>3. \A i, j \in DOMAIN delivered : delivered[i].n = n1 /\ delivered[j].n = n2 => i < j
    BY <2>2 DEF LocalInv, Sound, OrderOK
  <2>. QED
    BY <2>1, <2>3 DEF Starts
<1>. QED
  BY <1>1, Invariant, PTL

\* The unfolding of ResolvesTo.
LEMMA ResolvesToIs ==
  ASSUME NEW C, C = calls, Linked(C)
  PROVE  /\ \A c : c.k # "promise" => ResolvesTo(c) = c
         /\ \A m \in DOMAIN C : ResolvesTo(Promise(m)) =
              IF C[m].answer.k = "promise" THEN ResolvesTo(C[m].answer) ELSE C[m].answer
<1> DEFINE R(f) == [m \in DOMAIN calls |->
                     LET a == calls[m].answer IN IF a.k = "promise" THEN f[a.i] ELSE a]
           server == CHOOSE f : f = R(f)
<1>1. \A c : ResolvesTo(c) = IF c.k = "promise" THEN server[c.i] ELSE c
  BY DEF ResolvesTo
<1>2. Len(C) \in Nat /\ DOMAIN C = 1 .. Len(C)
  BY DEF Linked
<1>3. PICK stop : stop = {m \in DOMAIN C : C[m].answer.k # "promise"}
  OBVIOUS
<1>4. PICK base : base = [m \in DOMAIN C |-> C[m].answer]
  OBVIOUS
<1>5. PICK link : link = [m \in DOMAIN C |-> C[m].answer.i]
  OBVIOUS
<1>6. \A m \in 1 .. Len(C) : m \in stop \/ link[m] \in 1 .. m - 1
  BY <1>2, <1>3, <1>5, AnswerFacts
<1>7. PICK f : Follows(f, stop, base, link, Len(C))
  BY <1>2, <1>6, FollowsExists
<1>8. f = R(f)
  <2>1. f = [m \in DOMAIN C |-> f[m]]
    BY <1>2, <1>7 DEF Follows
  <2>2. ASSUME NEW m \in DOMAIN C PROVE f[m] = R(f)[m]
    <3>1. f[m] = IF m \in stop THEN base[m] ELSE f[link[m]]
      BY <1>2, <1>7 DEF Follows
    <3>2. base[m] = C[m].answer /\ link[m] = C[m].answer.i /\ (m \in stop <=> C[m].answer.k # "promise")
      BY <1>3, <1>4, <1>5
    <3>3. R(f)[m] = (IF C[m].answer.k = "promise" THEN f[C[m].answer.i] ELSE C[m].answer)
      OBVIOUS
    <3> HIDE DEF R
    <3>. QED
      BY <3>1, <3>2, <3>3
  <2>3. R(f) = [m \in DOMAIN C |-> R(f)[m]]
    OBVIOUS
  <2> HIDE DEF R
  <2>. QED
    BY <2>1, <2>2, <2>3
<1>9. server = R(server)
  <2> HIDE DEF R
  <2>. QED
    BY <1>8
<1> HIDE DEF server
<1>10. ASSUME NEW m \in DOMAIN C
       PROVE  ResolvesTo(Promise(m)) =
                IF C[m].answer.k = "promise" THEN ResolvesTo(C[m].answer) ELSE C[m].answer
  <2>1. ResolvesTo(Promise(m)) = server[m]
    BY <1>1, Clients
  <2>2. server[m] = IF C[m].answer.k = "promise" THEN server[C[m].answer.i] ELSE C[m].answer
    BY <1>9
  <2>3. ResolvesTo(C[m].answer) =
          IF C[m].answer.k = "promise" THEN server[C[m].answer.i] ELSE C[m].answer
    BY <1>1
  <2> HIDE DEF R
  <2>. QED
    BY <2>1, <2>2, <2>3
<1>11. \A c : c.k # "promise" => ResolvesTo(c) = c
  BY <1>1
<1>. QED
  BY <1>10, <1>11

\* Where a client leads is what it resolved to, unless that is a promise with no answer.
LEMMA LedIsResolved ==
  ASSUME NEW C, C = calls, Linked(C), NEW c, Known(C, c), Target(C, c).k # "promise"
  PROVE  ResolvesTo(c) = Target(C, c)
<1> DEFINE Agrees(m) == Target(C, Promise(m)).k # "promise" =>
                          ResolvesTo(Promise(m)) = Target(C, Promise(m))
           T == {m \in DOMAIN C : ~Agrees(m)}
<1>1. Len(C) \in Nat /\ DOMAIN C = 1 .. Len(C)
  BY DEF Linked
<1>2. ASSUME NEW m \in DOMAIN C, \A l \in 1 .. m - 1 : Agrees(l) PROVE Agrees(m)
  <2>1. Target(C, Promise(m)) =
          IF C[m].answer = NoAnswer THEN Promise(m) ELSE Target(C, C[m].answer)
    BY TargetIs
  <2>2. ResolvesTo(Promise(m)) =
          IF C[m].answer.k = "promise" THEN ResolvesTo(C[m].answer) ELSE C[m].answer
    BY ResolvesToIs
  <2>3. CASE C[m].answer = NoAnswer
    BY <2>1, <2>3, Clients
  <2>4. CASE C[m].answer # NoAnswer /\ C[m].answer.k = "promise"
    <3>1. PICK l \in 1 .. m - 1 : C[m].answer = Promise(l)
      BY <2>4, AnswerFacts
    <3>. QED
      BY <1>2, <2>1, <2>2, <2>4, <3>1
  <2>5. CASE C[m].answer # NoAnswer /\ C[m].answer.k # "promise"
    BY <2>1, <2>2, <2>5, TargetIs
  <2>. QED
    BY <2>3, <2>4, <2>5
<1>3. ASSUME T # {} PROVE FALSE
  <2>1. PICK m \in T : \A l \in T : m <= l
    <3>1. T \subseteq Nat
      BY <1>1
    <3> HIDE DEF T
    <3>. QED
      BY <1>3, <3>1, LeastNatural
  <2>2. m \in DOMAIN C /\ ~Agrees(m)
    BY <2>1
  <2>3. ASSUME NEW l \in 1 .. m - 1 PROVE Agrees(l)
    <3>1. l \in DOMAIN C /\ l \notin T
      BY <1>1, <2>1, <2>2
    <3> HIDE DEF Agrees
    <3>. QED
      BY <3>1
  <2> HIDE DEF Agrees
  <2>. QED
    BY <1>2, <2>2, <2>3
<1>4. \A m \in DOMAIN C : Agrees(m)
  <2> HIDE DEF Agrees
  <2>. QED
    BY <1>3
<1>5. CASE c.k = "promise"
  BY <1>4, <1>5, Clients DEF Known
<1>6. CASE c.k # "promise"
  BY <1>6, TargetIs, ResolvesToIs
<1>. QED
  BY <1>5, <1>6

\* A call on a promise is started at the server that the promise resolved to, be it by
\* way of other promises, whenever it was made and however often it was queued.
THEOREM StartedAtResolved == Spec => []ReachesResolved
<1>1. LocalInv => ReachesResolved
  <2> SUFFICES ASSUME LocalInv, NEW n \in DOMAIN calls, NEW i \in Starts(n)
               PROVE  ResolvesTo(calls[n].on) = Server(delivered[i].object)
    BY DEF ReachesResolved
  <2>1. CallsOK(calls) /\ RunsOK(calls, delivered) /\ AimOK(calls, delivered, <<>>)
    BY DEF LocalInv, Sound
  <2>2. Linked(calls) /\ Known(calls, calls[n].on)
    BY <2>1, CallFacts
  <2>3. i \in DOMAIN delivered /\ delivered[i].n = n
    BY DEF Starts
  <2>4. delivered[i].object \in Object
    <3>1. delivered \in Seq([n : Call, object : Object])
      BY <2>1 DEF RunsOK
    <3>2. PICK S : S = [n : Call, object : Object]
      OBVIOUS
    <3>3. delivered \in Seq(S) /\ i \in 1 .. Len(delivered)
      BY <2>3, <3>1, <3>2
    <3>4. delivered[i] \in S
      BY <3>3, ElementOfSeq
    <3>. QED
      BY <3>2, <3>4
  <2>5. Target(calls, calls[n].on) = Server(delivered[i].object)
    BY <2>1, <2>3 DEF AimOK
  <2>6. Target(calls, calls[n].on).k # "promise"
    BY <2>4, <2>5, Clients
  <2>. QED
    BY <2>2, <2>5, <2>6, LedIsResolved
<1>. QED
  BY <1>1, Invariant, PTL
=============================================================================
