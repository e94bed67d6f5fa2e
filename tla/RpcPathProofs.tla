--------------------------- MODULE RpcPathProofs ---------------------------
(***************************************************************************)
(* A call on a promise reaches the server that the result of the promise   *)
(* designates (ReachesDesignated), and the calls that take one way from    *)
(* one reference are started in the order they were made                   *)
(* (OrderedOnOneRoute), for any number of calls: by PathsInv.  Its first   *)
(* parts are proved of any tables and channels, one change at a time       *)
(* (PathOK); ClaimsAgree by what a step adds to the Claims of a call.      *)
(* Each action is then a choice of such changes, and Agreeing is what all  *)
(* of them start from.                                                     *)
(***************************************************************************)
EXTENDS RpcRunProofs

-----------------------------------------------------------------------------
(* Ids: what an id stands for, at the vat that asks and on the way. *)

LEMMA AfterTail ==
  ASSUME NEW s \in Seq(Message), s # <<>>, NEW t, t = Tail(s)
  PROVE  /\ t \in Seq(Message) /\ Len(s) \in Nat /\ Len(t) = Len(s) - 1 /\ 1 \in DOMAIN s
         /\ DOMAIN t \subseteq Nat \ {0} /\ DOMAIN s \subseteq Nat \ {0}
         /\ \A j \in DOMAIN t : j + 1 \in DOMAIN s /\ t[j] = s[j + 1]
         /\ \A j \in DOMAIN s : j # 1 => j - 1 \in DOMAIN t /\ s[j] = t[j - 1]
OBVIOUS

LEMMA AfterSend ==
  ASSUME NEW s \in Seq(Message), NEW m \in Message, NEW t, t = s \o <<m>>
  PROVE  /\ t \in Seq(Message) /\ Len(s) \in Nat /\ Len(t) = Len(s) + 1
         /\ DOMAIN t = DOMAIN s \cup {Len(s) + 1} /\ t[Len(s) + 1] = m
         /\ DOMAIN s \subseteq Nat \ {0}
         /\ \A j \in DOMAIN s : t[j] = s[j] /\ j < Len(s) + 1
OBVIOUS

\* A Finish behind position i of the channel, when its head is read.
LEMMA FinishedTail ==
  ASSUME NEW s \in Seq(Message), s # <<>>, NEW t, t = Tail(s), NEW id, NEW i \in Nat, NEW j \in Nat,
         NEW k, k = i + 1, NEW l, l = j + 1, Finished(s, id, k, l)
  PROVE  Finished(t, id, i, j)
<1>1. PICK x \in DOMAIN s : k < x /\ x < l /\ s[x].k = "finish" /\ s[x].id = id
  BY DEF Finished
<1>2. x \in Nat \ {0} /\ x # 1
  BY <1>1, AfterTail
<1>3. x - 1 \in DOMAIN t /\ s[x] = t[x - 1]
  BY <1>1, <1>2, AfterTail
<1>. QED
  BY <1>1, <1>2, <1>3 DEF Finished

LEMMA FinishedNotFirst ==
  ASSUME NEW s \in Seq(Message), s # <<>>, NEW t, t = Tail(s), NEW id, NEW j \in Nat, NEW l, l = j + 1,
         Finished(s, id, 0, l), Head(s).k # "finish" \/ Head(s).id # id
  PROVE  Finished(t, id, 0, j)
<1>1. PICK x \in DOMAIN s : x < l /\ s[x].k = "finish" /\ s[x].id = id
  BY DEF Finished
<1>2. Head(s) = s[1] /\ x # 1 /\ x \in Nat \ {0}
  BY <1>1, AfterTail
<1>3. x - 1 \in DOMAIN t /\ s[x] = t[x - 1] /\ 0 < x - 1 /\ x - 1 < j
  BY <1>1, <1>2, AfterTail
<1>. QED
  BY <1>1, <1>2, <1>3 DEF Finished

LEMMA FinishedSent ==
  ASSUME NEW s \in Seq(Message), NEW m \in Message, NEW t, t = s \o <<m>>, NEW id, NEW i \in Nat,
         NEW j \in Nat, Finished(s, id, i, j), NEW k \in Nat, k >= j
  PROVE  Finished(t, id, i, k)
<1>1. PICK l \in DOMAIN s : i < l /\ l < j /\ s[l].k = "finish" /\ s[l].id = id
  BY DEF Finished
<1>2. l \in DOMAIN t /\ t[l] = s[l] /\ l \in Nat
  BY <1>1, AfterSend
<1>. QED
  BY <1>1, <1>2 DEF Finished

\* What a message h that is read makes of a table of answers: it may add the entry of
\* h, if h asks something, and removes the entry of h, if h is a Finish.
NamesKept(A, B) == \A id \in DOMAIN B : id \in DOMAIN A /\ B[id].n = A[id].n
NamesFrom(A, B, h) ==
  \A id \in DOMAIN B :
    \/ id \in DOMAIN A /\ B[id].n = A[id].n /\ (h.k # "finish" \/ h.id # id)
    \/ h.k \in {"bootstrap", "call"} /\ id = h.id /\ B[id].n = h.n

LEMMA SlotsKept ==
  ASSUME NEW Q, NEW A, NEW B, NEW s, SlotsOK(Q, A, s), NamesKept(A, B)
  PROVE  SlotsOK(Q, B, s)
BY DEF SlotsOK, NamesKept

LEMMA SlotsRead ==
  ASSUME NEW Q, NEW A, NEW B, NEW s \in Seq(Message), s # <<>>, SlotsOK(Q, A, s),
         NamesFrom(A, B, Head(s)), NEW t, t = Tail(s)
  PROVE  SlotsOK(Q, B, t)
<1>0. PICK e, l : e = Len(t) + 1 /\ l = Len(s) + 1
  OBVIOUS
<1>1. Head(s) = s[1] /\ 1 \in DOMAIN s /\ e \in Nat /\ l = e + 1
      /\ 0 \in Nat /\ 1 = 0 + 1
  BY <1>0, AfterTail
<1>2. ASSUME NEW id \in DOMAIN B
      PROVE  Finished(t, id, 0, e) \/ Waits(Q, id, B[id].n)
  <2>1. CASE id \in DOMAIN A /\ B[id].n = A[id].n /\ (Head(s).k # "finish" \/ Head(s).id # id)
    <3>1. Finished(s, id, 0, l) \/ Waits(Q, id, B[id].n)
      BY <1>0, <2>1 DEF SlotsOK
    <3>. QED
      BY <1>1, <2>1, <3>1, FinishedNotFirst
  <2>2. CASE Head(s).k \in {"bootstrap", "call"} /\ id = Head(s).id /\ B[id].n = Head(s).n
    <3>1. Finished(s, id, 1, l) \/ Waits(Q, id, B[id].n)
      BY <1>0, <1>1, <2>2 DEF SlotsOK
    <3>. QED
      BY <1>1, <3>1, FinishedTail
  <2>. QED
    BY <2>1, <2>2 DEF NamesFrom
<1>3. ASSUME NEW k \in DOMAIN t, t[k].k \in {"bootstrap", "call"}
      PROVE  Finished(t, t[k].id, k, e) \/ Waits(Q, t[k].id, t[k].n)
  <2>1. k + 1 \in DOMAIN s /\ t[k] = s[k + 1] /\ k \in Nat
    BY AfterTail
  <2>2. Finished(s, s[k + 1].id, k + 1, l) \/ Waits(Q, s[k + 1].id, s[k + 1].n)
    BY <1>0, <1>3, <2>1 DEF SlotsOK
  <2>3. Finished(s, s[k + 1].id, k + 1, l) => Finished(t, s[k + 1].id, k, e)
    BY <1>1, <2>1, FinishedTail
  <2>. QED
    BY <2>1, <2>2, <2>3
<1>. QED
  BY <1>0, <1>2, <1>3 DEF SlotsOK

\* A message that asks nothing is sent.
LEMMA SlotsSent ==
  ASSUME NEW Q, NEW A, NEW s \in Seq(Message), SlotsOK(Q, A, s), NEW m \in Message,
         m.k \notin {"bootstrap", "call"}, NEW t, t = s \o <<m>>
  PROVE  SlotsOK(Q, A, t)
<1>1. Len(s) + 1 \in Nat /\ Len(t) + 1 \in Nat /\ Len(t) + 1 >= Len(s) + 1
  BY AfterSend
<1>2. \A id \in DOMAIN A : Finished(t, id, 0, Len(t) + 1) \/ Waits(Q, id, A[id].n)
  BY <1>1, FinishedSent DEF SlotsOK
<1>3. ASSUME NEW k \in DOMAIN t, t[k].k \in {"bootstrap", "call"}
      PROVE  Finished(t, t[k].id, k, Len(t) + 1) \/ Waits(Q, t[k].id, t[k].n)
  <2>1. k \in DOMAIN s /\ t[k] = s[k] /\ k \in Nat
    BY <1>3, AfterSend
  <2>2. Finished(s, s[k].id, k, Len(s) + 1) \/ Waits(Q, s[k].id, s[k].n)
    BY <1>3, <2>1 DEF SlotsOK
  <2>. QED
    BY <1>1, <2>1, <2>2, FinishedSent
<1>. QED
  BY <1>2, <1>3 DEF SlotsOK

\* A question is asked in a slot that was free.
LEMMA SlotsAsked ==
  ASSUME NEW Q, NEW A, NEW s \in Seq(Message), SlotsOK(Q, A, s), NEW m \in Message,
         m.k \in {"bootstrap", "call"}, NEW t, t = s \o <<m>>, NEW P, P = Put(Q, m.id, m.n),
         m.id \in DOMAIN Q => Q[m.id] = 0,
         \A id \in DOMAIN A : A[id].n # 0,
         \A k \in DOMAIN s : s[k].k \in {"bootstrap", "call"} => s[k].n # 0
  PROVE  SlotsOK(P, A, t)
<1>1. Len(s) + 1 \in Nat /\ Len(t) + 1 \in Nat /\ Len(t) + 1 >= Len(s) + 1
  BY AfterSend
<1>2. \A id, n : Waits(Q, id, n) /\ n # 0 => Waits(P, id, n)
  BY DEF Waits, Put
<1>3. Waits(P, m.id, m.n)
  BY DEF Waits, Put
<1>4. \A id \in DOMAIN A : Finished(t, id, 0, Len(t) + 1) \/ Waits(P, id, A[id].n)
  BY <1>1, <1>2, FinishedSent DEF SlotsOK
<1>5. ASSUME NEW k \in DOMAIN t, t[k].k \in {"bootstrap", "call"}
      PROVE  Finished(t, t[k].id, k, Len(t) + 1) \/ Waits(P, t[k].id, t[k].n)
  <2>1. CASE k = Len(s) + 1
    BY <1>3, <2>1, AfterSend
  <2>2. CASE k # Len(s) + 1
    <3>1. k \in DOMAIN s /\ t[k] = s[k] /\ k \in Nat
      BY <2>2, AfterSend
    <3>2. Finished(s, s[k].id, k, Len(s) + 1) \/ Waits(Q, s[k].id, s[k].n)
      BY <1>5, <3>1 DEF SlotsOK
    <3>. QED
      BY <1>1, <1>2, <1>5, <3>1, <3>2, FinishedSent
  <2>. QED
    BY <2>1, <2>2
<1>. QED
  BY <1>4, <1>5 DEF SlotsOK

\* The slot is cleared as the Finish goes out.
LEMMA SlotsFinished ==
  ASSUME NEW Q, NEW A, NEW s \in Seq(Message), SlotsOK(Q, A, s), NEW m \in Message,
         m.k = "finish", NEW t, t = s \o <<m>>, NEW P, P = [Q EXCEPT ![m.id] = 0]
  PROVE  SlotsOK(P, A, t)
<1>1. Len(s) + 1 \in Nat /\ Len(t) + 1 \in Nat /\ Len(t) + 1 >= Len(s) + 1 /\ Len(s) + 1 < Len(t) + 1
  BY AfterSend
<1>2. \A id, n : Waits(Q, id, n) /\ id # m.id => Waits(P, id, n)
  BY DEF Waits
<1>3. ASSUME NEW i \in Nat, i <= Len(s) PROVE Finished(t, m.id, i, Len(t) + 1)
  <2>1. Len(s) + 1 \in DOMAIN t /\ t[Len(s) + 1] = m /\ i < Len(s) + 1
    BY <1>3, AfterSend
  <2>. QED
    BY <1>1, <2>1 DEF Finished
<1>4. \A id \in DOMAIN A : Finished(t, id, 0, Len(t) + 1) \/ Waits(P, id, A[id].n)
  <2> SUFFICES ASSUME NEW id \in DOMAIN A PROVE Finished(t, id, 0, Len(t) + 1) \/ Waits(P, id, A[id].n)
    OBVIOUS
  <2>1. Finished(s, id, 0, Len(s) + 1) \/ Waits(Q, id, A[id].n)
    BY DEF SlotsOK
  <2>2. 0 \in Nat /\ 0 <= Len(s)
    BY AfterSend
  <2>. QED
    BY <1>1, <1>2, <1>3, <2>1, <2>2, FinishedSent
<1>5. ASSUME NEW k \in DOMAIN t, t[k].k \in {"bootstrap", "call"}
      PROVE  Finished(t, t[k].id, k, Len(t) + 1) \/ Waits(P, t[k].id, t[k].n)
  <2>1. k \in DOMAIN s /\ t[k] = s[k] /\ k \in Nat /\ k <= Len(s)
    BY <1>5, AfterSend
  <2>2. Finished(s, s[k].id, k, Len(s) + 1) \/ Waits(Q, s[k].id, s[k].n)
    BY <1>5, <2>1 DEF SlotsOK
  <2>. QED
    BY <1>1, <1>2, <1>3, <2>1, <2>2, FinishedSent
<1>. QED
  BY <1>4, <1>5 DEF SlotsOK

\* The same, for the Calls on promises.
LEMMA AimsKept ==
  ASSUME NEW C, NEW A, NEW s, AimsOK(C, A, s), NEW B, NamesKept(A, B), NEW N,
         \A j \in DOMAIN s : s[j].k = "call" => N[s[j].n].on = C[s[j].n].on
  PROVE  AimsOK(N, B, s)
BY DEF AimsOK, Aims, NamesKept

LEMMA AimsRead ==
  ASSUME NEW C, NEW A, NEW B, NEW s \in Seq(Message), s # <<>>, AimsOK(C, A, s),
         NamesFrom(A, B, Head(s)), NEW t, t = Tail(s)
  PROVE  AimsOK(C, B, t)
<1>1. Head(s) = s[1] /\ 1 \in DOMAIN s /\ 0 \in Nat /\ 1 = 0 + 1
  BY AfterTail
<1> SUFFICES ASSUME NEW j \in DOMAIN t, t[j].k = "call", t[j].target.k = "promisedAnswer",
                    NEW id, id = t[j].target.id, NEW m, m = C[t[j].n].on.n
             PROVE  Aims(B, t, j, id, m)
  BY DEF AimsOK
<1>2. j + 1 \in DOMAIN s /\ t[j] = s[j + 1] /\ j \in Nat \ {0} /\ 1 < j + 1
  BY AfterTail
<1>3. Aims(A, s, j + 1, id, m)
  BY <1>2 DEF AimsOK
<1>4. ASSUME id \in DOMAIN B PROVE Finished(t, id, 0, j) \/ B[id].n = m
  <2>1. CASE id \in DOMAIN A /\ B[id].n = A[id].n /\ (Head(s).k # "finish" \/ Head(s).id # id)
    <3>1. Finished(s, id, 0, j + 1) \/ B[id].n = m
      BY <1>3, <2>1 DEF Aims
    <3>. QED
      BY <1>1, <1>2, <2>1, <3>1, FinishedNotFirst
  <2>2. CASE Head(s).k \in {"bootstrap", "call"} /\ id = Head(s).id /\ B[id].n = Head(s).n
    <3>1. Finished(s, id, 1, j + 1) \/ B[id].n = m
      BY <1>1, <1>2, <1>3, <2>2 DEF Aims
    <3>. QED
      BY <1>1, <1>2, <3>1, FinishedTail
  <2>. QED
    BY <1>4, <2>1, <2>2 DEF NamesFrom
<1>5. ASSUME NEW k \in DOMAIN t, k < j, t[k].k \in {"bootstrap", "call"}, t[k].id = id
      PROVE  Finished(t, id, k, j) \/ t[k].n = m
  <2>1. k + 1 \in DOMAIN s /\ t[k] = s[k + 1] /\ k \in Nat
    BY AfterTail
  <2>2. Finished(s, id, k + 1, j + 1) \/ t[k].n = m
    BY <1>2, <1>3, <1>5, <2>1 DEF Aims
  <2>. QED
    BY <1>2, <2>1, <2>2, FinishedTail
<1>. QED
  BY <1>4, <1>5 DEF Aims

\* A Call on a promise goes out only while the id stands for the call it is made on.
LEMMA AimsSent ==
  ASSUME NEW C, NEW A, NEW Q, NEW s \in Seq(Message), AimsOK(C, A, s), SlotsOK(Q, A, s),
         NEW m \in Message, NEW t, t = s \o <<m>>,
         m.k = "call" /\ m.target.k = "promisedAnswer"
           => m.target.id \in DOMAIN Q /\ Q[m.target.id] = C[m.n].on.n
  PROVE  AimsOK(C, A, t)
<1>0. Len(s) + 1 \in Nat /\ Len(s) + 1 >= Len(s) + 1
  BY AfterSend
<1> SUFFICES ASSUME NEW j \in DOMAIN t, t[j].k = "call", t[j].target.k = "promisedAnswer",
                    NEW id, id = t[j].target.id, NEW n, n = C[t[j].n].on.n
             PROVE  Aims(A, t, j, id, n)
  BY DEF AimsOK
<1>1. CASE j = Len(s) + 1
  <2>1. t[j] = m /\ \A x : Waits(Q, id, x) => x = n
    BY <1>1, AfterSend DEF Waits
  <2>2. id \in DOMAIN A => Finished(t, id, 0, j) \/ A[id].n = n
    <3>1. id \in DOMAIN A => Finished(s, id, 0, Len(s) + 1) \/ Waits(Q, id, A[id].n)
      BY DEF SlotsOK
    <3>2. Finished(s, id, 0, Len(s) + 1) => Finished(t, id, 0, Len(s) + 1)
      BY <1>0, FinishedSent
    <3>. QED
      BY <1>1, <2>1, <3>1, <3>2
  <2>3. ASSUME NEW k \in DOMAIN t, k < j, t[k].k \in {"bootstrap", "call"}, t[k].id = id
        PROVE  Finished(t, id, k, j) \/ t[k].n = n
    <3>1. k \in DOMAIN s /\ t[k] = s[k] /\ k \in Nat
      BY <1>1, <2>3, AfterSend
    <3>2. Finished(s, s[k].id, k, Len(s) + 1) \/ Waits(Q, s[k].id, s[k].n)
      BY <2>3, <3>1 DEF SlotsOK
    <3>3. Finished(s, id, k, j) => Finished(t, id, k, j)
      BY <1>0, <1>1, <3>1, FinishedSent
    <3>. QED
      BY <1>1, <2>1, <2>3, <3>1, <3>2, <3>3
  <2>. QED
    BY <2>2, <2>3 DEF Aims
<1>2. CASE j # Len(s) + 1
  <2>1. j \in DOMAIN s /\ t[j] = s[j] /\ j \in Nat /\ j < Len(s) + 1
    BY <1>2, AfterSend
  <2>2. Aims(A, s, j, id, n)
    BY <2>1 DEF AimsOK
  <2>3. ASSUME NEW k \in DOMAIN t, k < j, t[k].k \in {"bootstrap", "call"}, t[k].id = id
        PROVE  Finished(t, id, k, j) \/ t[k].n = n
    <3>1. k \in DOMAIN s /\ t[k] = s[k] /\ k \in Nat
      BY <2>1, <2>3, AfterSend
    <3>2. Finished(s, id, k, j) \/ t[k].n = n
      BY <2>2, <2>3, <3>1 DEF Aims
    <3>3. j >= j
      BY <2>1
    <3>4. Finished(s, id, k, j) => Finished(t, id, k, j)
      BY <2>1, <3>1, <3>3, FinishedSent
    <3>. QED
      BY <3>1, <3>2, <3>4
  <2>4. id \in DOMAIN A => Finished(t, id, 0, j) \/ A[id].n = n
    <3>1. Finished(s, id, 0, j) \/ id \notin DOMAIN A \/ A[id].n = n
      BY <2>2 DEF Aims
    <3>2. j >= j /\ 0 \in Nat
      BY <2>1
    <3>3. Finished(s, id, 0, j) => Finished(t, id, 0, j)
      BY <2>1, <3>2, FinishedSent
    <3>. QED
      BY <3>1, <3>3
  <2>. QED
    BY <2>3, <2>4 DEF Aims
<1>. QED
  BY <1>1, <1>2

\* At the head of the channel, it finds that call or none.
LEMMA AimsHead ==
  ASSUME NEW C, NEW A, NEW s \in Seq(Message), s # <<>>, AimsOK(C, A, s), NEW m, m = Head(s),
         m.k = "call", m.target.k = "promisedAnswer", m.target.id \in DOMAIN A
  PROVE  A[m.target.id].n = C[m.n].on.n
<1>1. m = s[1] /\ 1 \in DOMAIN s
  BY AfterTail
<1>2. Aims(A, s, 1, m.target.id, C[m.n].on.n)
  BY <1>1 DEF AimsOK
<1>3. ~Finished(s, m.target.id, 0, 1)
  BY AfterTail DEF Finished
<1>. QED
  BY <1>2, <1>3 DEF Aims
-----------------------------------------------------------------------------
(* Order: the channel, the log and the calls that are forwarded. *)

LEMMA OrderRead ==
  ASSUME NEW T, NEW C, NEW K, NEW v, NEW w, NEW s \in Seq(Message), s # <<>>, OrderOK(T, C, K, s, v, w),
         NEW t, t = Tail(s)
  PROVE  OrderOK(T, C, K, t, v, w)
<1>1. \A j \in DOMAIN t : j \in Nat /\ j + 1 \in DOMAIN s /\ t[j] = s[j + 1]
  BY AfterTail
<1>2. CallsInOrder(t)
  <2> SUFFICES ASSUME NEW i \in DOMAIN t, NEW j \in DOMAIN t, i < j, t[i].k = "call", t[j].k = "call"
               PROVE  t[i].n < t[j].n
    BY DEF CallsInOrder
  <2>1. i + 1 < j + 1
    BY <1>1
  <2>. QED
    BY <1>1, <2>1 DEF OrderOK, CallsInOrder
<1>3. RunsBefore(T, t, v, w)
  BY <1>1 DEF OrderOK, RunsBefore
<1>4. ForwardsBefore(K, t)
  BY <1>1 DEF OrderOK, ForwardsBefore
<1>. QED
  BY <1>2, <1>3, <1>4 DEF OrderOK

\* The Call that is read was made before those behind it, and after those that ran at
\* its receiver or were forwarded there.
LEMMA OrderHead ==
  ASSUME NEW T, NEW C, NEW K, NEW v, NEW w, NEW s \in Seq(Message), s # <<>>, OrderOK(T, C, K, s, v, w),
         NEW t, t = Tail(s), NEW m, m = Head(s), m.k = "call"
  PROVE  /\ \A j \in DOMAIN t : t[j].k = "call" => m.n < t[j].n
         /\ \A i \in DOMAIN T : T[i].from = v /\ T[i].at = w => T[i].n < m.n
         /\ \A f \in DOMAIN K : K[f].on.k = "answer" => K[f].on.n < m.n
<1>1. \A j \in DOMAIN t : j \in Nat \ {0} /\ j + 1 \in DOMAIN s /\ t[j] = s[j + 1]
  BY AfterTail
<1>2. 1 \in DOMAIN s /\ m = s[1]
  BY AfterTail
<1>3. ASSUME NEW j \in DOMAIN t, t[j].k = "call" PROVE m.n < t[j].n
  <2>1. 1 < j + 1 /\ j + 1 \in DOMAIN s /\ t[j] = s[j + 1]
    BY <1>1
  <2>. QED
    BY <1>2, <1>3, <2>1 DEF OrderOK, CallsInOrder
<1>4. \A i \in DOMAIN T : T[i].from = v /\ T[i].at = w => T[i].n < m.n
  BY <1>2 DEF OrderOK, RunsBefore
<1>5. \A f \in DOMAIN K : K[f].on.k = "answer" => K[f].on.n < m.n
  BY <1>2 DEF OrderOK, ForwardsBefore
<1>. QED
  BY <1>3, <1>4, <1>5

LEMMA OrderSent ==
  ASSUME NEW T, NEW C, NEW K, NEW v, NEW w, NEW s \in Seq(Message), OrderOK(T, C, K, s, v, w),
         NEW m \in Message, NEW t, t = s \o <<m>>,
         m.k = "call" => /\ \A j \in DOMAIN s : s[j].k = "call" => s[j].n < m.n
                         /\ \A i \in DOMAIN T : T[i].from = v => T[i].n < m.n
                         /\ \A f \in DOMAIN K : K[f].on.k = "answer" => K[f].on.n < m.n
  PROVE  OrderOK(T, C, K, t, v, w)
<1>1. PICK e : e = Len(s) + 1
  OBVIOUS
<1>2. DOMAIN t = DOMAIN s \cup {e} /\ t[e] = m /\ \A j \in DOMAIN s : t[j] = s[j] /\ j < e /\ j \in Nat
  BY <1>1, AfterSend
<1>3. CallsInOrder(t)
  <2> SUFFICES ASSUME NEW i \in DOMAIN t, NEW j \in DOMAIN t, i < j, t[i].k = "call", t[j].k = "call"
               PROVE  t[i].n < t[j].n
    BY DEF CallsInOrder
  <2>1. e \in Nat
    BY <1>1, AfterSend
  <2>2. i # e
    BY <1>2, <2>1
  <2>. QED
    BY <1>2, <2>2 DEF OrderOK, CallsInOrder
<1>4. RunsBefore(T, t, v, w)
  BY <1>2 DEF OrderOK, RunsBefore
<1>5. ForwardsBefore(K, t)
  BY <1>2 DEF OrderOK, ForwardsBefore
<1>. QED
  BY <1>3, <1>4, <1>5 DEF OrderOK

\* More calls, of which the peer forwards none.
LEMMA OrderCalls ==
  ASSUME NEW T, NEW C, NEW K, NEW v, NEW w, NEW s, OrderOK(T, C, K, s, v, w), Logged(T, v, C),
         NEW N, Grows(C, N), NEW L, \A f \in DOMAIN L : L[f].on.k = "answer" => f \in DOMAIN K /\ L[f].on = K[f].on
  PROVE  OrderOK(T, N, L, s, v, w)
<1>1. ForwardsBefore(L, s) /\ ForwardsInOrder(L)
  BY DEF OrderOK, ForwardsBefore, ForwardsInOrder
<1>2. RunsWhere(T, N, v, w)
  BY DEF OrderOK, RunsWhere, Logged, Grows
<1>. QED
  BY <1>1, <1>2 DEF OrderOK

\* The peer forwards call n, as the last of its calls.
LEMMA OrderForwarded ==
  ASSUME NEW T, NEW C, NEW K, NEW v, NEW w, NEW s, OrderOK(T, C, K, s, v, w), NEW L, NEW n, NEW g,
         DOMAIN K \subseteq Nat, \A f \in DOMAIN K : f < g /\ L[f].on = K[f].on,
         DOMAIN L = DOMAIN K \cup {g}, L[g].on.n = n, g \in Nat,
         \A j \in DOMAIN s : s[j].k = "call" => n < s[j].n,
         \A f \in DOMAIN K : K[f].on.k = "answer" => K[f].on.n < n
  PROVE  OrderOK(T, C, L, s, v, w)
<1>1. ForwardsBefore(L, s)
  BY DEF OrderOK, ForwardsBefore
<1>2. ForwardsInOrder(L)
  <2> SUFFICES ASSUME NEW a \in DOMAIN L, NEW b \in DOMAIN L, a < b, L[a].on.k = "answer", L[b].on.k = "answer"
               PROVE  L[a].on.n < L[b].on.n
    BY DEF ForwardsInOrder
  <2>1. a # g
    OBVIOUS
  <2>. QED
    BY <2>1 DEF OrderOK, ForwardsInOrder
<1>. QED
  BY <1>1, <1>2 DEF OrderOK

\* A method is started.
LEMMA OrderRun ==
  ASSUME NEW T, NEW C, NEW K, NEW v, NEW w, NEW s, OrderOK(T, C, K, s, v, w), NEW S, NEW d, NEW e \in Nat,
         DOMAIN T \subseteq Nat, \A i \in DOMAIN T : i < e /\ S[i] = T[i], DOMAIN S = DOMAIN T \cup {e}, S[e] = d,
         d.from = v => /\ \A i \in DOMAIN T : T[i].from = v /\ T[i].at = d.at => T[i].n < d.n
                       /\ d.at = IF C[d.n].route = "local" THEN v ELSE w
                       /\ d.at = w => \A j \in DOMAIN s : s[j].k = "call" => d.n < s[j].n
  PROVE  OrderOK(S, C, K, s, v, w)
<1>1. RunsBefore(S, s, v, w)
  BY DEF OrderOK, RunsBefore
<1>2. RunsWhere(S, C, v, w)
  BY DEF OrderOK, RunsWhere
<1>3. RunsInOrder(S, v)
  <2> SUFFICES ASSUME NEW a \in DOMAIN S, NEW b \in DOMAIN S, a < b, S[a].from = v, S[b].from = v, S[a].at = S[b].at
               PROVE  S[a].n < S[b].n
    BY DEF RunsInOrder
  <2>1. a # e
    OBVIOUS
  <2>. QED
    BY <2>1 DEF OrderOK, RunsInOrder
<1>. QED
  BY <1>1, <1>2, <1>3 DEF OrderOK

-----------------------------------------------------------------------------
(* Origins. *)

\* Calls keep their place in the table, and what they were made on.
Lasts(C, N) == \A n \in DOMAIN C : /\ n \in DOMAIN N /\ N[n].on = C[n].on
                                   /\ N[n].route = C[n].route /\ N[n].id = C[n].id
Among(s, x) == \E j \in DOMAIN s : s[j] = x

\* The calls of v after a step.
Follows(C, N) ==
  /\ Lasts(C, N)
  /\ \A n \in DOMAIN N : \/ n \in DOMAIN C /\ (N[n].route = "bootstrap" => N[n].cap = C[n].cap \/ N[n].cap.k = "null")
                         \/ CallOrigin(N[n], N)

\* What its peer has of them: the calls it forwarded (K), the entries (A), what is on its way (s).
Mentioned(C, K, A, s) ==
  /\ \A f \in DOMAIN K : K[f].on.k = "answer" => K[f].on.n \in DOMAIN C
  /\ \A id \in DOMAIN A : A[id].n \in DOMAIN C
  /\ \A j \in DOMAIN s : s[j].k \in {"bootstrap", "call"} => s[j].n \in DOMAIN C

\* A step: what is new has the right origin.
Forwards1(K, L, C) ==
  \A f \in DOMAIN L : L[f].on.k = "answer" =>
    (f \in DOMAIN K /\ L[f].on = K[f].on) \/ C[L[f].on.n].route = "promised"
Entered(A, B, C) ==
  \A id \in DOMAIN B : B[id].callee.k # "none" =>
    \/ \E x \in DOMAIN A : B[id].n = A[x].n /\ A[x].callee.k # "none"
    \/ C[B[id].n].route # "bootstrap"
Sends1(s, t, C, E) == \A j \in DOMAIN t : Among(s, t[j]) \/ MessageOrigin(t[j], C, E)
Replies1(r, q, C) == \A j \in DOMAIN q : Among(r, q[j]) \/ ReplyOrigin(q[j], C)

LEMMA NothingNew ==
  ASSUME NEW K, NEW A, NEW C
  PROVE  Forwards1(K, K, C) /\ Entered(A, A, C)
BY DEF Forwards1, Entered

LEMMA OriginsStep ==
  ASSUME NEW C, NEW K, NEW A, NEW E, NEW s, NEW r, OriginsOK(C, K, A, E, s, r),
         Mentioned(C, K, A, s), NEW N, Follows(C, N), NEW F, DOMAIN E \subseteq DOMAIN F,
         NEW L, Forwards1(K, L, N), NEW B, Entered(A, B, N),
         NEW t, Sends1(s, t, N, F), NEW q, Replies1(r, q, N)
  PROVE  OriginsOK(N, L, B, F, t, q)
<1>0. Lasts(C, N)
  BY DEF Follows
<1>1. \A n \in DOMAIN N : CallOrigin(N[n], N)
  <2> SUFFICES ASSUME NEW n \in DOMAIN N, n \in DOMAIN C,
                      N[n].route = "bootstrap" => N[n].cap = C[n].cap \/ N[n].cap.k = "null"
               PROVE  CallOrigin(N[n], N)
    BY DEF Follows
  <2>1. CallOrigin(C[n], C)
    BY DEF OriginsOK
  <2>2. N[n].on = C[n].on /\ N[n].route = C[n].route
    BY <1>0 DEF Lasts
  <2>3. N[n].on.k = "call" => N[n].on.n \in DOMAIN N /\ N[N[n].on.n].id # NoId
    BY <1>0, <2>1, <2>2 DEF Lasts, CallOrigin
  <2>. QED
    BY <2>1, <2>2, <2>3 DEF CallOrigin
<1>2. \A f \in DOMAIN L : L[f].on.k = "answer" => N[L[f].on.n].route = "promised"
  BY <1>0 DEF OriginsOK, Lasts, Forwards1, Mentioned
<1>3. \A id \in DOMAIN B : B[id].callee.k # "none" => N[B[id].n].route # "bootstrap"
  BY <1>0 DEF OriginsOK, Lasts, Entered, Mentioned
<1>4. \A j \in DOMAIN t : MessageOrigin(t[j], N, F)
  <2> SUFFICES ASSUME NEW j \in DOMAIN s PROVE MessageOrigin(s[j], N, F)
    BY DEF Among, Sends1
  <2>1. MessageOrigin(s[j], C, E)
    BY DEF OriginsOK
  <2>. QED
    BY <1>0, <2>1 DEF MessageOrigin, Lasts, Mentioned
<1>5. \A j \in DOMAIN q : ReplyOrigin(q[j], N)
  <2> SUFFICES ASSUME NEW j \in DOMAIN r PROVE ReplyOrigin(r[j], N)
    BY DEF Among, Replies1
  <2>1. ReplyOrigin(r[j], C)
    BY DEF OriginsOK
  <2>. QED
    BY <1>0, <2>1 DEF ReplyOrigin, Lasts
<1>. QED
  BY <1>1, <1>2, <1>3, <1>4, <1>5 DEF OriginsOK
-----------------------------------------------------------------------------
(* Exports: they stay, and lead to what their client leads to. *)

ObjectsLast(E, F) == \A id \in DOMAIN E : id \in DOMAIN F /\ F[id].object = E[id].object
ExportsLast == \A u \in Vat : ObjectsLast(exports[u], exports'[u])

LEMMA AddedObjects ==
  ASSUME NEW v, ExportTable(exports[v]), NEW c, NEW F, F = AddExport(v, c), NEW id, id = ExportId(v, c)
  PROVE  /\ ObjectsLast(exports[v], F)
         /\ id \in DOMAIN F /\ F[id].client = c
         /\ \A x \in DOMAIN F : \/ x \in DOMAIN exports[v] /\ F[x].client = exports[v][x].client
                                \/ x = id /\ F[x].object = ObjectOf(v, c)
<1>1. PICK E, o : E = exports[v] /\ o = ObjectOf(v, c)
  OBVIOUS
<1>2. \A x \in DOMAIN E : E[x] = [client |-> E[x].client, object |-> E[x].object, wireRefs |-> E[x].wireRefs]
  BY <1>1 DEF ExportTable
<1>3. CASE ExportIds(v, c) # {}
  <2>1. id \in DOMAIN E /\ E[id].client = c
    BY <1>1, <1>3, ExportIdFacts
  <2>2. PICK r : r = E[id].wireRefs + 1
    OBVIOUS
  <2>3. F = [E EXCEPT ![id] = [E[id] EXCEPT !.wireRefs = r]]
    BY <1>1, <2>1, <2>2 DEF AddExport
  <2>4. PICK a : a = [E[id] EXCEPT !.wireRefs = r]
    OBVIOUS
  <2>5. a.client = c /\ a.object = E[id].object
    BY <1>2, <2>1, <2>4
  <2>6. DOMAIN F = DOMAIN E /\ F[id] = a /\ \A x \in DOMAIN E : x # id => F[x] = E[x]
    BY <2>1, <2>3, <2>4
  <2>. QED
    BY <1>1, <2>1, <2>5, <2>6 DEF ObjectsLast
<1>4. CASE ExportIds(v, c) = {}
  <2>1. id \notin DOMAIN E
    BY <1>1, <1>4, ExportIdFacts
  <2>2. F = Put(E, id, [client |-> c, object |-> o, wireRefs |-> 1])
    BY <1>1, <2>1 DEF AddExport
  <2>3. /\ DOMAIN F = DOMAIN E \cup {id} /\ F[id] = [client |-> c, object |-> o, wireRefs |-> 1]
        /\ \A x \in DOMAIN E : F[x] = E[x]
    BY <2>1, <2>2 DEF Put
  <2>4. F[id].client = c /\ F[id].object = o
    BY <2>3
  <2>. QED
    BY <1>1, <2>1, <2>3, <2>4 DEF ObjectsLast
<1>. QED
  BY <1>3, <1>4

LEMMA ObjectLasts ==
  ASSUME NEW v \in Vat, ExportsLast, NEW c, NEW I, Known(c, exports[v], I)
  PROVE  ObjectOf(v, c)' = ObjectOf(v, c)
<1>1. CASE c.k = "ownRef"
  BY <1>1 DEF ObjectOf, Known, ExportsLast, ObjectsLast
<1>2. CASE c.k # "ownRef"
  BY <1>2 DEF ObjectOf
<1>. QED
  BY <1>1, <1>2

LEMMA DestinationLasts ==
  ASSUME Inv, NEW v \in Vat, ExportsLast, NEW c, Known(c, exports[v], imports[v])
  PROVE  Destination(v, c)' = Destination(v, c)
<1>1. PICK w \in Vat : w = Peer(v)
  BY PeerFacts
<1>2. CASE c.k = "import"
  <2>1. c.id \in DOMAIN exports[w]
    BY <1>1, <1>2, OfVat DEF Known
  <2>2. exports'[w][c.id].object = exports[w][c.id].object
    BY <2>1 DEF ExportsLast, ObjectsLast
  <2>. QED
    BY <1>1, <1>2, <2>2 DEF Destination, Hosted, Place
<1>3. CASE c.k # "import"
  BY <1>3, ObjectLasts DEF Destination, Place
<1>. QED
  BY <1>2, <1>3

\* A client is sent: as a descriptor that leads where the client does.
LEMMA ExportsStep ==
  ASSUME Inv, NEW v \in Vat, \A u \in Vat : ExportObjects(u),
         NEW I, NEW c \in Client, Known(c, exports[v], I),
         exports' = [exports EXCEPT ![v] = Described(v, c)], NEW d, d = DescriptorFor(v, c)
  PROVE  /\ ExportsLast /\ \A u \in Vat : ExportObjects(u)'
         /\ Shipped(v, d)' = Destination(v, c)'
         /\ d.k = "senderHosted" => d.id \in DOMAIN exports'[v]
<1>1. PICK w \in Vat : w = Peer(v) /\ Peer(w) = v /\ w # v /\ \A u \in Vat : u = v \/ u = w
  BY PeerFacts
<1>2. DOMAIN exports = Vat /\ ExportTable(exports[v]) /\ ExportsOK(exports[v], imports[v])
      /\ ExportsOK(exports[w], imports[w])
  BY OfVat DEF VatOK
<1>3. PICK F, id : F = Described(v, c) /\ id = ExportId(v, c)
  OBVIOUS
<1>4. exports'[v] = F /\ exports'[w] = exports[w]
  BY <1>1, <1>2, <1>3
<1>5. CASE c.k \in {"null", "import"}
  <2>1. F = exports[v]
    BY <1>3, <1>5 DEF Described
  <2>2. \A u \in Vat : exports'[u] = exports[u]
    BY <1>1, <1>4, <2>1
  <2>3. ExportsLast
    BY <2>2 DEF ExportsLast, ObjectsLast
  <2>4. \A u \in Vat : ExportObjects(u)'
    BY <2>2 DEF ExportObjects, ObjectOf
  <2>5. Shipped(v, d)' = Destination(v, c)'
    <3>1. CASE c.k = "null"
      <4>1. d = [k |-> "none", id |-> 0]
        BY <3>1 DEF DescriptorFor
      <4>2. ObjectOf(v, c)' = NoId
        BY <3>1 DEF ObjectOf
      <4>. QED
        BY <3>1, <4>1, <4>2 DEF Shipped, Destination, Place
    <3>2. CASE c.k = "import"
      <4>1. d = [k |-> "receiverHosted", id |-> c.id]
        BY <3>2 DEF DescriptorFor
      <4>. QED
        BY <3>2, <4>1 DEF Shipped, Destination, Hosted
    <3>. QED
      BY <1>5, <3>1, <3>2
  <2>6. d.k # "senderHosted"
    BY <1>5 DEF DescriptorFor
  <2>. QED
    BY <2>3, <2>4, <2>5, <2>6
<1>6. CASE c.k \notin {"null", "import"}
  <2>1. F = AddExport(v, c)
    BY <1>3, <1>6 DEF Described
  <2>2. /\ ObjectsLast(exports[v], F)
        /\ id \in DOMAIN F /\ F[id].client = c
        /\ \A x \in DOMAIN F : \/ x \in DOMAIN exports[v] /\ F[x].client = exports[v][x].client
                               \/ x = id /\ F[x].object = ObjectOf(v, c)
    BY <1>2, <1>3, <2>1, AddedObjects
  <2>3. ExportsLast
    BY <1>1, <1>4, <2>2 DEF ExportsLast, ObjectsLast
  <2>4. ObjectOf(v, c)' = ObjectOf(v, c)
    BY <2>3, ObjectLasts
  <2>5. \A x \in DOMAIN F : F[x].object = ObjectOf(v, F[x].client)'
    <3> TAKE x \in DOMAIN F
    <3>1. CASE x \in DOMAIN exports[v] /\ F[x].client = exports[v][x].client
      <4>1. PICK b : b = exports[v][x].client
        OBVIOUS
      <4>2. F[x].object = ObjectOf(v, b) /\ F[x].client = b
        BY <2>2, <3>1, <4>1 DEF ObjectsLast, ExportObjects
      <4>3. Known(b, exports[v], imports[v])
        BY <1>2, <3>1, <4>1 DEF ExportsOK
      <4>4. ObjectOf(v, b)' = ObjectOf(v, b)
        BY <2>3, <4>3, ObjectLasts
      <4>. QED
        BY <4>2, <4>4 DEF ObjectOf
    <3>2. CASE x = id /\ F[x].object = ObjectOf(v, c)
      BY <2>2, <2>4, <3>2 DEF ObjectOf
    <3>. QED
      BY <2>2, <3>1, <3>2
  <2>6. ExportObjects(v)'
    BY <1>4, <2>5 DEF ExportObjects, ObjectOf
  <2>7. ExportObjects(w)'
    <3>1. ExportObjects(w)
      BY <1>1
    <3>. QED
      BY <1>4, <3>1 DEF ExportObjects, ObjectOf
  <2>8. d = [k |-> "senderHosted", id |-> id]
    BY <1>3, <1>6 DEF DescriptorFor
  <2>9. F[id].object = ObjectOf(v, c)
    <3>1. CASE id \in DOMAIN exports[v] /\ F[id].client = exports[v][id].client
      BY <2>2, <3>1 DEF ObjectsLast, ExportObjects
    <3>. QED
      BY <2>2, <3>1
  <2>10. Shipped(v, d)' = Destination(v, c)'
    BY <1>4, <1>6, <2>4, <2>8, <2>9 DEF Shipped, Hosted, Destination, Place
  <2>11. d.k = "senderHosted" => d.id \in DOMAIN exports'[v]
    BY <1>4, <2>2, <2>8
  <2>. QED
    BY <1>1, <2>3, <2>6, <2>7, <2>10, <2>11
<1>. QED
  BY <1>5, <1>6

LEMMA ExportsStill ==
  ASSUME \A u \in Vat : ExportObjects(u), exports' = exports
  PROVE  ExportsLast /\ \A u \in Vat : ExportObjects(u)'
BY DEF ExportsLast, ObjectsLast, ExportObjects, ObjectOf
-----------------------------------------------------------------------------
(* One direction: v asks, w answers. *)

\* PathsInv, for one direction.
PathOK(T, Q, C, K, A, E, s, r, v, w) ==
  /\ OriginsOK(C, K, A, E, s, r) /\ SlotsOK(Q, A, s) /\ RepliesOK(Q, r)
  /\ AimsOK(C, A, s) /\ OrderOK(T, C, K, s, v, w)

\* Every mention of a call of v is of one it made.
Mentions(T, C, K, A, s, v) == Logged(T, v, C) /\ Mentioned(C, K, A, s)

LEMMA ReadAmong ==
  ASSUME NEW s \in Seq(Message), NEW t, ReadFrom(s, t)
  PROVE  t \in Seq(Message) /\ \A j \in DOMAIN t : Among(s, t[j])
<1>1. CASE t = s
  BY <1>1 DEF Among
<1>2. CASE s # <<>> /\ t = Tail(s)
  BY <1>2, AfterTail DEF Among
<1>. QED
  BY <1>1, <1>2 DEF ReadFrom

LEMMA SentAmong ==
  ASSUME NEW s \in Seq(Message), NEW m \in Message, NEW t, t = s \o <<m>>
  PROVE  \A j \in DOMAIN t : Among(s, t[j]) \/ t[j] = m
BY AfterSend DEF Among

LEMMA RepliesRead ==
  ASSUME NEW Q, NEW r \in Seq(Message), RepliesOK(Q, r), NEW q, ReadFrom(r, q)
  PROVE  RepliesOK(Q, q)
BY ReadAmong DEF RepliesOK, Among

\* v sends nothing, or no question.
LEMMA AskerSays ==
  ASSUME NEW T, NEW Q, NEW C, NEW K, NEW A, NEW E, NEW s \in Seq(Message), NEW r \in Seq(Message), NEW v, NEW w,
         PathOK(T, Q, C, K, A, E, s, r, v, w), Mentions(T, C, K, A, s, v),
         NEW N, Follows(C, N), NEW S, OrderOK(S, N, K, s, v, w),
         NEW q, ReadFrom(r, q), NEW t, Says(s, t)
  PROVE  PathOK(S, Q, N, K, A, E, t, q, v, w)
<1>1. AimsOK(N, A, s)
  <2>1. \A j \in DOMAIN s : s[j].k = "call" => N[s[j].n].on = C[s[j].n].on
    BY DEF Follows, Lasts, Mentions, Mentioned
  <2>2. NamesKept(A, A) /\ AimsOK(C, A, s)
    BY DEF NamesKept, PathOK
  <2>. QED
    BY <2>1, <2>2, AimsKept
<1>2. Sends1(s, t, N, E)
  <2>1. CASE t = s
    BY <2>1 DEF Among, Sends1
  <2>2. ASSUME NEW m \in Message, m.k \notin {"call", "bootstrap"}, t = s \o <<m>>
        PROVE  Sends1(s, t, N, E)
    <3>1. MessageOrigin(m, N, E)
      BY <2>2 DEF MessageOrigin
    <3>2. \A j \in DOMAIN t : Among(s, t[j]) \/ t[j] = m
      <4>1. t = s \o <<m>>
        BY <2>2
      <4>. QED
        BY ONLY s \in Seq(Message), m \in Message, <4>1, SentAmong
    <3>. QED
      BY ONLY <3>1, <3>2 DEF Sends1
  <2>. QED
    BY <2>1, <2>2 DEF Says
<1>3. OriginsOK(N, K, A, E, t, q)
  <2>1. Replies1(r, q, N)
    BY ReadAmong DEF Replies1
  <2>2. OriginsOK(C, K, A, E, s, r) /\ Mentioned(C, K, A, s) /\ DOMAIN E \subseteq DOMAIN E
    BY DEF PathOK, Mentions
  <2>3. Forwards1(K, K, N) /\ Entered(A, A, N)
    BY NothingNew
  <2>. QED
    BY ONLY <1>2, <2>1, <2>2, <2>3, Follows(C, N), OriginsStep
<1>4. RepliesOK(Q, q)
  BY RepliesRead DEF PathOK
<1>5. CASE t = s
  BY <1>1, <1>3, <1>5, <1>4 DEF PathOK
<1>6. ASSUME NEW m \in Message, m.k \notin {"call", "bootstrap"}, t = s \o <<m>>
      PROVE  PathOK(S, Q, N, K, A, E, t, q, v, w)
  <2>1. SlotsOK(Q, A, t)
    BY <1>6, SlotsSent DEF PathOK
  <2>2. AimsOK(N, A, t)
    BY <1>1, <1>6, AimsSent DEF PathOK
  <2>3. OrderOK(S, N, K, t, v, w)
    BY <1>6, OrderSent
  <2>. QED
    BY <1>3, <1>4, <2>1, <2>2, <2>3 DEF PathOK
<1>. QED
  BY <1>5, <1>6 DEF Says

\* v asks question n, its last call.
LEMMA AskerAsks ==
  ASSUME NEW T, NEW Q, NEW C, NEW K, NEW A, NEW E, NEW s \in Seq(Message), NEW r \in Seq(Message), NEW v, NEW w,
         PathOK(T, Q, C, K, A, E, s, r, v, w), Mentions(T, C, K, A, s, v),
         NEW N, Follows(C, N), Grows(C, N), NEW q, ReadFrom(r, q),
         NEW m \in Message, m.k \in {"bootstrap", "call"}, \A n \in DOMAIN C : n \in Nat \ {0} /\ n < m.n,
         m.id \in DOMAIN Q => Q[m.id] = 0, MessageOrigin(m, N, E),
         m.k = "call" /\ m.target.k = "promisedAnswer"
           => m.target.id \in DOMAIN Q /\ Q[m.target.id] = N[m.n].on.n,
         NEW t, t = s \o <<m>>, NEW P, P = Put(Q, m.id, m.n)
  PROVE  PathOK(T, P, N, K, A, E, t, q, v, w)
<1>1. AimsOK(N, A, s)
  <2>1. \A j \in DOMAIN s : s[j].k = "call" => N[s[j].n].on = C[s[j].n].on
    BY DEF Follows, Lasts, Mentions, Mentioned
  <2>2. NamesKept(A, A) /\ AimsOK(C, A, s)
    BY DEF NamesKept, PathOK
  <2>. QED
    BY <2>1, <2>2, AimsKept
<1>2. Sends1(s, t, N, E)
  <2>1. \A j \in DOMAIN t : Among(s, t[j]) \/ t[j] = m
    BY ONLY s \in Seq(Message), m \in Message, t = s \o <<m>>, SentAmong
  <2>. QED
    BY ONLY <2>1, MessageOrigin(m, N, E) DEF Sends1
<1>3. OriginsOK(N, K, A, E, t, q)
  <2>1. Replies1(r, q, N)
    BY ReadAmong DEF Replies1
  <2>2. OriginsOK(C, K, A, E, s, r) /\ Mentioned(C, K, A, s) /\ DOMAIN E \subseteq DOMAIN E
    BY DEF PathOK, Mentions
  <2>3. Forwards1(K, K, N) /\ Entered(A, A, N)
    BY NothingNew
  <2>. QED
    BY ONLY <1>2, <2>1, <2>2, <2>3, Follows(C, N), OriginsStep
<1>4. SlotsOK(P, A, t)
  <2>1. \A id \in DOMAIN A : A[id].n # 0
    BY DEF Mentions, Mentioned
  <2>2. \A k \in DOMAIN s : s[k].k \in {"bootstrap", "call"} => s[k].n # 0
    BY DEF Mentions, Mentioned
  <2>. QED
    BY <2>1, <2>2, SlotsAsked DEF PathOK
<1>5. AimsOK(N, A, t)
  BY <1>1, AimsSent DEF PathOK
<1>6. OrderOK(T, N, K, t, v, w)
  <2>1. OrderOK(T, N, K, s, v, w)
    BY OrderCalls DEF PathOK, Mentions
  <2>2. /\ \A j \in DOMAIN s : s[j].k = "call" => s[j].n < m.n
        /\ \A i \in DOMAIN T : T[i].from = v => T[i].n < m.n
        /\ \A f \in DOMAIN K : K[f].on.k = "answer" => K[f].on.n < m.n
    BY DEF Mentions, Mentioned, Logged
  <2>. QED
    BY <2>1, <2>2, OrderSent
<1>7. RepliesOK(P, q)
  <2>1. RepliesOK(Q, q)
    BY RepliesRead DEF PathOK
  <2>2. \A j \in DOMAIN q : q[j].k = "return" => q[j].n # 0
    <3>1. \A j \in DOMAIN q : Among(r, q[j])
      BY ReadAmong
    <3>2. \A j \in DOMAIN r : r[j].k = "return" => r[j].n \in DOMAIN C
      BY DEF PathOK, OriginsOK, ReplyOrigin
    <3>. QED
      BY <3>1, <3>2 DEF Among
  <2>. QED
    BY <2>1, <2>2 DEF RepliesOK, Waits, Put
<1>. QED
  BY <1>3, <1>4, <1>5, <1>6, <1>7 DEF PathOK

\* v got its results, and sends the Finish.
LEMMA AskerFinishes ==
  ASSUME NEW T, NEW Q, NEW C, NEW K, NEW A, NEW E, NEW s \in Seq(Message), NEW r \in Seq(Message), NEW v, NEW w,
         PathOK(T, Q, C, K, A, E, s, r, v, w), Mentions(T, C, K, A, s, v),
         NEW N, Follows(C, N), Grows(C, N), NEW q, ReadFrom(r, q),
         NEW m \in Message, m.k = "finish", NEW t, t = s \o <<m>>, NEW P, P = [Q EXCEPT ![m.id] = 0],
         \A j \in DOMAIN q : q[j].k = "return" => q[j].id # m.id
  PROVE  PathOK(T, P, N, K, A, E, t, q, v, w)
<1>1. OrderOK(T, N, K, s, v, w)
  BY OrderCalls DEF PathOK, Mentions
<1>2. PathOK(T, Q, N, K, A, E, t, q, v, w)
  <2>1. Says(s, t)
    BY DEF Says
  <2>. QED
    BY <1>1, <2>1, AskerSays
<1>3. SlotsOK(P, A, t)
  BY SlotsFinished DEF PathOK
<1>4. RepliesOK(P, q)
  <2>1. RepliesOK(Q, q)
    BY RepliesRead DEF PathOK
  <2>. QED
    BY <2>1 DEF RepliesOK, Waits
<1>. QED
  BY <1>2, <1>3, <1>4 DEF PathOK

\* What w does about what it reads, if it reads.
Reads1(A, B, s, t) == \/ t = s /\ NamesKept(A, B)
                      \/ s # <<>> /\ t = Tail(s) /\ NamesFrom(A, B, Head(s))

Returns1(r, q, Q) ==
  \A j \in DOMAIN q : Among(r, q[j]) \/ (q[j].k = "return" => Waits(Q, q[j].id, q[j].n))

LEMMA AnswererStep ==
  ASSUME NEW T, NEW Q, NEW C, NEW K, NEW A, NEW E, NEW s \in Seq(Message), NEW r, NEW v, NEW w,
         PathOK(T, Q, C, K, A, E, s, r, v, w), Mentions(T, C, K, A, s, v),
         NEW F, DOMAIN E \subseteq DOMAIN F, NEW B, NEW t, Reads1(A, B, s, t), Entered(A, B, C),
         NEW L, Forwards1(K, L, C),
         NEW q, Replies1(r, q, C), Returns1(r, q, Q), NEW S, OrderOK(S, C, L, t, v, w)
  PROVE  PathOK(S, Q, C, L, B, F, t, q, v, w)
<1>1. \A j \in DOMAIN t : Among(s, t[j])
  BY AfterTail DEF Reads1, Among
<1>2. SlotsOK(Q, B, t)
  BY SlotsKept, SlotsRead DEF Reads1, PathOK
<1>3. AimsOK(C, B, t)
  BY AimsKept, AimsRead DEF Reads1, PathOK
<1>4. OriginsOK(C, L, B, F, t, q)
  <2>1. OriginsOK(C, K, A, E, s, r) /\ Follows(C, C) /\ Mentioned(C, K, A, s)
    BY DEF PathOK, Lasts, Follows, Mentions
  <2>2. Sends1(s, t, C, F)
    BY <1>1 DEF Sends1
  <2>. QED
    BY <2>1, <2>2, OriginsStep
<1>5. RepliesOK(Q, q)
  BY DEF Returns1, PathOK, RepliesOK, Among
<1>. QED
  BY <1>2, <1>3, <1>4, <1>5 DEF PathOK

-----------------------------------------------------------------------------
(* Every Return that is on its way finds a question. *)

LEMMA AmongAppended ==
  ASSUME NEW S, NEW u \in Seq(S), NEW x \in S, NEW t, t = Append(u, x)
  PROVE  t \in Seq(S) /\ Among(t, x) /\ \A y : Among(u, y) => Among(t, y)
<1>1. t \in Seq(S) /\ DOMAIN t = DOMAIN u \cup {Len(u) + 1} /\ t[Len(u) + 1] = x /\ \A j \in DOMAIN u : t[j] = u[j]
  OBVIOUS
<1>. QED
  BY <1>1 DEF Among

LEMMA OfKindsHas ==
  ASSUME NEW S, NEW s \in Seq(S), NEW K, NEW i \in DOMAIN s, s[i].k \in K
  PROVE  Among(OfKinds(s, K), s[i])
<1>1. PICK f : Sifting(f, s, K, Len(s)) /\ OfKinds(s, K) = f[Len(s)]
  BY OfKindsIs
<1> DEFINE Bad(j) == f[j] \notin Seq(S) \/ (i <= j /\ ~Among(f[j], s[i]))
           T == {j \in 0 .. Len(s) : Bad(j)}
<1>0. i \in 1 .. Len(s) /\ Len(s) \in Nat
  OBVIOUS
<1> SUFFICES ASSUME T # {} PROVE FALSE
  BY <1>0, <1>1
<1>2. PICK m \in T : \A j \in T : m <= j
  <2>1. T \subseteq Nat
    OBVIOUS
  <2>. QED
    BY <2>1, LeastNatural
<1>3. m \in 0 .. Len(s) /\ Bad(m)
  OBVIOUS
<1>4. f[0] = <<>> /\ <<>> \in Seq(S)
  BY <1>1 DEF Sifting
<1>5. m # 0
  <2>1. ~(i <= 0)
    BY <1>0
  <2>2. ~Bad(0)
    BY <1>4, <2>1
  <2>. QED
    BY <1>3, <2>2
<1>6. m - 1 \in 0 .. Len(s) /\ ~Bad(m - 1) /\ m \in 1 .. Len(s)
  BY <1>2, <1>5
<1>7. s[m] \in S
  BY <1>5
<1>8. f[m] = Sift(f[m - 1], s[m], K)
  BY <1>1, <1>6 DEF Sifting
<1>9. f[m - 1] \in Seq(S) /\ (i <= m - 1 => Among(f[m - 1], s[i]))
  BY <1>6
<1>10. PICK u, x : u = f[m - 1] /\ x = s[m]
  OBVIOUS
<1>11. /\ u \in Seq(S) /\ x \in S /\ Append(u, x) \in Seq(S)
       /\ \A y : Among(u, y) => Among(Append(u, x), y)
       /\ Among(Append(u, x), x)
  <2>1. u \in Seq(S) /\ x \in S
    BY <1>7, <1>9, <1>10
  <2>. QED
    BY <2>1, AmongAppended
<1>12. f[m] \in Seq(S)
  BY <1>8, <1>10, <1>11 DEF Sift
<1>13. CASE i <= m - 1
  <2>1. Among(u, s[i])
    BY <1>9, <1>10, <1>13
  <2>2. Among(f[m], s[i])
    BY <1>8, <1>10, <1>11, <2>1 DEF Sift
  <2>. QED
    BY <1>3, <1>12, <2>2
<1>14. CASE ~(i <= m - 1)
  <2>1. ~(i <= m) \/ i = m
    BY <1>0, <1>6, <1>14
  <2>2. i = m => Among(f[m], s[i])
    BY <1>8, <1>10, <1>11 DEF Sift
  <2>. QED
    BY <1>3, <1>12, <2>1, <2>2
<1>. QED
  BY <1>13, <1>14

ReturnsWait(v) ==
  \A j \in DOMAIN net[v] : net[v][j].k = "return" => \E n \in Nat \ {0} : Waits(questions[v], net[v][j].id, n)

AllWait == \A v \in Vat : ReturnsWait(v)

LEMMA AllReturnsWait == Inv => AllWait
<1> SUFFICES ASSUME Inv, NEW v \in Vat, NEW j \in DOMAIN net[v], net[v][j].k = "return"
             PROVE  \E n \in Nat \ {0} : Waits(questions[v], net[v][j].id, n)
  BY DEF ReturnsWait, AllWait
<1>1. PICK s, x : s = net[v] /\ x = s[j]
  OBVIOUS
<1>2. s \in Seq(Message) /\ x.k \in ReplyKinds /\ x \in Message
  BY <1>1, ChannelTypes DEF ReplyKinds
<1>3. PICK t : t = OfKinds(s, ReplyKinds)
  OBVIOUS
<1>4. Among(t, x)
  BY <1>1, <1>2, <1>3, OfKindsHas
<1>5. PICK i \in DOMAIN t : t[i] = x
  BY <1>4 DEF Among
<1>6. Replies(s) = [y \in DOMAIN t |-> AnswerMessage(t[y])]
  BY <1>3 DEF Replies, ReplyKinds
<1>7. i \in DOMAIN Replies(s) /\ Replies(s)[i] = AnswerMessage(x)
  BY <1>5, <1>6
<1>8. AnswerMessage(x) = [k |-> "return", id |-> x.id, outcome |-> Word(x.ok)]
  BY <1>1 DEF AnswerMessage
<1>9. Replies(s)[i].k = "return" /\ Replies(s)[i].id = x.id
  BY <1>7, <1>8
<1>10. Sound(v)
  BY OfVat
<1>11. D(v)!ReturnsInv
  BY <1>10 DEF Sound, D!IInv
<1>12. i \in D(v)!Indices(Replies(s), "return")
  BY <1>7, <1>9 DEF D!Indices
<1>13. /\ x.id \in DOMAIN questions[v] /\ x.id \in DOMAIN Entries(v)
       /\ questions[v][x.id] = Entries(v)[x.id].call
  BY <1>1, <1>9, <1>11, <1>12 DEF D!ReturnsInv
<1>14. questions[v][x.id] \in Nat \ {0}
  BY <1>10, <1>13, Mapped DEF Entries
<1>. QED
  BY <1>1, <1>13, <1>14 DEF Waits

LEMMA ReturnsWaitNext == Inv' => \A v \in Vat : ReturnsWait(v)'
<1>1. Inv' => AllWait'
  BY AllReturnsWait, PTL
<1>. QED
  BY <1>1 DEF AllWait
-----------------------------------------------------------------------------
(* Both directions. *)

Path(v) == PathOK(delivered, questions[v], calls[v], calls[Peer(v)], answers[Peer(v)], exports[Peer(v)],
                  net[Peer(v)], net[v], v, Peer(v))
Mention(v) == Mentions(delivered, calls[v], calls[Peer(v)], answers[Peer(v)], net[Peer(v)], v)

\* What every step starts from.
Agreeing == Inv /\ Inv' /\ RunsInv /\ RunsInv' /\ PathsInv /\ \A u \in Vat : Step(u)

LEMMA MentionOf ==
  ASSUME RunsInv, NEW v \in Vat
  PROVE  Mention(v)
<1>1. PICK w \in Vat : w = Peer(v) /\ Peer(w) = v
  BY PeerFacts
<1>2. PICK T, C, K, A, s : /\ T = delivered /\ C = calls[v] /\ K = calls[w] /\ A = answers[w] /\ s = net[w]
  OBVIOUS
<1>3. RunsOK(T, C, K, s, A, v) /\ CallRuns(T, K, C, w)
  BY <1>1, <1>2, RunsOf1 DEF RunsOK
<1>4. \A f \in DOMAIN K : K[f].on.k = "answer" => K[f].on.n \in DOMAIN C
  BY <1>3 DEF CallRuns, CallRun
<1>5. \A id \in DOMAIN A : A[id].n \in DOMAIN C
  BY <1>3 DEF RunsOK, EntryRuns, EntryRun
<1>6. \A j \in DOMAIN s : s[j].k \in {"bootstrap", "call"} => s[j].n \in DOMAIN C
  BY <1>3 DEF RunsOK, ChannelRuns, MessageRun
<1>7. Logged(T, v, C)
  BY <1>3 DEF RunsOK
<1>. QED
  BY <1>1, <1>2, <1>4, <1>5, <1>6, <1>7 DEF Mention, Mentions, Mentioned

LEMMA PathsOf1 ==
  ASSUME PathsInv, NEW v \in Vat
  PROVE  Path(v) /\ ExportObjects(v) /\ ClaimsAgree(v)
BY DEF PathsInv, Path, PathOK

LEMMA PathsNext ==
  ASSUME \A u \in Vat : ExportObjects(u)', \A u \in Vat : Path(u)', \A u \in Vat : ClaimsAgree(u)'
  PROVE  PathsInv'
BY DEF PathsInv, Path, PathOK

-----------------------------------------------------------------------------
(* Claims: what is said of where calls on a promise end up. *)

CallsLast == \A u \in Vat : Lasts(calls[u], calls'[u])
OldEntry(A, b) == \E x \in DOMAIN A : A[x].n = b.n /\ A[x].cap = b.cap /\ A[x].done /\ A[x].ok

\* After a step all that is said of the m-th call of v was said before, or is in S: by
\* the entries of the peer, the Returns, the result, the methods started, and the Calls.
EntriesBacked(v, m, S) ==
  \A b : Among(answers'[Peer(v)], b) /\ b.n = m /\ b.done /\ b.ok
    => OldEntry(answers[Peer(v)], b) \/ Destination(Peer(v), b.cap)' \in S
ReturnsBacked(v, m, S) ==
  \A x : Among(net'[v], x) /\ x.k = "return" /\ x.ok /\ x.n = m /\ calls'[v][m].route # "bootstrap"
    => Among(net[v], x) \/ Shipped(Peer(v), x.cap)' \in S
ResultBacked(v, m, S) ==
  \A q : q = calls'[v][m] /\ q.state = "results" /\ q.route # "bootstrap" /\ q.cap.k # "error"
    => (calls[v][m].state = "results" /\ calls[v][m].cap = q.cap) \/ Destination(v, q.cap)' \in S
RunsBacked(v, m, S) ==
  \A d : Among(delivered', d) /\ MadeOn(calls'[v], calls'[Peer(v)], v, m, d.from, d.n)
    => Among(delivered, d) \/ <<d.at, d.object>> \in S
TargetsBacked(v, m, S) ==
  \A u \in Vat : \A x : /\ Among(net'[u], x) /\ x.k = "call" /\ x.target.k = "importedCap"
                       /\ MadeOn(calls'[v], calls'[Peer(v)], v, m, Peer(u), x.n)
    => Among(net[u], x) \/ Hosted(u, x.target.id)' \in S
Backed(v, m, S) == /\ EntriesBacked(v, m, S) /\ ReturnsBacked(v, m, S) /\ ResultBacked(v, m, S)
                   /\ RunsBacked(v, m, S) /\ TargetsBacked(v, m, S)

LEMMA MadeStays ==
  ASSUME NEW v, NEW m, NEW u, NEW n, NEW C, NEW N, Lasts(C, N), NEW K, NEW L, Lasts(K, L),
         u = v => n \in DOMAIN C, u = Peer(v) => n \in DOMAIN K,
         \A f \in DOMAIN K : K[f].on.k = "answer" => K[f].on.n \in DOMAIN C,
         MadeOn(N, L, v, m, u, n)
  PROVE  MadeOn(C, K, v, m, u, n)
BY DEF MadeOn, Lasts

LEMMA HostedLasts ==
  ASSUME ExportsLast, NEW u \in Vat, NEW id \in DOMAIN exports[u]
  PROVE  Hosted(u, id)' = Hosted(u, id)
BY DEF ExportsLast, ObjectsLast, Hosted, Place

LEMMA ShippedLasts ==
  ASSUME Inv, ExportsLast, NEW v \in Vat, NEW j \in DOMAIN net[v], net[v][j].k = "return",
         NEW d, d = net[v][j].cap
  PROVE  Shipped(Peer(v), d)' = Shipped(Peer(v), d)
<1>1. PICK w \in Vat : w = Peer(v) /\ Peer(w) = v
  BY PeerFacts
<1>2. Carried(d, exports[w])
  BY <1>1 DEF Inv, CountsInv, Channel
<1>3. ChannelOK(net[v], exports[v])
  BY OfVat DEF VatOK
<1>4. d.k = "receiverHosted" => d.id \in DOMAIN exports[v]
  BY <1>3 DEF ChannelOK
<1>5. d.k = "senderHosted" => d.id \in DOMAIN exports[w]
  BY <1>2 DEF Carried, NoDescriptor
<1>6. d.k = "receiverHosted" => Hosted(v, d.id)' = Hosted(v, d.id)
  BY <1>4, HostedLasts
<1>7. d.k = "senderHosted" => Hosted(w, d.id)' = Hosted(w, d.id)
  BY <1>5, HostedLasts
<1>. QED
  BY <1>1, <1>6, <1>7 DEF Shipped

LEMMA ClaimsWithin ==
  ASSUME Agreeing, ExportsLast, CallsLast, NEW v \in Vat, NEW m \in DOMAIN calls[v], NEW S,
         Claims(v, m) \subseteq S, Backed(v, m, S)
  PROVE  Claims(v, m)' \subseteq S
<1>1. PICK w \in Vat : w = Peer(v) /\ Peer(w) = v /\ w # v /\ \A u \in Vat : u = v \/ u = w
  BY PeerFacts
<1>2. Inv /\ Lasts(calls[v], calls'[v]) /\ Lasts(calls[w], calls'[w])
  BY DEF Agreeing, CallsLast
<1>3. Mention(v) /\ Mention(w) /\ Path(v) /\ Path(w)
  BY MentionOf, PathsOf1 DEF Agreeing
<1>4. /\ \A f \in DOMAIN calls[w] : calls[w][f].on.k = "answer" => calls[w][f].on.n \in DOMAIN calls[v]
      /\ Logged(delivered, v, calls[v]) /\ Logged(delivered, w, calls[w])
  BY <1>1, <1>3 DEF Mention, Mentions, Mentioned
<1>5. \A u \in Vat : \A j \in DOMAIN net[u] : net[u][j].k = "call" => net[u][j].n \in DOMAIN calls[Peer(u)]
  BY <1>1, <1>3 DEF Mention, Mentions, Mentioned
<1>6. \A u \in Vat : \A j \in DOMAIN net[u] : net[u][j].k = "call" /\ net[u][j].target.k = "importedCap"
        => net[u][j].target.id \in DOMAIN exports[u]
  <2>1. ASSUME NEW u \in {v, w}, NEW j \in DOMAIN net[u] PROVE MessageOrigin(net[u][j], calls[Peer(u)], exports[u])
    BY <1>1, <1>3, <2>1 DEF Path, PathOK, OriginsOK
  <2>. QED
    BY <1>1, <2>1 DEF MessageOrigin
<1>7. ASSUME NEW c \in AnswerCaps(answers'[w], m) PROVE Destination(w, c)' \in S
  <2>1. PICK b : Among(answers'[w], b) /\ b.n = m /\ b.done /\ b.ok /\ c = b.cap
    BY <1>7 DEF AnswerCaps, Among
  <2>2. CASE OldEntry(answers[w], b)
    <3>1. PICK x \in DOMAIN answers[w] : /\ answers[w][x].n = m /\ answers[w][x].cap = c
                                         /\ answers[w][x].done /\ answers[w][x].ok
      BY <2>1, <2>2 DEF OldEntry
    <3>2. c \in AnswerCaps(answers[w], m)
      BY <3>1 DEF AnswerCaps
    <3>3. Destination(w, c) \in Claims(v, m)
      BY <1>1, <3>2 DEF Claims
    <3>4. Known(c, exports[w], imports[w])
      BY <1>2, <3>1, EntryKnown
    <3>. QED
      BY <1>2, <3>3, <3>4, DestinationLasts
  <2>. QED
    BY <1>1, <2>1, <2>2 DEF Backed, EntriesBacked
<1>8. ASSUME NEW d \in ReturnCaps(calls'[v], net'[v], m) PROVE Shipped(w, d)' \in S
  <2>1. PICK x : Among(net'[v], x) /\ x.k = "return" /\ x.ok /\ x.n = m /\ calls'[v][m].route # "bootstrap" /\ d = x.cap
    BY <1>8 DEF ReturnCaps, Among
  <2>2. CASE Among(net[v], x)
    <3>1. PICK j \in DOMAIN net[v] : net[v][j] = x
      BY <2>2 DEF Among
    <3>2. calls[v][m].route # "bootstrap"
      BY <1>2, <2>1 DEF Lasts
    <3>3. d \in ReturnCaps(calls[v], net[v], m)
      BY <2>1, <3>1, <3>2 DEF ReturnCaps
    <3>4. Shipped(w, d) \in Claims(v, m)
      BY <1>1, <3>3 DEF Claims
    <3>. QED
      BY <1>1, <1>2, <2>1, <3>1, <3>4, ShippedLasts
  <2>. QED
    BY <1>1, <2>1, <2>2 DEF Backed, ReturnsBacked
<1>9. ASSUME NEW c \in ResultCaps(calls'[v], m) PROVE Destination(v, c)' \in S
  <2>1. PICK q : q = calls'[v][m] /\ q.state = "results" /\ q.route # "bootstrap" /\ q.cap.k # "error" /\ c = q.cap
    BY <1>9 DEF ResultCaps
  <2>2. CASE calls[v][m].state = "results" /\ calls[v][m].cap = q.cap
    <3>1. calls[v][m].route # "bootstrap"
      BY <1>2, <2>1 DEF Lasts
    <3>2. c \in ResultCaps(calls[v], m)
      BY <2>1, <2>2, <3>1 DEF ResultCaps
    <3>3. Destination(v, c) \in Claims(v, m)
      BY <3>2 DEF Claims
    <3>4. Known(c, exports[v], imports[v])
      BY <1>2, <2>1, <2>2, HeldKnown
    <3>. QED
      BY <1>2, <3>3, <3>4, DestinationLasts
  <2>. QED
    BY <2>1, <2>2 DEF Backed, ResultBacked
<1>10. RunPlaces(delivered', calls'[v], calls'[w], v, m) \subseteq S
  <2> SUFFICES ASSUME NEW p \in RunPlaces(delivered', calls'[v], calls'[w], v, m) PROVE p \in S
    OBVIOUS
  <2>1. PICK d : Among(delivered', d) /\ MadeOn(calls'[v], calls'[w], v, m, d.from, d.n) /\ p = <<d.at, d.object>>
    BY DEF RunPlaces, Among
  <2>2. CASE Among(delivered, d)
    <3>1. PICK i \in DOMAIN delivered : delivered[i] = d
      BY <2>2 DEF Among
    <3>2. MadeOn(calls[v], calls[w], v, m, d.from, d.n)
      BY <1>1, <1>2, <1>4, <2>1, <3>1, MadeStays DEF Logged
    <3>3. p \in RunPlaces(delivered, calls[v], calls[w], v, m)
      BY <2>1, <3>1, <3>2 DEF RunPlaces
    <3>. QED
      BY <1>1, <3>3 DEF Claims
  <2>. QED
    BY <1>1, <2>1, <2>2 DEF Backed, RunsBacked
<1>11. ASSUME NEW u \in Vat, NEW id \in CallTargets(net'[u], Peer(u), calls'[v], calls'[w], v, m)
       PROVE  Hosted(u, id)' \in S
  <2>1. PICK x : /\ Among(net'[u], x) /\ x.k = "call" /\ x.target.k = "importedCap" /\ id = x.target.id
                 /\ MadeOn(calls'[v], calls'[w], v, m, Peer(u), x.n)
    BY <1>11 DEF CallTargets, Among
  <2>2. CASE Among(net[u], x)
    <3>1. PICK j \in DOMAIN net[u] : net[u][j] = x
      BY <2>2 DEF Among
    <3>2. MadeOn(calls[v], calls[w], v, m, Peer(u), x.n)
      <4>1. x.n \in DOMAIN calls[Peer(u)]
        BY <1>5, <2>1, <3>1
      <4>. QED
        BY <1>1, <1>2, <1>4, <2>1, <4>1, MadeStays
    <3>3. id \in CallTargets(net[u], Peer(u), calls[v], calls[w], v, m)
      BY <2>1, <3>1, <3>2 DEF CallTargets
    <3>4. Hosted(u, id) \in Claims(v, m)
      BY <1>1, <3>3 DEF Claims
    <3>5. id \in DOMAIN exports[u]
      BY <1>6, <2>1, <3>1
    <3>. QED
      BY <3>4, <3>5, HostedLasts
  <2>. QED
    BY <1>1, <2>1, <2>2 DEF Backed, TargetsBacked
<1>12. \A id \in CallTargets(net'[v], w, calls'[v], calls'[w], v, m) : Hosted(v, id)' \in S
  BY <1>1, <1>11
<1>13. \A id \in CallTargets(net'[w], v, calls'[v], calls'[w], v, m) : Hosted(w, id)' \in S
  BY <1>1, <1>11
<1>. QED
  BY <1>1, <1>7, <1>8, <1>9, <1>10, <1>12, <1>13 DEF Claims

\* It is: the claims still agree, or the first is made as the call is decided.
Founded(v, m) ==
  \/ Backed(v, m, Claims(v, m))
  \/ /\ DecidedFor(v, m) = "none" /\ DecidedFor(v, m)' # "none"
     /\ \E p : Backed(v, m, {p})

LEMMA ClaimsStep ==
  ASSUME Agreeing, ExportsLast, CallsLast, NEW v \in Vat,
         \A m \in AskedBy(v) : Founded(v, m),
         \A m \in DOMAIN calls'[v] : m \in DOMAIN calls[v] \/ Claims(v, m)' = {}
  PROVE  ClaimsAgree(v)'
<1>1. Inv /\ Sound(v) /\ Step(v) /\ ClaimsAgree(v)
  BY OfVat, PathsOf1 DEF Agreeing
<1> SUFFICES ASSUME NEW m \in AskedBy(v)'
             PROVE  /\ \A p, q \in Claims(v, m)' : p = q
                    /\ Claims(v, m)' # {} => DecidedFor(v, m)' # "none"
  BY DEF ClaimsAgree
<1>2. CASE m \notin DOMAIN calls[v]
  BY <1>2 DEF AskedBy
<1>3. CASE m \in DOMAIN calls[v]
  <2>1. m \in AskedBy(v) /\ m \in Nat \ {0}
    BY <1>1, <1>3, CallTypes DEF AskedBy, CallsLast, Lasts
  <2>2. /\ \A p, q \in Claims(v, m) : p = q
        /\ Claims(v, m) # {} => DecidedFor(v, m) # "none"
    BY <1>1, <2>1 DEF ClaimsAgree
  <2>3. DecidedFor(v, m) # "none" => DecidedFor(v, m)' # "none"
    BY <1>1, <2>1, DecidedStays
  <2>4. CASE Backed(v, m, Claims(v, m))
    <3>1. PICK S : S = Claims(v, m)
      OBVIOUS
    <3>2. Claims(v, m)' \subseteq S
      <4>1. Claims(v, m) \subseteq S /\ Backed(v, m, S)
        BY <2>4, <3>1
      <4>. QED
        BY <1>3, <4>1, ClaimsWithin
    <3>. QED
      BY <2>2, <2>3, <3>1, <3>2
  <2>5. CASE DecidedFor(v, m) = "none" /\ DecidedFor(v, m)' # "none" /\ \E p : Backed(v, m, {p})
    <3>1. PICK p : Backed(v, m, {p})
      BY <2>5
    <3>2. Claims(v, m)' \subseteq {p}
      <4>1. Claims(v, m) \subseteq {p}
        BY <2>2, <2>5
      <4>. QED
        BY <1>3, <3>1, <4>1, ClaimsWithin
    <3>. QED
      BY <2>5, <3>2
  <2>. QED
    BY <2>1, <2>4, <2>5 DEF Founded
<1>. QED
  BY <1>2, <1>3

-----------------------------------------------------------------------------
(* Steps that add nothing to the claims. *)

EntriesLast(A, B) == \A b : Among(B, b) /\ b.done /\ b.ok => OldEntry(A, b)
ReturnsLast(r, q) == \A x : Among(q, x) /\ x.k = "return" /\ x.ok => Among(r, x)
TargetsLast(s, t) == \A x : Among(t, x) /\ x.k = "call" /\ x.target.k = "importedCap" => Among(s, x)
ResultsLast(C, N) ==
  \A m \in DOMAIN C : N[m].state = "results" /\ N[m].id # NoId /\ N[m].route # "bootstrap"
    => C[m].state = "results" /\ C[m].cap = N[m].cap

LEMMA EntriesBack ==
  ASSUME NEW v, NEW m, NEW S, EntriesLast(answers[Peer(v)], answers'[Peer(v)])
  PROVE  EntriesBacked(v, m, S)
BY DEF EntriesBacked, EntriesLast

LEMMA ReturnsBack ==
  ASSUME NEW v, NEW m, NEW S, ReturnsLast(net[v], net'[v])
  PROVE  ReturnsBacked(v, m, S)
BY DEF ReturnsBacked, ReturnsLast

LEMMA ResultBack ==
  ASSUME NEW v, NEW m \in AskedBy(v), NEW S, CallsLast, v \in Vat, ResultsLast(calls[v], calls'[v])
  PROVE  ResultBacked(v, m, S)
BY DEF ResultBacked, ResultsLast, AskedBy, CallsLast, Lasts

LEMMA RunsBack ==
  ASSUME NEW v, NEW m, NEW S, delivered' = delivered
  PROVE  RunsBacked(v, m, S)
BY DEF RunsBacked

LEMMA TargetsBack ==
  ASSUME NEW v, NEW m, NEW S, \A u \in Vat : TargetsLast(net[u], net'[u])
  PROVE  TargetsBacked(v, m, S)
BY DEF TargetsBacked, TargetsLast

LEMMA EntriesSame ==
  ASSUME NEW A
  PROVE  EntriesLast(A, A)
BY DEF EntriesLast, OldEntry, Among

LEMMA EntriesPut ==
  ASSUME NEW A, NEW E, EntriesLast(A, E), NEW id, NEW a, ~a.done \/ ~a.ok, NEW B, B = Put(E, id, a)
  PROVE  EntriesLast(A, B)
<1>1. \A b : Among(B, b) => b = a \/ Among(E, b)
  BY DEF Among, Put
<1>. QED
  BY <1>1 DEF EntriesLast

LEMMA EntriesSet ==
  ASSUME NEW A, NEW id, NEW b, ~b.done \/ ~b.ok, NEW B, B = [A EXCEPT ![id] = b]
  PROVE  EntriesLast(A, B)
<1>1. DOMAIN B = DOMAIN A /\ \A x \in DOMAIN A : B[x] = A[x] \/ B[x] = b
  OBVIOUS
<1>. QED
  BY <1>1 DEF EntriesLast, OldEntry, Among

LEMMA EntriesRemoved ==
  ASSUME NEW A, NEW id, NEW B, B = Remove(A, id)
  PROVE  EntriesLast(A, B)
BY DEF EntriesLast, OldEntry, Among, Remove

LEMMA ReturnsRead ==
  ASSUME NEW r \in Seq(Message), NEW q, ReadFrom(r, q)
  PROVE  ReturnsLast(r, q) /\ TargetsLast(r, q)
<1>1. \A j \in DOMAIN q : Among(r, q[j])
  BY ReadAmong
<1>. QED
  BY <1>1 DEF ReturnsLast, TargetsLast, Among

LEMMA ReturnsSent ==
  ASSUME NEW s \in Seq(Message), NEW m \in Message, NEW t, t = s \o <<m>>
  PROVE  /\ m.k # "return" \/ ~m.ok => ReturnsLast(s, t)
         /\ m.k # "call" \/ m.target.k # "importedCap" => TargetsLast(s, t)
<1>1. \A j \in DOMAIN t : Among(s, t[j]) \/ t[j] = m
  BY SentAmong
<1>. QED
  BY <1>1 DEF ReturnsLast, TargetsLast, Among

\* Messages that are read, and no Call sent.
LEMMA TargetsSaid ==
  ASSUME Inv, NEW u \in Vat, ReadFrom(net[u], net'[u]), Says(net[Peer(u)], net'[Peer(u)])
  PROVE  \A v \in Vat : TargetsLast(net[v], net'[v])
<1>1. PICK p \in Vat : p = Peer(u) /\ Peer(p) = u /\ \A v \in Vat : v = u \/ v = p
  BY PeerFacts
<1>2. PICK r, q, s, t : r = net[u] /\ q = net'[u] /\ s = net[p] /\ t = net'[p]
  OBVIOUS
<1>3. r \in Seq(Message) /\ s \in Seq(Message)
  BY <1>1, <1>2, ChannelTypes
<1>4. TargetsLast(r, q)
  BY <1>2, <1>3, ReturnsRead
<1>5. TargetsLast(s, t)
  <2>1. CASE t = s
    BY <2>1, <1>3, ReturnsRead DEF ReadFrom
  <2>2. ASSUME NEW m \in Message, m.k \notin {"call", "bootstrap"}, t = s \o <<m>>
        PROVE  TargetsLast(s, t)
    BY <1>3, <2>2, ReturnsSent
  <2>. QED
    BY <1>1, <1>2, <2>1, <2>2 DEF Says
<1>. QED
  BY <1>1, <1>2, <1>4, <1>5

\* Nothing is said that was not said before.
LEMMA QuietClaims ==
  ASSUME Agreeing, ExportsLast, CallsLast, NEW v \in Vat,
         EntriesLast(answers[Peer(v)], answers'[Peer(v)]), ReturnsLast(net[v], net'[v]),
         ResultsLast(calls[v], calls'[v]), delivered' = delivered,
         \A u \in Vat : TargetsLast(net[u], net'[u]),
         \A m \in DOMAIN calls'[v] : m \in DOMAIN calls[v] \/ Claims(v, m)' = {}
  PROVE  ClaimsAgree(v)'
<1>1. ASSUME NEW m \in AskedBy(v) PROVE Backed(v, m, Claims(v, m))
  BY EntriesBack, ReturnsBack, ResultBack, RunsBack, TargetsBack DEF Backed
<1>2. \A m \in AskedBy(v) : Founded(v, m)
  BY <1>1 DEF Founded
<1>. QED
  BY <1>2, ClaimsStep

AllMention == \A u \in Vat : Mention(u)

LEMMA MentionNext == RunsInv' => \A u \in Vat : Mention(u)'
<1>1. RunsInv => AllMention
  BY MentionOf DEF AllMention
<1>2. RunsInv' => AllMention'
  BY <1>1, PTL
<1>. QED
  BY <1>2 DEF AllMention

\* Of a call that was just made nothing is said.
LEMMA NewClaims ==
  ASSUME Agreeing, NEW v \in Vat, answers'[Peer(v)] = answers[Peer(v)], calls'[Peer(v)] = calls[Peer(v)],
         ReadFrom(net[v], net'[v]), Lasts(calls[v], calls'[v]),
         \A n \in DOMAIN calls'[v] : calls'[v][n].on.k = "call" => calls'[v][n].on.n \in DOMAIN calls[v],
         NEW m \in DOMAIN calls'[v], m \notin DOMAIN calls[v], calls'[v][m].state # "results"
  PROVE  Claims(v, m)' = {}
<1>1. PICK w \in Vat : w = Peer(v) /\ Peer(w) = v /\ w # v /\ \A u \in Vat : u = v \/ u = w
  BY PeerFacts
<1>2. Inv /\ RunsInv /\ Mention(v) /\ Mention(w) /\ Path(v)
  BY <1>1, MentionOf, PathsOf1 DEF Agreeing
<1>3. PICK C, N, K, A, q : C = calls[v] /\ N = calls'[v] /\ K = calls[w] /\ A = answers[w] /\ q = net'[v]
  OBVIOUS
<1>4. calls'[w] = K /\ answers'[w] = A
  BY <1>1, <1>3
<1>5. /\ \A f \in DOMAIN K : K[f].on.k = "answer" => K[f].on.n \in DOMAIN C
      /\ \A id \in DOMAIN A : A[id].n \in DOMAIN C
  BY <1>1, <1>2, <1>3 DEF Mention, Mentions, Mentioned
<1>6. \A j \in DOMAIN q : q[j].k = "return" => q[j].n \in DOMAIN C
  <2>1. net[v] \in Seq(Message)
    BY <1>2, ChannelTypes
  <2>2. \A j \in DOMAIN q : Among(net[v], q[j])
    BY <1>3, <2>1, ReadAmong
  <2>3. \A j \in DOMAIN net[v] : net[v][j].k = "return" => net[v][j].n \in DOMAIN C
    BY <1>2, <1>3 DEF Path, PathOK, OriginsOK, ReplyOrigin
  <2>. QED
    BY <2>2, <2>3 DEF Among
<1>7. \A u, n : (u = v => n \in DOMAIN N) /\ (u = w => n \in DOMAIN K) => ~MadeOn(N, K, v, m, u, n)
  <2> SUFFICES ASSUME NEW u, NEW n, u = v => n \in DOMAIN N, u = w => n \in DOMAIN K, MadeOn(N, K, v, m, u, n)
               PROVE  FALSE
    OBVIOUS
  <2>1. CASE u = v /\ N[n].on = [k |-> "call", n |-> m]
    <3>1. N[n].on.k = "call" /\ N[n].on.n = m
      BY <2>1
    <3>. QED
      BY <1>3, <2>1, <3>1
  <2>2. CASE u = w /\ K[n].on.k = "answer" /\ N[K[n].on.n].on = [k |-> "call", n |-> m]
    <3>1. K[n].on.n \in DOMAIN N
      BY <1>3, <1>5, <2>2 DEF Lasts
    <3>2. N[K[n].on.n].on.k = "call" /\ N[K[n].on.n].on.n = m
      BY <2>2
    <3>. QED
      BY <1>3, <3>1, <3>2
  <2>. QED
    BY <1>1, <2>1, <2>2 DEF MadeOn
<1>8. /\ Logged(delivered', v, N) /\ Logged(delivered', w, K)
      /\ \A j \in DOMAIN net'[w] : net'[w][j].k = "call" => net'[w][j].n \in DOMAIN N
      /\ \A j \in DOMAIN net'[v] : net'[v][j].k = "call" => net'[v][j].n \in DOMAIN K
  <2>1. \A u \in Vat : Mention(u)'
    BY MentionNext DEF Agreeing
  <2>2. Mentions(delivered', N, K, answers'[w], net'[w], v)
    BY <1>1, <1>3, <1>4, <2>1 DEF Mention
  <2>3. Mentions(delivered', K, N, answers'[v], net'[v], w)
    BY <1>1, <1>3, <1>4, <2>1 DEF Mention
  <2>. QED
    BY <2>2, <2>3 DEF Mentions, Mentioned
<1>9. AnswerCaps(answers'[w], m) = {}
  BY <1>3, <1>4, <1>5 DEF AnswerCaps
<1>10. ReturnCaps(N, net'[v], m) = {}
  BY <1>3, <1>6 DEF ReturnCaps
<1>11. ResultCaps(N, m) = {}
  BY <1>3 DEF ResultCaps
<1>12. RunPlaces(delivered', N, K, v, m) = {}
  BY <1>1, <1>7, <1>8 DEF RunPlaces, Logged
<1>13. CallTargets(net'[v], w, N, K, v, m) = {} /\ CallTargets(net'[w], v, N, K, v, m) = {}
  BY <1>1, <1>7, <1>8 DEF CallTargets
<1>. QED
  BY <1>1, <1>3, <1>4, <1>9, <1>10, <1>11, <1>12, <1>13 DEF Claims

-----------------------------------------------------------------------------
(* One direction of a step. *)

\* v, whose peer is still, sends no question.
LEMMA AskerPath ==
  ASSUME Inv, RunsInv, PathsInv, NEW v \in Vat, NEW w, w = Peer(v),
         answers'[w] = answers[w], calls'[w] = calls[w], exports'[w] = exports[w],
         questions'[v] = questions[v], Follows(calls[v], calls'[v]),
         OrderOK(delivered', calls'[v], calls[w], net[w], v, w),
         ReadFrom(net[v], net'[v]), Says(net[w], net'[w])
  PROVE  Path(v)'
<1>1. PICK s, r, t, q : s = net[w] /\ r = net[v] /\ t = net'[w] /\ q = net'[v]
  OBVIOUS
<1>2. PICK T, Q, C, K, A, E : /\ T = delivered /\ Q = questions[v] /\ C = calls[v] /\ K = calls[w]
                              /\ A = answers[w] /\ E = exports[w]
  OBVIOUS
<1>3. PICK S, N : S = delivered' /\ N = calls'[v]
  OBVIOUS
<1>4. s \in Seq(Message) /\ r \in Seq(Message)
  BY <1>1, ChannelTypes
<1>5. PathOK(T, Q, C, K, A, E, s, r, v, w)
  BY <1>1, <1>2, PathsOf1 DEF Path
<1>6. Mentions(T, C, K, A, s, v)
  BY <1>1, <1>2, MentionOf DEF Mention
<1>7. Follows(C, N) /\ OrderOK(S, N, K, s, v, w) /\ ReadFrom(r, q) /\ Says(s, t)
  BY <1>1, <1>2, <1>3
<1>8. PathOK(S, Q, N, K, A, E, t, q, v, w)
  BY <1>4, <1>5, <1>6, <1>7, AskerSays
<1>. QED
  BY <1>1, <1>2, <1>3, <1>8 DEF Path

\* The peer w of v reads, answers or makes calls, while v is still.
LEMMA AnswererPath ==
  ASSUME Inv, RunsInv, PathsInv, NEW v \in Vat, NEW w, w = Peer(v),
         questions'[v] = questions[v], calls'[v] = calls[v], DOMAIN exports[w] \subseteq DOMAIN exports'[w],
         Reads1(answers[w], answers'[w], net[w], net'[w]), Entered(answers[w], answers'[w], calls[v]),
         Forwards1(calls[w], calls'[w], calls[v]),
         Replies1(net[v], net'[v], calls[v]), Returns1(net[v], net'[v], questions[v]),
         OrderOK(delivered', calls[v], calls'[w], net'[w], v, w)
  PROVE  Path(v)'
<1>1. PICK s, r, t, q : s = net[w] /\ r = net[v] /\ t = net'[w] /\ q = net'[v]
  OBVIOUS
<1>2. PICK T, Q, C, K, A, E : /\ T = delivered /\ Q = questions[v] /\ C = calls[v] /\ K = calls[w]
                              /\ A = answers[w] /\ E = exports[w]
  OBVIOUS
<1>3. PICK S, L, B, F : S = delivered' /\ L = calls'[w] /\ B = answers'[w] /\ F = exports'[w]
  OBVIOUS
<1>4. s \in Seq(Message)
  BY <1>1, ChannelTypes
<1>5. PathOK(T, Q, C, K, A, E, s, r, v, w)
  BY <1>1, <1>2, PathsOf1 DEF Path
<1>6. Mentions(T, C, K, A, s, v)
  BY <1>1, <1>2, MentionOf DEF Mention
<1>7. /\ DOMAIN E \subseteq DOMAIN F /\ Reads1(A, B, s, t) /\ Entered(A, B, C) /\ Forwards1(K, L, C)
      /\ Replies1(r, q, C) /\ Returns1(r, q, Q) /\ OrderOK(S, C, L, t, v, w)
  BY <1>1, <1>2, <1>3
<1>8. PathOK(S, Q, C, L, B, F, t, q, v, w)
  BY <1>4, <1>5, <1>6, <1>7, AnswererStep
<1>. QED
  BY <1>1, <1>2, <1>3, <1>8 DEF Path

\* More calls, or results, of which none forwards one.
Unforwarded(C, N) == \A f \in DOMAIN N : N[f].on.k = "answer" => f \in DOMAIN C /\ N[f].on = C[f].on

\* What is on its way to v is what was, or answers a question that waits.
Told(r, q, C, Q) ==
  \A j \in DOMAIN q : Among(r, q[j]) \/ (ReplyOrigin(q[j], C) /\ (q[j].k = "return" => Waits(Q, q[j].id, q[j].n)))

LEMMA AnswererOrder ==
  ASSUME Inv, RunsInv, PathsInv, NEW v \in Vat, NEW w, w = Peer(v),
         Unforwarded(calls[w], calls'[w]), ReadFrom(net[w], net'[w])
  PROVE  OrderOK(delivered, calls[v], calls'[w], net'[w], v, w)
<1>1. PICK T, C, K, L, s, t : /\ T = delivered /\ C = calls[v] /\ K = calls[w] /\ L = calls'[w]
                              /\ s = net[w] /\ t = net'[w]
  OBVIOUS
<1>2. s \in Seq(Message)
  BY <1>1, ChannelTypes
<1>3. OrderOK(T, C, K, s, v, w)
  BY <1>1, PathsOf1 DEF Path, PathOK
<1>4. Logged(T, v, C) /\ Grows(C, C)
  BY <1>1, MentionOf, Alike DEF Mention, Mentions
<1>5. OrderOK(T, C, L, s, v, w)
  <2>1. \A f \in DOMAIN L : L[f].on.k = "answer" => f \in DOMAIN K /\ L[f].on = K[f].on
    BY <1>1 DEF Unforwarded
  <2>. QED
    BY <1>3, <1>4, <2>1, OrderCalls
<1>6. OrderOK(T, C, L, t, v, w)
  BY <1>1, <1>2, <1>5, OrderRead DEF ReadFrom
<1>. QED
  BY <1>1, <1>6

LEMMA AskerOrder ==
  ASSUME Inv, RunsInv, PathsInv, NEW v \in Vat, NEW w, w = Peer(v), Lasts(calls[v], calls'[v])
  PROVE  OrderOK(delivered, calls'[v], calls[w], net[w], v, w)
<1>1. PICK T, C, K, N, s : T = delivered /\ C = calls[v] /\ K = calls[w] /\ N = calls'[v] /\ s = net[w]
  OBVIOUS
<1>2. OrderOK(T, C, K, s, v, w)
  BY <1>1, PathsOf1 DEF Path, PathOK
<1>3. Logged(T, v, C) /\ Grows(C, N)
  BY <1>1, MentionOf DEF Mention, Mentions, Lasts, Grows
<1>4. OrderOK(T, N, K, s, v, w)
  BY <1>2, <1>3, OrderCalls
<1>. QED
  BY <1>1, <1>4

\* A step of u that asks nothing and starts nothing.
LEMMA QuietPaths ==
  ASSUME Inv, RunsInv, PathsInv, NEW u \in Vat, NEW p, p = Peer(u),
         delivered' = delivered, questions' = questions,
         answers'[p] = answers[p], calls'[p] = calls[p], exports'[p] = exports[p],
         DOMAIN exports[u] \subseteq DOMAIN exports'[u],
         Follows(calls[u], calls'[u]), Unforwarded(calls[u], calls'[u]),
         ReadFrom(net[u], net'[u]), Says(net[p], net'[p]), Told(net[p], net'[p], calls[p], questions[p]),
         Reads1(answers[u], answers'[u], net[u], net'[u]), Entered(answers[u], answers'[u], calls[p])
  PROVE  \A v \in Vat : Path(v)'
<1>1. p \in Vat /\ Peer(p) = u /\ \A v \in Vat : v = u \/ v = p
  BY PeerFacts
<1>2. Path(u)'
  <2>1. OrderOK(delivered', calls'[u], calls[p], net[p], u, p)
    BY AskerOrder DEF Follows
  <2>. QED
    BY <2>1, AskerPath
<1>3. Path(p)'
  <2>1. OrderOK(delivered', calls[p], calls'[u], net'[u], p, u)
    BY <1>1, AnswererOrder
  <2>2. Replies1(net[p], net'[p], calls[p]) /\ Returns1(net[p], net'[p], questions[p])
    BY DEF Told, Replies1, Returns1
  <2>3. Forwards1(calls[u], calls'[u], calls[p])
    BY DEF Unforwarded, Forwards1
  <2>. QED
    BY <1>1, <2>1, <2>2, <2>3, AnswererPath
<1>. QED
  BY <1>1, <1>2, <1>3

-----------------------------------------------------------------------------
(* Steps after which all claims are old ones. *)

LEMMA CallsSame ==
  ASSUME NEW C
  PROVE  Follows(C, C) /\ Unforwarded(C, C) /\ ResultsLast(C, C) /\ Lasts(C, C)
BY DEF Follows, Lasts, Unforwarded, ResultsLast

LEMMA SaidNothing ==
  ASSUME NEW s, NEW C, NEW Q
  PROVE  ReadFrom(s, s) /\ Says(s, s) /\ Told(s, s, C, Q) /\ ReturnsLast(s, s)
BY DEF ReadFrom, Says, Told, ReturnsLast, Among

LEMMA EntriesStill ==
  ASSUME NEW A, NEW s, NEW C
  PROVE  Reads1(A, A, s, s) /\ Entered(A, A, C) /\ EntriesLast(A, A) /\ NamesKept(A, A)
BY NothingNew, EntriesSame DEF Reads1, NamesKept

LEMMA CallsLastOf ==
  ASSUME NEW u \in Vat, Lasts(calls[u], calls'[u]), calls'[Peer(u)] = calls[Peer(u)]
  PROVE  CallsLast
<1>1. \A v \in Vat : v = u \/ v = Peer(u)
  BY PeerFacts
<1>2. Lasts(calls[Peer(u)], calls[Peer(u)])
  BY CallsSame
<1>. QED
  BY <1>1, <1>2 DEF CallsLast

\* What u tells its peer is no capability.
LEMMA QuietBoth ==
  ASSUME Agreeing, ExportsLast, NEW u \in Vat, NEW p, p = Peer(u),
         delivered' = delivered, answers'[p] = answers[p], calls'[p] = calls[p],
         Follows(calls[u], calls'[u]), ReadFrom(net[u], net'[u]), Says(net[p], net'[p]),
         ReturnsLast(net[p], net'[p]),
         EntriesLast(answers[u], answers'[u]), ResultsLast(calls[u], calls'[u]),
         \A m \in DOMAIN calls'[u] : m \in DOMAIN calls[u] \/ Claims(u, m)' = {}
  PROVE  \A v \in Vat : ClaimsAgree(v)'
<1>1. p \in Vat /\ Peer(p) = u /\ \A v \in Vat : v = u \/ v = p
  BY PeerFacts
<1>2. CallsLast
  BY CallsLastOf DEF Follows
<1>3. Inv
  BY DEF Agreeing
<1>4. \A v \in Vat : TargetsLast(net[v], net'[v])
  BY <1>3, TargetsSaid
<1>5. ReturnsLast(net[u], net'[u])
  BY <1>3, ReturnsRead, ChannelTypes
<1>6. ClaimsAgree(u)'
  <2>1. EntriesLast(answers[p], answers'[p])
    BY EntriesSame
  <2>. QED
    BY <1>2, <1>4, <1>5, <2>1, QuietClaims
<1>7. ClaimsAgree(p)'
  <2>1. ResultsLast(calls[p], calls'[p]) /\ DOMAIN calls'[p] = DOMAIN calls[p]
    BY CallsSame
  <2>. QED
    BY <1>1, <1>2, <1>4, <2>1, QuietClaims
<1>. QED
  BY <1>1, <1>6, <1>7

\* Nothing is asked and no method is started; only u acts.
LEMMA QuietAgrees ==
  ASSUME Agreeing, ExportsLast, \A v \in Vat : ExportObjects(v)', NEW u \in Vat, NEW p, p = Peer(u),
         delivered' = delivered, questions' = questions,
         answers'[p] = answers[p], calls'[p] = calls[p], exports'[p] = exports[p],
         Follows(calls[u], calls'[u]), Unforwarded(calls[u], calls'[u]), ResultsLast(calls[u], calls'[u]),
         \A m \in DOMAIN calls'[u] : m \in DOMAIN calls[u] \/ Claims(u, m)' = {},
         ReadFrom(net[u], net'[u]), Says(net[p], net'[p]), Told(net[p], net'[p], calls[p], questions[p]),
         ReturnsLast(net[p], net'[p]),
         Reads1(answers[u], answers'[u], net[u], net'[u]), Entered(answers[u], answers'[u], calls[p]),
         EntriesLast(answers[u], answers'[u])
  PROVE  PathsInv'
<1>1. Inv /\ RunsInv /\ PathsInv
  BY DEF Agreeing
<1>2. DOMAIN exports[u] \subseteq DOMAIN exports'[u]
  BY DEF ExportsLast, ObjectsLast
<1>3. \A v \in Vat : Path(v)'
  BY <1>1, <1>2, QuietPaths
<1>4. \A v \in Vat : ClaimsAgree(v)'
  BY QuietBoth
<1>. QED
  BY <1>3, <1>4, PathsNext

LEMMA OfBoth ==
  ASSUME Agreeing
  PROVE  Inv /\ RunsInv /\ PathsInv /\ (\A v \in Vat : ExportObjects(v))
BY PathsOf1 DEF Agreeing

LEMMA StutterPaths ==
  ASSUME Agreeing, UNCHANGED vars
  PROVE  PathsInv'
<1>1. \A v \in Vat : ExportObjects(v)' /\ Path(v)' /\ ClaimsAgree(v)'
  <2> SUFFICES ASSUME NEW v \in Vat PROVE ExportObjects(v)' /\ Path(v)' /\ ClaimsAgree(v)'
    OBVIOUS
  <2>1. ExportObjects(v) /\ Path(v)
    BY PathsOf1 DEF Agreeing
  <2>2. ExportObjects(v)' /\ Path(v)'
    BY <2>1 DEF vars, ExportObjects, ObjectOf, Path
  <2>3. ExportsLast
    BY OfBoth, ExportsStill DEF vars
  <2>4. ClaimsAgree(v)'
    <3>1. /\ delivered' = delivered /\ answers'[Peer(v)] = answers[Peer(v)] /\ calls'[Peer(v)] = calls[Peer(v)]
          /\ calls'[v] = calls[v] /\ net'[v] = net[v] /\ net'[Peer(v)] = net[Peer(v)]
          /\ answers'[v] = answers[v]
      BY DEF vars
    <3>2. /\ Follows(calls[v], calls'[v]) /\ ResultsLast(calls[v], calls'[v])
          /\ ReadFrom(net[v], net'[v]) /\ Says(net[Peer(v)], net'[Peer(v)])
          /\ ReturnsLast(net[Peer(v)], net'[Peer(v)]) /\ EntriesLast(answers[v], answers'[v])
      BY <3>1, CallsSame, SaidNothing, EntriesSame
    <3>. QED
      BY <2>3, <3>1, <3>2, QuietBoth
  <2>. QED
    BY <2>2, <2>4
<1>. QED
  BY <1>1, PathsNext

LEMMA InitMainPaths ==
  ASSUME Agreeing, NEW u \in Vat, InitMain(u)
  PROVE  PathsInv'
<1>1. PICK p \in Vat : p = Peer(u) /\ p # u
  BY PeerFacts
<1>2. PICK c : c = Server(Main)
  OBVIOUS
<1>3. /\ exports' = [exports EXCEPT ![u] = Described(u, c)]
      /\ UNCHANGED <<questions, calls, answers, net, delivered>>
  BY <1>2 DEF InitMain, Described, Server
<1>4. c \in Client /\ Known(c, exports[u], imports[u])
  BY <1>2 DEF Server, Main, Client, Known, Object
<1>5. ExportsLast /\ \A v \in Vat : ExportObjects(v)'
  BY <1>3, <1>4, OfBoth, ExportsStep
<1>6. exports'[p] = exports[p]
  BY <1>1, <1>3, OfBoth, OfVat
<1>7. /\ Follows(calls[u], calls'[u]) /\ Unforwarded(calls[u], calls'[u]) /\ ResultsLast(calls[u], calls'[u])
      /\ ReadFrom(net[u], net'[u]) /\ Says(net[p], net'[p]) /\ Told(net[p], net'[p], calls[p], questions[p])
      /\ ReturnsLast(net[p], net'[p])
      /\ Reads1(answers[u], answers'[u], net[u], net'[u]) /\ Entered(answers[u], answers'[u], calls[p])
      /\ EntriesLast(answers[u], answers'[u])
  BY <1>3, CallsSame, SaidNothing, EntriesStill
<1>. QED
  BY <1>1, <1>3, <1>5, <1>6, <1>7, QuietAgrees

\* A call ends in its vat, or its results are dropped.
LEMMA CallEndsPaths ==
  ASSUME Agreeing, NEW u \in Vat, NEW n \in DOMAIN calls[u], NEW r,
         calls' = [calls EXCEPT ![u] = [calls[u] EXCEPT ![n] = r]],
         r.on = calls[u][n].on, r.route = calls[u][n].route, r.id = calls[u][n].id,
         r.cap = calls[u][n].cap \/ r.cap.k = "null", r.state # "results" \/ r.id = NoId,
         UNCHANGED <<questions, answers, exports, net, delivered>>
  PROVE  PathsInv'
<1>1. PICK p \in Vat : p = Peer(u) /\ p # u
  BY PeerFacts
<1>2. PICK C, N : C = calls[u] /\ N = calls'[u]
  OBVIOUS
<1>3. N = [C EXCEPT ![n] = r] /\ n \in DOMAIN C /\ calls'[p] = calls[p]
  BY <1>1, <1>2, OfBoth, OfVat
<1>4. DOMAIN N = DOMAIN C /\ N[n] = r /\ \A x \in DOMAIN C : x # n => N[x] = C[x]
  BY <1>3
<1>5. Follows(C, N) /\ Unforwarded(C, N) /\ ResultsLast(C, N)
  <2>1. Lasts(C, N)
    BY <1>2, <1>4 DEF Lasts
  <2>. QED
    BY <1>2, <1>4, <2>1 DEF Follows, Unforwarded, ResultsLast
<1>6. ExportsLast /\ \A v \in Vat : ExportObjects(v)'
  BY OfBoth, ExportsStill
<1>7. /\ ReadFrom(net[u], net'[u]) /\ Says(net[p], net'[p]) /\ Told(net[p], net'[p], calls[p], questions[p])
      /\ ReturnsLast(net[p], net'[p])
      /\ Reads1(answers[u], answers'[u], net[u], net'[u]) /\ Entered(answers[u], answers'[u], calls[p])
      /\ EntriesLast(answers[u], answers'[u])
  BY SaidNothing, EntriesStill
<1>8. /\ Follows(calls[u], calls'[u]) /\ Unforwarded(calls[u], calls'[u]) /\ ResultsLast(calls[u], calls'[u])
      /\ DOMAIN calls'[u] = DOMAIN calls[u]
  BY <1>2, <1>4, <1>5
<1>. QED
  BY <1>1, <1>3, <1>6, <1>7, <1>8, QuietAgrees

LEMMA LocalFinishPaths ==
  ASSUME Agreeing, NEW u \in Vat, NEW n \in DOMAIN calls[u], NEW ok \in BOOLEAN, LocalFinish(u, n, ok)
  PROVE  PathsInv'
<1>1. PICK s : calls' = [calls EXCEPT ![u][n].state = s]
  BY DEF LocalFinish
<1>2. UNCHANGED <<questions, answers, exports, net, delivered>> /\ calls[u][n].route = "local"
  BY DEF LocalFinish, tables
<1>3. calls[u][n] \in CallRecord /\ DOMAIN calls = Vat /\ calls[u][n].id = NoId
  BY <1>2, OfBoth, CallTypes, OfVat
<1>4. PICK r : r = [calls[u][n] EXCEPT !.state = s]
  OBVIOUS
<1>5. calls' = [calls EXCEPT ![u] = [calls[u] EXCEPT ![n] = r]]
  BY <1>1, <1>4
<1>6. /\ r.on = calls[u][n].on /\ r.route = calls[u][n].route /\ r.id = calls[u][n].id
      /\ r.cap = calls[u][n].cap
  BY <1>3, <1>4 DEF CallRecord
<1>. QED
  BY <1>2, <1>3, <1>5, <1>6, CallEndsPaths

LEMMA DropPaths ==
  ASSUME Agreeing, NEW u \in Vat, NEW n \in DOMAIN calls[u], Drop(u, n)
  PROVE  PathsInv'
<1>1. /\ calls' = [calls EXCEPT ![u][n].state = "dropped", ![u][n].cap = NullClient]
      /\ UNCHANGED <<questions, answers, exports, net, delivered>>
  BY DEF Drop
<1>2. calls[u][n] \in CallRecord /\ DOMAIN calls = Vat
  BY OfBoth, CallTypes, OfVat
<1>3. PICK r : r = [[calls[u][n] EXCEPT !.state = "dropped"] EXCEPT !.cap = NullClient]
  OBVIOUS
<1>4. calls' = [calls EXCEPT ![u] = [calls[u] EXCEPT ![n] = r]]
  BY <1>1, <1>2, <1>3
<1>5. /\ r.on = calls[u][n].on /\ r.route = calls[u][n].route /\ r.id = calls[u][n].id
      /\ r.cap = NullClient /\ r.state = "dropped"
  BY <1>2, <1>3 DEF CallRecord
<1>6. NullClient.k = "null"
  BY DEF NullClient
<1>7. UNCHANGED <<questions, answers, exports, net, delivered>>
  BY <1>1
<1>8. r.cap = calls[u][n].cap \/ r.cap.k = "null"
  BY <1>5, <1>6
<1>9. r.state # "results" \/ r.id = NoId
  BY <1>5
<1>. QED
  BY <1>4, <1>5, <1>7, <1>8, <1>9, CallEndsPaths

-----------------------------------------------------------------------------
(* A message is answered. *)

\* What u knows of the question that it reads.
LEMMA Asked ==
  ASSUME Agreeing, NEW u \in Vat, NEW p, p = Peer(u), NEW k \in {"bootstrap", "call"}, Handles(u, k),
         NEW m, m = Head(net[u])
  PROVE  /\ m \in Message /\ m.k = k /\ m.n \in Nat \ {0} /\ m.id \in Nat /\ m.n \in DOMAIN calls[p]
         /\ Waits(questions[p], m.id, m.n) /\ DecidedFor(p, m.n) = "none" /\ m.id \notin DOMAIN answers[u]
         /\ MessageOrigin(m, calls[p], exports[u]) /\ net[u] # <<>> /\ net[u] \in Seq(Message)
         /\ k = "bootstrap" => calls[p][m.n].route = "bootstrap"
<1>1. p \in Vat /\ Peer(p) = u
  BY PeerFacts
<1>2. Inv /\ RunsInv /\ Path(p) /\ Mention(p)
  BY <1>1, PathsOf1, MentionOf DEF Agreeing
<1>3. net[u] # <<>> /\ net[u] \in Seq(Message) /\ m \in Message /\ m.k = k
  BY <1>2, HeadFacts, ChannelTypes
<1>4. Sound(p)
  BY <1>1, <1>2, OfVat
<1>5. /\ m.id \in Nat /\ m.n \in Nat \ {0} /\ m.id \notin DOMAIN answers[u]
      /\ m.id \in DOMAIN questions[p] /\ questions[p][m.id] = m.n /\ Decided(p)[m.n] = "none"
  BY <1>1, <1>3, <1>4, CallFacts
<1>6. DecidedFor(p, m.n) = "none"
  BY <1>5 DEF Decided
<1>7. 1 \in DOMAIN net[u] /\ net[u][1] = m
  BY <1>3
<1>8. MessageOrigin(m, calls[p], exports[u])
  BY <1>1, <1>2, <1>7 DEF Path, PathOK, OriginsOK
<1>9. m.n \in DOMAIN calls[p]
  BY <1>1, <1>2, <1>3, <1>7 DEF Mention, Mentions, Mentioned
<1>10. k = "bootstrap" => calls[p][m.n].route = "bootstrap"
  <2>1. MessageRun(m, delivered, calls[p], calls[u], p)
    BY <1>2, HeadRuns
  <2>. QED
    BY <1>3, <2>1 DEF MessageRun
<1>. QED
  BY <1>3, <1>5, <1>6, <1>8, <1>9, <1>10 DEF Waits

\* The same calls under the same ids.
SameNames(A, E) == /\ DOMAIN E \subseteq DOMAIN A
                   /\ \A id \in DOMAIN E : E[id].n = A[id].n /\ E[id].callee = A[id].callee

\* What is said in answer to m.
AnswerTo(r, m) == r.k = "return" => r.id = m.id /\ r.n = m.n /\ r.cap.k = "none"
EntryFor(a, m) == a.n = m.n /\ (m.k = "bootstrap" => a.callee.k = "none")
EntriesNow(u, B) == answers' = [answers EXCEPT ![u] = B]
OneAnswer(ms, m) == ms = <<>> \/ \E r \in Message : AnswerTo(r, m) /\ ms = <<r>>

LEMMA NamesPut ==
  ASSUME NEW A, NEW E, SameNames(A, E), NEW m, m.k \in {"bootstrap", "call"}, m.id \notin DOMAIN A,
         NEW a, a.n = m.n, NEW B, B = Put(E, m.id, a)
  PROVE  NamesFrom(A, B, m)
<1>1. DOMAIN B = DOMAIN E \cup {m.id}
  BY DEF Put
<1>2. \A id \in DOMAIN B : B[id] = IF id = m.id THEN a ELSE E[id]
  BY DEF Put
<1>. QED
  BY <1>1, <1>2 DEF NamesFrom, SameNames

LEMMA EnteredPut ==
  ASSUME NEW A, NEW E, SameNames(A, E), NEW C, NEW id, NEW a,
         a.callee.k = "none" \/ C[a.n].route # "bootstrap", NEW B, B = Put(E, id, a)
  PROVE  Entered(A, B, C)
<1>1. \A x \in DOMAIN B : B[x] = a \/ (x \in DOMAIN E /\ B[x] = E[x])
  BY DEF Put
<1>. QED
  BY <1>1 DEF Entered, SameNames

LEMMA ToldOne ==
  ASSUME NEW s \in Seq(Message), NEW C, NEW Q, NEW r \in Message,
         r.k = "return" => /\ r.n \in DOMAIN C /\ (C[r.n].route = "bootstrap" => r.cap.k = "none")
                           /\ Waits(Q, r.id, r.n),
         NEW t, t = s \o <<r>>
  PROVE  Told(s, t, C, Q)
<1>1. \A j \in DOMAIN t : Among(s, t[j]) \/ t[j] = r
  BY SentAmong
<1>. QED
  BY <1>1 DEF Told, ReplyOrigin

LEMMA AnswersOne ==
  ASSUME Agreeing, NEW u \in Vat, NEW p, p = Peer(u), NEW k \in {"bootstrap", "call"}, Handles(u, k),
         NEW m, m = Head(net[u]), NEW a, EntryFor(a, m),
         NEW E, SameNames(answers[u], E), NEW B, B = Put(E, m.id, a), EntriesNow(u, B),
         NEW ms, Reply(u, ms), OneAnswer(ms, m)
  PROVE  /\ answers'[p] = answers[p] /\ answers'[u] = B
         /\ ReadFrom(net[u], net'[u]) /\ Told(net[p], net'[p], calls[p], questions[p])
         /\ Reads1(answers[u], answers'[u], net[u], net'[u]) /\ Entered(answers[u], answers'[u], calls[p])
         /\ net'[u] = Tail(net[u])
<1>1. p \in Vat /\ p # u
  BY PeerFacts
<1>2. Inv
  BY DEF Agreeing
<1>3. /\ m \in Message /\ m.k = k /\ m.n \in DOMAIN calls[p]
      /\ Waits(questions[p], m.id, m.n) /\ m.id \notin DOMAIN answers[u]
      /\ MessageOrigin(m, calls[p], exports[u]) /\ net[u] # <<>>
  BY Asked
<1>4. answers'[p] = answers[p] /\ answers'[u] = B
  BY <1>1, <1>2, OfVat DEF EntriesNow
<1>5. net'[u] = Tail(net[u]) /\ net'[p] = net[p] \o ms
  BY <1>2, NetReplied DEF Inv
<1>6. NamesFrom(answers[u], answers'[u], m)
  BY <1>3, <1>4, NamesPut DEF EntryFor
<1>7. Entered(answers[u], answers'[u], calls[p])
  <2>1. a.callee.k = "none" \/ calls[p][a.n].route # "bootstrap"
    BY <1>3 DEF MessageOrigin, EntryFor
  <2>. QED
    BY <1>4, <2>1, EnteredPut
<1>8. Told(net[p], net'[p], calls[p], questions[p])
  <2>1. PICK s, t : s = net[p] /\ t = net'[p]
    OBVIOUS
  <2>2. s \in Seq(Message) /\ t = s \o ms
    BY <1>2, <1>5, <2>1, ChannelTypes
  <2>3. CASE ms = <<>>
    <3>1. t = s
      BY <2>2, <2>3
    <3>. QED
      BY <2>1, <3>1, SaidNothing
  <2>4. ASSUME NEW r \in Message, AnswerTo(r, m), ms = <<r>> PROVE Told(s, t, calls[p], questions[p])
    <3>1. r.k = "return" => /\ r.n \in DOMAIN calls[p] /\ (calls[p][r.n].route = "bootstrap" => r.cap.k = "none")
                            /\ Waits(questions[p], r.id, r.n)
      BY <1>3, <2>4 DEF AnswerTo
    <3>. QED
      BY <2>2, <2>4, <3>1, ToldOne
  <2>. QED
    BY <2>1, <2>3, <2>4 DEF OneAnswer
<1>. QED
  BY <1>3, <1>4, <1>5, <1>6, <1>7, <1>8 DEF ReadFrom, Reads1

\* The entry that is made holds no result.
LEMMA AnswerAgrees ==
  ASSUME Agreeing, NEW u \in Vat, NEW p, p = Peer(u), NEW k \in {"bootstrap", "call"}, Handles(u, k),
         NEW m, m = Head(net[u]), NEW a, a.n = m.n, k = "bootstrap" => a.callee.k = "none",
         ~a.done \/ ~a.ok, NEW E, SameNames(answers[u], E), EntriesLast(answers[u], E),
         answers' = [answers EXCEPT ![u] = Put(E, m.id, a)],
         NEW ms, Reply(u, ms),
         ms = <<>> \/ \E r \in Message : /\ AnswerTo(r, m) /\ r.k \notin {"call", "bootstrap"}
                                        /\ (r.k = "return" => ~r.ok) /\ ms = <<r>>,
         UNCHANGED <<questions, calls, exports, delivered>>
  PROVE  PathsInv'
<1>1. p \in Vat /\ p # u
  BY PeerFacts
<1>2. Inv
  BY DEF Agreeing
<1>3. OneAnswer(ms, m)
  BY DEF OneAnswer
<1>4. EntryFor(a, m)
  BY <1>2, HeadFacts DEF EntryFor
<1>5. PICK B : B = Put(E, m.id, a)
  OBVIOUS
<1>6. EntriesNow(u, B)
  BY <1>5 DEF EntriesNow
<1>7. /\ answers'[p] = answers[p] /\ answers'[u] = B
      /\ ReadFrom(net[u], net'[u]) /\ Told(net[p], net'[p], calls[p], questions[p])
      /\ Reads1(answers[u], answers'[u], net[u], net'[u]) /\ Entered(answers[u], answers'[u], calls[p])
  BY ONLY Agreeing, u \in Vat, p = Peer(u), k \in {"bootstrap", "call"}, Handles(u, k), m = Head(net[u]),
          SameNames(answers[u], E), Reply(u, ms), <1>4, <1>5, <1>6, <1>3, AnswersOne, ZenonT(30)
<1>8. EntriesLast(answers[u], answers'[u])
  BY <1>5, <1>7, EntriesPut
<1>9. Says(net[p], net'[p])
  BY <1>2, Replied
<1>10. ReturnsLast(net[p], net'[p])
  <2>1. PICK s, t : s = net[p] /\ t = net'[p]
    OBVIOUS
  <2>2. s \in Seq(Message) /\ t = s \o ms
    BY <1>2, <2>1, ChannelTypes, NetReplied DEF Inv
  <2>3. CASE ms = <<>>
    <3>1. t = s
      BY <2>2, <2>3
    <3>. QED
      BY <2>1, <3>1, SaidNothing
  <2>4. ASSUME NEW r \in Message, r.k = "return" => ~r.ok, ms = <<r>> PROVE ReturnsLast(s, t)
    BY <2>2, <2>4, ReturnsSent
  <2>. QED
    BY <2>1, <2>3, <2>4
<1>11. ExportsLast /\ \A v \in Vat : ExportObjects(v)'
  BY OfBoth, ExportsStill
<1>12. /\ Follows(calls[u], calls'[u]) /\ Unforwarded(calls[u], calls'[u]) /\ ResultsLast(calls[u], calls'[u])
       /\ DOMAIN calls'[u] = DOMAIN calls[u] /\ calls'[p] = calls[p] /\ exports'[p] = exports[p]
  BY CallsSame
<1>13. \A x \in DOMAIN calls'[u] : x \in DOMAIN calls[u] \/ Claims(u, x)' = {}
  BY <1>12
<1>. QED
  BY <1>7, <1>8, <1>9, <1>10, <1>11, <1>12, <1>13, QuietAgrees

LEMMA SameNamesItself ==
  ASSUME NEW A
  PROVE  SameNames(A, A) /\ EntriesLast(A, A)
BY EntriesSame DEF SameNames

LEMMA HandleCallRefusedPaths ==
  ASSUME Agreeing, NEW u \in Vat, HandleCallRefused(u)
  PROVE  PathsInv'
<1>1. PICK m, c, A, p : m = Head(net[u]) /\ c = Param(u, m) /\ A = answers[u] /\ p = Peer(u)
  OBVIOUS
<1>2. /\ Handles(u, "call") /\ imports' = [imports EXCEPT ![u] = Populated(u, m.cap)]
      /\ UNCHANGED <<questions, calls, exports, delivered>>
  BY <1>1 DEF HandleCallRefused
<1>3. /\ m \in Message /\ m.k = "call" /\ m.id \in Nat /\ m.n \in Nat /\ m.id \notin DOMAIN answers[u]
      /\ Populates(u, m.cap)
  BY <1>1, <1>2, OfBoth, CallRead
<1>4. PICK a, r : a = NewAnswer(m, NoCallee, c) /\ r = [k |-> "unimplemented", id |-> m.id, n |-> m.n]
  OBVIOUS
<1>5. answers' = [answers EXCEPT ![u] = Put(A, m.id, a)] /\ Reply(u, <<r>>)
  BY <1>1, <1>3, <1>4 DEF HandleCallRefused
<1>6. a.n = m.n /\ ~a.ok
  BY <1>4 DEF NewAnswer
<1>7. r \in Message /\ r.k = "unimplemented"
  BY <1>3, <1>4 DEF Message
<1>8. SameNames(answers[u], A) /\ EntriesLast(answers[u], A) /\ AnswerTo(r, m)
  BY <1>1, <1>7, SameNamesItself DEF AnswerTo
<1>. QED
  BY <1>1, <1>2, <1>5, <1>6, <1>7, <1>8, AnswerAgrees

LEMMA HandleCallRejectedPaths ==
  ASSUME Agreeing, NEW u \in Vat, HandleCallRejected(u)
  PROVE  PathsInv'
<1>1. PICK m, A, p : m = Head(net[u]) /\ A = answers[u] /\ p = Peer(u)
  OBVIOUS
<1>2. Handles(u, "call") /\ UNCHANGED <<questions, calls, exports, delivered>>
  BY <1>1 DEF HandleCallRejected, Routed
<1>3. m \in Message /\ m.id \in Nat /\ m.n \in Nat
  BY <1>1, <1>2, OfBoth, FreshCall
<1>4. PICK a, r : /\ a = DoneAnswer(NewAnswer(m, NoCallee, Param(u, m)), FALSE, NullClient)
                  /\ r = ReturnMessage(m.id, m.n, FALSE, NoDescriptor)
  OBVIOUS
<1>5. answers' = [answers EXCEPT ![u] = Put(A, m.id, a)] /\ Reply(u, <<r>>)
  BY <1>1, <1>4 DEF HandleCallRejected
<1>6. a.n = m.n /\ ~a.ok
  BY <1>4 DEF DoneAnswer, NewAnswer
<1>7. r \in Message /\ r.k = "return" /\ ~r.ok /\ AnswerTo(r, m)
  <2>1. r = [k |-> "return", id |-> m.id, n |-> m.n, ok |-> FALSE, cap |-> [k |-> "none", id |-> 0]]
    BY <1>4 DEF ReturnMessage, NoDescriptor
  <2>. QED
    BY <1>3, <2>1 DEF Message, Descriptor, AnswerTo
<1>8. SameNames(answers[u], A) /\ EntriesLast(answers[u], A)
  BY <1>1, SameNamesItself
<1>. QED
  BY <1>1, <1>2, <1>5, <1>6, <1>7, <1>8, AnswerAgrees

LEMMA HandleCallQueuedPaths ==
  ASSUME Agreeing, NEW u \in Vat, HandleCallQueued(u)
  PROVE  PathsInv'
<1>1. PICK m, c, t, id, Q : /\ m = Head(net[u]) /\ c = Param(u, m) /\ t = m.target.id /\ id = m.id
                            /\ Q = answers[u]
  OBVIOUS
<1>2. /\ Handles(u, "call") /\ imports' = [imports EXCEPT ![u] = Populated(u, m.cap)]
      /\ Kind(u, Route(u, m)) \in {"queue"} /\ UNCHANGED <<questions, calls, exports, delivered>> /\ Reply(u, <<>>)
  BY <1>1 DEF HandleCallQueued, Routed
<1>3. Inv
  BY OfBoth
<1>4. t \in DOMAIN Q
  <2>1. PICK r : r = Route(u, m)
    OBVIOUS
  <2>2. r.k = "queue"
    BY <1>2, <2>1 DEF Kind
  <2>3. r \notin Client
    BY <2>2 DEF Client
  <2>. QED
    BY <1>1, <1>2, <1>3, <2>1, <2>3, RouteKnown
<1>5. PICK A, a : A = QueueCall(Q, t, id) /\ a = NewAnswer(m, [k |-> "answer", id |-> Q[t].n], c)
  OBVIOUS
<1>6. answers' = [answers EXCEPT ![u] = Put(A, id, a)]
  <2>1. answers' = [answers EXCEPT ![u] =
          Put(QueueCall(answers[u], Head(net[u]).target.id, Head(net[u]).id), Head(net[u]).id,
              NewAnswer(Head(net[u]), [k |-> "answer", id |-> answers[u][Head(net[u]).target.id].n],
                        Param(u, Head(net[u]))))]
    BY DEF HandleCallQueued
  <2>. QED
    BY <1>1, <1>5, <2>1
<1>7. a.n = m.n /\ ~a.ok
  BY <1>5 DEF NewAnswer
<1>8. SameNames(Q, A) /\ EntriesLast(Q, A)
  <2>1. PICK b : b = [Q[t] EXCEPT !.queue = Append(@, id)]
    OBVIOUS
  <2>2. A = [Q EXCEPT ![t] = b]
    BY <1>4, <1>5, <2>1 DEF QueueCall
  <2>3. Q[t] \in AnswerRecord
    BY <1>1, <1>3, <1>4, EntryKnown
  <2>4. b.n = Q[t].n /\ b.callee = Q[t].callee /\ b.ok = Q[t].ok /\ b.done = Q[t].done /\ b.cap = Q[t].cap
    BY <2>1, <2>3 DEF AnswerRecord
  <2>5. DOMAIN A = DOMAIN Q /\ \A x \in DOMAIN Q : A[x] = Q[x] \/ (x = t /\ A[x] = b)
    BY <2>2
  <2>. QED
    BY <1>4, <2>4, <2>5 DEF SameNames, EntriesLast, OldEntry, Among
<1>9. PICK p : p = Peer(u)
  OBVIOUS
<1>. QED
  BY <1>1, <1>2, <1>6, <1>7, <1>8, <1>9, AnswerAgrees

-----------------------------------------------------------------------------
(* A call is decided: one more entry, or one more Return, says where it leads. *)

EntriesFor(A, B, u, n, X) ==
  \A b : Among(B, b) /\ b.done /\ b.ok => OldEntry(A, b) \/ (b.n = n /\ Destination(u, b.cap)' = X)
ReturnsFor(r, q, C, u, n, X) ==
  \A x : Among(q, x) /\ x.k = "return" /\ x.ok
    => Among(r, x) \/ (x.n = n /\ (C[n].route # "bootstrap" => Shipped(u, x.cap)' = X))

LEMMA DecidedAgrees ==
  ASSUME Agreeing, ExportsLast, NEW u \in Vat, NEW p, p = Peer(u), NEW n, NEW X,
         calls' = calls, delivered' = delivered, answers'[p] = answers[p],
         ReadFrom(net[u], net'[u]), Says(net[p], net'[p]),
         EntriesFor(answers[u], answers'[u], u, n, X), ReturnsFor(net[p], net'[p], calls[p], u, n, X),
         DecidedFor(p, n) = "none", DecidedFor(p, n)' # "none"
  PROVE  \A v \in Vat : ClaimsAgree(v)'
<1>1. p \in Vat /\ Peer(p) = u /\ \A v \in Vat : v = u \/ v = p
  BY PeerFacts
<1>2. CallsLast /\ \A v \in Vat : ResultsLast(calls[v], calls'[v]) /\ DOMAIN calls'[v] = DOMAIN calls[v]
  BY CallsSame DEF CallsLast
<1>3. Inv
  BY OfBoth
<1>4. \A v \in Vat : TargetsLast(net[v], net'[v])
  BY <1>3, TargetsSaid
<1>5. ClaimsAgree(u)'
  <2>1. ReturnsLast(net[u], net'[u])
    BY <1>3, ReturnsRead, ChannelTypes
  <2>2. EntriesLast(answers[p], answers'[p])
    BY EntriesSame
  <2>. QED
    BY <1>2, <1>4, <2>1, <2>2, QuietClaims
<1>6. ClaimsAgree(p)'
  <2>1. ASSUME NEW m \in AskedBy(p) PROVE Founded(p, m)
    <3>1. \A S : ResultBacked(p, m, S) /\ RunsBacked(p, m, S) /\ TargetsBacked(p, m, S)
      BY <1>1, <1>2, <1>4, ResultBack, RunsBack, TargetsBack
    <3>2. CASE m # n
      <4>1. \A S : EntriesBacked(p, m, S)
        BY <1>1, <3>2 DEF EntriesBacked, EntriesFor
      <4>2. \A S : ReturnsBacked(p, m, S)
        BY <1>1, <3>2 DEF ReturnsBacked, ReturnsFor
      <4>. QED
        BY <3>1, <4>1, <4>2 DEF Founded, Backed
    <3>3. CASE m = n
      <4>1. EntriesBacked(p, m, {X})
        BY <1>1, <3>3 DEF EntriesBacked, EntriesFor
      <4>2. ReturnsBacked(p, m, {X})
        BY <1>1, <3>3 DEF ReturnsBacked, ReturnsFor
      <4>3. Backed(p, m, {X})
        BY <3>1, <4>1, <4>2 DEF Backed
      <4>. QED
        BY <3>3, <4>3 DEF Founded
    <3>. QED
      BY <3>2, <3>3
  <2>2. \A m \in DOMAIN calls'[p] : m \in DOMAIN calls[p] \/ Claims(p, m)' = {}
    BY <1>1, <1>2
  <2>. QED
    BY <1>1, <1>2, <2>1, <2>2, ClaimsStep
<1>. QED
  BY <1>1, <1>5, <1>6

LEMMA EntryDecides ==
  ASSUME NEW u, NEW p, Peer(p) = u, NEW id \in DOMAIN answers'[u], NEW a, a = answers'[u][id],
         a.done, a.ok \in BOOLEAN, NEW n, n = a.n
  PROVE  DecidedFor(p, n)' # "none"
<1>1. a.ok = TRUE \/ a.ok = FALSE
  OBVIOUS
<1>2. Answered(p, n, TRUE)' \/ Answered(p, n, FALSE)'
  BY <1>1 DEF Answered
<1>3. CASE SettledWith(p, n)' # "none"
  BY <1>3 DEF DecidedFor
<1>4. CASE SettledWith(p, n)' = "none"
  BY <1>2, <1>4 DEF DecidedFor
<1>. QED
  BY <1>3, <1>4

LEMMA ReturnSentFor ==
  ASSUME NEW s \in Seq(Message), NEW r \in Message, NEW t, t = s \o <<r>>, NEW C, NEW u, NEW n, NEW X,
         r.n = n, C[n].route # "bootstrap" => Shipped(u, r.cap)' = X
  PROVE  ReturnsFor(s, t, C, u, n, X)
<1>1. \A j \in DOMAIN t : Among(s, t[j]) \/ t[j] = r
  BY SentAmong
<1>. QED
  BY <1>1 DEF ReturnsFor, Among

LEMMA HandleBootstrapPaths ==
  ASSUME Agreeing, NEW u \in Vat, HandleBootstrap(u)
  PROVE  PathsInv'
<1>1. PICK m, A, p : m = Head(net[u]) /\ A = answers[u] /\ p = Peer(u)
  OBVIOUS
<1>2. Handles(u, "bootstrap") /\ UNCHANGED <<questions, calls, exports, delivered>>
  BY DEF HandleBootstrap
<1>3. /\ m \in Message /\ m.id \in Nat /\ m.n \in Nat /\ m.id \notin DOMAIN answers[u] /\ m.k = "bootstrap"
      /\ DecidedFor(p, m.n) = "none" /\ calls[p][m.n].route = "bootstrap"
  BY <1>1, <1>2, Asked
<1>4. Inv /\ main[u] \in BOOLEAN /\ p \in Vat /\ Peer(p) = u
  BY <1>1, OfBoth, OfVat, PeerFacts
<1>5. PICK c, a, r, B : /\ c = IF main[u] THEN Server(Main) ELSE NullClient
                        /\ a = DoneAnswer(NewAnswer(m, NoCallee, NullClient), main[u], c)
                        /\ r = ReturnMessage(m.id, m.n, main[u], NoDescriptor)
                        /\ B = Put(A, m.id, a)
  OBVIOUS
<1>6. answers' = [answers EXCEPT ![u] = B] /\ Reply(u, <<r>>)
  BY <1>1, <1>3, <1>4, <1>5 DEF HandleBootstrap
<1>7. a.n = m.n /\ a.callee.k = "none" /\ a.done /\ a.ok = main[u]
  BY <1>5 DEF DoneAnswer, NewAnswer, NoCallee
<1>8. r \in Message /\ r.k = "return" /\ r.n = m.n /\ r.id = m.id /\ r.cap.k = "none"
  <2>1. r = [k |-> "return", id |-> m.id, n |-> m.n, ok |-> main[u], cap |-> [k |-> "none", id |-> 0]]
    BY <1>5 DEF ReturnMessage, NoDescriptor
  <2>. QED
    BY <1>3, <1>4, <2>1 DEF Message, Descriptor
<1>9. /\ answers'[p] = answers[p] /\ answers'[u] = B
      /\ ReadFrom(net[u], net'[u]) /\ Told(net[p], net'[p], calls[p], questions[p])
      /\ Reads1(answers[u], answers'[u], net[u], net'[u]) /\ Entered(answers[u], answers'[u], calls[p])
  <2>1. EntryFor(a, m) /\ EntriesNow(u, B) /\ OneAnswer(<<r>>, m) /\ SameNames(answers[u], A)
    BY <1>1, <1>6, <1>7, <1>8, SameNamesItself DEF EntryFor, EntriesNow, OneAnswer, AnswerTo
  <2>2. B = Put(A, m.id, a) /\ p = Peer(u) /\ m = Head(net[u])
    BY <1>1, <1>5
  <2>3. Handles(u, "bootstrap") /\ Reply(u, <<r>>) /\ "bootstrap" \in {"bootstrap", "call"}
    BY <1>2, <1>6
  <2>. QED
    BY ONLY Agreeing, u \in Vat, <2>1, <2>2, <2>3, AnswersOne, Zenon
<1>10. Says(net[p], net'[p]) /\ net'[p] = net[p] \o <<r>> /\ net[p] \in Seq(Message)
  BY <1>1, <1>2, <1>4, <1>6, <1>8, Replied, WhenAnswered, ChannelTypes
<1>11. ExportsLast /\ \A v \in Vat : ExportObjects(v)'
  BY <1>2, OfBoth, ExportsStill
<1>12. \A v \in Vat : Path(v)'
  <2>1. Follows(calls[u], calls'[u]) /\ Unforwarded(calls[u], calls'[u])
    BY <1>2, CallsSame
  <2>. QED
    BY <1>1, <1>2, <1>9, <1>10, <2>1, OfBoth, QuietPaths
<1>13. \A v \in Vat : ClaimsAgree(v)'
  <2>1. PICK X : X = Destination(u, c)'
    OBVIOUS
  <2>2. a.cap = c
    BY <1>5 DEF DoneAnswer, NewAnswer
  <2>3. EntriesFor(answers[u], answers'[u], u, m.n, X)
    <3>1. \A b : Among(B, b) => b = a \/ Among(A, b)
      BY <1>5 DEF Among, Put
    <3>2. Destination(u, a.cap)' = X
      BY <2>1, <2>2
    <3>. QED
      BY <1>1, <1>7, <1>9, <3>1, <3>2 DEF EntriesFor, OldEntry, Among
  <2>4. ReturnsFor(net[p], net'[p], calls[p], u, m.n, X)
    BY <1>3, <1>8, <1>10, ReturnSentFor
  <2>5. DecidedFor(p, m.n)' # "none"
    <3>1. m.id \in DOMAIN answers'[u] /\ a = answers'[u][m.id]
      BY <1>5, <1>9 DEF Put
    <3>2. a.done /\ a.ok \in BOOLEAN /\ m.n = a.n
      BY <1>4, <1>7
    <3>. QED
      BY <1>4, <3>1, <3>2, EntryDecides
  <2>. QED
    BY <1>1, <1>2, <1>3, <1>9, <1>10, <1>11, <2>3, <2>4, <2>5, DecidedAgrees
<1>. QED
  BY <1>11, <1>12, <1>13, PathsNext

-----------------------------------------------------------------------------
(* A message is read that asks nothing. *)

LEMMA HandleFinishPaths ==
  ASSUME Agreeing, NEW u \in Vat, HandleFinish(u)
  PROVE  PathsInv'
<1>1. PICK p \in Vat : p = Peer(u) /\ p # u
  BY PeerFacts
<1>2. PICK m : m = Head(net[u])
  OBVIOUS
<1>3. /\ Handles(u, "finish") /\ Reply(u, <<>>) /\ UNCHANGED <<questions, calls, exports, delivered>>
      /\ answers' = [answers EXCEPT ![u] = Remove(answers[u], m.id)]
  BY <1>2 DEF HandleFinish
<1>4. answers'[u] = Remove(answers[u], m.id) /\ answers'[p] = answers[p] /\ Inv
  BY <1>1, <1>3, OfBoth, OfVat
<1>5. /\ net[u] # <<>> /\ m.k = "finish" /\ net'[u] = Tail(net[u]) /\ net'[p] = net[p]
  BY <1>1, <1>2, <1>3, <1>4, HeadFacts, WhenRead
<1>6. Reads1(answers[u], answers'[u], net[u], net'[u])
  <2>1. NamesFrom(answers[u], answers'[u], m)
    BY <1>4 DEF NamesFrom, Remove
  <2>. QED
    BY <1>2, <1>5, <2>1 DEF Reads1
<1>7. Entered(answers[u], answers'[u], calls[p]) /\ EntriesLast(answers[u], answers'[u])
  <2>1. Entered(answers[u], answers'[u], calls[p])
    BY <1>4 DEF Entered, Remove
  <2>. QED
    BY <1>4, <2>1, EntriesRemoved
<1>8. /\ ReadFrom(net[u], net'[u]) /\ Says(net[p], net'[p]) /\ Told(net[p], net'[p], calls[p], questions[p])
      /\ ReturnsLast(net[p], net'[p])
  BY <1>5, SaidNothing DEF ReadFrom
<1>9. /\ Follows(calls[u], calls'[u]) /\ Unforwarded(calls[u], calls'[u]) /\ ResultsLast(calls[u], calls'[u])
  BY <1>3, CallsSame
<1>10. ExportsLast /\ \A v \in Vat : ExportObjects(v)'
  BY <1>3, OfBoth, ExportsStill
<1>. QED
  BY <1>1, <1>3, <1>4, <1>6, <1>7, <1>8, <1>9, <1>10, QuietAgrees

LEMMA HandleUnimplementedPaths ==
  ASSUME Agreeing, NEW u \in Vat, HandleUnimplemented(u)
  PROVE  PathsInv'
<1>1. PICK p \in Vat : p = Peer(u) /\ p # u
  BY PeerFacts
<1>2. /\ Handles(u, "unimplemented") /\ Reply(u, <<>>)
      /\ UNCHANGED <<questions, calls, answers, exports, delivered>>
  BY DEF HandleUnimplemented, tables
<1>3. PICK m : m = Head(net[u])
  OBVIOUS
<1>4. /\ net[u] # <<>> /\ m.k = "unimplemented" /\ net'[u] = Tail(net[u]) /\ net'[p] = net[p]
  BY <1>1, <1>2, <1>3, OfBoth, HeadFacts, WhenRead
<1>5. Reads1(answers[u], answers'[u], net[u], net'[u])
  <2>1. NamesFrom(answers[u], answers'[u], m)
    BY <1>2, <1>4 DEF NamesFrom
  <2>. QED
    BY <1>3, <1>4, <2>1 DEF Reads1
<1>6. Entered(answers[u], answers'[u], calls[p]) /\ EntriesLast(answers[u], answers'[u])
  BY <1>2, EntriesStill
<1>7. /\ ReadFrom(net[u], net'[u]) /\ Says(net[p], net'[p]) /\ Told(net[p], net'[p], calls[p], questions[p])
      /\ ReturnsLast(net[p], net'[p])
  BY <1>4, SaidNothing DEF ReadFrom
<1>8. /\ Follows(calls[u], calls'[u]) /\ Unforwarded(calls[u], calls'[u]) /\ ResultsLast(calls[u], calls'[u])
  BY <1>2, CallsSame
<1>9. ExportsLast /\ \A v \in Vat : ExportObjects(v)'
  BY <1>2, OfBoth, ExportsStill
<1>. QED
  BY <1>1, <1>2, <1>5, <1>6, <1>7, <1>8, <1>9, QuietAgrees

-----------------------------------------------------------------------------
(* An answer is settled. *)

\* The entry of a call that is not done, which is then settled as b.
EntrySettled(u, id, b) ==
  /\ id \in DOMAIN answers[u] /\ ~answers[u][id].done
  /\ b.n = answers[u][id].n /\ b.callee = answers[u][id].callee
  /\ answers' = [answers EXCEPT ![u][id] = b]
ReturnOf(m, id, n) == m \in Message /\ m.k = "return" /\ m.id = id /\ m.n = n

LEMMA SettlingSteps ==
  ASSUME Agreeing, NEW u \in Vat, NEW p, p = Peer(u), NEW id, NEW b, EntrySettled(u, id, b),
         NEW m, ReturnOf(m, id, b.n), calls[p][b.n].route = "bootstrap" => m.cap.k = "none",
         Send(u, <<m>>)
  PROVE  /\ answers'[p] = answers[p] /\ answers'[u] = [answers[u] EXCEPT ![id] = b]
         /\ net'[u] = net[u] /\ net'[p] = net[p] \o <<m>> /\ net[p] \in Seq(Message)
         /\ ReadFrom(net[u], net'[u]) /\ Says(net[p], net'[p])
         /\ Told(net[p], net'[p], calls[p], questions[p])
         /\ Reads1(answers[u], answers'[u], net[u], net'[u]) /\ Entered(answers[u], answers'[u], calls[p])
         /\ DecidedFor(p, b.n) = "none"
<1>1. p \in Vat /\ Peer(p) = u /\ p # u
  BY PeerFacts
<1>2. Inv /\ Mention(p) /\ Sound(p)
  BY <1>1, MentionOf, OfVat DEF Agreeing
<1>3. PICK A, B : A = answers[u] /\ B = [A EXCEPT ![id] = b]
  OBVIOUS
<1>4. id \in DOMAIN A /\ ~A[id].done /\ b.n = A[id].n /\ b.callee = A[id].callee
  BY <1>3 DEF EntrySettled
<1>5. answers'[p] = answers[p] /\ answers'[u] = B
  <2>1. answers' = [answers EXCEPT ![u][id] = b] /\ DOMAIN answers = Vat
    BY <1>2, OfVat DEF EntrySettled
  <2>. QED
    BY <1>1, <1>3, <2>1
<1>6. net'[u] = net[u] /\ net'[p] = net[p] \o <<m>> /\ m \in Message /\ m.k = "return" /\ net[p] \in Seq(Message)
  BY <1>1, <1>2, WhenSent, ChannelTypes DEF ReturnOf
<1>7. b.n \in DOMAIN calls[p]
  BY <1>1, <1>2, <1>3, <1>4 DEF Mention, Mentions, Mentioned
<1>8. Waits(questions[p], id, b.n) /\ DecidedFor(p, b.n) = "none"
  <2>1. A[id].n \in Nat \ {0} /\ id \in DOMAIN questions[p] /\ questions[p][id] = A[id].n /\ Decided(p)[A[id].n] = "none"
    BY <1>1, <1>2, <1>3, <1>4, EntryFacts
  <2>. QED
    BY <1>4, <2>1 DEF Waits, Decided
<1>9. Told(net[p], net'[p], calls[p], questions[p])
  <2>1. PICK s, t, C, Q : s = net[p] /\ t = net'[p] /\ C = calls[p] /\ Q = questions[p]
    OBVIOUS
  <2>2. m.n \in DOMAIN C /\ (C[m.n].route = "bootstrap" => m.cap.k = "none") /\ Waits(Q, m.id, m.n)
    BY <1>7, <1>8, <2>1 DEF ReturnOf
  <2>3. s \in Seq(Message) /\ m \in Message /\ t = s \o <<m>>
    BY <1>6, <2>1
  <2>4. Told(s, t, C, Q)
    BY <2>2, <2>3, ToldOne
  <2>. QED
    BY <2>1, <2>4
<1>10. DOMAIN B = DOMAIN A /\ \A x \in DOMAIN B : B[x].n = A[x].n /\ B[x].callee = A[x].callee
  BY <1>3, <1>4
<1>11. NamesKept(A, B) /\ Entered(A, B, calls[p])
  BY <1>10 DEF NamesKept, Entered
<1>12. Says(net[p], net'[p]) /\ ReadFrom(net[u], net'[u])
  BY <1>6 DEF Says, ReadFrom
<1>13. Reads1(answers[u], answers'[u], net[u], net'[u]) /\ Entered(answers[u], answers'[u], calls[p])
  BY <1>3, <1>5, <1>6, <1>11 DEF Reads1
<1>. QED
  BY <1>3, <1>5, <1>6, <1>8, <1>9, <1>12, <1>13

LEMMA RejectPaths ==
  ASSUME Agreeing, NEW u \in Vat, NEW id \in DOMAIN answers[u], ~answers[u][id].done, Reject(u, id),
         UNCHANGED <<questions, calls, exports, delivered>>
  PROVE  PathsInv'
<1>1. PICK p \in Vat : p = Peer(u) /\ p # u
  BY PeerFacts
<1>2. PICK a, b, m : /\ a = answers[u][id] /\ b = [a EXCEPT !.done = TRUE, !.queue = <<>>]
                     /\ m = ReturnMessage(id, a.n, FALSE, NoDescriptor)
  OBVIOUS
<1>3. answers' = [answers EXCEPT ![u][id] = b] /\ Send(u, <<m>>)
  BY <1>2 DEF Reject
<1>4. a \in AnswerRecord /\ id \in Nat /\ a.n \in Nat /\ (a.ok => a.done)
  BY <1>2, OfBoth, EntryKnown DEF EntryOK
<1>5. b.n = a.n /\ b.callee = a.callee /\ ~b.ok
  BY <1>2, <1>4 DEF AnswerRecord
<1>6. m \in Message /\ m.k = "return" /\ m.id = id /\ m.n = b.n /\ m.cap.k = "none" /\ ~m.ok
  <2>1. m = [k |-> "return", id |-> id, n |-> a.n, ok |-> FALSE, cap |-> [k |-> "none", id |-> 0]]
    BY <1>2 DEF ReturnMessage, NoDescriptor
  <2>. QED
    BY <1>4, <1>5, <2>1 DEF Message, Descriptor
<1>7. EntrySettled(u, id, b) /\ ReturnOf(m, id, b.n)
  BY <1>2, <1>3, <1>5, <1>6 DEF EntrySettled, ReturnOf
<1>8. /\ answers'[p] = answers[p] /\ answers'[u] = [answers[u] EXCEPT ![id] = b]
      /\ net'[u] = net[u] /\ net'[p] = net[p] \o <<m>> /\ net[p] \in Seq(Message)
      /\ ReadFrom(net[u], net'[u]) /\ Says(net[p], net'[p])
      /\ Told(net[p], net'[p], calls[p], questions[p])
      /\ Reads1(answers[u], answers'[u], net[u], net'[u]) /\ Entered(answers[u], answers'[u], calls[p])
  BY <1>1, <1>3, <1>6, <1>7, SettlingSteps
<1>9. EntriesLast(answers[u], answers'[u])
  BY <1>5, <1>8, EntriesSet
<1>10. ReturnsLast(net[p], net'[p])
  BY <1>6, <1>8, ReturnsSent
<1>11. /\ Follows(calls[u], calls'[u]) /\ Unforwarded(calls[u], calls'[u]) /\ ResultsLast(calls[u], calls'[u])
  BY CallsSame
<1>12. ExportsLast /\ \A v \in Vat : ExportObjects(v)'
  BY OfBoth, ExportsStill
<1>. QED
  BY <1>1, <1>8, <1>9, <1>10, <1>11, <1>12, QuietAgrees

LEMMA RejectNextPaths ==
  ASSUME Agreeing, NEW u \in Vat, RejectNext(u)
  PROVE  PathsInv'
<1>1. PICK id, R : id = Head(rejecting[u]) /\ R = rejecting[u]
  OBVIOUS
<1>2. R # <<>> /\ R \in Seq(Nat) /\ 1 \in DOMAIN R /\ R[1] = id
  <2>1. R # <<>>
    BY <1>1 DEF RejectNext
  <2>2. R \in Seq(Nat)
    BY <1>1, OfBoth, OfVat DEF VatOK, QueuesOK
  <2>. QED
    BY <1>1, <2>1, <2>2
<1>3. id \in DOMAIN answers[u] /\ ~answers[u][id].done
  <2>1. QueuesOK(answers[u], R)
    BY <1>1, OfBoth, OfVat DEF VatOK
  <2>. QED
    BY <1>2, <2>1 DEF QueuesOK
<1>4. Reject(u, id) /\ UNCHANGED <<questions, calls, exports, delivered>>
  BY <1>1, <1>3 DEF RejectNext
<1>. QED
  BY <1>3, <1>4, RejectPaths

\* The capability that is returned leads where the entry says it does.
LEMMA FulfillPaths ==
  ASSUME Agreeing, NEW u \in Vat, NEW id \in DOMAIN answers[u], ~answers[u][id].done,
         answers[u][id].callee.k # "none", NEW c, Fulfill(u, id, c),
         c \in Client, Known(c, exports[u], imports[u]), UNCHANGED <<questions, calls, delivered>>
  PROVE  PathsInv'
<1>1. PICK p \in Vat : p = Peer(u) /\ p # u /\ Peer(p) = u
  BY PeerFacts
<1>2. PICK a, b, d, m : /\ a = answers[u][id] /\ b = Fulfilled(a, c) /\ d = DescriptorFor(u, c)
                        /\ m = ReturnMessage(id, a.n, TRUE, d)
  OBVIOUS
<1>3. /\ answers' = [answers EXCEPT ![u][id] = b] /\ Send(u, <<m>>)
      /\ exports' = [exports EXCEPT ![u] = Described(u, c)]
  BY <1>2 DEF Fulfill
<1>4. a \in AnswerRecord /\ id \in Nat /\ a.n \in Nat /\ Inv
  BY <1>2, OfBoth, EntryKnown
<1>5. b.n = a.n /\ b.callee = a.callee /\ b.cap = c /\ b.done /\ b.ok = TRUE
  BY <1>2, <1>4 DEF Fulfilled, AnswerRecord
<1>6. m \in Message /\ m.k = "return" /\ m.id = id /\ m.n = b.n /\ m.cap = d
  <2>1. m = [k |-> "return", id |-> id, n |-> a.n, ok |-> TRUE, cap |-> d]
    BY <1>2 DEF ReturnMessage
  <2>2. d \in Descriptor
    BY <1>2, <1>4, DescribedOK
  <2>. QED
    BY <1>4, <1>5, <2>1, <2>2 DEF Message
<1>7. EntrySettled(u, id, b) /\ ReturnOf(m, id, b.n)
  BY <1>2, <1>3, <1>5, <1>6 DEF EntrySettled, ReturnOf
<1>8. calls[p][b.n].route # "bootstrap"
  <2>1. Path(p)
    BY <1>1, OfBoth, PathsOf1
  <2>2. calls[p][a.n].route # "bootstrap"
    BY <1>1, <1>2, <2>1 DEF Path, PathOK, OriginsOK
  <2>. QED
    BY <1>5, <2>2
<1>9. /\ answers'[p] = answers[p] /\ answers'[u] = [answers[u] EXCEPT ![id] = b]
      /\ net'[u] = net[u] /\ net'[p] = net[p] \o <<m>> /\ net[p] \in Seq(Message)
      /\ ReadFrom(net[u], net'[u]) /\ Says(net[p], net'[p])
      /\ Told(net[p], net'[p], calls[p], questions[p])
      /\ Reads1(answers[u], answers'[u], net[u], net'[u]) /\ Entered(answers[u], answers'[u], calls[p])
      /\ DecidedFor(p, b.n) = "none"
  BY <1>1, <1>3, <1>7, <1>8, SettlingSteps
<1>10. /\ ExportsLast /\ \A v \in Vat : ExportObjects(v)'
       /\ Shipped(u, d)' = Destination(u, c)'
  BY <1>2, <1>3, OfBoth, ExportsStep
<1>11. exports'[p] = exports[p] /\ DOMAIN exports[u] \subseteq DOMAIN exports'[u]
  <2>1. exports'[p] = exports[p]
    BY <1>1, <1>3, <1>4, OfVat
  <2>. QED
    BY <1>10, <2>1 DEF ExportsLast, ObjectsLast
<1>12. Follows(calls[u], calls'[u]) /\ Unforwarded(calls[u], calls'[u])
  BY CallsSame
<1>13. \A v \in Vat : Path(v)'
  BY <1>1, <1>9, <1>11, <1>12, OfBoth, QuietPaths
<1>14. \A v \in Vat : ClaimsAgree(v)'
  <2>1. PICK X, n : X = Destination(u, c)' /\ n = b.n
    OBVIOUS
  <2>2. EntriesFor(answers[u], answers'[u], u, n, X)
    <3>1. PICK A, B : A = answers[u] /\ B = answers'[u]
      OBVIOUS
    <3>2. \A x : Among(B, x) => x = b \/ Among(A, x)
      <4>1. B = [A EXCEPT ![id] = b]
        BY <1>9, <3>1
      <4>. QED
        BY <4>1 DEF Among
    <3>3. Destination(u, b.cap)' = X
      BY <1>5, <2>1
    <3>4. EntriesFor(A, B, u, n, X)
      BY <2>1, <3>2, <3>3 DEF EntriesFor, OldEntry, Among
    <3>. QED
      BY <3>1, <3>4
  <2>3. ReturnsFor(net[p], net'[p], calls[p], u, n, X)
    <3>1. Shipped(u, m.cap)' = X
      BY <1>6, <1>10, <2>1
    <3>2. m.n = n
      BY <1>6, <2>1
    <3>. QED
      BY <1>6, <1>9, <3>1, <3>2, ReturnSentFor
  <2>4. DecidedFor(p, n)' # "none"
    <3>1. id \in DOMAIN answers'[u] /\ b = answers'[u][id]
      BY <1>9
    <3>2. b.done /\ b.ok \in BOOLEAN /\ n = b.n
      BY <1>5, <2>1
    <3>. QED
      BY <1>1, <3>1, <3>2, EntryDecides
  <2>5. DecidedFor(p, n) = "none"
    BY <1>9, <2>1
  <2>. QED
    BY <1>1, <1>9, <1>10, <2>2, <2>3, <2>4, <2>5, DecidedAgrees
<1>. QED
  BY <1>10, <1>13, <1>14, PathsNext

LEMMA ServerEndsPaths ==
  ASSUME Agreeing, NEW u \in Vat, NEW id, ServerEnds(u, id)
  PROVE  PathsInv'
<1>1. id \in DOMAIN answers[u] /\ (ServerReturns(u, id) \/ ServerThrows(u, id))
  BY DEF ServerEnds
<1>2. /\ answers[u][id].callee.k = "server" /\ ~answers[u][id].done
      /\ UNCHANGED <<questions, calls, delivered>>
  BY <1>1 DEF ServerReturns, ServerThrows, Serving
<1>3. CASE ServerReturns(u, id)
  <2>1. PICK c \in Results(answers[u][id]) : Fulfill(u, id, c)
    BY <1>3 DEF ServerReturns
  <2>2. c = NullClient \/ c = Server(1) \/ c = answers[u][id].param
    BY DEF Results
  <2>3. Server(1) \in Client /\ Known(Server(1), exports[u], imports[u])
    BY DEF Server, Client, Known, Object
  <2>4. c \in Client /\ Known(c, exports[u], imports[u])
    BY <1>1, <2>2, <2>3, OfBoth, NullKnown, EntryKnown
  <2>. QED
    BY <1>1, <1>2, <2>1, <2>4, FulfillPaths
<1>4. CASE ServerThrows(u, id)
  BY <1>1, <1>2, <1>4, RejectPaths DEF ServerThrows
<1>. QED
  BY <1>1, <1>3, <1>4

LEMMA JoinEndsPaths ==
  ASSUME Agreeing, NEW u \in Vat, NEW id, JoinEnds(u, id)
  PROVE  PathsInv'
<1>1. id \in DOMAIN answers[u] /\ JoinSettles(u, id)
  BY DEF JoinEnds
<1>2. /\ answers[u][id].callee.k = "question" /\ ~answers[u][id].done
      /\ UNCHANGED <<questions, calls, delivered>>
  BY <1>1 DEF JoinSettles
<1>3. PICK f : f = answers[u][id].callee.id
  OBVIOUS
<1>4. f \in DOMAIN calls[u]
  BY <1>1, <1>2, <1>3, OfBoth, EntryKnown DEF EntryOK
<1>5. CASE calls[u][f].state = "results"
  <2>1. Fulfill(u, id, calls[u][f].cap)
    BY <1>1, <1>3, <1>5 DEF JoinSettles
  <2>. QED
    BY <1>1, <1>2, <1>4, <2>1, OfBoth, HeldKnown, FulfillPaths
<1>6. CASE calls[u][f].state # "results"
  <2>1. Reject(u, id) /\ UNCHANGED exports
    BY <1>1, <1>3, <1>6 DEF JoinSettles
  <2>. QED
    BY <1>1, <1>2, <2>1, RejectPaths
<1>. QED
  BY <1>5, <1>6

-----------------------------------------------------------------------------
(* A question is asked. *)

\* Its slot was free.
LEMMA SlotFree ==
  ASSUME Inv, NEW u \in Vat, NEW id, id = IdNext(questionID[u]), id \in DOMAIN questions[u]
  PROVE  questions[u][id] = 0
<1>1. Sound(u)
  BY OfVat
<1>2. questionID[u] \in [i : Nat, free : Seq(Nat)] /\ questions[u] \in [0 .. questionID[u].i - 1 -> Nat]
  BY <1>1, Mapped
<1>3. D(u)!FreeIdsAreNullSlots
  BY <1>1 DEF Sound, D!IInv
<1>4. \A j \in DOMAIN questionID[u].free : questions[u][questionID[u].free[j]] = 0
  BY <1>3 DEF D!FreeIdsAreNullSlots
<1>5. PICK f : f = questionID[u].free
  OBVIOUS
<1>6. CASE f = <<>>
  <2>1. id = questionID[u].i
    BY <1>5, <1>6 DEF IdNext
  <2>. QED
    BY <1>2, <2>1
<1>7. CASE f # <<>>
  <2>1. id = f[Len(f)]
    BY <1>5, <1>7 DEF IdNext
  <2>2. Len(f) \in DOMAIN f
    BY <1>2, <1>5, <1>7
  <2>. QED
    BY <1>4, <1>5, <2>1, <2>2
<1>. QED
  BY <1>6, <1>7

\* The k-th call of v is r, a new one.
Made(C, N, k, r) == Longer(C, N, k, r) /\ \A n \in DOMAIN C : n \in Nat \ {0} /\ n < k

LEMMA MadeAppends ==
  ASSUME Inv, NEW u \in Vat, NEW r, calls'[u] = Append(calls[u], r), NEW k, k = Len(calls[u]) + 1
  PROVE  Made(calls[u], calls'[u], k, r) /\ k \in Nat \ {0}
<1>1. PICK C, N : C = calls[u] /\ N = calls'[u]
  OBVIOUS
<1>2. C \in Seq(CallRecord) /\ DOMAIN C = 1 .. Len(C) /\ Len(C) \in Nat /\ N = Append(C, r) /\ k = Len(C) + 1
  BY <1>1, CallTypes
<1>3. Longer(C, N, k, r)
  BY <1>2, CallGrows
<1>. QED
  BY <1>1, <1>2, <1>3 DEF Made

LEMMA MadeFollows ==
  ASSUME NEW C, NEW N, NEW k, NEW r, Made(C, N, k, r),
         r.on.k = "call" => r.on.n \in DOMAIN C /\ C[r.on.n].id # NoId,
         r.route = "promised" => r.on.k = "call", r.cap.k = "null"
  PROVE  /\ Follows(C, N) /\ Grows(C, N) /\ Lasts(C, N) /\ N[k] = r /\ k \in DOMAIN N /\ k \notin DOMAIN C
         /\ ResultsLast(C, N)
<1>1. /\ DOMAIN N = DOMAIN C \cup {k} /\ N[k] = r /\ k \notin DOMAIN C /\ Grows(C, N)
      /\ \A n \in DOMAIN C : N[n] = C[n]
  BY DEF Made, Longer
<1>2. CallOrigin(N[k], N)
  BY <1>1 DEF CallOrigin
<1>3. Lasts(C, N) /\ ResultsLast(C, N)
  BY <1>1 DEF Lasts, ResultsLast
<1>. QED
  BY <1>1, <1>2, <1>3 DEF Follows

\* What newQuestion() does.
LEMMA QuestionMade ==
  ASSUME Inv, NEW u \in Vat, NEW p, p = Peer(u), NEW on \in Origin, NEW route \in Routes,
         NewQuestion(u, on, route), NEW id, id = IdNext(questionID[u]), NEW k, k = Len(calls[u]) + 1,
         NEW r, r = [id |-> id, on |-> on, route |-> route, state |-> "waiting", cap |-> NullClient]
  PROVE  /\ calls'[p] = calls[p] /\ questions'[p] = questions[p]
         /\ questions'[u] = Put(questions[u], id, k) /\ id \in Nat
         /\ calls'[u] = Append(calls[u], r) /\ Made(calls[u], calls'[u], k, r) /\ k \in Nat \ {0}
<1>1. p \in Vat /\ p # u /\ DOMAIN questions = Vat /\ DOMAIN calls = Vat
  BY PeerFacts, OfVat
<1>2. PICK q : q = Put(questions[u], id, k)
  OBVIOUS
<1>3. questions' = [questions EXCEPT ![u] = q] /\ calls' = [calls EXCEPT ![u] = Append(calls[u], r)]
  BY <1>2 DEF NewQuestion
<1>4. id \in Nat
  BY NewQuestionOK
<1>5. calls'[u] = Append(calls[u], r) /\ calls'[p] = calls[p] /\ questions'[p] = questions[p] /\ questions'[u] = q
  BY <1>1, <1>3
<1>. QED
  BY <1>2, <1>4, <1>5, MadeAppends

\* A Call, or a Bootstrap, fits the question it asks.
Asks1(m, id, k, on, route, Q, E) ==
  /\ m \in Message /\ m.k \in {"bootstrap", "call"} /\ m.id = id /\ m.n = k
  /\ m.k = "call" =>
       /\ route \in {"promised", "imported", "forward"}
       /\ m.target.k = "importedCap" => m.target.id \in DOMAIN E
       /\ m.target.k = "promisedAnswer" => /\ route = "promised" /\ m.target.id \in DOMAIN Q
                                           /\ Q[m.target.id] = on.n
OriginFits(on, route, C) == /\ on.k = "call" => on.n \in DOMAIN C /\ C[on.n].id # NoId
                            /\ route = "promised" => on.k = "call"

LEMMA AskPaths ==
  ASSUME Agreeing, NEW u \in Vat, NEW p, p = Peer(u), NEW on \in Origin, NEW route \in Routes,
         NewQuestion(u, on, route), OriginFits(on, route, calls[u]),
         NEW m, Asks1(m, IdNext(questionID[u]), Len(calls[u]) + 1, on, route, questions[u], exports[p]),
         net'[p] = net[p] \o <<m>>, ReadFrom(net[u], net'[u]), delivered' = delivered,
         answers'[p] = answers[p], exports'[p] = exports[p], DOMAIN exports[u] \subseteq DOMAIN exports'[u],
         Reads1(answers[u], answers'[u], net[u], net'[u]), Entered(answers[u], answers'[u], calls[p]),
         on.k = "answer" => calls[p][on.n].route = "promised",
         OrderOK(delivered, calls[p], calls'[u], net'[u], p, u)
  PROVE  \A v \in Vat : Path(v)'
<1>1. p \in Vat /\ Peer(p) = u /\ (\A v \in Vat : v = u \/ v = p)
  BY PeerFacts
<1>2. Inv /\ RunsInv /\ PathsInv
  BY OfBoth
<1>3. PICK id, k, r : /\ id = IdNext(questionID[u]) /\ k = Len(calls[u]) + 1
                      /\ r = [id |-> id, on |-> on, route |-> route, state |-> "waiting", cap |-> NullClient]
  OBVIOUS
<1>4. /\ calls'[p] = calls[p] /\ questions'[p] = questions[p]
      /\ questions'[u] = Put(questions[u], id, k)
      /\ Made(calls[u], calls'[u], k, r)
  BY <1>2, <1>3, QuestionMade
<1>5. r.on = on /\ r.route = route /\ r.cap.k = "null"
  BY <1>3 DEF NullClient
<1>6. PICK C, N, Q, P, E : C = calls[u] /\ N = calls'[u] /\ Q = questions[u] /\ P = questions'[u] /\ E = exports[p]
  OBVIOUS
<1>7. /\ Follows(C, N) /\ Grows(C, N) /\ N[k] = r /\ k \in DOMAIN N
      /\ \A n \in DOMAIN C : n \in Nat \ {0} /\ n < k
  <2>1. Made(C, N, k, r)
    BY <1>4, <1>6
  <2>2. r.on.k = "call" => r.on.n \in DOMAIN C /\ C[r.on.n].id # NoId
    BY <1>5, <1>6 DEF OriginFits
  <2>3. r.route = "promised" => r.on.k = "call"
    BY <1>5 DEF OriginFits
  <2>4. \A n \in DOMAIN C : n \in Nat \ {0} /\ n < k
    BY <2>1 DEF Made
  <2>. QED
    BY <1>5, <2>1, <2>2, <2>3, <2>4, MadeFollows
<1>8. /\ m \in Message /\ m.k \in {"bootstrap", "call"} /\ m.id = id /\ m.n = k
      /\ MessageOrigin(m, N, E)
      /\ (m.k = "call" /\ m.target.k = "promisedAnswer" => m.target.id \in DOMAIN Q /\ Q[m.target.id] = N[m.n].on.n)
  BY <1>3, <1>5, <1>6, <1>7 DEF Asks1, MessageOrigin
<1>9. Path(u)'
  <2>1. PICK s, t, a, q : s = net[p] /\ t = net'[p] /\ a = net[u] /\ q = net'[u]
    OBVIOUS
  <2>2. PICK T, K, A : T = delivered /\ K = calls[p] /\ A = answers[p]
    OBVIOUS
  <2>3. s \in Seq(Message) /\ a \in Seq(Message)
    BY <1>1, <1>2, <2>1, ChannelTypes
  <2>4. PathOK(T, Q, C, K, A, E, s, a, u, p)
    BY <1>2, <1>6, <2>1, <2>2, PathsOf1 DEF Path
  <2>5. Mentions(T, C, K, A, s, u)
    BY <1>2, <1>6, <2>1, <2>2, MentionOf DEF Mention
  <2>6. m.id \in DOMAIN Q => Q[m.id] = 0
    BY <1>2, <1>3, <1>6, <1>8, SlotFree
  <2>7. \A n \in DOMAIN C : n \in Nat \ {0} /\ n < m.n
    BY <1>7, <1>8
  <2>8. t = s \o <<m>> /\ P = Put(Q, m.id, m.n) /\ ReadFrom(a, q)
    BY <1>4, <1>6, <1>8, <2>1
  <2>9. PathOK(T, P, N, K, A, E, t, q, u, p)
    BY <1>7, <1>8, <2>3, <2>4, <2>5, <2>6, <2>7, <2>8, AskerAsks
  <2>. QED
    BY <1>4, <1>6, <2>1, <2>2, <2>9 DEF Path
<1>10. Path(p)'
  <2>1. Replies1(net[p], net'[p], calls[p]) /\ Returns1(net[p], net'[p], questions[p])
    <3>1. PICK s, t : s = net[p] /\ t = net'[p]
      OBVIOUS
    <3>2. s \in Seq(Message) /\ t = s \o <<m>>
      BY <1>1, <1>2, <3>1, ChannelTypes
    <3>3. m \in Message
      BY <1>8
    <3>4. \A j \in DOMAIN t : Among(s, t[j]) \/ t[j] = m
      BY ONLY <3>2, <3>3, SentAmong
    <3>5. m.k # "return"
      BY <1>8
    <3>. QED
      BY <3>1, <3>4, <3>5 DEF Replies1, Returns1, ReplyOrigin
  <2>2. Forwards1(calls[u], calls'[u], calls[p])
    <3>1. DOMAIN N = DOMAIN C \cup {k} /\ \A n \in DOMAIN C : N[n] = C[n]
      BY <1>4, <1>6 DEF Made, Longer
    <3>2. N[k].on.k = "answer" => calls[p][N[k].on.n].route = "promised"
      BY <1>5, <1>7
    <3>. QED
      BY <1>6, <3>1, <3>2 DEF Forwards1
  <2>. QED
    BY <1>1, <1>2, <1>4, <2>1, <2>2, AnswererPath
<1>. QED
  BY <1>1, <1>9, <1>10

-----------------------------------------------------------------------------
(* A method is started, or a Call sent, where what is said already leads. *)

NewRun(x) ==
  \A v \in Vat : \A m \in AskedBy(v) :
    MadeOn(calls'[v], calls'[Peer(v)], v, m, x.from, x.n) => <<x.at, x.object>> \in Claims(v, m)
NewTarget(u, x) ==
  \A v \in Vat : \A m \in AskedBy(v) :
    MadeOn(calls'[v], calls'[Peer(v)], v, m, Peer(u), x.n) => Hosted(u, x.target.id)' \in Claims(v, m)
RunsFounded == \A x : Among(delivered', x) => Among(delivered, x) \/ NewRun(x)
TargetsFounded ==
  \A u \in Vat : \A x : Among(net'[u], x) /\ x.k = "call" /\ x.target.k = "importedCap"
    => Among(net[u], x) \/ NewTarget(u, x)

LEMMA StartAgrees ==
  ASSUME Agreeing, ExportsLast, NEW u \in Vat, NEW p, p = Peer(u),
         calls'[p] = calls[p], Lasts(calls[u], calls'[u]), ResultsLast(calls[u], calls'[u]),
         answers'[p] = answers[p], EntriesLast(answers[u], answers'[u]),
         \A v \in Vat : ReturnsLast(net[v], net'[v]),
         RunsFounded, TargetsFounded,
         \A m \in DOMAIN calls'[u] : m \in DOMAIN calls[u] \/ Claims(u, m)' = {}
  PROVE  \A v \in Vat : ClaimsAgree(v)'
<1>1. p \in Vat /\ \A v \in Vat : v = u \/ v = p
  BY PeerFacts
<1>2. CallsLast
  BY CallsLastOf
<1> SUFFICES ASSUME NEW v \in Vat PROVE ClaimsAgree(v)'
  OBVIOUS
<1>3. Peer(v) \in Vat
  BY PeerFacts
<1>4. \A w \in Vat : EntriesLast(answers[w], answers'[w]) /\ ResultsLast(calls[w], calls'[w])
  BY <1>1, EntriesSame, CallsSame
<1>5. ASSUME NEW m \in AskedBy(v) PROVE Founded(v, m)
  <2>1. PICK S : S = Claims(v, m)
    OBVIOUS
  <2>2. EntriesBacked(v, m, S) /\ ReturnsBacked(v, m, S) /\ ResultBacked(v, m, S)
    BY <1>2, <1>3, <1>4, EntriesBack, ReturnsBack, ResultBack
  <2>3. RunsBacked(v, m, S)
    BY <2>1 DEF RunsBacked, RunsFounded, NewRun
  <2>4. TargetsBacked(v, m, S)
    BY <2>1 DEF TargetsBacked, TargetsFounded, NewTarget
  <2>. QED
    BY <2>1, <2>2, <2>3, <2>4 DEF Founded, Backed
<1>6. \A m \in DOMAIN calls'[v] : m \in DOMAIN calls[v] \/ Claims(v, m)' = {}
  BY <1>1
<1>. QED
  BY <1>2, <1>5, <1>6, ClaimsStep

LEMMA RunsFoundedStill ==
  ASSUME delivered' = delivered
  PROVE  RunsFounded
BY DEF RunsFounded

LEMMA RunsFoundedOne ==
  ASSUME NEW T, T = delivered, T \in Seq([at : Vat, object : Object, from : Vat, n : Nat]),
         NEW d, delivered' = Append(T, d), NewRun(d)
  PROVE  RunsFounded
<1>1. PICK S : S = delivered'
  OBVIOUS
<1>2. S = Append(T, d)
  BY <1>1
<1>3. DOMAIN S = DOMAIN T \cup {Len(T) + 1} /\ S[Len(T) + 1] = d /\ \A i \in DOMAIN T : S[i] = T[i]
  BY <1>2
<1>4. \A x : Among(S, x) => Among(T, x) \/ x = d
  BY <1>3 DEF Among
<1>. QED
  BY <1>1, <1>4 DEF RunsFounded

\* What u sends to p, after what it may have read.
LEMMA TargetsFoundedOne ==
  ASSUME Inv, NEW u \in Vat, NEW p, p = Peer(u), ReadFrom(net[u], net'[u]),
         NEW m \in Message, net'[p] = net[p] \o <<m>>,
         m.k = "call" /\ m.target.k = "importedCap" => NewTarget(p, m)
  PROVE  TargetsFounded /\ (m.k # "return" => \A v \in Vat : ReturnsLast(net[v], net'[v]))
<1>1. p \in Vat /\ \A v \in Vat : v = u \/ v = p
  BY PeerFacts
<1>2. net[u] \in Seq(Message)
  BY ChannelTypes
<1>3. ReturnsLast(net[u], net'[u]) /\ TargetsLast(net[u], net'[u])
  BY <1>2, ReturnsRead
<1>4. PICK s, t : s = net[p] /\ t = net'[p]
  OBVIOUS
<1>5. s \in Seq(Message) /\ t = s \o <<m>>
  BY <1>1, <1>4, ChannelTypes
<1>6. \A j \in DOMAIN t : Among(s, t[j]) \/ t[j] = m
  BY <1>5, SentAmong
<1>7. \A x : Among(t, x) => Among(s, x) \/ x = m
  BY <1>6 DEF Among
<1>8. TargetsFounded
  BY <1>1, <1>3, <1>4, <1>7 DEF TargetsFounded, TargetsLast
<1>9. m.k # "return" => ReturnsLast(s, t)
  BY <1>7 DEF ReturnsLast
<1>. QED
  BY <1>1, <1>3, <1>4, <1>8, <1>9

\* Nothing but what u may have read is gone.
LEMMA TargetsFoundedRead ==
  ASSUME Inv, NEW u \in Vat, NEW p, p = Peer(u), ReadFrom(net[u], net'[u]), net'[p] = net[p]
  PROVE  TargetsFounded /\ \A v \in Vat : ReturnsLast(net[v], net'[v])
<1>1. p \in Vat /\ \A v \in Vat : v = u \/ v = p
  BY PeerFacts
<1>2. ReturnsLast(net[u], net'[u]) /\ TargetsLast(net[u], net'[u])
  BY ChannelTypes, ReturnsRead
<1>3. ReturnsLast(net[p], net'[p])
  BY SaidNothing
<1>4. TargetsFounded
  BY <1>1, <1>2 DEF TargetsFounded, TargetsLast
<1>. QED
  BY <1>1, <1>2, <1>3, <1>4

\* What a result says.
LEMMA ResultClaims ==
  ASSUME NEW v, NEW m, NEW c, c = calls[v][m].cap, calls[v][m].state = "results",
         calls[v][m].route # "bootstrap", c.k # "error"
  PROVE  Destination(v, c) \in Claims(v, m)
<1>1. c \in ResultCaps(calls[v], m)
  BY DEF ResultCaps
<1>. QED
  BY <1>1 DEF Claims

LEMMA EntryClaims ==
  ASSUME NEW v, NEW w, w = Peer(v), NEW id \in DOMAIN answers[w], NEW m, answers[w][id].n = m,
         answers[w][id].done, answers[w][id].ok, NEW c, c = answers[w][id].cap
  PROVE  Destination(w, c) \in Claims(v, m)
<1>1. c \in AnswerCaps(answers[w], m)
  BY DEF AnswerCaps
<1>. QED
  BY <1>1 DEF Claims

LEMMA TargetClaims ==
  ASSUME NEW v \in Vat, NEW u \in Vat, NEW j \in DOMAIN net[u], NEW m, NEW x, x = net[u][j],
         x.k = "call", x.target.k = "importedCap",
         MadeOn(calls[v], calls[Peer(v)], v, m, Peer(u), x.n)
  PROVE  Hosted(u, x.target.id) \in Claims(v, m)
<1>1. PICK w \in Vat : w = Peer(v) /\ Peer(w) = v /\ \A y \in Vat : y = v \/ y = w
  BY PeerFacts
<1>2. x.target.id \in CallTargets(net[u], Peer(u), calls[v], calls[w], v, m)
  BY <1>1 DEF CallTargets
<1>3. CASE u = v
  BY <1>1, <1>2, <1>3 DEF Claims
<1>4. CASE u = w
  BY <1>1, <1>2, <1>4 DEF Claims
<1>. QED
  BY <1>1, <1>3, <1>4

\* The call that was just made is made on what it says.
LEMMA MadeOnNew ==
  ASSUME NEW u \in Vat, NEW k, k \in DOMAIN calls'[u], NEW v \in Vat, NEW m,
         MadeOn(calls'[v], calls'[Peer(v)], v, m, u, k)
  PROVE  \/ v = u /\ calls'[u][k].on = [k |-> "call", n |-> m]
         \/ v = Peer(u) /\ calls'[u][k].on.k = "answer" /\ calls'[v][calls'[u][k].on.n].on = [k |-> "call", n |-> m]
<1>1. Peer(Peer(v)) = v
  BY PeerFacts
<1>. QED
  BY <1>1 DEF MadeOn

-----------------------------------------------------------------------------
(* Calls of the application. *)

LEMMA MadeClaims ==
  ASSUME Agreeing, NEW u \in Vat, NEW p, p = Peer(u), calls'[p] = calls[p], answers'[p] = answers[p],
         ReadFrom(net[u], net'[u]), NEW k, NEW r, Made(calls[u], calls'[u], k, r),
         r.on.k = "call" => r.on.n \in DOMAIN calls[u], r.state # "results"
  PROVE  \A m \in DOMAIN calls'[u] : m \in DOMAIN calls[u] \/ Claims(u, m)' = {}
<1>1. PICK C, N : C = calls[u] /\ N = calls'[u]
  OBVIOUS
<1>2. /\ DOMAIN N = DOMAIN C \cup {k} /\ N[k] = r
      /\ \A n \in DOMAIN C : N[n] = C[n]
  BY <1>1 DEF Made, Longer
<1>3. Lasts(C, N)
  BY <1>2 DEF Lasts
<1>4. \A n \in DOMAIN C : C[n].on.k = "call" => C[n].on.n \in DOMAIN C
  BY <1>1, OfBoth, PathsOf1 DEF Path, PathOK, OriginsOK, CallOrigin
<1>5. \A n \in DOMAIN N : N[n].on.k = "call" => N[n].on.n \in DOMAIN C
  BY <1>1, <1>2, <1>4
<1> SUFFICES ASSUME NEW m \in DOMAIN calls'[u], m \notin DOMAIN calls[u] PROVE Claims(u, m)' = {}
  OBVIOUS
<1>6. m = k
  BY <1>1, <1>2
<1>7. calls'[u][m].state # "results"
  BY <1>1, <1>2, <1>6
<1>8. /\ Lasts(calls[u], calls'[u])
      /\ \A n \in DOMAIN calls'[u] : calls'[u][n].on.k = "call" => calls'[u][n].on.n \in DOMAIN calls[u]
  BY <1>1, <1>3, <1>5
<1>. QED
  BY <1>7, <1>8, NewClaims

LEMMA AskedPaths ==
  ASSUME Agreeing, NEW u \in Vat, NEW p, p = Peer(u), NEW on \in Origin, on.k # "answer", NEW route \in Routes,
         NewQuestion(u, on, route), OriginFits(on, route, calls[u]),
         NEW m, Asks1(m, IdNext(questionID[u]), Len(calls[u]) + 1, on, route, questions[u], exports[p]),
         Send(u, <<m>>), UNCHANGED <<answers, delivered>>,
         ExportsLast, \A v \in Vat : ExportObjects(v)', exports'[p] = exports[p],
         m.k = "call" /\ m.target.k = "importedCap" => NewTarget(p, m)
  PROVE  PathsInv'
<1>1. p \in Vat /\ Peer(p) = u /\ (\A v \in Vat : v = u \/ v = p)
  BY PeerFacts
<1>2. Inv /\ RunsInv /\ PathsInv
  BY OfBoth
<1>3. PICK id, k, r : /\ id = IdNext(questionID[u]) /\ k = Len(calls[u]) + 1
                      /\ r = [id |-> id, on |-> on, route |-> route, state |-> "waiting", cap |-> NullClient]
  OBVIOUS
<1>4. calls'[p] = calls[p] /\ Made(calls[u], calls'[u], k, r)
  BY <1>2, <1>3, QuestionMade
<1>5. r.on = on /\ r.route = route /\ r.cap.k = "null" /\ r.state = "waiting"
  BY <1>3 DEF NullClient
<1>6. m \in Message /\ m.k \in {"bootstrap", "call"}
  BY DEF Asks1
<1>7. net'[u] = net[u] /\ net'[p] = net[p] \o <<m>> /\ ReadFrom(net[u], net'[u])
  BY <1>2, <1>6, WhenSent DEF ReadFrom
<1>8. /\ r.on.k = "call" => r.on.n \in DOMAIN calls[u] /\ calls[u][r.on.n].id # NoId
      /\ r.route = "promised" => r.on.k = "call"
  BY <1>5 DEF OriginFits
<1>9. Lasts(calls[u], calls'[u]) /\ ResultsLast(calls[u], calls'[u])
  BY <1>4, <1>5, <1>8, MadeFollows
<1>10. \A x \in DOMAIN calls'[u] : x \in DOMAIN calls[u] \/ Claims(u, x)' = {}
  BY <1>4, <1>5, <1>7, <1>8, MadeClaims
<1>11. /\ Reads1(answers[u], answers'[u], net[u], net'[u]) /\ Entered(answers[u], answers'[u], calls[p])
       /\ EntriesLast(answers[u], answers'[u])
  BY <1>7, EntriesStill
<1>12. DOMAIN exports[u] \subseteq DOMAIN exports'[u]
  BY DEF ExportsLast, ObjectsLast
<1>13. OrderOK(delivered, calls[p], calls'[u], net'[u], p, u)
  <2>1. Unforwarded(calls[u], calls'[u])
    BY <1>4, <1>5 DEF Made, Longer, Unforwarded
  <2>. QED
    BY <1>1, <1>2, <1>7, <2>1, AnswererOrder
<1>14. \A v \in Vat : Path(v)'
  BY <1>7, <1>11, <1>12, <1>13, AskPaths
<1>15. TargetsFounded /\ \A v \in Vat : ReturnsLast(net[v], net'[v])
  BY <1>2, <1>6, <1>7, TargetsFoundedOne
<1>16. \A v \in Vat : ClaimsAgree(v)'
  BY <1>4, <1>9, <1>10, <1>11, <1>15, RunsFoundedStill, StartAgrees
<1>. QED
  BY <1>14, <1>16, PathsNext

LEMMA BootstrapPaths ==
  ASSUME Agreeing, NEW u \in Vat, Bootstrap(u)
  PROVE  PathsInv'
<1>1. PICK m, id, k : /\ id = IdNext(questionID[u]) /\ k = Len(calls[u]) + 1
                      /\ m = [k |-> "bootstrap", id |-> id, n |-> k]
  OBVIOUS
<1>2. NewQuestion(u, NoOrigin, "bootstrap") /\ Send(u, <<m>>) /\ UNCHANGED <<answers, exports, delivered>>
  BY <1>1 DEF Bootstrap
<1>3. NoOrigin \in Origin /\ NoOrigin.k = "none" /\ "bootstrap" \in Routes
  BY DEF NoOrigin, Origin, Routes
<1>4. id \in Nat /\ k \in Nat
  BY <1>1, <1>2, <1>3, OfBoth, NewQuestionOK
<1>5. m \in Message /\ m.k = "bootstrap" /\ m.id = id /\ m.n = k
  BY <1>1, <1>4 DEF Message
<1>6. PICK p, Q, E : p = Peer(u) /\ Q = questions[u] /\ E = exports[p]
  OBVIOUS
<1>7. Asks1(m, id, k, NoOrigin, "bootstrap", Q, E)
  BY <1>5 DEF Asks1
<1>8. OriginFits(NoOrigin, "bootstrap", calls[u])
  BY <1>3 DEF OriginFits
<1>9. ExportsLast /\ \A v \in Vat : ExportObjects(v)'
  BY <1>2, OfBoth, ExportsStill
<1>. QED
  BY <1>1, <1>2, <1>3, <1>5, <1>6, <1>7, <1>8, <1>9, AskedPaths

\* Ask(): the route and the target agree with what the call is made on.
LEMMA AskAppPaths ==
  ASSUME Agreeing, NEW u \in Vat, NEW p, p = Peer(u), NEW on \in Origin, on.k # "answer",
         NEW route \in {"promised", "imported"},
         NEW target \in Target, NEW method \in Method, NEW arg \in Args(u), Ask(u, on, route, target, method, arg),
         OriginFits(on, route, calls[u]),
         target.k = "importedCap" => target.id \in DOMAIN exports[p],
         target.k = "promisedAnswer" => /\ route = "promised" /\ target.id \in DOMAIN questions[u]
                                        /\ questions[u][target.id] = on.n,
         target.k = "importedCap" /\ on.k = "call" => Hosted(p, target.id) \in Claims(u, on.n)
  PROVE  PathsInv'
<1>1. PICK m, d : m = CallMessage(u, target, method, arg) /\ d = DescriptorFor(u, arg)
  OBVIOUS
<1>2. NewQuestion(u, on, route) /\ Send(u, <<m>>) /\ UNCHANGED <<answers, delivered>>
      /\ exports' = [exports EXCEPT ![u] = Described(u, arg)]
  BY <1>1 DEF Ask
<1>3. p \in Vat /\ p # u /\ Peer(p) = u /\ Inv
  BY PeerFacts, OfBoth
<1>4. arg \in Client /\ Known(arg, exports[u], imports[u])
  BY <1>3, ArgsKnown
<1>5. ExportsLast /\ \A v \in Vat : ExportObjects(v)'
  BY <1>2, <1>4, OfBoth, ExportsStep
<1>6. exports'[p] = exports[p]
  BY <1>2, <1>3, OfVat
<1>7. PICK id, k : id = IdNext(questionID[u]) /\ k = Len(calls[u]) + 1
  OBVIOUS
<1>8. route \in Routes
  BY DEF Routes
<1>9. id \in Nat /\ k \in Nat
  BY <1>2, <1>3, <1>7, <1>8, NewQuestionOK
<1>10. d \in Descriptor /\ (d.k = "receiverHosted" => d.id \in DOMAIN exports[p])
  BY <1>1, <1>3, <1>4, DescribedOK
<1>11. m \in Message /\ m.k = "call" /\ m.id = id /\ m.n = k
  BY <1>1, <1>7, <1>9, <1>10, CallMessageFits DEF Fits
<1>12. m.target = target
  BY <1>1 DEF CallMessage
<1>13. Asks1(m, id, k, on, route, questions[u], exports[p])
  BY <1>11, <1>12 DEF Asks1
<1>14. ASSUME m.target.k = "importedCap" PROVE NewTarget(p, m)
  <2> SUFFICES ASSUME NEW v \in Vat, NEW x \in AskedBy(v), MadeOn(calls'[v], calls'[Peer(v)], v, x, u, m.n)
               PROVE  Hosted(p, m.target.id)' \in Claims(v, x)
    BY <1>3 DEF NewTarget
  <2>1. PICK r : r = [id |-> id, on |-> on, route |-> route, state |-> "waiting", cap |-> NullClient]
    OBVIOUS
  <2>2. Made(calls[u], calls'[u], k, r)
    BY <1>2, <1>3, <1>7, <1>8, <2>1, QuestionMade
  <2>3. k \in DOMAIN calls'[u] /\ calls'[u][k] = r /\ r.on = on
    BY <2>1, <2>2 DEF Made, Longer
  <2>4. MadeOn(calls'[v], calls'[Peer(v)], v, x, u, k)
    BY <1>11
  <2>5. v = u /\ on = [k |-> "call", n |-> x]
    BY <2>3, <2>4, MadeOnNew
  <2>6. on.k = "call" /\ on.n = x
    BY <2>5
  <2>7. Hosted(p, target.id)' = Hosted(p, target.id)
    BY <1>3, <1>5, <1>12, <1>14, HostedLasts
  <2>. QED
    BY <1>12, <1>14, <2>5, <2>6, <2>7
<1>. QED
  BY <1>2, <1>5, <1>6, <1>7, <1>8, <1>11, <1>13, <1>14, AskedPaths

\* The log has one more run, the last.
LEMMA RunAppended ==
  ASSUME NEW T, T \in Seq([at : Vat, object : Object, from : Vat, n : Nat]), NEW d, NEW S, S = Append(T, d)
  PROVE  \E e \in Nat : /\ DOMAIN T \subseteq Nat /\ DOMAIN S = DOMAIN T \cup {e} /\ S[e] = d
                        /\ \A i \in DOMAIN T : i < e /\ S[i] = T[i]
<1>1. PICK e : e = Len(T) + 1
  OBVIOUS
<1>2. e \in Nat /\ DOMAIN T \subseteq Nat /\ DOMAIN S = DOMAIN T \cup {e} /\ S[e] = d
  BY <1>1
<1>3. \A i \in DOMAIN T : i < e /\ S[i] = T[i]
  BY <1>1
<1>. QED
  BY <1>2, <1>3

\* A method is started for the k-th call of v, at its peer w or, if the call stayed, at v.
RunFits(T, C, s, v, w, d) ==
  d.from = v => /\ \A i \in DOMAIN T : T[i].from = v /\ T[i].at = d.at => T[i].n < d.n
                /\ d.at = IF C[d.n].route = "local" THEN v ELSE w
                /\ d.at = w => \A j \in DOMAIN s : s[j].k = "call" => d.n < s[j].n

LEMMA OrderStarted ==
  ASSUME NEW T, T \in Seq([at : Vat, object : Object, from : Vat, n : Nat]), NEW C, NEW K, NEW v, NEW w, NEW s,
         OrderOK(T, C, K, s, v, w), NEW d, RunFits(T, C, s, v, w, d), NEW S, S = Append(T, d)
  PROVE  OrderOK(S, C, K, s, v, w)
<1>1. PICK e \in Nat : /\ DOMAIN T \subseteq Nat /\ DOMAIN S = DOMAIN T \cup {e} /\ S[e] = d
                       /\ \A i \in DOMAIN T : i < e /\ S[i] = T[i]
  BY RunAppended
<1>. QED
  BY <1>1, OrderRun DEF RunFits

LEMMA CallHerePaths ==
  ASSUME Agreeing, NEW u \in Vat, NEW on \in Origin, on.k # "answer", NEW c, CallHere(u, on, c),
         NEW o, o = ObjectOf(u, c),
         on.k = "call" => on.n \in DOMAIN calls[u] /\ calls[u][on.n].id # NoId,
         on.k = "call" /\ o # NoId => <<u, o>> \in Claims(u, on.n)
  PROVE  PathsInv'
<1> DEFINE here(route, state) == [id |-> NoId, on |-> on, route |-> route,
                                  state |-> state, cap |-> NullClient]
<1>1. PICK p \in Vat : p = Peer(u) /\ p # u /\ Peer(p) = u /\ \A v \in Vat : v = u \/ v = p
  BY PeerFacts
<1>2. Inv /\ RunsInv /\ PathsInv /\ DOMAIN calls = Vat
  BY OfBoth, OfVat
<1>3. PICK k, r, d : /\ k = Len(calls[u]) + 1
                     /\ r = IF o = NoId THEN here("error", "exception") ELSE here("local", "waiting")
                     /\ d = [at |-> u, object |-> o, from |-> u, n |-> k]
  OBVIOUS
<1>4. /\ calls' = [calls EXCEPT ![u] = Append(calls[u], r)] /\ UNCHANGED <<questions, answers, exports, net>>
      /\ delivered' = IF o = NoId THEN delivered ELSE Append(delivered, d)
  BY <1>3 DEF CallHere, tables
<1>5. /\ r.on = on /\ r.cap.k = "null" /\ r.state # "results" /\ r.route # "promised"
      /\ o # NoId => r.route = "local"
      /\ d.at = u /\ d.object = o /\ d.from = u /\ d.n = k
  BY <1>3 DEF NullClient
<1> HIDE DEF here
<1>6. calls'[u] = Append(calls[u], r) /\ calls'[p] = calls[p]
  BY <1>1, <1>2, <1>4
<1>7. Made(calls[u], calls'[u], k, r)
  BY <1>2, <1>3, <1>6, MadeAppends
<1>8. PICK C, N : C = calls[u] /\ N = calls'[u]
  OBVIOUS
<1>9. /\ Follows(C, N) /\ Lasts(C, N) /\ ResultsLast(C, N) /\ N[k] = r /\ k \in DOMAIN N
      /\ \A n \in DOMAIN C : n < k
  <2>1. r.on.k = "call" => r.on.n \in DOMAIN C /\ C[r.on.n].id # NoId
    BY <1>5, <1>8
  <2>2. Made(C, N, k, r)
    BY <1>7, <1>8
  <2>3. \A n \in DOMAIN C : n < k
    BY <2>2 DEF Made
  <2>. QED
    BY <1>5, <2>1, <2>2, <2>3, MadeFollows
<1>10. Unforwarded(C, N)
  BY <1>5, <1>7, <1>8 DEF Made, Longer, Unforwarded
<1>11. /\ ReadFrom(net[u], net'[u]) /\ Says(net[p], net'[p]) /\ Told(net[p], net'[p], calls[p], questions[p])
       /\ Reads1(answers[u], answers'[u], net[u], net'[u]) /\ Entered(answers[u], answers'[u], calls[p])
       /\ EntriesLast(answers[u], answers'[u])
  BY <1>4, SaidNothing, EntriesStill
<1>12. ExportsLast /\ \A v \in Vat : ExportObjects(v)'
  BY <1>4, OfBoth, ExportsStill
<1>13. PICK T, S : T = delivered /\ S = delivered'
  OBVIOUS
<1>14. T \in Seq([at : Vat, object : Object, from : Vat, n : Nat])
  BY <1>2, <1>13, OfVat
<1>15. Path(u)'
  <2>1. PICK K, s : K = calls[p] /\ s = net[p]
    OBVIOUS
  <2>2. OrderOK(T, N, K, s, u, p)
    BY <1>1, <1>2, <1>8, <1>9, <1>13, <2>1, AskerOrder
  <2>3. \A i \in DOMAIN T : T[i].from = u => T[i].n < k
    BY <1>2, <1>8, <1>9, <1>13, MentionOf DEF Mention, Mentions, Logged
  <2>4. CASE o = NoId
    <3>1. S = T
      BY <1>4, <1>13, <2>4
    <3>2. OrderOK(delivered', calls'[u], calls[p], net[p], u, p)
      BY <1>8, <1>13, <2>1, <2>2, <3>1
    <3>. QED
      BY <1>1, <1>2, <1>4, <1>8, <1>9, <1>11, <3>2, AskerPath
  <2>5. CASE o # NoId
    <3>1. S = Append(T, d)
      BY <1>4, <1>13, <2>5
    <3>2. RunFits(T, N, s, u, p, d)
      BY <1>1, <1>5, <1>9, <2>3, <2>5 DEF RunFits
    <3>3. OrderOK(S, N, K, s, u, p)
      BY <1>14, <2>2, <3>1, <3>2, OrderStarted
    <3>4. OrderOK(delivered', calls'[u], calls[p], net[p], u, p)
      BY <1>8, <1>13, <2>1, <3>3
    <3>. QED
      BY <1>1, <1>2, <1>4, <1>8, <1>9, <1>11, <3>4, AskerPath
  <2>. QED
    BY <2>4, <2>5
<1>16. Path(p)'
  <2>1. PICK K, s : K = calls[p] /\ s = net'[u]
    OBVIOUS
  <2>2. OrderOK(T, K, N, s, p, u)
    BY <1>1, <1>2, <1>8, <1>10, <1>11, <1>13, <2>1, AnswererOrder
  <2>3. OrderOK(S, K, N, s, p, u)
    <3>1. CASE o = NoId
      BY <1>4, <1>13, <2>2, <3>1
    <3>2. CASE o # NoId
      <4>1. S = Append(T, d)
        BY <1>4, <1>13, <3>2
      <4>2. RunFits(T, K, s, p, u, d)
        BY <1>1, <1>5 DEF RunFits
      <4>. QED
        BY <1>14, <2>2, <4>1, <4>2, OrderStarted
    <3>. QED
      BY <3>1, <3>2
  <2>4. OrderOK(delivered', calls[p], calls'[u], net'[u], p, u)
    BY <1>8, <1>13, <2>1, <2>3
  <2>5. Replies1(net[p], net'[p], calls[p]) /\ Returns1(net[p], net'[p], questions[p])
    BY <1>11 DEF Told, Replies1, Returns1
  <2>6. Forwards1(calls[u], calls'[u], calls[p])
    BY <1>8, <1>10 DEF Unforwarded, Forwards1
  <2>. QED
    BY <1>1, <1>2, <1>4, <1>6, <1>11, <2>4, <2>5, <2>6, AnswererPath
<1>17. \A v \in Vat : Path(v)'
  BY <1>1, <1>15, <1>16
<1>18. RunsFounded
  <2>1. CASE o = NoId
    BY <1>4, <2>1, RunsFoundedStill
  <2>2. CASE o # NoId
    <3>1. NewRun(d)
      <4> SUFFICES ASSUME NEW v \in Vat, NEW m \in AskedBy(v), MadeOn(calls'[v], calls'[Peer(v)], v, m, u, k)
                   PROVE  <<u, o>> \in Claims(v, m)
        BY <1>5 DEF NewRun
      <4>1. k \in DOMAIN calls'[u] /\ calls'[u][k].on = on
        BY <1>5, <1>8, <1>9
      <4>2. v = u /\ on = [k |-> "call", n |-> m]
        BY <4>1, MadeOnNew
      <4>3. on.k = "call" /\ on.n = m
        BY <4>2
      <4>. QED
        BY <2>2, <4>2, <4>3
    <3>2. delivered' = Append(T, d)
      BY <1>4, <1>13, <2>2
    <3>. QED
      BY <1>13, <1>14, <3>1, <3>2, RunsFoundedOne
  <2>. QED
    BY <2>1, <2>2
<1>19. TargetsFounded /\ \A v \in Vat : ReturnsLast(net[v], net'[v])
  BY <1>1, <1>2, <1>4, <1>11, TargetsFoundedRead
<1>20. \A m \in DOMAIN calls'[u] : m \in DOMAIN calls[u] \/ Claims(u, m)' = {}
  <2>1. answers'[p] = answers[p]
    BY <1>4
  <2>2. r.on.k = "call" => r.on.n \in DOMAIN calls[u]
    BY <1>5
  <2>. QED
    BY <1>1, <1>5, <1>6, <1>7, <1>11, <2>1, <2>2, MadeClaims
<1>21. \A v \in Vat : ClaimsAgree(v)'
  <2>1. Lasts(calls[u], calls'[u]) /\ ResultsLast(calls[u], calls'[u]) /\ answers'[p] = answers[p]
    BY <1>4, <1>8, <1>9
  <2>. QED
    BY <1>1, <1>6, <1>11, <1>12, <1>18, <1>19, <1>20, <2>1, StartAgrees
<1>. QED
  BY <1>12, <1>17, <1>21, PathsNext

LEMMA CallOnPaths ==
  ASSUME Agreeing, NEW u \in Vat, NEW on \in Origin, on.k # "answer", NEW c \in Client,
         Known(c, exports[u], imports[u]), NEW method \in Method, NEW arg \in Args(u), CallOn(u, on, c, method, arg),
         on.k = "call" => on.n \in DOMAIN calls[u] /\ calls[u][on.n].id # NoId,
         on.k = "call" => Destination(u, c) \in Claims(u, on.n) \/ c.k \in {"error", "null"}
  PROVE  PathsInv'
<1>1. PICK p \in Vat : p = Peer(u)
  BY PeerFacts
<1>2. CASE c.k = "import"
  <2>1. PICK target : target = [k |-> "importedCap", id |-> c.id]
    OBVIOUS
  <2>2. target \in Target /\ target.k = "importedCap" /\ target.id = c.id
    BY <2>1 DEF Target, Client
  <2>3. Ask(u, on, "imported", target, method, arg)
    BY <1>2, <2>1 DEF CallOn
  <2>4. c.id \in DOMAIN exports[p]
    BY <1>1, <1>2, OfBoth, OfVat DEF Known
  <2>5. OriginFits(on, "imported", calls[u])
    BY DEF OriginFits
  <2>6. on.k = "call" => Hosted(p, c.id) \in Claims(u, on.n)
    BY <1>1, <1>2 DEF Destination
  <2>. QED
    BY <1>1, <2>2, <2>3, <2>4, <2>5, <2>6, AskAppPaths
<1>3. CASE c.k # "import"
  <2>1. PICK o : o = ObjectOf(u, c)
    OBVIOUS
  <2>2. CallHere(u, on, c)
    BY <1>3 DEF CallOn
  <2>3. on.k = "call" /\ o # NoId => <<u, o>> \in Claims(u, on.n)
    BY <1>3, <2>1 DEF Destination, Place, ObjectOf
  <2>. QED
    BY <2>1, <2>2, <2>3, CallHerePaths
<1>. QED
  BY <1>2, <1>3

LEMMA AppCallPaths ==
  ASSUME Agreeing, NEW u \in Vat, AppCall(u)
  PROVE  PathsInv'
<1>0. Inv
  BY OfBoth
<1>1. CASE Bootstrap(u)
  BY <1>1, BootstrapPaths
<1>2. ASSUME NEW method \in Method, NEW arg \in Args(u), NEW m \in DOMAIN calls[u],
             PipelineCall(u, m, method, arg)
      PROVE  PathsInv'
  <2>1. PICK on, q : on = [k |-> "call", n |-> m] /\ q = calls[u][m]
    OBVIOUS
  <2>2. on \in Origin /\ on.k = "call" /\ on.n = m
    BY <1>0, <2>1, CallTypes DEF Origin
  <2>3. q \in CallRecord /\ q.id \in Nat /\ q.id # NoId /\ q.state # "dropped"
    BY <1>0, <1>2, <2>1, CallTypes DEF CallRecord, PipelineCall
  <2>4. CASE FindQuestion(u, q.id) = m
    <3>1. PICK target : target = [k |-> "promisedAnswer", id |-> q.id]
      OBVIOUS
    <3>2. target \in Target /\ target.k = "promisedAnswer" /\ target.id = q.id
      BY <2>3, <3>1 DEF Target
    <3>3. Ask(u, on, "promised", target, method, arg)
      BY <1>2, <2>1, <2>4, <3>1 DEF PipelineCall
    <3>4. q.id \in DOMAIN questions[u] /\ questions[u][q.id] = m
      <4>1. m # 0
        BY <1>0, CallTypes
      <4>. QED
        BY <2>4, <4>1 DEF FindQuestion
    <3>5. OriginFits(on, "promised", calls[u])
      BY <2>1, <2>2, <2>3 DEF OriginFits
    <3>6. on.k # "answer"
      BY <2>2
    <3>. QED
      BY <2>2, <3>2, <3>3, <3>4, <3>5, <3>6, AskAppPaths
  <2>5. CASE FindQuestion(u, q.id) # m
    <3>1. PICK c : /\ c = IF q.state = "exception" THEN ErrorClient(0) ELSE q.cap
                   /\ CallOn(u, on, c, method, arg)
      BY <1>2, <2>1, <2>5 DEF PipelineCall
    <3>2. ErrorClient(0) \in Client /\ Known(ErrorClient(0), exports[u], imports[u]) /\ ErrorClient(0).k = "error"
      BY DEF ErrorClient, Client, Known
    <3>3. c \in Client /\ Known(c, exports[u], imports[u])
      BY <1>0, <2>1, <3>1, <3>2, HeldKnown
    <3>4. Destination(u, c) \in Claims(u, m) \/ c.k \in {"error", "null"}
      <4>1. CASE q.state = "exception"
        BY <3>1, <3>2, <4>1
      <4>2. CASE q.state # "exception"
        <5>1. q.state # "waiting"
          BY <1>2, <2>1, <2>5 DEF PipelineCall
        <5>2. q.state = "results" /\ c = q.cap
          BY <2>3, <3>1, <4>2, <5>1 DEF CallRecord
        <5>3. ASSUME c.k \notin {"error", "null"} PROVE q.route # "bootstrap"
          BY <2>1, <5>2, <5>3, OfBoth, PathsOf1 DEF Path, PathOK, OriginsOK, CallOrigin
        <5>. QED
          BY <2>1, <5>2, <5>3, ResultClaims
      <4>. QED
        BY <4>1, <4>2
    <3>5. on.k # "answer" /\ on.n \in DOMAIN calls[u] /\ calls[u][on.n].id # NoId
      BY <2>1, <2>2, <2>3
    <3>. QED
      BY <2>2, <3>1, <3>3, <3>4, <3>5, CallOnPaths
  <2>. QED
    BY <2>4, <2>5
<1>3. ASSUME NEW method \in Method, NEW arg \in Args(u), NEW id \in DOMAIN answers[u],
             CallParam(u, id, method, arg)
      PROVE  PathsInv'
  <2>1. PICK on : on = [k |-> "param", n |-> answers[u][id].n]
    OBVIOUS
  <2>2. on \in Origin /\ on.k = "param"
    BY <1>0, <2>1, EntryKnown DEF Origin
  <2>3. CallOn(u, on, answers[u][id].param, method, arg)
    BY <1>3, <2>1 DEF CallParam
  <2>4. answers[u][id].param \in Client /\ Known(answers[u][id].param, exports[u], imports[u])
    BY <1>0, EntryKnown
  <2>. QED
    BY <2>2, <2>3, <2>4, CallOnPaths
<1>. QED
  BY <1>1, <1>2, <1>3 DEF AppCall

-----------------------------------------------------------------------------
(* A Call that is read, and routed to a client that hosts or imports a server. *)

LEMMA RoutedClaims ==
  ASSUME Agreeing, NEW u \in Vat, NEW p, p = Peer(u), Handles(u, "call"), NEW m, m = Head(net[u]),
         NEW c, c = Route(u, m), c.k \notin {"error", "null", "queue"},
         NEW v \in Vat, NEW x, MadeOn(calls[v], calls[Peer(v)], v, x, p, m.n)
  PROVE  Destination(u, c) \in Claims(v, x)
<1>1. p \in Vat /\ Peer(p) = u /\ (\A y \in Vat : y = u \/ y = p)
  BY PeerFacts
<1>2. Inv /\ Path(p) /\ ExportObjects(u)
  BY <1>1, OfBoth, PathsOf1
<1>3. /\ m \in Message /\ m.k = "call" /\ m.n \in DOMAIN calls[p]
      /\ MessageOrigin(m, calls[p], exports[u]) /\ net[u] # <<>> /\ net[u] \in Seq(Message)
  BY Asked
<1>4. m.target.k \in {"importedCap", "promisedAnswer"}
  BY <1>3 DEF Message, Target
<1>5. 1 \in DOMAIN net[u] /\ net[u][1] = m
  BY <1>3
<1>6. CASE m.target.k = "importedCap"
  <2>1. PICK id : id = m.target.id
    OBVIOUS
  <2>2. id \in DOMAIN exports[u] /\ c = exports[u][id].client
    BY <1>6, <2>1 DEF Route, ErrorClient
  <2>3. c.k # "import"
    BY <1>2, <2>2, OfVat DEF VatOK, ExportsOK
  <2>4. Hosted(u, id) \in Claims(v, x)
    BY <1>1, <1>3, <1>5, <1>6, <2>1, TargetClaims
  <2>5. Hosted(u, id) = Destination(u, c)
    BY <1>2, <2>2, <2>3 DEF Hosted, Destination, ExportObjects
  <2>. QED
    BY <2>4, <2>5
<1>7. CASE m.target.k = "promisedAnswer"
  <2>1. PICK t, A : t = m.target.id /\ A = answers[u]
    OBVIOUS
  <2>2. t \in DOMAIN A /\ A[t].done /\ c = Resolution(A[t])
    BY <1>7, <2>1 DEF Route, ErrorClient, QueueClient
  <2>3. A[t].ok /\ c = A[t].cap
    BY <2>2 DEF Resolution, ErrorClient
  <2>4. calls[p][m.n].on.k = "call"
    BY <1>2, <1>3, <1>7 DEF MessageOrigin, Path, PathOK, OriginsOK, CallOrigin
  <2>5. v = p /\ calls[p][m.n].on = [k |-> "call", n |-> x]
    <3>1. p = Peer(v) => calls[Peer(v)][m.n].on.k = "call"
      BY <2>4
    <3>. QED
      BY <3>1 DEF MadeOn
  <2>6. calls[p][m.n].on.n = x
    BY <2>5
  <2>7. AimsOK(calls[p], A, net[u])
    BY <1>1, <1>2, <2>1 DEF Path, PathOK
  <2>8. PICK s, C, n : s = net[u] /\ C = calls[p] /\ n = C[m.n].on.n
    OBVIOUS
  <2>9. s \in Seq(Message) /\ s # <<>> /\ m = Head(s) /\ AimsOK(C, A, s) /\ m.k = "call" /\ t = m.target.id
    BY <1>3, <1>7, <2>1, <2>7, <2>8
  <2>10. A[t].n = calls[p][m.n].on.n
    BY <1>7, <2>2, <2>8, <2>9, AimsHead
  <2>11. answers[u][t].n = x /\ answers[u][t].done /\ answers[u][t].ok /\ c = answers[u][t].cap /\ t \in DOMAIN answers[u]
    BY <2>1, <2>2, <2>3, <2>6, <2>10
  <2>12. Destination(u, c) \in Claims(p, x)
    BY <1>1, <2>11, EntryClaims
  <2>. QED
    BY <2>5, <2>12
<1>. QED
  BY <1>4, <1>6, <1>7

LEMMA HandleCallDeliveredPaths ==
  ASSUME Agreeing, NEW u \in Vat, HandleCallDelivered(u)
  PROVE  PathsInv'
<1>1. PICK p : p \in Vat /\ p = Peer(u) /\ p # u /\ Peer(p) = u /\ \A v \in Vat : v = u \/ v = p
  BY PeerFacts
<1>2. Inv /\ RunsInv /\ PathsInv
  BY OfBoth
<1>3. PICK m, c, o : m = Head(net[u]) /\ c = Route(u, m) /\ o = ObjectOf(u, c)
  OBVIOUS
<1>4. PICK a, d, A, B, ms : /\ a = NewAnswer(m, [k |-> "server", id |-> o], Param(u, m))
                            /\ d = [at |-> u, object |-> o, from |-> p, n |-> m.n]
                            /\ A = answers[u] /\ B = Put(A, m.id, a) /\ ms = <<>>
  OBVIOUS
<1>5. /\ Handles(u, "call") /\ Kind(u, c) \in {"server", "ownRef"} /\ Reply(u, ms)
      /\ answers' = [answers EXCEPT ![u] = B]
      /\ delivered' = Append(delivered, d)
      /\ UNCHANGED <<questions, calls, exports>>
  BY <1>1, <1>3, <1>4 DEF HandleCallDelivered, Routed
<1>6. a.n = m.n /\ ~a.ok /\ d.at = u /\ d.object = o /\ d.from = p /\ d.n = m.n
  BY <1>4 DEF NewAnswer
<1>7. /\ m \in Message /\ m.k = "call" /\ m.n \in DOMAIN calls[p]
      /\ MessageOrigin(m, calls[p], exports[u]) /\ net[u] # <<>> /\ net[u] \in Seq(Message)
  BY <1>1, <1>3, <1>5, Asked
<1>8. o # NoId /\ c.k \in {"server", "ownRef"}
  <2>1. c.k \in {"server", "ownRef"} /\ (c.k = "ownRef" => o # NoId)
    BY <1>3, <1>5 DEF Kind
  <2>2. Known(c, exports[u], imports[u])
    BY <1>2, <1>3, <2>1, RouteKnown DEF QueueClient
  <2>3. c.k = "server" => o \in Object
    BY <1>3, <2>2 DEF Known, ObjectOf
  <2>. QED
    BY <2>1, <2>3 DEF Object, NoId
<1>9. Destination(u, c) = <<u, o>>
  BY <1>3, <1>8 DEF Destination, Place
<1>10. /\ answers'[p] = answers[p] /\ answers'[u] = B
       /\ ReadFrom(net[u], net'[u]) /\ Told(net[p], net'[p], calls[p], questions[p])
       /\ Reads1(answers[u], answers'[u], net[u], net'[u]) /\ Entered(answers[u], answers'[u], calls[p])
  <2>1. EntryFor(a, m) /\ SameNames(answers[u], A) /\ EntriesNow(u, B) /\ OneAnswer(ms, m) /\ p = Peer(u)
    BY <1>1, <1>4, <1>5, <1>6, <1>7, SameNamesItself DEF EntryFor, EntriesNow, OneAnswer
  <2>2. Handles(u, "call") /\ Reply(u, ms) /\ "call" \in {"bootstrap", "call"}
    BY <1>5
  <2>3. B = Put(A, m.id, a) /\ m = Head(net[u])
    BY <1>3, <1>4
  <2>. QED
    BY ONLY Agreeing, u \in Vat, <2>1, <2>2, <2>3, AnswersOne, Zenon
<1>11. net'[u] = Tail(net[u]) /\ net'[p] = net[p] /\ Says(net[p], net'[p])
  <2>1. net'[u] = Tail(net[u]) /\ net'[p] = net[p]
    BY <1>1, <1>2, <1>4, <1>5, WhenRead
  <2>. QED
    BY <2>1 DEF Says
<1>12. EntriesLast(answers[u], answers'[u])
  BY <1>4, <1>6, <1>10, SameNamesItself, EntriesPut
<1>13. ExportsLast /\ \A v \in Vat : ExportObjects(v)'
  BY <1>5, OfBoth, ExportsStill
<1>14. PICK T, S, C, K : T = delivered /\ S = delivered' /\ C = calls[p] /\ K = calls[u]
  OBVIOUS
<1>15. T \in Seq([at : Vat, object : Object, from : Vat, n : Nat]) /\ S = Append(T, d)
  BY <1>2, <1>5, <1>14, OfVat
<1>16. Path(p)'
  <2>1. PICK s, t : s = net[u] /\ t = net'[u]
    OBVIOUS
  <2>2. OrderOK(T, C, K, s, p, u)
    BY <1>1, <1>2, <1>14, <2>1, PathsOf1 DEF Path, PathOK
  <2>3. s \in Seq(Message) /\ s # <<>> /\ t = Tail(s) /\ m = Head(s)
    BY <1>3, <1>7, <1>11, <2>1
  <2>4. OrderOK(T, C, K, t, p, u)
    BY <2>2, <2>3, OrderRead
  <2>5. /\ \A j \in DOMAIN t : t[j].k = "call" => m.n < t[j].n
        /\ \A i \in DOMAIN T : T[i].from = p /\ T[i].at = u => T[i].n < m.n
    BY <1>7, <2>2, <2>3, OrderHead
  <2>6. C[m.n].route # "local"
    BY <1>7, <1>14 DEF MessageOrigin
  <2>7. RunFits(T, C, t, p, u, d)
    BY <1>1, <1>6, <2>5, <2>6 DEF RunFits
  <2>8. OrderOK(S, C, K, t, p, u)
    BY <1>15, <2>4, <2>7, OrderStarted
  <2>9. OrderOK(delivered', calls[p], calls'[u], net'[u], p, u)
    BY <1>5, <1>14, <2>1, <2>8
  <2>10. Replies1(net[p], net'[p], calls[p]) /\ Returns1(net[p], net'[p], questions[p])
    BY <1>10 DEF Told, Replies1, Returns1
  <2>11. Forwards1(calls[u], calls'[u], calls[p])
    BY <1>5, NothingNew
  <2>. QED
    BY <1>1, <1>2, <1>5, <1>10, <2>9, <2>10, <2>11, AnswererPath
<1>17. Path(u)'
  <2>1. PICK s : s = net[p]
    OBVIOUS
  <2>2. OrderOK(T, K, C, s, u, p)
    BY <1>1, <1>2, <1>14, <2>1, PathsOf1 DEF Path, PathOK
  <2>3. RunFits(T, K, s, u, p, d)
    BY <1>1, <1>6 DEF RunFits
  <2>4. OrderOK(S, K, C, s, u, p)
    BY <1>15, <2>2, <2>3, OrderStarted
  <2>5. OrderOK(delivered', calls'[u], calls[p], net[p], u, p)
    BY <1>5, <1>14, <2>1, <2>4
  <2>6. Follows(calls[u], calls'[u])
    BY <1>5, CallsSame
  <2>. QED
    BY <1>1, <1>2, <1>5, <1>10, <1>11, <2>5, <2>6, AskerPath
<1>18. NewRun(d)
  <2> SUFFICES ASSUME NEW v \in Vat, NEW x \in AskedBy(v), MadeOn(calls[v], calls[Peer(v)], v, x, p, m.n)
               PROVE  <<u, o>> \in Claims(v, x)
    BY <1>5, <1>6 DEF NewRun
  <2>. QED
    BY <1>1, <1>3, <1>5, <1>8, <1>9, RoutedClaims
<1>19. RunsFounded
  BY <1>14, <1>15, <1>18, RunsFoundedOne
<1>20. TargetsFounded /\ \A v \in Vat : ReturnsLast(net[v], net'[v])
  BY <1>1, <1>2, <1>10, <1>11, TargetsFoundedRead
<1>21. \A v \in Vat : ClaimsAgree(v)'
  <2>1. Lasts(calls[u], calls'[u]) /\ ResultsLast(calls[u], calls'[u]) /\ calls'[p] = calls[p]
    BY <1>5, CallsSame
  <2>2. \A x \in DOMAIN calls'[u] : x \in DOMAIN calls[u] \/ Claims(u, x)' = {}
    BY <1>5
  <2>. QED
    BY <1>1, <1>10, <1>12, <1>13, <1>19, <1>20, <2>1, <2>2, StartAgrees
<1>. QED
  BY <1>1, <1>13, <1>16, <1>17, <1>21, PathsNext

\* What the Call that is forwarded says, and what it comes from.
LEMMA ForwardedCall ==
  ASSUME Agreeing, NEW u \in Vat, NEW p, p = Peer(u), HandleCallForwarded(u), NEW m, m = Head(net[u]),
         NEW c, c = Route(u, m), NEW f, f = CallMessage(u, [k |-> "importedCap", id |-> c.id], m.method, Param(u, m)),
         NEW id, id = IdNext(questionID[u]), NEW k, k = Len(calls[u]) + 1
  PROVE  /\ f \in Message /\ f.k = "call" /\ f.id = id /\ f.n = k
         /\ f.target.k = "importedCap" /\ f.target.id = c.id
         /\ c.k = "import" /\ c.id \in DOMAIN exports[p] /\ Reply(u, <<f>>)
         /\ net'[u] = Tail(net[u]) /\ net'[p] = net[p] \o <<f>> /\ net[u] # <<>>
         /\ m.n \in DOMAIN calls[p] /\ calls[p][m.n].route = "promised"
<1>1. p \in Vat /\ Peer(p) = u /\ Inv /\ Inv'
  BY PeerFacts DEF Agreeing
<1>2. Handles(u, "call") /\ Reply(u, <<f>>) /\ Kind(u, c) = "import"
  BY DEF HandleCallForwarded, Routed
<1>3. c.k = "import"
  BY <1>2 DEF Kind
<1>4. c.id \in DOMAIN exports[p]
  <2>1. Known(c, exports[u], imports[u])
    BY <1>1, <1>3, RouteKnown DEF QueueClient
  <2>. QED
    BY <1>1, <1>3, <2>1, OfVat DEF Known
<1>5. /\ m \in Message /\ m.k = "call" /\ m.n \in DOMAIN calls[p]
      /\ MessageOrigin(m, calls[p], exports[u]) /\ net[u] # <<>>
  BY <1>2, Asked
<1>6. net'[u] = Tail(net[u]) /\ net'[p] = net[p] \o <<f>>
  BY <1>1, <1>2, NetReplied DEF Inv
<1>7. f \in Message
  <2>1. PICK s, t : s = net[p] /\ t = net'[p]
    OBVIOUS
  <2>2. t \in Seq(Message)
    BY <1>1, <2>1 DEF Inv, TablesInv, ChannelOK
  <2>3. s \in Seq(Message) /\ t = s \o <<f>>
    BY <1>1, <1>6, <2>1, ChannelTypes
  <2>4. t[Len(s) + 1] = f /\ Len(s) + 1 \in DOMAIN t
    BY <2>3
  <2>. QED
    BY <2>2, <2>4
<1>8. f.k = "call" /\ f.id = id /\ f.n = k /\ f.target.k = "importedCap" /\ f.target.id = c.id
  BY DEF CallMessage
<1>9. calls[p][m.n].route = "promised"
  <2>1. m.target.k # "importedCap"
    BY <1>1, <1>2, ForwardedOnce
  <2>2. m.target.k = "promisedAnswer"
    BY <1>5, <2>1 DEF Message, Target
  <2>. QED
    BY <1>5, <2>2 DEF MessageOrigin
<1>. QED
  BY <1>2, <1>3, <1>4, <1>5, <1>6, <1>7, <1>8, <1>9

\* Calls are forwarded in the order they were made.
LEMMA ForwardedOrder ==
  ASSUME Agreeing, NEW u \in Vat, NEW p, p = Peer(u), NEW m, m = Head(net[u]), m.k = "call",
         net[u] # <<>>, net'[u] = Tail(net[u]), NEW k, k \in Nat, NEW r, Made(calls[u], calls'[u], k, r), r.on.n = m.n
  PROVE  OrderOK(delivered, calls[p], calls'[u], net'[u], p, u)
<1>1. p \in Vat /\ Peer(p) = u /\ Inv
  BY PeerFacts, OfBoth
<1>2. PICK T, C, K, L, s, t : /\ T = delivered /\ C = calls[p] /\ K = calls[u] /\ L = calls'[u]
                              /\ s = net[u] /\ t = net'[u]
  OBVIOUS
<1>3. OrderOK(T, C, K, s, p, u)
  BY <1>1, <1>2, OfBoth, PathsOf1 DEF Path, PathOK
<1>4. s \in Seq(Message) /\ s # <<>> /\ t = Tail(s) /\ m = Head(s)
  BY <1>1, <1>2, ChannelTypes
<1>5. OrderOK(T, C, K, t, p, u)
  BY <1>3, <1>4, OrderRead
<1>6. /\ \A j \in DOMAIN t : t[j].k = "call" => m.n < t[j].n
      /\ \A f \in DOMAIN K : K[f].on.k = "answer" => K[f].on.n < m.n
  BY <1>3, <1>4, OrderHead
<1>7. /\ DOMAIN K \subseteq Nat /\ DOMAIN L = DOMAIN K \cup {k} /\ L[k].on.n = m.n
      /\ \A f \in DOMAIN K : f < k /\ L[f].on = K[f].on
  BY <1>2 DEF Made, Longer
<1>8. OrderOK(T, C, L, t, p, u)
  BY <1>5, <1>6, <1>7, OrderForwarded
<1>. QED
  BY <1>2, <1>8

LEMMA HandleCallForwardedPaths ==
  ASSUME Agreeing, NEW u \in Vat, HandleCallForwarded(u)
  PROVE  PathsInv'
<1>1. PICK p : p \in Vat /\ p = Peer(u) /\ p # u /\ Peer(p) = u /\ \A v \in Vat : v = u \/ v = p
  BY PeerFacts
<1>2. Inv /\ RunsInv /\ PathsInv
  BY OfBoth
<1>3. PICK m, c, arg, f, id, k :
        /\ m = Head(net[u]) /\ c = Route(u, m) /\ arg = Param(u, m)
        /\ f = CallMessage(u, [k |-> "importedCap", id |-> c.id], m.method, arg)
        /\ id = IdNext(questionID[u]) /\ k = Len(calls[u]) + 1
  OBVIOUS
<1>4. /\ f \in Message /\ f.k = "call" /\ f.id = id /\ f.n = k
      /\ f.target.k = "importedCap" /\ f.target.id = c.id
      /\ c.k = "import" /\ c.id \in DOMAIN exports[p] /\ Reply(u, <<f>>)
      /\ net'[u] = Tail(net[u]) /\ net'[p] = net[p] \o <<f>> /\ net[u] # <<>>
      /\ m.n \in DOMAIN calls[p] /\ calls[p][m.n].route = "promised"
  BY <1>1, <1>3, ForwardedCall
<1>5. PICK a, on, A, B, ms : /\ a = NewAnswer(m, [k |-> "question", id |-> k], arg)
                             /\ on = [k |-> "answer", n |-> m.n]
                             /\ A = answers[u] /\ B = Put(A, m.id, a) /\ ms = <<f>>
  OBVIOUS
<1>6. /\ Handles(u, "call") /\ NewQuestion(u, on, "forward") /\ answers' = [answers EXCEPT ![u] = B]
      /\ exports' = [exports EXCEPT ![u] = Described(u, arg)] /\ delivered' = delivered
      /\ imports' = [imports EXCEPT ![u] = Populated(u, m.cap)]
  BY <1>3, <1>5 DEF HandleCallForwarded, Routed
<1>7. a.n = m.n /\ ~a.ok /\ on.k = "answer" /\ on.n = m.n
  BY <1>5 DEF NewAnswer
<1>8. m \in Message /\ m.k = "call" /\ m.n \in Nat /\ arg \in Client /\ Known(arg, exports[u], imports'[u])
  BY <1>2, <1>3, <1>6, CallRead
<1>9. on \in Origin /\ "forward" \in Routes
  BY <1>5, <1>8 DEF Origin, Routes
<1>10. /\ answers'[p] = answers[p] /\ answers'[u] = B
       /\ ReadFrom(net[u], net'[u]) /\ Told(net[p], net'[p], calls[p], questions[p])
       /\ Reads1(answers[u], answers'[u], net[u], net'[u]) /\ Entered(answers[u], answers'[u], calls[p])
  <2>1. AnswerTo(f, m)
    BY <1>4 DEF AnswerTo
  <2>2. EntryFor(a, m) /\ SameNames(answers[u], A) /\ EntriesNow(u, B) /\ OneAnswer(ms, m) /\ p = Peer(u)
    BY <1>1, <1>4, <1>5, <1>6, <1>7, <1>8, <2>1, SameNamesItself DEF EntryFor, EntriesNow, OneAnswer
  <2>3. Handles(u, "call") /\ Reply(u, ms) /\ "call" \in {"bootstrap", "call"}
    BY <1>4, <1>5, <1>6
  <2>4. B = Put(A, m.id, a) /\ m = Head(net[u])
    BY <1>3, <1>5
  <2>. QED
    BY ONLY Agreeing, u \in Vat, <2>2, <2>3, <2>4, AnswersOne, Zenon
<1>11. ExportsLast /\ \A v \in Vat : ExportObjects(v)'
  BY <1>6, <1>8, OfBoth, ExportsStep
<1>12. exports'[p] = exports[p] /\ DOMAIN exports[u] \subseteq DOMAIN exports'[u]
  <2>1. exports'[p] = exports[p]
    BY <1>1, <1>2, <1>6, OfVat
  <2>. QED
    BY <1>11, <2>1 DEF ExportsLast, ObjectsLast
<1>13. PICK r : r = [id |-> id, on |-> on, route |-> "forward", state |-> "waiting", cap |-> NullClient]
  OBVIOUS
<1>14. r.on = on /\ r.route = "forward" /\ r.state = "waiting" /\ r.cap.k = "null"
  BY <1>13 DEF NullClient
<1>15. calls'[p] = calls[p] /\ Made(calls[u], calls'[u], k, r) /\ k \in Nat
  BY <1>1, <1>2, <1>3, <1>6, <1>9, <1>13, QuestionMade
<1>16. Lasts(calls[u], calls'[u]) /\ ResultsLast(calls[u], calls'[u]) /\ calls'[u][k] = r /\ k \in DOMAIN calls'[u]
  BY <1>7, <1>14, <1>15, MadeFollows
<1>17. \A v \in Vat : Path(v)'
  <2>1. OrderOK(delivered, calls[p], calls'[u], net'[u], p, u)
    BY <1>1, <1>3, <1>4, <1>7, <1>8, <1>14, <1>15, ForwardedOrder
  <2>2. Asks1(f, id, k, on, "forward", questions[u], exports[p])
    BY <1>4 DEF Asks1
  <2>3. OriginFits(on, "forward", calls[u])
    BY <1>7 DEF OriginFits
  <2>4. on.k = "answer" => calls[p][on.n].route = "promised"
    BY <1>4, <1>7
  <2>5. Asks1(f, IdNext(questionID[u]), Len(calls[u]) + 1, on, "forward", questions[u], exports[p])
    BY <1>3, <2>2
  <2>6. /\ p = Peer(u) /\ NewQuestion(u, on, "forward") /\ delivered' = delivered
        /\ net'[p] = net[p] \o <<f>> /\ exports'[p] = exports[p]
        /\ DOMAIN exports[u] \subseteq DOMAIN exports'[u]
    BY <1>1, <1>4, <1>6, <1>12
  <2>. QED
    BY ONLY Agreeing, u \in Vat, <1>9, <1>10, <2>1, <2>3, <2>4, <2>5, <2>6, AskPaths
<1>18. NewTarget(p, f)
  <2> SUFFICES ASSUME NEW v \in Vat, NEW x \in AskedBy(v), MadeOn(calls'[v], calls'[Peer(v)], v, x, u, k)
               PROVE  Hosted(p, c.id)' \in Claims(v, x)
    BY <1>1, <1>4 DEF NewTarget
  <2>1. ASSUME calls'[u][k].on = [k |-> "call", n |-> x] PROVE FALSE
    <3>1. calls'[u][k].on.k = "call"
      BY <2>1
    <3>. QED
      BY <1>7, <1>14, <1>16, <3>1
  <2>2. v = p /\ calls'[v][m.n].on = [k |-> "call", n |-> x]
    BY <1>1, <1>7, <1>14, <1>16, <2>1, MadeOnNew
  <2>3. MadeOn(calls[v], calls[Peer(v)], v, x, p, m.n)
    BY <1>15, <2>2 DEF MadeOn
  <2>4. Destination(u, c) \in Claims(v, x)
    BY <1>1, <1>3, <1>4, <1>6, <2>3, RoutedClaims
  <2>5. Destination(u, c) = Hosted(p, c.id)
    BY <1>1, <1>4 DEF Destination
  <2>6. Hosted(p, c.id)' = Hosted(p, c.id)
    BY <1>1, <1>4, <1>11, HostedLasts
  <2>. QED
    BY <2>4, <2>5, <2>6
<1>19. TargetsFounded /\ \A v \in Vat : ReturnsLast(net[v], net'[v])
  BY <1>1, <1>2, <1>4, <1>10, <1>18, TargetsFoundedOne
<1>20. \A x \in DOMAIN calls'[u] : x \in DOMAIN calls[u] \/ Claims(u, x)' = {}
  <2>1. r.on.k # "call" /\ r.state # "results"
    BY <1>7, <1>14
  <2>. QED
    BY <1>1, <1>10, <1>15, <2>1, MadeClaims
<1>21. EntriesLast(answers[u], answers'[u])
  BY <1>5, <1>7, <1>10, SameNamesItself, EntriesPut
<1>22. \A v \in Vat : ClaimsAgree(v)'
  BY <1>1, <1>6, <1>10, <1>11, <1>15, <1>16, <1>19, <1>20, <1>21, RunsFoundedStill, StartAgrees
<1>. QED
  BY <1>11, <1>17, <1>22, PathsNext

-----------------------------------------------------------------------------
(* Results arrive. *)

\* The client that is made of a descriptor leads where the descriptor does.
LEMMA ClientLeads ==
  ASSUME NEW u \in Vat, NEW d \in Descriptor, NEW r, NEW c, c = ClientFor(u, d, r), c.k # "error"
  PROVE  Destination(u, c) = Shipped(Peer(u), d)
<1>1. Peer(Peer(u)) = u
  BY PeerFacts
<1>2. CASE d.k = "none"
  <2>1. c = NullClient
    BY <1>2 DEF ClientFor
  <2>. QED
    BY <1>2, <2>1 DEF Destination, Shipped, ObjectOf, Place, NullClient
<1>3. CASE d.k = "receiverHosted"
  <2>1. c.k = "ownRef" /\ c.id = d.id
    BY <1>3 DEF ClientFor, OwnRef
  <2>. QED
    BY <1>1, <1>3, <2>1 DEF Destination, Shipped, ObjectOf, Hosted
<1>4. CASE d.k = "senderHosted"
  <2>1. c.k = "import" /\ c.id = d.id
    BY <1>4 DEF ClientFor, ErrorClient, Import
  <2>. QED
    BY <1>4, <2>1 DEF Destination, Shipped
<1>. QED
  BY <1>2, <1>3, <1>4 DEF Descriptor

\* The call whose results arrive becomes r.
Returned(u, m, n, r) ==
  /\ n \in DOMAIN calls[u] /\ n = questions[u][m.id] /\ m.id \in DOMAIN questions[u]
  /\ calls'[u] = [calls[u] EXCEPT ![n] = r]
  /\ r.on = calls[u][n].on /\ r.route = calls[u][n].route /\ r.id = calls[u][n].id
  /\ r.cap = ClientFor(u, m.cap, -n) /\ (r.state = "results" => m.ok)

\* Every Return of q is waited for.
ReturnsDue(q, P) == \A j \in DOMAIN q : q[j].k = "return" => \E x \in Nat \ {0} : Waits(P, q[j].id, x)

\* f is the Finish that u answers the Return m with; n becomes r.
Finishing(u, m, n, f, r) ==
  /\ f \in Message /\ f.k = "finish" /\ f.id = m.id /\ Reply(u, <<f>>) /\ Returned(u, m, n, r)
  /\ calls'[Peer(u)] = calls[Peer(u)] /\ questions'[Peer(u)] = questions[Peer(u)]
  /\ questions'[u] = [questions[u] EXCEPT ![m.id] = 0]

LEMMA ReturnSteps ==
  ASSUME Agreeing, NEW u \in Vat, HandleReturn(u), NEW m, m = Head(net[u]),
         NEW n, n = questions[u][m.id]
  PROVE  \E f, r : Finishing(u, m, n, f, r)
<1>. DEFINE p == Peer(u)
<1>1. Inv /\ p \in Vat /\ p # u
  BY PeerFacts, OfBoth
<1>2. /\ m \in Message /\ m.k = "return" /\ m.id \in DOMAIN questions[u]
      /\ n \in Nat \ {0} /\ n \in DOMAIN calls[u]
      /\ FindQuestion(u, m.id) = n /\ Populates(u, m.cap)
  BY <1>1, ReturningSteps
<1>3. m.ok \in BOOLEAN /\ m.id \in Nat
  BY <1>2, MessageKind
<1>4. PICK f, s, c : /\ f = [k |-> "finish", id |-> m.id, releaseResultCaps |-> ~m.ok]
                     /\ s = (IF m.ok THEN "results" ELSE "exception") /\ c = ClientFor(u, m.cap, -n)
  OBVIOUS
<1>5. /\ calls' = [calls EXCEPT ![u][n].state = s, ![u][n].cap = c] /\ Reply(u, <<f>>)
      /\ questions' = [questions EXCEPT ![u][m.id] = 0]
  BY <1>2, <1>4 DEF HandleReturn, PopQuestion
<1>6. calls[u][n] \in CallRecord /\ DOMAIN calls = Vat /\ DOMAIN questions = Vat
  BY <1>1, <1>2, OfVat, CallTypes
<1>7. PICK r : r = [[calls[u][n] EXCEPT !.state = s] EXCEPT !.cap = c]
  OBVIOUS
<1>8. calls' = [calls EXCEPT ![u] = [calls[u] EXCEPT ![n] = r]]
  BY <1>5, <1>6, <1>7, ZenonT(30)
<1>9. r.on = calls[u][n].on /\ r.route = calls[u][n].route /\ r.id = calls[u][n].id /\ r.state = s /\ r.cap = c
  BY <1>6, <1>7 DEF CallRecord
<1>10. f \in Message /\ f.k = "finish" /\ f.id = m.id
  BY <1>3, <1>4 DEF Message
<1>11. calls'[p] = calls[p] /\ calls'[u] = [calls[u] EXCEPT ![n] = r]
  BY <1>1, <1>6, <1>8
<1>12. questions'[p] = questions[p] /\ questions'[u] = [questions[u] EXCEPT ![m.id] = 0]
  BY <1>1, <1>5, <1>6
<1>13. Returned(u, m, n, r)
  BY <1>2, <1>4, <1>9, <1>11 DEF Returned
<1>. QED
  BY <1>5, <1>10, <1>11, <1>12, <1>13 DEF Finishing

\* The Finish tells nobody of a call that was not told of.
LEMMA AskerDone ==
  ASSUME NEW T, NEW Q, NEW C, NEW K, NEW A, NEW E, NEW s \in Seq(Message), NEW r \in Seq(Message), NEW v, NEW w,
         PathOK(T, Q, C, K, A, E, s, r, v, w), Mentions(T, C, K, A, s, v),
         NEW N, Follows(C, N), Grows(C, N), NEW q, ReadFrom(r, q),
         NEW m \in Message, m.k = "finish", NEW t, t = s \o <<m>>, NEW P, P = [Q EXCEPT ![m.id] = 0], ReturnsDue(q, P)
  PROVE  PathOK(T, P, N, K, A, E, t, q, v, w)
<1>1. \A j \in DOMAIN q : q[j].k = "return" => q[j].id # m.id
  BY DEF ReturnsDue, Waits
<1>. QED
  BY <1>1, AskerFinishes

\* The Return answers that call.
LEMMA ReturnedIs ==
  ASSUME Agreeing, NEW u \in Vat, Handles(u, "return"), NEW m, m = Head(net[u]), NEW n, n = questions[u][m.id]
  PROVE  /\ m \in Message /\ m.k = "return" /\ m.n = n /\ net[u] # <<>> /\ net[u] \in Seq(Message)
         /\ calls[u][n].route = "bootstrap" => m.cap.k = "none"
<1>1. Inv /\ Path(u)
  BY OfBoth, PathsOf1
<1>2. m \in Message /\ m.k = "return" /\ net[u] # <<>> /\ net[u] \in Seq(Message)
  BY <1>1, HeadFacts, ChannelTypes
<1>3. 1 \in DOMAIN net[u] /\ net[u][1] = m
  BY <1>2
<1>4. Waits(questions[u], m.id, m.n)
  BY <1>1, <1>2, <1>3 DEF Path, PathOK, RepliesOK
<1>5. ReplyOrigin(m, calls[u])
  BY <1>1, <1>3 DEF Path, PathOK, OriginsOK
<1>. QED
  BY <1>2, <1>4, <1>5 DEF Waits, ReplyOrigin

LEMMA ReturnedFollows ==
  ASSUME NEW C, NEW n \in DOMAIN C, NEW r, NEW N, N = [C EXCEPT ![n] = r],
         r.on = C[n].on, r.route = C[n].route, r.id = C[n].id, r.route = "bootstrap" => r.cap.k = "null"
  PROVE  /\ Follows(C, N) /\ Grows(C, N) /\ Lasts(C, N) /\ Unforwarded(C, N) /\ DOMAIN N = DOMAIN C
         /\ N[n] = r /\ \A x \in DOMAIN C : x # n => N[x] = C[x]
<1>1. DOMAIN N = DOMAIN C /\ N[n] = r /\ \A x \in DOMAIN C : x # n => N[x] = C[x]
  OBVIOUS
<1>2. Lasts(C, N)
  BY <1>1 DEF Lasts
<1>3. Grows(C, N)
  BY <1>2 DEF Lasts, Grows
<1>4. Follows(C, N)
  BY <1>1, <1>2 DEF Follows
<1>5. Unforwarded(C, N)
  BY <1>1 DEF Unforwarded
<1>. QED
  BY <1>1, <1>2, <1>3, <1>4, <1>5

LEMMA ReturnedBacked ==
  ASSUME NEW u \in Vat, exports' = exports, NEW m, m \in Message, m.k = "return", NEW n, Returned(u, m, n, calls'[u][n]), m.n = n,
         1 \in DOMAIN net[u], net[u][1] = m, NEW x, x \in DOMAIN calls[u]
  PROVE  ResultBacked(u, x, Claims(u, x))
<1>1. CASE x # n
  <2>1. calls'[u][x] = calls[u][x]
    BY <1>1 DEF Returned
  <2>. QED
    BY <2>1 DEF ResultBacked
<1>2. CASE x = n
  <2>1. PICK q : q = calls'[u][n]
    OBVIOUS
  <2>2. SUFFICES ASSUME q.state = "results", q.route # "bootstrap", q.cap.k # "error"
                 PROVE  Destination(u, q.cap)' \in Claims(u, n)
    BY <1>2, <2>1 DEF ResultBacked
  <2>3. m.ok /\ calls[u][n].route # "bootstrap" /\ q.cap = ClientFor(u, m.cap, -n) /\ m.cap \in Descriptor
    BY <2>1, <2>2 DEF Returned, Message
  <2>4. m.cap \in ReturnCaps(calls[u], net[u], n)
    BY <2>3 DEF ReturnCaps
  <2>5. Shipped(Peer(u), m.cap) \in Claims(u, n)
    BY <2>4 DEF Claims
  <2>6. Destination(u, q.cap) = Shipped(Peer(u), m.cap)
    BY <2>2, <2>3, ClientLeads
  <2>7. PICK c : c = q.cap
    OBVIOUS
  <2>8. Destination(u, c)' = Destination(u, c)
    BY DEF Destination, Hosted, Place, ObjectOf
  <2>9. q.cap' = c
    BY <2>7
  <2>. QED
    BY <2>5, <2>6, <2>7, <2>8
<1>. QED
  BY <1>1, <1>2

LEMMA HandleReturnPaths ==
  ASSUME Agreeing, NEW u \in Vat, HandleReturn(u)
  PROVE  PathsInv'
<1>1. PICK p : p \in Vat /\ p = Peer(u) /\ p # u /\ Peer(p) = u /\ \A v \in Vat : v = u \/ v = p
  BY PeerFacts
<1>2. Inv /\ Inv' /\ RunsInv /\ PathsInv
  BY DEF Agreeing
<1>3. PICK m, n : m = Head(net[u]) /\ n = questions[u][m.id]
  OBVIOUS
<1>4. PICK f, r : Finishing(u, m, n, f, r)
  BY <1>3, ReturnSteps
<1>5. /\ f \in Message /\ f.k = "finish" /\ f.id = m.id /\ Reply(u, <<f>>) /\ Returned(u, m, n, r)
      /\ calls'[p] = calls[p] /\ questions'[p] = questions[p]
      /\ questions'[u] = [questions[u] EXCEPT ![m.id] = 0]
  BY <1>1, <1>4 DEF Finishing
<1>6. Handles(u, "return") /\ answers' = answers /\ exports' = exports /\ delivered' = delivered
  BY DEF HandleReturn
<1>7. /\ m \in Message /\ m.k = "return" /\ m.n = n /\ net[u] # <<>> /\ net[u] \in Seq(Message)
      /\ calls[u][n].route = "bootstrap" => m.cap.k = "none"
  BY <1>3, <1>6, ReturnedIs
<1>8. net'[u] = Tail(net[u]) /\ net'[p] = net[p] \o <<f>> /\ net[p] \in Seq(Message)
  BY <1>1, <1>2, <1>5, NetReplied, ChannelTypes DEF Inv
<1>9. PICK C, N : C = calls[u] /\ N = calls'[u]
  OBVIOUS
<1>10. /\ Follows(C, N) /\ Grows(C, N) /\ Lasts(C, N) /\ Unforwarded(C, N) /\ DOMAIN N = DOMAIN C
       /\ N[n] = r /\ \A x \in DOMAIN C : x # n => N[x] = C[x]
  <2>1. n \in DOMAIN C /\ N = [C EXCEPT ![n] = r] /\ r.on = C[n].on /\ r.route = C[n].route /\ r.id = C[n].id
    BY <1>5, <1>9 DEF Returned
  <2>2. r.route = "bootstrap" => r.cap.k = "null"
    BY <1>5, <1>7 DEF Returned, ClientFor, NullClient
  <2>. QED
    BY <2>1, <2>2, ReturnedFollows
<1>11. ReadFrom(net[u], net'[u]) /\ Says(net[p], net'[p])
  BY <1>5, <1>7, <1>8 DEF ReadFrom, Says
<1>12. ExportsLast /\ \A v \in Vat : ExportObjects(v)'
  BY <1>6, OfBoth, ExportsStill
<1>13. Path(u)'
  <2>1. PICK s, t, a, q : s = net[p] /\ t = net'[p] /\ a = net[u] /\ q = net'[u]
    OBVIOUS
  <2>2. PICK T, K, A, E, Q, P : /\ T = delivered /\ K = calls[p] /\ A = answers[p] /\ E = exports[p]
                                /\ Q = questions[u] /\ P = questions'[u]
    OBVIOUS
  <2>3. s \in Seq(Message) /\ a \in Seq(Message) /\ t = s \o <<f>> /\ ReadFrom(a, q)
    BY <1>7, <1>8, <1>11, <2>1
  <2>4. PathOK(T, Q, C, K, A, E, s, a, u, p)
    BY <1>1, <1>2, <1>9, <2>1, <2>2, PathsOf1 DEF Path
  <2>5. Mentions(T, C, K, A, s, u)
    BY <1>1, <1>2, <1>9, <2>1, <2>2, MentionOf DEF Mention
  <2>6. P = [Q EXCEPT ![f.id] = 0]
    BY <1>5, <2>2
  <2>7. ReturnsDue(q, P)
    <3>1. ReturnsWait(u)'
      BY <1>2, ReturnsWaitNext
    <3>. QED
      BY <2>1, <2>2, <3>1 DEF ReturnsWait, ReturnsDue
  <2>8. f \in Message /\ f.k = "finish" /\ t = s \o <<f>> /\ Follows(C, N) /\ Grows(C, N)
    BY <1>5, <1>10, <2>3
  <2>9. PathOK(T, P, N, K, A, E, t, q, u, p)
    BY ONLY <2>3, <2>4, <2>5, <2>6, <2>7, <2>8, AskerDone
  <2>. QED
    BY <1>1, <1>5, <1>6, <1>9, <2>1, <2>2, <2>9 DEF Path
<1>14. Path(p)'
  <2>1. Reads1(answers[u], answers'[u], net[u], net'[u])
    BY <1>3, <1>6, <1>7, <1>8 DEF Reads1, NamesFrom
  <2>2. Entered(answers[u], answers'[u], calls[p])
    BY <1>6, NothingNew
  <2>3. Forwards1(calls[u], calls'[u], calls[p])
    BY <1>9, <1>10 DEF Unforwarded, Forwards1
  <2>4. Replies1(net[p], net'[p], calls[p]) /\ Returns1(net[p], net'[p], questions[p])
    <3>1. Told(net[p], net'[p], calls[p], questions[p])
      BY <1>5, <1>8, ToldOne
    <3>. QED
      BY <3>1 DEF Told, Replies1, Returns1
  <2>5. OrderOK(delivered', calls[p], calls'[u], net'[u], p, u)
    BY <1>1, <1>2, <1>6, <1>9, <1>10, <1>11, AnswererOrder
  <2>. QED
    BY <1>1, <1>2, <1>5, <1>6, <2>1, <2>2, <2>3, <2>4, <2>5, AnswererPath
<1>15. CallsLast
  BY <1>1, <1>5, <1>9, <1>10, CallsLastOf
<1>16. \A v \in Vat : TargetsLast(net[v], net'[v])
  BY <1>1, <1>2, <1>11, TargetsSaid
<1>17. ReturnsLast(net[u], net'[u]) /\ ReturnsLast(net[p], net'[p])
  BY <1>5, <1>7, <1>8, <1>11, ReturnsRead, ReturnsSent
<1>18. ClaimsAgree(p)'
  <2>1. ResultsLast(calls[p], calls'[p]) /\ DOMAIN calls'[p] = DOMAIN calls[p]
    BY <1>5, CallsSame
  <2>2. EntriesLast(answers[u], answers'[u])
    BY <1>6, EntriesSame
  <2>. QED
    BY <1>1, <1>6, <1>12, <1>15, <1>16, <1>17, <2>1, <2>2, QuietClaims
<1>19. ClaimsAgree(u)'
  <2>1. ASSUME NEW x \in AskedBy(u) PROVE Founded(u, x)
    <3>1. PICK S : S = Claims(u, x)
      OBVIOUS
    <3>2. EntriesLast(answers[p], answers'[p])
      BY <1>6, EntriesSame
    <3>3. EntriesBacked(u, x, S) /\ ReturnsBacked(u, x, S) /\ RunsBacked(u, x, S) /\ TargetsBacked(u, x, S)
      BY <1>1, <1>6, <1>16, <1>17, <3>2, EntriesBack, ReturnsBack, RunsBack, TargetsBack
    <3>4. ResultBacked(u, x, Claims(u, x))
      <4>1. 1 \in DOMAIN net[u] /\ net[u][1] = m
        BY <1>3, <1>7
      <4>2. Returned(u, m, n, calls'[u][n]) /\ x \in DOMAIN calls[u]
        BY <1>5, <1>9, <1>10 DEF AskedBy
      <4>. QED
        BY <1>6, <1>7, <4>1, <4>2, ReturnedBacked
    <3>. QED
      BY <3>1, <3>3, <3>4 DEF Founded, Backed
  <2>2. \A x \in DOMAIN calls'[u] : x \in DOMAIN calls[u] \/ Claims(u, x)' = {}
    BY <1>9, <1>10
  <2>. QED
    BY <1>12, <1>15, <2>1, <2>2, ClaimsStep
<1>20. \A v \in Vat : Path(v)' /\ ClaimsAgree(v)'
  BY <1>1, <1>13, <1>14, <1>18, <1>19
<1>. QED
  BY <1>12, <1>20, PathsNext

-----------------------------------------------------------------------------
LEMMA HandleMessagePaths ==
  ASSUME Agreeing, NEW u \in Vat, HandleMessage(u)
  PROVE  PathsInv'
BY HandleBootstrapPaths, HandleCallRefusedPaths, HandleCallRejectedPaths, HandleCallDeliveredPaths,
   HandleCallForwardedPaths, HandleCallQueuedPaths, HandleReturnPaths, HandleFinishPaths,
   HandleUnimplementedPaths
   DEF HandleMessage

LEMMA PathsInit == Init => PathsInv
<1> SUFFICES ASSUME Init PROVE PathsInv
  OBVIOUS
<1>1. DOMAIN delivered = {}
  BY DEF Init
<1>2. \A v \in Vat : /\ DOMAIN calls[v] = {} /\ DOMAIN net[v] = {} /\ DOMAIN answers[v] = {}
                     /\ DOMAIN exports[v] = {}
  BY DEF Init, Empty
<1>3. ASSUME NEW v \in Vat
      PROVE  ExportObjects(v) /\ Path(v) /\ ClaimsAgree(v)
  <2>1. Peer(v) \in Vat
    BY PeerFacts
  <2>2. ExportObjects(v)
    BY <1>2 DEF ExportObjects
  <2>3. ClaimsAgree(v)
    BY <1>2 DEF ClaimsAgree, AskedBy
  <2>4. PICK T, Q, C, K, A, E, s, r :
          /\ T = delivered /\ Q = questions[v] /\ C = calls[v] /\ K = calls[Peer(v)]
          /\ A = answers[Peer(v)] /\ E = exports[Peer(v)] /\ s = net[Peer(v)] /\ r = net[v]
    OBVIOUS
  <2>5. DOMAIN T = {} /\ DOMAIN C = {} /\ DOMAIN K = {} /\ DOMAIN A = {} /\ DOMAIN s = {} /\ DOMAIN r = {}
    BY <1>1, <1>2, <2>1, <2>4
  <2>6. OriginsOK(C, K, A, E, s, r)
    BY ONLY <2>5 DEF OriginsOK
  <2>7. SlotsOK(Q, A, s) /\ RepliesOK(Q, r) /\ AimsOK(C, A, s)
    BY ONLY <2>5 DEF SlotsOK, RepliesOK, AimsOK
  <2>8. OrderOK(T, C, K, s, v, Peer(v))
    BY ONLY <2>5 DEF OrderOK, CallsInOrder, RunsBefore, ForwardsBefore, RunsInOrder, ForwardsInOrder, RunsWhere
  <2>. QED
    BY <2>2, <2>3, <2>4, <2>6, <2>7, <2>8 DEF Path, PathOK
<1>. QED
  BY <1>3 DEF PathsInv, Path, PathOK

LEMMA PathsKept ==
  ASSUME Inv, RunsInv, PathsInv, [Next]_vars
  PROVE  PathsInv'
<1>1. Agreeing
  <2>1. Inv' /\ \A v \in Vat : Step(v)
    BY InvHolds
  <2>2. RunsInv'
    BY <2>1, RunsKept
  <2>. QED
    BY <2>1, <2>2 DEF Agreeing
<1>2. CASE UNCHANGED vars
  BY <1>1, <1>2, StutterPaths
<1>3. CASE Next
  <2>1. PICK v \in Vat : \/ InitMain(v)
                         \/ AppCall(v)
                         \/ \E n \in DOMAIN calls[v] : Drop(v, n)
                         \/ RejectNext(v)
                         \/ \E id \in Ids : ServerEnds(v, id) \/ JoinEnds(v, id)
                         \/ \E n \in Ids : LocalEnds(v, n)
                         \/ HandleMessage(v)
    BY <1>3 DEF Next
  <2>2. CASE InitMain(v)
    BY <1>1, <2>2, InitMainPaths
  <2>3. CASE AppCall(v)
    BY <1>1, <2>3, AppCallPaths
  <2>4. CASE \E n \in DOMAIN calls[v] : Drop(v, n)
    BY <1>1, <2>4, DropPaths
  <2>5. CASE RejectNext(v)
    BY <1>1, <2>5, RejectNextPaths
  <2>6. ASSUME NEW id \in Ids, ServerEnds(v, id) PROVE PathsInv'
    BY <1>1, <2>6, ServerEndsPaths
  <2>7. ASSUME NEW id \in Ids, JoinEnds(v, id) PROVE PathsInv'
    BY <1>1, <2>7, JoinEndsPaths
  <2>8. ASSUME NEW n \in Ids, LocalEnds(v, n) PROVE PathsInv'
    BY <1>1, <2>8, LocalFinishPaths DEF LocalEnds
  <2>9. CASE HandleMessage(v)
    BY <1>1, <2>9, HandleMessagePaths
  <2>. QED
    BY <2>1, <2>2, <2>3, <2>4, <2>5, <2>6, <2>7, <2>8, <2>9
<1>. QED
  BY <1>2, <1>3

\* Where the calls made on a promise go, and in which order the calls of one way
\* arrive: every step keeps all that says where a result lives in agreement, ids bound
\* to the calls they stand for, and the calls on their way, forwarded and started in the
\* order they were made.
THEOREM PathsAgree == Spec => []PathsInv
<1>1. Inv /\ RunsInv /\ PathsInv /\ [Next]_vars => PathsInv'
  BY PathsKept
<1>. QED
  BY <1>1, Everything, RunsAgree, PathsInit, PTL DEF Spec

\* Tables, messages, reference counts, the methods started and the way calls take
\* agree, in every state, for any number of calls.
THEOREM Agreement == Spec => []ConnInv
<1>1. Inv /\ RunsInv /\ PathsInv => ConnInv
  BY DEF Inv, ConnInv
<1>. QED
  BY <1>1, Everything, RunsAgree, PathsAgree, PTL

\* A run of a call: where it happened and on whose behalf.
LEMMA RunAt ==
  ASSUME Inv, RunsInv, PathsInv, NEW v \in Vat, NEW n, NEW i \in RunsOf(v, n), NEW p, p = Peer(v)
  PROVE  /\ i \in DOMAIN delivered /\ delivered[i].object \in Object /\ i \in Nat
         /\ \/ /\ delivered[i].from = v /\ delivered[i].n = n
               /\ delivered[i].at = IF calls[v][n].route = "local" THEN v ELSE p
            \/ /\ delivered[i].from = p /\ delivered[i].n \in DOMAIN calls[p]
               /\ calls[p][delivered[i].n].on = [k |-> "answer", n |-> n]
               /\ delivered[i].at = v /\ calls[v][n].route = "promised"
<1>1. p \in Vat /\ p # v /\ Peer(p) = v
  BY PeerFacts
<1>2. PICK T, C, K : T = delivered /\ C = calls[v] /\ K = calls[p]
  OBVIOUS
<1>3. PICK R : R = [at : Vat, object : Object, from : Vat, n : Nat] /\ T \in Seq(R)
  BY <1>2 DEF Inv, TablesInv
<1>4. i \in DOMAIN T
  BY <1>2 DEF RunsOf
<1>5. /\ i \in DOMAIN T
      /\ \/ T[i].from = v /\ T[i].n = n
         \/ T[i].from = p /\ K[T[i].n].on = [k |-> "answer", n |-> n]
  BY <1>1, <1>2 DEF RunsOf
<1>6. T[i].object \in Object /\ i \in Nat
  <2>1. i \in 1 .. Len(T) /\ Len(T) \in Nat
    BY <1>3, <1>5
  <2>2. T[i] \in R
    <3>1. T \in Seq(R)
      BY <1>3
    <3>. QED
      BY ONLY <1>4, <3>1
  <2>3. T[i].object \in Object
    BY <1>3, <2>2
  <2>. QED
    BY <2>1, <2>3
<1>7. RunsWhere(T, C, v, p) /\ RunsWhere(T, K, p, v)
  BY <1>1, <1>2, PathsOf1 DEF Path, PathOK, OrderOK
<1>8. CASE T[i].from = v /\ T[i].n = n
  BY <1>2, <1>5, <1>6, <1>7, <1>8 DEF RunsWhere
<1>9. CASE T[i].from = p /\ K[T[i].n].on = [k |-> "answer", n |-> n]
  <2>1. PICK f : f = T[i].n
    OBVIOUS
  <2>2. f \in DOMAIN K
    <3>1. Logged(T, p, K)
      BY <1>1, <1>2, RunsOf1 DEF RunsOK
    <3>. QED
      BY <1>5, <1>9, <2>1, <3>1 DEF Logged
  <2>3. K[f].on.k = "answer" /\ K[f].on.n = n
    BY <1>9, <2>1
  <2>4. K[f].route = "forward"
    <3>1. CallRuns(T, K, C, p)
      BY <1>1, <1>2, RunsOf1 DEF RunsOK
    <3>. QED
      BY <2>2, <2>3, <3>1 DEF CallRuns, CallRun
  <2>5. C[n].route = "promised"
    <3>1. OriginsOK(C, K, answers[p], exports[p], net[p], net[v])
      BY <1>1, <1>2, PathsOf1 DEF Path, PathOK
    <3>. QED
      BY <2>2, <2>3, <3>1 DEF OriginsOK
  <2>6. T[i].at = v
    BY <1>5, <1>7, <1>9, <2>1, <2>4 DEF RunsWhere
  <2>. QED
    BY <1>2, <1>5, <1>6, <1>9, <2>1, <2>2, <2>5, <2>6
<1>. QED
  BY <1>5, <1>8, <1>9

\* The run of a call on the promise of call m is one of the things that tell where
\* its result lives.
LEMMA RunClaims ==
  ASSUME Inv, RunsInv, PathsInv, NEW v \in Vat, NEW n \in DOMAIN calls[v], NEW i \in RunsOf(v, n),
         calls[v][n].on.k = "call", NEW m, m = calls[v][n].on.n
  PROVE  /\ m \in AskedBy(v) /\ m \in DOMAIN calls[v]
         /\ <<delivered[i].at, delivered[i].object>> \in Claims(v, m)
         /\ \A x, y \in Claims(v, m) : x = y
<1>1. PICK p : p = Peer(v) /\ p \in Vat /\ p # v /\ Peer(p) = v
  BY PeerFacts
<1>2. PICK T, C, K : T = delivered /\ C = calls[v] /\ K = calls[p]
  OBVIOUS
<1>3. m \in DOMAIN C /\ C[m].id # NoId
  <2>1. OriginsOK(C, K, answers[p], exports[p], net[p], net[v])
    BY <1>1, <1>2, PathsOf1 DEF Path, PathOK
  <2>2. CallOrigin(C[n], C)
    BY <1>2, <2>1 DEF OriginsOK
  <2>. QED
    BY <1>2, <2>2 DEF CallOrigin
<1>4. m \in AskedBy(v)
  BY <1>2, <1>3 DEF AskedBy
<1>5. C[n].on = [k |-> "call", n |-> m]
  <2>1. C[n].on \in Origin
    BY <1>2, CallTypes DEF CallRecord
  <2>. QED
    BY <1>2, <2>1 DEF Origin, NoOrigin
<1>6. MadeOn(C, K, v, m, T[i].from, T[i].n) /\ i \in DOMAIN T
  <2>1. \/ T[i].from = v /\ T[i].n = n
        \/ T[i].from = p /\ K[T[i].n].on = [k |-> "answer", n |-> n]
    BY <1>1, <1>2, RunAt
  <2>2. i \in DOMAIN T
    BY <1>2 DEF RunsOf
  <2>. QED
    BY <1>1, <1>5, <2>1, <2>2 DEF MadeOn
<1>7. <<T[i].at, T[i].object>> \in RunPlaces(T, C, K, v, m)
  BY <1>6 DEF RunPlaces
<1>8. <<T[i].at, T[i].object>> \in Claims(v, m)
  BY <1>1, <1>2, <1>7 DEF Claims
<1>9. \A x, y \in Claims(v, m) : x = y
  <2>1. ClaimsAgree(v)
    BY PathsOf1
  <2>. QED
    BY <1>4, <2>1 DEF ClaimsAgree
<1>. QED
  BY <1>2, <1>3, <1>4, <1>8, <1>9

LEMMA ReachesDesignatedHolds == Inv /\ RunsInv /\ PathsInv => ReachesDesignated
<1> SUFFICES ASSUME Inv, RunsInv, PathsInv, NEW v \in Vat, NEW n \in DOMAIN calls[v],
                    NEW q, q = calls[v][calls[v][n].on.n], calls[v][n].on.k = "call",
                    q.route # "bootstrap", q.state = "results", q.cap.k # "error",
                    NEW i \in RunsOf(v, n)
             PROVE  <<delivered[i].at, delivered[i].object>> = Designated(v, q.cap)
  BY DEF ReachesDesignated
<1>1. PICK m, C : m = calls[v][n].on.n /\ C = calls[v]
  OBVIOUS
<1>2. PICK x : x = <<delivered[i].at, delivered[i].object>>
  OBVIOUS
<1>3. x \in Claims(v, m) /\ \A y, z \in Claims(v, m) : y = z
  BY <1>1, <1>2, RunClaims
<1>4. Destination(v, q.cap) \in Claims(v, m)
  <2>1. q = C[m]
    BY <1>1
  <2>2. q.cap \in ResultCaps(C, m)
    BY <2>1 DEF ResultCaps
  <2>. QED
    BY <1>1, <2>2 DEF Claims
<1>5. x = Destination(v, q.cap)
  BY <1>3, <1>4
<1>6. x # Nowhere
  <2>1. Len(x) = 2
    BY ONLY <1>2
  <2>2. Len(Nowhere) = 0
    BY ONLY DEF Nowhere
  <2>. QED
    BY ONLY <2>1, <2>2
<1>7. CASE q.cap.k = "import"
  <2>1. PICK o : o = exports[Peer(v)][q.cap.id].object
    OBVIOUS
  <2>2. x = Place(Peer(v), o)
    BY <1>5, <1>7, <2>1 DEF Destination, Hosted
  <2>3. x = <<Peer(v), o>>
    BY <1>6, <2>2 DEF Place
  <2>. QED
    BY <1>2, <1>7, <2>1, <2>3 DEF Designated
<1>8. CASE q.cap.k # "import"
  <2>1. x = Place(v, ObjectOf(v, q.cap))
    BY <1>5, <1>8 DEF Destination
  <2>2. x = <<v, ObjectOf(v, q.cap)>>
    BY <1>6, <2>1 DEF Place
  <2>. QED
    BY <1>2, <1>8, <2>2 DEF Designated
<1>. QED
  BY <1>7, <1>8

\* A call on a promise reaches the server that the capability in the result of the call
\* it was made on designates, whether it was sent before the Return or after it, and
\* whether the server lives at the peer or back at the caller (the forwarded calls).
THEOREM DesignatedReached == Spec => []ReachesDesignated
BY Everything, RunsAgree, PathsAgree, ReachesDesignatedHolds, PTL

LEMMA OrderedHolds == Inv /\ RunsInv /\ PathsInv => OrderedOnOneRoute
<1> SUFFICES ASSUME Inv, RunsInv, PathsInv, NEW v \in Vat, NEW n1 \in DOMAIN calls[v], NEW n2 \in DOMAIN calls[v],
                    n1 < n2, calls[v][n1].on = calls[v][n2].on, calls[v][n1].route = calls[v][n2].route,
                    RunsOf(v, n1) # {}, RunsOf(v, n2) # {}
             PROVE  Started(v, n1) < Started(v, n2)
  BY DEF OrderedOnOneRoute
<1>1. PICK p : p = Peer(v) /\ p \in Vat /\ p # v /\ Peer(p) = v
  BY PeerFacts
<1>2. PICK T, C, K, i, j : /\ T = delivered /\ C = calls[v] /\ K = calls[p]
                           /\ i = Started(v, n1) /\ j = Started(v, n2)
  OBVIOUS
<1>3. i \in RunsOf(v, n1) /\ j \in RunsOf(v, n2)
  BY <1>2 DEF Started
<1>4. i \in DOMAIN T /\ j \in DOMAIN T /\ i \in Nat /\ j \in Nat
  BY <1>1, <1>2, <1>3, RunAt
<1>5. \/ /\ T[i].from = v /\ T[i].n = n1 /\ T[i].at = IF C[n1].route = "local" THEN v ELSE p
      \/ /\ T[i].from = p /\ T[i].n \in DOMAIN K /\ K[T[i].n].on = [k |-> "answer", n |-> n1]
         /\ T[i].at = v /\ C[n1].route = "promised"
  BY <1>1, <1>2, <1>3, RunAt
<1>6. \/ /\ T[j].from = v /\ T[j].n = n2 /\ T[j].at = IF C[n2].route = "local" THEN v ELSE p
      \/ /\ T[j].from = p /\ T[j].n \in DOMAIN K /\ K[T[j].n].on = [k |-> "answer", n |-> n2]
         /\ T[j].at = v /\ C[n2].route = "promised"
  BY <1>1, <1>2, <1>3, RunAt
<1>7. n1 \in Nat /\ n2 \in Nat
  BY CallTypes
<1>8. OrderOK(T, C, K, net[p], v, p) /\ OrderOK(T, K, C, net[v], p, v)
  BY <1>1, <1>2, PathsOf1 DEF Path, PathOK
<1>9. C[n1].route = C[n2].route /\ C[n1].on = C[n2].on
  BY <1>2
<1>10. CASE T[i].from = v /\ T[j].from = v
  <2>1. T[i].at = T[j].at /\ T[i].n = n1 /\ T[j].n = n2
    BY <1>1, <1>5, <1>6, <1>9, <1>10
  <2>2. j < i => n2 < n1
    BY <1>4, <1>8, <1>10, <2>1 DEF OrderOK, RunsInOrder
  <2>3. i # j
    BY <1>7, <2>1
  <2>. QED
    BY <1>2, <1>4, <1>7, <2>2, <2>3
<1>11. CASE T[i].from = p /\ T[j].from = p
  <2>1. PICK f, g : f = T[i].n /\ g = T[j].n
    OBVIOUS
  <2>2. /\ f \in DOMAIN K /\ g \in DOMAIN K /\ T[i].at = T[j].at
        /\ K[f].on = [k |-> "answer", n |-> n1] /\ K[g].on = [k |-> "answer", n |-> n2]
    BY <1>1, <1>5, <1>6, <1>11, <2>1
  <2>3. /\ K[f].on.k = "answer" /\ K[g].on.k = "answer" /\ K[f].on.n = n1 /\ K[g].on.n = n2
    BY <2>2
  <2>4. g < f => n2 < n1
    BY <1>8, <2>2, <2>3 DEF OrderOK, ForwardsInOrder
  <2>5. f \in Nat /\ g \in Nat
    BY <1>1, <1>2, <2>2, CallTypes
  <2>6. f < g
    BY <1>7, <2>3, <2>4, <2>5
  <2>7. j < i => g < f
    BY <1>4, <1>8, <1>11, <2>1, <2>2 DEF OrderOK, RunsInOrder
  <2>. QED
    BY <1>2, <1>4, <2>1, <2>5, <2>6, <2>7
<1>12. ASSUME T[i].from # T[j].from PROVE FALSE
  <2>1. C[n1].route = "promised" /\ C[n2].route = "promised" /\ T[i].at # T[j].at
    BY <1>1, <1>5, <1>6, <1>9, <1>12
  <2>2. C[n1].on.k = "call" /\ C[n2].on.k = "call"
    <3>1. OriginsOK(C, K, answers[p], exports[p], net[p], net[v])
      BY <1>1, <1>2, PathsOf1 DEF Path, PathOK
    <3>. QED
      BY <1>2, <2>1, <3>1 DEF OriginsOK, CallOrigin
  <2>3. PICK m : m = C[n1].on.n /\ m = C[n2].on.n
    BY <1>9
  <2>4. <<T[i].at, T[i].object>> \in Claims(v, m) /\ \A x, y \in Claims(v, m) : x = y
    BY <1>2, <1>3, <2>2, <2>3, RunClaims
  <2>5. <<T[j].at, T[j].object>> \in Claims(v, m)
    BY <1>2, <1>3, <2>2, <2>3, RunClaims
  <2>6. <<T[i].at, T[i].object>> = <<T[j].at, T[j].object>>
    BY <2>4, <2>5
  <2>. QED
    BY <2>1, <2>6
<1>. QED
  BY <1>1, <1>5, <1>6, <1>10, <1>11, <1>12

\* Two calls made on one reference that took the same way are started in the order
\* they were made, also when the peer sends them back to the caller's own server.
THEOREM OneRouteOrdered == Spec => []OrderedOnOneRoute
BY Everything, RunsAgree, PathsAgree, OrderedHolds, PTL
=============================================================================
