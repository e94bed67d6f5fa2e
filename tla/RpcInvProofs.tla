---------------------------- MODULE RpcInvProofs ----------------------------
(***************************************************************************)
(* What the tables of a vat say of each other and of the messages on their *)
(* way (TablesInv, AwaitedOK), with the two directions of the connection   *)
(* (RpcTableProofs): no handler throws, and a call that is queued waits in *)
(* one place, for any number of calls.                                     *)
(***************************************************************************)
EXTENDS RpcTableProofs

-----------------------------------------------------------------------------
(* The first state. *)

LEMMA NoMessages ==
  /\ Len(<<>>) = 0 /\ OfKinds(<<>>, AskKinds) = <<>> /\ OfKinds(<<>>, ReplyKinds) = <<>>
  /\ Asks(<<>>) = <<>> /\ Replies(<<>>) = <<>>
<1>1. \A K : OfKinds(<<>>, K) = <<>>
  <2> SUFFICES ASSUME NEW K PROVE OfKinds(<<>>, K) = <<>>
    OBVIOUS
  <2>1. Len(<<>>) = 0
    OBVIOUS
  <2>2. PICK f : Sifting(f, <<>>, K, 0) /\ OfKinds(<<>>, K) = f[0]
    BY <2>1, OfKindsIs
  <2>. QED
    BY <2>2 DEF Sifting
<1>2. Len(<<>>) = 0 /\ DOMAIN <<>> = {}
  OBVIOUS
<1>3. \A K, t : t = OfKinds(<<>>, K) => [j \in DOMAIN t |-> AskMessage(t[j])] = <<>>
  BY <1>1
<1>4. \A K, t : t = OfKinds(<<>>, K) => [j \in DOMAIN t |-> AnswerMessage(t[j])] = <<>>
  BY <1>1
<1>. QED
  BY <1>1, <1>2, <1>3, <1>4 DEF Asks, Replies

LEMMA InitDirections ==
  ASSUME Init, NEW v \in Vat
  PROVE  D(v)!Init
<1>1. Peer(v) \in Vat
  BY PeerFacts
<1>2. /\ calls[v] = <<>> /\ DOMAIN calls[v] = {} /\ answers[Peer(v)] = Empty
      /\ DOMAIN answers[Peer(v)] = {}
      /\ net[v] = <<>> /\ net[Peer(v)] = <<>>
      /\ questionID[v] = [i |-> 0, free |-> <<>>] /\ questions[v] = Empty
      /\ working[v] = TRUE /\ working[Peer(v)] = TRUE
  BY <1>1 DEF Init, Empty
<1>3. AskedBy(v) = {}
  BY <1>2 DEF AskedBy
<1>4. \A n : SettledWith(v, n) = "none" /\ DecidedFor(v, n) = "none"
  BY <1>2, <1>3 DEF SettledWith, DecidedFor, Answered
<1>5. /\ Decided(v) = [n \in Nat \ {0} |-> "none"]
      /\ Settlement(v) = [n \in Nat \ {0} |-> "none"]
  BY <1>4 DEF Decided, Settlement
<1>6. Entries(v) = [id \in {} |-> 0]
  BY <1>2 DEF Entries
<1>. QED
  BY <1>2, <1>3, <1>5, <1>6, NoMessages DEF D!Init, Empty

LEMMA InitInv == Init => Inv
<1> SUFFICES ASSUME Init PROVE Inv
  OBVIOUS
<1>1. CountsInv
  BY InitHolds
<1>2. \A v \in Vat : Sound(v)
  BY InitDirections, Starts
<1>3. TablesInv
  <2>1. ASSUME NEW v \in Vat
        PROVE  /\ QuestionsOK(questionID[v], questions[v], calls[v])
               /\ CallsOK(calls[v], exports[v], imports[v])
               /\ AnswersOK(answers[v], calls[v], exports[v], imports[v])
               /\ ExportsOK(exports[v], imports[v])
               /\ ImportsOK(imports[v])
               /\ ChannelOK(net[v], exports[v])
               /\ QueuesOK(answers[v], rejecting[v])
    <3>1. /\ calls[v] = <<>> /\ DOMAIN calls[v] = {} /\ DOMAIN answers[v] = {}
          /\ DOMAIN exports[v] = {} /\ DOMAIN imports[v] = {}
          /\ net[v] = <<>> /\ DOMAIN net[v] = {} /\ rejecting[v] = <<>> /\ DOMAIN rejecting[v] = {}
          /\ questionID[v] = [i |-> 0, free |-> <<>>] /\ questions[v] = Empty
      BY DEF Init, Empty
    <3>2. QuestionsOK(questionID[v], questions[v], calls[v])
      <4>1. questionID[v] \in [i : Nat, free : Seq(Nat)] /\ questionID[v].i = 0
        BY <3>1
      <4>2. 0 .. 0 - 1 = {}
        OBVIOUS
      <4>. QED
        BY <3>1, <4>1, <4>2 DEF QuestionsOK, Empty
    <3>3. CallsOK(calls[v], exports[v], imports[v]) /\ ChannelOK(net[v], exports[v])
      BY <3>1 DEF CallsOK, ChannelOK
    <3>. QED
      BY <3>1, <3>2, <3>3 DEF AnswersOK, ExportsOK, ImportsOK, QueuesOK
  <2>2. /\ DOMAIN questionID = Vat /\ DOMAIN questions = Vat /\ DOMAIN calls = Vat
        /\ DOMAIN answers = Vat /\ DOMAIN exports = Vat /\ DOMAIN imports = Vat
        /\ DOMAIN rejecting = Vat /\ DOMAIN net = Vat
        /\ main \in [Vat -> BOOLEAN] /\ working \in [Vat -> BOOLEAN]
        /\ delivered \in Seq([at : Vat, object : Object, from : Vat, n : Nat])
    BY DEF Init
  <2>. QED
    BY <2>1, <2>2 DEF TablesInv
<1>4. \A v \in Vat : AwaitedOK(v)
  BY DEF AwaitedOK, Awaited, Init, Empty
<1>. QED
  BY <1>1, <1>2, <1>3, <1>4 DEF Inv

-----------------------------------------------------------------------------
(* Nothing leaves the tables of capabilities: what they say of others stays. *)

\* Everything that the tables of one vat say.
VatOK(v) ==
  /\ QuestionsOK(questionID[v], questions[v], calls[v])
  /\ CallsOK(calls[v], exports[v], imports[v])
  /\ AnswersOK(answers[v], calls[v], exports[v], imports[v])
  /\ ExportsOK(exports[v], imports[v])
  /\ ImportsOK(imports[v])
  /\ ChannelOK(net[v], exports[v])
  /\ QueuesOK(answers[v], rejecting[v])

LEMMA OfVat ==
  ASSUME Inv, NEW v \in Vat
  PROVE  /\ VatOK(v) /\ Sound(v) /\ AwaitedOK(v) /\ Sound(Peer(v))
         /\ DOMAIN questionID = Vat /\ DOMAIN questions = Vat /\ DOMAIN calls = Vat
         /\ DOMAIN answers = Vat /\ DOMAIN exports = Vat /\ DOMAIN imports = Vat
         /\ DOMAIN rejecting = Vat /\ DOMAIN net = Vat
         /\ main \in [Vat -> BOOLEAN] /\ working \in [Vat -> BOOLEAN]
         /\ delivered \in Seq([at : Vat, object : Object, from : Vat, n : Nat])
         /\ ExportTable(exports[v]) /\ DOMAIN imports[v] \subseteq DOMAIN exports[Peer(v)]
BY PeerFacts DEF Inv, TablesInv, VatOK, CountsInv

LEMMA KnownStays ==
  ASSUME NEW c, NEW E, NEW I, NEW E2, NEW I2, Known(c, E, I),
         DOMAIN E \subseteq DOMAIN E2, DOMAIN I \subseteq DOMAIN I2
  PROVE  Known(c, E2, I2)
BY DEF Known

LEMMA CallsStay ==
  ASSUME NEW C, NEW E, NEW I, NEW E2, NEW I2, CallsOK(C, E, I),
         DOMAIN E \subseteq DOMAIN E2, DOMAIN I \subseteq DOMAIN I2
  PROVE  CallsOK(C, E2, I2)
BY KnownStays DEF CallsOK

\* The calls only grow, and keep their ids and the way they took.
CallsKept(C, B) == \A n \in DOMAIN C : n \in DOMAIN B /\ B[n].route = C[n].route /\ B[n].id = C[n].id
LEMMA AnswersStay ==
  ASSUME NEW A0, NEW C, NEW E, NEW I, NEW C2, NEW E2, NEW I2, AnswersOK(A0, C, E, I),
         DOMAIN E \subseteq DOMAIN E2, DOMAIN I \subseteq DOMAIN I2, CallsKept(C, C2)
  PROVE  AnswersOK(A0, C2, E2, I2)
BY KnownStays DEF AnswersOK, EntryOK, CallsKept

LEMMA ExportsStay ==
  ASSUME NEW E, NEW I, NEW I2, ExportsOK(E, I), DOMAIN I \subseteq DOMAIN I2
  PROVE  ExportsOK(E, I2)
BY KnownStays DEF ExportsOK

LEMMA ChannelStays ==
  ASSUME NEW s, NEW E, NEW E2, ChannelOK(s, E), DOMAIN E \subseteq DOMAIN E2
  PROVE  ChannelOK(s, E2)
BY DEF ChannelOK

LEMMA ChannelRead ==
  ASSUME NEW s, NEW E, ChannelOK(s, E), s # <<>>
  PROVE  ChannelOK(Tail(s), E)
<1>1. s \in Seq(Message) /\ Tail(s) \in Seq(Message)
  BY DEF ChannelOK
<1>2. \A j \in DOMAIN Tail(s) : j + 1 \in DOMAIN s /\ Tail(s)[j] = s[j + 1]
  BY <1>1
<1>. QED
  BY <1>1, <1>2 DEF ChannelOK

\* A message that may be sent to a vat with exports E.
Fits(m, E) == m \in Message /\ (m.k \in {"call", "return"} /\ m.cap.k = "receiverHosted"
                                  => m.cap.id \in DOMAIN E)
LEMMA ChannelWritten ==
  ASSUME NEW s, NEW E, ChannelOK(s, E), NEW m, Fits(m, E)
  PROVE  ChannelOK(s \o <<m>>, E)
<1>1. s \in Seq(Message) /\ m \in Message /\ s \o <<m>> \in Seq(Message)
  BY DEF ChannelOK, Fits
<1>2. \A j \in DOMAIN (s \o <<m>>) : \/ j \in DOMAIN s /\ (s \o <<m>>)[j] = s[j]
                                     \/ (s \o <<m>>)[j] = m
  BY <1>1
<1>. QED
  BY <1>1, <1>2 DEF ChannelOK, Fits

-----------------------------------------------------------------------------
(* Capabilities in and out. *)

\* A client that a vat has, and what sending it does; the vat may have just got it.
LEMMA DescribedNow ==
  ASSUME Inv, NEW v \in Vat, NEW I, DOMAIN imports[v] \subseteq DOMAIN I,
         DOMAIN I \subseteq DOMAIN exports[Peer(v)], NEW c \in Client, Known(c, exports[v], I)
  PROVE  /\ DOMAIN exports[v] \subseteq DOMAIN Described(v, c)
         /\ ExportsOK(Described(v, c), I)
         /\ DescriptorFor(v, c) \in Descriptor
         /\ DescriptorFor(v, c).k = "receiverHosted" =>
              DescriptorFor(v, c).id \in DOMAIN exports[Peer(v)]
<1> DEFINE E == exports[v]
<1>1. /\ ExportTable(E) /\ ExportsOK(E, I)
      /\ DOMAIN I \subseteq DOMAIN exports[Peer(v)]
  <2>1. ExportTable(E) /\ ExportsOK(E, imports[v])
    BY OfVat DEF VatOK
  <2>. QED
    BY <2>1, ExportsStay
<1>2. Cardinality(DOMAIN E) \in Nat /\ DOMAIN E \subseteq Nat
  BY <1>1, FS_CardinalityType DEF ExportTable, ExportsOK
<1>3. ExportId(v, c) \in Nat
  <2>1. CASE ExportIds(v, c) = {}
    BY <1>2, <2>1 DEF ExportId
  <2>2. CASE ExportIds(v, c) # {}
    <3>1. ExportIds(v, c) \subseteq DOMAIN E
      BY DEF ExportIds
    <3>2. PICK x \in ExportIds(v, c) : \A y \in ExportIds(v, c) : E[y].client = E[x].client => y = x
      BY <1>1, <2>2, <3>1 DEF ExportTable
    <3>3. \A y \in ExportIds(v, c) : y = x
      BY <3>2 DEF ExportIds
    <3>4. x \in Nat /\ \A y \in ExportIds(v, c) : x <= y
      BY <1>2, <3>1, <3>2, <3>3
    <3>5. ExportId(v, c) \in ExportIds(v, c)
      BY <2>2, <3>2, <3>4 DEF ExportId
    <3>. QED
      BY <1>2, <3>1, <3>5
  <2>. QED
    BY <2>1, <2>2
<1>4. c.k \in {"null", "error", "server", "import", "ownRef"} /\ c.id \in Nat
  BY DEF Client
<1>5. CASE c.k \in {"null", "import"}
  <2>1. Described(v, c) = E
    BY <1>5 DEF Described
  <2>2. CASE c.k = "null"
    <3>1. DescriptorFor(v, c) = [k |-> "none", id |-> 0]
      BY <2>2 DEF DescriptorFor
    <3>. QED
      BY <1>1, <2>1, <3>1 DEF Descriptor
  <2>3. CASE c.k = "import"
    <3>1. DescriptorFor(v, c) = [k |-> "receiverHosted", id |-> c.id]
      BY <2>3 DEF DescriptorFor
    <3>2. c.id \in DOMAIN I
      BY <2>3 DEF Known
    <3>. QED
      BY <1>1, <1>4, <2>1, <3>1, <3>2 DEF Descriptor
  <2>. QED
    BY <1>5, <2>2, <2>3
<1>6. CASE c.k \notin {"null", "import"}
  <2>1. Described(v, c) = AddExport(v, c)
    BY <1>6 DEF Described
  <2>2. DescriptorFor(v, c) = [k |-> "senderHosted", id |-> ExportId(v, c)]
    BY <1>6 DEF DescriptorFor
  <2>3. /\ DescriptorFor(v, c) \in Descriptor
        /\ DescriptorFor(v, c).k # "receiverHosted"
    BY <1>3, <2>2 DEF Descriptor
  <2>4. PICK id \in Nat : id = ExportId(v, c)
    BY <1>3
  <2>5. ObjectOf(v, c) \in Object \cup {NoId}
    <3>1. CASE c.k = "server"
      BY <3>1 DEF ObjectOf, Known
    <3>2. CASE c.k = "ownRef"
      <4>1. c.id \in DOMAIN E
        BY <3>2 DEF Known
      <4>2. E[c.id].object \in Object \cup {NoId}
        BY <1>1, <4>1 DEF ExportsOK, Export
      <4>. QED
        BY <3>2, <4>2 DEF ObjectOf
    <3>3. CASE c.k \notin {"server", "ownRef"}
      BY <3>3 DEF ObjectOf
    <3>. QED
      BY <3>1, <3>2, <3>3
  <2>6. CASE id \in DOMAIN E
    <3>1. AddExport(v, c) = [E EXCEPT ![id].wireRefs = @ + 1]
      BY <2>4, <2>6 DEF AddExport
    <3>2. E[id] \in Export
      BY <1>1, <2>6 DEF ExportsOK
    <3>3. PICK r : r = [E[id] EXCEPT !.wireRefs = @ + 1] /\ AddExport(v, c) = [E EXCEPT ![id] = r]
      BY <2>6, <3>1
    <3>4. r \in Export /\ r.client = E[id].client
      BY <3>2, <3>3 DEF Export
    <3>5. ExportsOK([E EXCEPT ![id] = r], I)
      <4>1. \A x \in DOMAIN E : E[x] \in Export /\ Known(E[x].client, E, I)
                                  /\ E[x].client.k \notin {"null", "import"}
        BY <1>1 DEF ExportsOK
      <4>f. PICK F : F = [E EXCEPT ![id] = r]
        OBVIOUS
      <4>2. DOMAIN F = DOMAIN E /\ F[id] = r /\ \A x \in DOMAIN E : x # id => F[x] = E[x]
        BY <2>6, <4>f
      <4>3. \A x \in DOMAIN F : Known(F[x].client, F, I)
        BY <3>4, <4>1, <4>2, KnownStays
      <4>. QED
        BY <1>2, <3>4, <4>1, <4>2, <4>3, <4>f DEF ExportsOK
    <3>. QED
      BY <2>1, <2>3, <3>3, <3>5
  <2>7. CASE id \notin DOMAIN E
    <3>1. PICK r : r = [client |-> c, object |-> ObjectOf(v, c), wireRefs |-> 1]
      OBVIOUS
    <3>2. AddExport(v, c) = Put(E, id, r)
      BY <2>4, <2>7, <3>1 DEF AddExport
    <3>3. r \in Export /\ r.client = c
      BY <2>5, <3>1 DEF Export
    <3>f. PICK F : F = Put(E, id, r)
      OBVIOUS
    <3>4. /\ DOMAIN F = DOMAIN E \cup {id} /\ F[id] = r
          /\ \A x \in DOMAIN E : F[x] = E[x]
      BY <2>7, <3>f DEF Put
    <3>5. \A x \in DOMAIN F : F[x] \in Export /\ Known(F[x].client, F, I)
                                /\ F[x].client.k \notin {"null", "import"}
      <4>1. \A x \in DOMAIN E : E[x] \in Export /\ Known(E[x].client, E, I)
                                  /\ E[x].client.k \notin {"null", "import"}
        BY <1>1 DEF ExportsOK
      <4>2. Known(c, F, I)
        BY <3>4, KnownStays
      <4>3. \A x \in DOMAIN E : Known(E[x].client, F, I)
        BY <3>4, <4>1, KnownStays
      <4>. QED
        BY <1>6, <3>3, <3>4, <4>1, <4>2, <4>3
    <3>6. ExportsOK(F, I)
      BY <1>2, <3>4, <3>5 DEF ExportsOK
    <3>. QED
      BY <2>1, <2>3, <3>2, <3>f, <3>4, <3>6
  <2>. QED
    BY <2>6, <2>7
<1>. QED
  BY <1>5, <1>6

LEMMA DescribedOK ==
  ASSUME Inv, NEW v \in Vat, NEW c \in Client, Known(c, exports[v], imports[v])
  PROVE  /\ DOMAIN exports[v] \subseteq DOMAIN Described(v, c)
         /\ ExportsOK(Described(v, c), imports[v])
         /\ DescriptorFor(v, c) \in Descriptor
         /\ DescriptorFor(v, c).k = "receiverHosted" =>
              DescriptorFor(v, c).id \in DOMAIN exports[Peer(v)]
<1>1. DOMAIN imports[v] \subseteq DOMAIN exports[Peer(v)]
  BY OfVat
<1>. QED
  BY <1>1, DescribedNow

\* A descriptor that is read, and the client it becomes.
LEMMA PopulatedOK ==
  ASSUME Inv, NEW v \in Vat, NEW d \in Descriptor, NEW r \in Int
  PROVE  /\ DOMAIN imports[v] \subseteq DOMAIN Populated(v, d)
         /\ ImportsOK(Populated(v, d))
         /\ ClientFor(v, d, r) \in Client
         /\ Populates(v, d) => Known(ClientFor(v, d, r), exports[v], Populated(v, d))
<1> DEFINE I == imports[v]
<1>1. ImportsOK(I)
  BY OfVat DEF VatOK
<1>2. d.k \in {"none", "senderHosted", "receiverHosted"} /\ d.id \in Nat
  BY DEF Descriptor
<1>3. CASE d.k = "none"
  <2>1. Populated(v, d) = I /\ ClientFor(v, d, r) = NullClient
    BY <1>3 DEF Populated, ClientFor
  <2>. QED
    BY <1>1, <2>1 DEF NullClient, Client, Known
<1>4. CASE d.k = "receiverHosted"
  <2>1. Populated(v, d) = I /\ ClientFor(v, d, r) = OwnRef(d.id, r)
    BY <1>4 DEF Populated, ClientFor
  <2>. QED
    BY <1>1, <1>2, <1>4, <2>1 DEF OwnRef, Client, Known, Populates
<1>5. CASE d.k = "senderHosted"
  <2>1. PICK J : J = AddImport(v, d.id) /\ Populated(v, d) = J
    BY <1>5 DEF Populated
  <2>2. DOMAIN I \subseteq DOMAIN J /\ d.id \in DOMAIN J /\ ImportsOK(J)
    <3>1. CASE d.id \in DOMAIN I
      <4>1. PICK x : x = [refs |-> I[d.id].refs + 1,
                          live |-> IF I[d.id].live > 0 THEN I[d.id].live + 1 ELSE 0]
                     /\ J = [I EXCEPT ![d.id] = x]
        BY <2>1, <3>1 DEF AddImport
      <4>2. I[d.id].refs \in Nat /\ I[d.id].live \in Nat
        BY <1>1, <3>1 DEF ImportsOK, ImportEntry
      <4>3. x \in ImportEntry
        BY <4>1, <4>2 DEF ImportEntry
      <4>4. DOMAIN J = DOMAIN I /\ \A y \in DOMAIN I : J[y] = x \/ J[y] = I[y]
        BY <4>1
      <4>. QED
        BY <1>1, <3>1, <4>3, <4>4 DEF ImportsOK
    <3>2. CASE d.id \notin DOMAIN I
      <4>1. PICK x : x = [refs |-> 1, live |-> 1] /\ J = Put(I, d.id, x)
        BY <2>1, <3>2 DEF AddImport
      <4>2. x \in ImportEntry
        BY <4>1 DEF ImportEntry
      <4>3. DOMAIN J = DOMAIN I \cup {d.id} /\ \A y \in DOMAIN J : J[y] = x \/ (y \in DOMAIN I /\ J[y] = I[y])
        BY <4>1 DEF Put
      <4>. QED
        BY <1>1, <1>2, <4>2, <4>3 DEF ImportsOK
    <3>. QED
      BY <3>1, <3>2
  <2>3. ClientFor(v, d, r) \in {ErrorClient(r), Import(d.id)}
    BY <1>5 DEF ClientFor
  <2>4. /\ ErrorClient(r) \in Client /\ Known(ErrorClient(r), exports[v], J)
        /\ Import(d.id) \in Client /\ Known(Import(d.id), exports[v], J)
    BY <1>2, <2>2 DEF ErrorClient, Import, Client, Known
  <2>. QED
    BY <2>1, <2>2, <2>3, <2>4
<1>. QED
  BY <1>2, <1>3, <1>4, <1>5

-----------------------------------------------------------------------------
(* Queued calls.  The queue of an answer and the queue it left in a            *)
(* QueueClient are never both in use.                                          *)

Typed(Q) == \A id \in DOMAIN Q : Q[id] \in AnswerRecord

LEMMA QueueIs ==
  ASSUME NEW Q, NEW R, QueuesOK(Q, R), Typed(Q), NEW t \in DOMAIN Q
  PROVE  /\ Q[t].queue \in Seq(Nat) /\ Q[t].stuck \in Seq(Nat) /\ QueueOf(Q[t]) \in Seq(Nat)
         /\ Q[t].done => QueueOf(Q[t]) = Q[t].stuck /\ Q[t].queue = <<>>
         /\ ~Q[t].done => QueueOf(Q[t]) = Q[t].queue /\ Q[t].stuck = <<>>
<1>1. Q[t].queue \in Seq(Nat) /\ Q[t].stuck \in Seq(Nat)
  BY DEF Typed, AnswerRecord
<1>2. /\ Q[t].done => Q[t].queue = <<>>
      /\ ~Q[t].done => Q[t].stuck = <<>>
  BY DEF QueuesOK
<1>3. \A x, y \in Seq(Nat) : x \o y \in Seq(Nat) /\ <<>> \o y = y /\ x \o <<>> = x
  OBVIOUS
<1>4. QueueOf(Q[t]) \in Seq(Nat)
  BY <1>1, <1>3 DEF QueueOf
<1>5. Q[t].done => QueueOf(Q[t]) = Q[t].stuck
  BY <1>1, <1>2, <1>3 DEF QueueOf
<1>6. ~Q[t].done => QueueOf(Q[t]) = Q[t].queue
  BY <1>1, <1>2, <1>3 DEF QueueOf
<1>. QED
  BY <1>1, <1>2, <1>4, <1>5, <1>6

\* The parts of QueuesOK.
QueuesFit(Q) ==
  \A t \in DOMAIN Q :
    /\ Len(Q[t].queue) <= CallQueueSize /\ Len(Q[t].stuck) <= CallQueueSize
    /\ Q[t].done => Q[t].queue = <<>>
    /\ ~Q[t].done => Q[t].stuck = <<>>
QueuedWaits(Q) == \A t \in DOMAIN Q : \A j \in DOMAIN QueueOf(Q[t]) : AwaitedCall(Q, QueueOf(Q[t])[j], Q[t].n)
RejectedWaits(Q, R) == R \in Seq(Nat) /\ \A j \in DOMAIN R : R[j] \in DOMAIN Q /\ ~Q[R[j]].done
                                                           /\ Q[R[j]].callee.k = "answer"
QueuedOnce(Q) ==
  \A t, u \in DOMAIN Q : \A j \in DOMAIN QueueOf(Q[t]), k \in DOMAIN QueueOf(Q[u]) :
     QueueOf(Q[t])[j] = QueueOf(Q[u])[k] => t = u /\ j = k
Distinct(R) == \A j, k \in DOMAIN R : R[j] = R[k] => j = k
Apart(Q, R) == \A t \in DOMAIN Q : \A j \in DOMAIN QueueOf(Q[t]), k \in DOMAIN R : QueueOf(Q[t])[j] # R[k]
AwaitedIsQueued(Q) ==
  \A q, t \in DOMAIN Q : /\ ~Q[q].done /\ ~Q[t].done
                         /\ Q[q].callee = [k |-> "answer", id |-> Q[t].n]
                        => \E j \in DOMAIN Q[t].queue : Q[t].queue[j] = q

LEMMA QueuesParts ==
  ASSUME NEW Q, NEW R
  PROVE  QueuesOK(Q, R) <=> /\ QueuesFit(Q) /\ QueuedWaits(Q) /\ RejectedWaits(Q, R)
                            /\ QueuedOnce(Q) /\ Distinct(R) /\ Apart(Q, R) /\ AwaitedIsQueued(Q)
BY DEF QueuesOK, QueuesFit, QueuedWaits, RejectedWaits, QueuedOnce, Distinct, Apart, AwaitedIsQueued

\* An entry that nothing is queued on, that is not queued and that no queued call waits for.
LEMMA QueuesPut ==
  ASSUME NEW Q, NEW R, QueuesOK(Q, R), NEW id, id \notin DOMAIN Q,
         NEW a, a.queue = <<>>, a.stuck = <<>>, a.done \/ a.callee.k # "answer",
         0 <= CallQueueSize,
         ~a.done => \A q \in DOMAIN Q : ~AwaitedCall(Q, q, a.n),
         NEW S, S = Put(Q, id, a)
  PROVE  QueuesOK(S, R)
<1>1. /\ DOMAIN S = DOMAIN Q \cup {id} /\ S[id] = a
      /\ \A t \in DOMAIN Q : S[t] = Q[t] /\ t # id
  BY DEF Put
<1>2. QueueOf(a) = <<>> /\ DOMAIN QueueOf(a) = {} /\ DOMAIN a.queue = {} /\ Len(a.queue) = 0 /\ Len(a.stuck) = 0
  BY DEF QueueOf
<1>3. /\ QueuesFit(Q) /\ QueuedWaits(Q) /\ RejectedWaits(Q, R)
      /\ QueuedOnce(Q) /\ Distinct(R) /\ Apart(Q, R) /\ AwaitedIsQueued(Q)
  BY QueuesParts
<1>4. QueuesFit(S)
  BY <1>1, <1>2, <1>3 DEF QueuesFit
<1>5. QueuedWaits(S) /\ RejectedWaits(S, R)
  BY <1>1, <1>2, <1>3 DEF QueuedWaits, RejectedWaits, AwaitedCall
<1>6. QueuedOnce(S) /\ Apart(S, R)
  BY <1>1, <1>2, <1>3 DEF QueuedOnce, Apart
<1>7. AwaitedIsQueued(S)
  BY <1>1, <1>2, <1>3 DEF AwaitedIsQueued, AwaitedCall
<1>. QED
  BY <1>3, <1>4, <1>5, <1>6, <1>7, QueuesParts

\* An entry that is done goes.
LEMMA QueuesRemove ==
  ASSUME NEW Q, NEW R, QueuesOK(Q, R), NEW id \in DOMAIN Q, Q[id].done, NEW S, S = Remove(Q, id)
  PROVE  QueuesOK(S, R)
<1>1. /\ DOMAIN S = DOMAIN Q \ {id}
      /\ \A t \in DOMAIN S : S[t] = Q[t] /\ t \in DOMAIN Q
      /\ \A t \in DOMAIN Q : ~Q[t].done => t \in DOMAIN S
  BY DEF Remove
<1>3. /\ QueuesFit(Q) /\ QueuedWaits(Q) /\ RejectedWaits(Q, R)
      /\ QueuedOnce(Q) /\ Distinct(R) /\ Apart(Q, R) /\ AwaitedIsQueued(Q)
  BY QueuesParts
<1>4. QueuesFit(S)
  BY <1>1, <1>3 DEF QueuesFit
<1>5. QueuedWaits(S) /\ RejectedWaits(S, R)
  BY <1>1, <1>3 DEF QueuedWaits, RejectedWaits, AwaitedCall
<1>6. QueuedOnce(S) /\ Apart(S, R)
  BY <1>1, <1>3 DEF QueuedOnce, Apart
<1>7. AwaitedIsQueued(S)
  BY <1>1, <1>3 DEF AwaitedIsQueued
<1>. QED
  BY <1>3, <1>4, <1>5, <1>6, <1>7, QueuesParts

\* A call is queued on an entry that is not done.
LEMMA QueuesQueue ==
  ASSUME NEW Q, NEW R, QueuesOK(Q, R), Typed(Q), NEW id \in Nat, id \notin DOMAIN Q,
         NEW a, a.queue = <<>>, a.stuck = <<>>, ~a.done, 0 <= CallQueueSize,
         NEW t \in DOMAIN Q, ~Q[t].done, Len(Q[t].queue) < CallQueueSize, CallQueueSize \in Nat,
         a.callee = [k |-> "answer", id |-> Q[t].n],
         \A q \in DOMAIN Q : ~AwaitedCall(Q, q, a.n),
         \A u \in DOMAIN Q : ~Q[u].done => Q[u].n # a.n /\ (Q[u].n = Q[t].n => u = t),
         NEW S, S = Put(QueueCall(Q, t, id), id, a)
  PROVE  QueuesOK(S, R)
<1>1. /\ QueuesFit(Q) /\ QueuedWaits(Q) /\ RejectedWaits(Q, R)
      /\ QueuedOnce(Q) /\ Distinct(R) /\ Apart(Q, R) /\ AwaitedIsQueued(Q)
  BY QueuesParts
<1>2. Q[t] \in AnswerRecord /\ Q[t].queue \in Seq(Nat) /\ Q[t].stuck = <<>>
  BY QueueIs DEF Typed
<1>3. PICK b : b = [Q[t] EXCEPT !.queue = Append(@, id)] /\ QueueCall(Q, t, id) = [Q EXCEPT ![t] = b]
  BY DEF QueueCall
<1>4. /\ b.queue = Append(Q[t].queue, id) /\ b.stuck = <<>> /\ b.done = Q[t].done /\ b.n = Q[t].n
      /\ b.callee = Q[t].callee
  BY <1>2, <1>3 DEF AnswerRecord
<1>5. /\ DOMAIN S = DOMAIN Q \cup {id} /\ S[id] = a /\ S[t] = b
      /\ \A u \in DOMAIN Q : u # t => S[u] = Q[u]
  BY <1>3 DEF Put
<1>6. QueueOf(a) = <<>> /\ DOMAIN QueueOf(a) = {} /\ Len(a.queue) = 0 /\ Len(a.stuck) = 0 /\ DOMAIN a.queue = {}
  BY DEF QueueOf
<1>7. /\ QueueOf(Q[t]) = Q[t].queue
      /\ DOMAIN QueueOf(b) = DOMAIN Q[t].queue \cup {Len(Q[t].queue) + 1}
      /\ Len(Q[t].queue) + 1 \notin DOMAIN Q[t].queue
      /\ QueueOf(b)[Len(Q[t].queue) + 1] = id
      /\ \A j \in DOMAIN Q[t].queue : QueueOf(b)[j] = QueueOf(Q[t])[j]
      /\ QueueOf(b) = b.queue /\ Len(b.queue) = Len(Q[t].queue) + 1 /\ Len(b.stuck) = 0
  BY <1>2, <1>4 DEF QueueOf
<1> HIDE DEF QueueOf
<1>8. /\ \A u \in DOMAIN Q : S[u].n = Q[u].n /\ S[u].done = Q[u].done /\ S[u].callee = Q[u].callee
                             /\ S[u].stuck = Q[u].stuck
      /\ \A u \in DOMAIN Q : u # t => QueueOf(S[u]) = QueueOf(Q[u]) /\ S[u].queue = Q[u].queue
  <2>1. b.stuck = Q[t].stuck
    BY <1>2, <1>4
  <2>. QED
    BY <2>1, <1>4, <1>5
<1>9. QueuesFit(S)
  <2>1. Len(b.queue) <= CallQueueSize
    BY <1>2, <1>7
  <2>2. QueuesFit(Q)
    BY <1>1
  <2>3. \A u \in DOMAIN Q : u # t => S[u] = Q[u]
    BY <1>5
  <2>. QED
    BY <1>4, <1>5, <1>6, <1>7, <2>1, <2>2, <2>3 DEF QueuesFit
<1>10. \A q, n : AwaitedCall(Q, q, n) => AwaitedCall(S, q, n)
  BY <1>5, <1>8 DEF AwaitedCall
<1>11. QueuedWaits(S)
  <2>1. \A j \in DOMAIN QueueOf(b) : AwaitedCall(S, QueueOf(b)[j], Q[t].n)
    <3>1. AwaitedCall(S, id, Q[t].n)
      BY <1>5 DEF AwaitedCall
    <3>. QED
      BY <1>1, <1>7, <1>10, <3>1 DEF QueuedWaits
  <2>. QED
    BY <1>1, <1>4, <1>5, <1>6, <1>10, <2>1 DEF QueuedWaits
<1>12. RejectedWaits(S, R)
  BY <1>1, <1>5, <1>8 DEF RejectedWaits
<1>13. /\ \A u \in DOMAIN Q : \A j \in DOMAIN QueueOf(Q[u]) : QueueOf(Q[u])[j] # id
       /\ \A j \in DOMAIN R : R[j] # id
  BY <1>1 DEF QueuedWaits, RejectedWaits, AwaitedCall
<1>14. \A u \in DOMAIN S : \A j \in DOMAIN QueueOf(S[u]) :
         \/ u = t /\ j = Len(Q[t].queue) + 1 /\ QueueOf(S[u])[j] = id
         \/ u \in DOMAIN Q /\ j \in DOMAIN QueueOf(Q[u]) /\ QueueOf(S[u])[j] = QueueOf(Q[u])[j]
  BY <1>5, <1>6, <1>7, <1>8
<1>15. QueuedOnce(S) /\ Apart(S, R)
  BY <1>1, <1>13, <1>14 DEF QueuedOnce, Apart
<1>16. AwaitedIsQueued(S)
  <2> SUFFICES ASSUME NEW q \in DOMAIN S, NEW u \in DOMAIN S, ~S[q].done, ~S[u].done,
                      S[q].callee = [k |-> "answer", id |-> S[u].n]
               PROVE  \E j \in DOMAIN S[u].queue : S[u].queue[j] = q
    BY DEF AwaitedIsQueued
  <2>1. CASE q = id
    <3>1. S[u].n = Q[t].n
      BY <1>5, <2>1
    <3>2. u # id
      BY <3>1, <1>5
    <3>3. u = t
      BY <1>5, <1>8, <3>1, <3>2
    <3>. QED
      BY <1>5, <1>7, <2>1, <3>3
  <2>2. CASE q # id
    <3>1. q \in DOMAIN Q /\ ~Q[q].done /\ Q[q].callee = [k |-> "answer", id |-> S[u].n]
      BY <1>5, <1>8, <2>2
    <3>2. u # id
      BY <1>5, <3>1 DEF AwaitedCall
    <3>3. u \in DOMAIN Q /\ ~Q[u].done /\ S[u].n = Q[u].n
      BY <1>5, <1>8, <3>2
    <3>4. PICK j \in DOMAIN Q[u].queue : Q[u].queue[j] = q
      BY <1>1, <3>1, <3>3 DEF AwaitedIsQueued
    <3>5. CASE u = t
      BY <1>5, <1>7, <3>4, <3>5
    <3>6. CASE u # t
      BY <1>8, <3>3, <3>4, <3>6
    <3>. QED
      BY <3>5, <3>6
  <2>. QED
    BY <2>1, <2>2
<1>. QED
  BY <1>1, <1>9, <1>11, <1>12, <1>15, <1>16, QueuesParts

\* An entry is settled: the calls queued on it stay in its QueueClient, or are rejected
\* next.  The entry itself is not queued, or is the next one to be rejected.
LEMMA QueuesSettle ==
  ASSUME NEW Q, NEW R, QueuesOK(Q, R), Typed(Q), NEW id \in DOMAIN Q, ~Q[id].done,
         NEW b, b.n = Q[id].n, b.done, b.callee = Q[id].callee, b.queue = <<>>,
         NEW R0, \/ Q[id].callee.k # "answer" /\ R0 = R
                 \/ R # <<>> /\ id = Head(R) /\ R0 = Tail(R),
         NEW R2, \/ b.stuck = Q[id].queue /\ R2 = R0
                 \/ b.stuck = <<>> /\ R2 = Q[id].queue \o R0,
         0 <= CallQueueSize,
         NEW S, S = [Q EXCEPT ![id] = b]
  PROVE  QueuesOK(S, R2)
<1>1. /\ QueuesFit(Q) /\ QueuedWaits(Q) /\ RejectedWaits(Q, R)
      /\ QueuedOnce(Q) /\ Distinct(R) /\ Apart(Q, R) /\ AwaitedIsQueued(Q)
  BY QueuesParts
<1>2. /\ DOMAIN S = DOMAIN Q /\ S[id] = b
      /\ \A t \in DOMAIN Q : t # id => S[t] = Q[t]
  OBVIOUS
<1>q. PICK q : q = Q[id].queue
  OBVIOUS
<1>3. q \in Seq(Nat) /\ QueueOf(Q[id]) = q /\ Len(q) <= CallQueueSize
  BY <1>1, <1>q, QueueIs DEF QueuesFit
<1>4. R \in Seq(Nat) /\ \A j \in DOMAIN R : R[j] \in DOMAIN Q /\ ~Q[R[j]].done /\ Q[R[j]].callee.k = "answer"
  BY <1>1 DEF RejectedWaits
\* Where the calls still to be rejected come from.
<1>5. /\ R0 \in Seq(Nat)
      /\ \A j \in DOMAIN R0 : R0[j] # id /\ \E k \in DOMAIN R : R[k] = R0[j]
      /\ Distinct(R0)
  <2>1. CASE Q[id].callee.k # "answer" /\ R0 = R
    BY <1>1, <1>4, <2>1
  <2>2. CASE R # <<>> /\ id = Head(R) /\ R0 = Tail(R)
    <3>1. R0 \in Seq(Nat) /\ \A j \in DOMAIN R0 : j + 1 \in DOMAIN R /\ R0[j] = R[j + 1] /\ j \in Nat \ {0}
      BY <1>4, <2>2
    <3>2. 1 \in DOMAIN R /\ R[1] = id
      BY <1>4, <2>2
    <3>3. \A j \in DOMAIN R0 : R0[j] # id
      BY <1>1, <3>1, <3>2 DEF Distinct
    <3>4. Distinct(R0)
      BY <1>1, <3>1 DEF Distinct
    <3>. QED
      BY <3>1, <3>3, <3>4
  <2>. QED
    BY <2>1, <2>2
<1>6. b.stuck \in {<<>>, q} /\ QueueOf(b) = b.stuck
  <2>1. b.stuck \in {<<>>, q}
    BY <1>q
  <2>2. \A x \in Seq(Nat) : <<>> \o x = x
    OBVIOUS
  <2>3. <<>> \in Seq(Nat)
    OBVIOUS
  <2>. QED
    BY <1>3, <2>1, <2>2, <2>3 DEF QueueOf
<1>7. \A t \in DOMAIN S : \A j \in DOMAIN QueueOf(S[t]) :
        /\ j \in DOMAIN QueueOf(Q[t]) /\ QueueOf(S[t])[j] = QueueOf(Q[t])[j]
        /\ t = id => QueueOf(S[t]) = q /\ b.stuck = q
  <2>1. \A t \in DOMAIN S : t # id => QueueOf(S[t]) = QueueOf(Q[t])
    BY <1>2
  <2>2. DOMAIN <<>> = {}
    OBVIOUS
  <2>. QED
    BY <1>2, <1>3, <1>6, <2>1, <2>2
<1>8. \A t \in DOMAIN Q : \A j \in DOMAIN QueueOf(Q[t]) : QueueOf(Q[t])[j] # id
  <2> SUFFICES ASSUME NEW t \in DOMAIN Q, NEW j \in DOMAIN QueueOf(Q[t]), QueueOf(Q[t])[j] = id
               PROVE  FALSE
    OBVIOUS
  <2>a. AwaitedCall(Q, id, Q[t].n)
    BY <1>1 DEF QueuedWaits
  <2>1. Q[id].callee.k = "answer"
    BY <2>a DEF AwaitedCall
  <2>2. R # <<>> /\ id = Head(R)
    BY <2>1
  <2>3. 1 \in DOMAIN R /\ R[1] = id
    BY <1>4, <2>2
  <2>. QED
    BY <1>1, <2>3 DEF Apart
<1> HIDE DEF QueueOf
<1>9. QueuesFit(S)
  <2>1. Len(<<>>) = 0
    OBVIOUS
  <2>2. Len(b.queue) <= CallQueueSize /\ Len(b.stuck) <= CallQueueSize
    BY <1>3, <1>6, <2>1
  <2>. QED
    BY <1>1, <1>2, <2>2 DEF QueuesFit
<1>10. \A x, n : x \in DOMAIN Q /\ x # id /\ AwaitedCall(Q, x, n) => AwaitedCall(S, x, n)
  BY <1>2 DEF AwaitedCall
<1>11. QueuedWaits(S)
  <2>1. \A t \in DOMAIN S : S[t].n = Q[t].n
    BY <1>2
  <2> SUFFICES ASSUME NEW t \in DOMAIN S, NEW j \in DOMAIN QueueOf(S[t])
               PROVE  AwaitedCall(S, QueueOf(S[t])[j], S[t].n)
    BY DEF QueuedWaits
  <2>2. PICK x : x = QueueOf(Q[t])[j] /\ QueueOf(S[t])[j] = x
    BY <1>7
  <2>3. AwaitedCall(Q, x, Q[t].n) /\ x # id
    BY <1>1, <1>2, <1>7, <1>8, <2>2 DEF QueuedWaits
  <2>4. x \in DOMAIN Q
    BY <2>3 DEF AwaitedCall
  <2>. QED
    BY <1>10, <2>1, <2>2, <2>3, <2>4
\* What is rejected next.
<1>12. /\ R2 \in Seq(Nat)
       /\ \A j \in DOMAIN R2 : \/ \E k \in DOMAIN R0 : R2[j] = R0[k]
                               \/ b.stuck = <<>> /\ \E k \in DOMAIN q : R2[j] = q[k]
       /\ Distinct(R2)
  <2>1. CASE R2 = R0
    BY <1>5, <2>1
  <2>2. CASE b.stuck = <<>> /\ R2 = q \o R0
    <3>1. /\ R2 \in Seq(Nat) /\ Len(q) \in Nat
          /\ \A j \in DOMAIN R2 : \/ j \in DOMAIN q /\ R2[j] = q[j]
                                  \/ j \in Nat /\ j - Len(q) \in DOMAIN R0 /\ R2[j] = R0[j - Len(q)]
      BY <1>3, <1>5, <2>2
    <3>2. \A j, k \in DOMAIN q : q[j] = q[k] => j = k
      BY <1>1, <1>3 DEF QueuedOnce
    <3>3. \A j \in DOMAIN q, k \in DOMAIN R0 : q[j] # R0[k]
      BY <1>1, <1>3, <1>5 DEF Apart
    <3>4. Distinct(R2)
      <4> SUFFICES ASSUME NEW j \in DOMAIN R2, NEW k \in DOMAIN R2, R2[j] = R2[k] PROVE j = k
        BY DEF Distinct
      <4>1. CASE j \in DOMAIN q /\ R2[j] = q[j] /\ k \in DOMAIN q /\ R2[k] = q[k]
        BY <3>2, <4>1
      <4>2. CASE /\ j \in Nat /\ j - Len(q) \in DOMAIN R0 /\ R2[j] = R0[j - Len(q)]
                 /\ k \in Nat /\ k - Len(q) \in DOMAIN R0 /\ R2[k] = R0[k - Len(q)]
        <5>1. j - Len(q) = k - Len(q)
          BY <1>5, <4>2 DEF Distinct
        <5>. QED
          BY <3>1, <4>2, <5>1
      <4>. QED
        BY <3>1, <3>3, <4>1, <4>2
    <3>. QED
      BY <2>2, <3>1, <3>4
  <2>. QED
    BY <1>q, <2>1, <2>2
<1>13. RejectedWaits(S, R2)
  <2>1. \A k \in DOMAIN R0 : R0[k] \in DOMAIN Q /\ ~Q[R0[k]].done /\ Q[R0[k]].callee.k = "answer" /\ R0[k] # id
    BY <1>4, <1>5
  <2>a. \A k \in DOMAIN q : AwaitedCall(Q, q[k], Q[id].n) /\ q[k] # id
    BY <1>1, <1>3, <1>8 DEF QueuedWaits
  <2>2. \A k \in DOMAIN q : q[k] \in DOMAIN Q /\ ~Q[q[k]].done /\ Q[q[k]].callee.k = "answer" /\ q[k] # id
    BY <2>a DEF AwaitedCall
  <2>. QED
    BY <1>2, <1>12, <2>1, <2>2 DEF RejectedWaits
<1>14. QueuedOnce(S)
  BY <1>1, <1>2, <1>7 DEF QueuedOnce
<1>15. Apart(S, R2)
  <2> SUFFICES ASSUME NEW t \in DOMAIN S
               PROVE  \A j \in DOMAIN QueueOf(S[t]), k \in DOMAIN R2 : QueueOf(S[t])[j] # R2[k]
    BY Zenon DEF Apart
  <2> SUFFICES ASSUME NEW j \in DOMAIN QueueOf(S[t]), NEW k \in DOMAIN R2,
                      QueueOf(S[t])[j] = R2[k]
               PROVE  FALSE
    OBVIOUS
  <2>1. /\ t \in DOMAIN Q /\ j \in DOMAIN QueueOf(Q[t]) /\ QueueOf(Q[t])[j] = R2[k]
        /\ t = id => b.stuck = q /\ j \in DOMAIN q
    BY <1>2, <1>7
  <2>2. CASE \E x \in DOMAIN R0 : R2[k] = R0[x]
    BY <1>1, <1>5, <2>1, <2>2 DEF Apart
  <2>3. CASE b.stuck = <<>> /\ \E x \in DOMAIN q : R2[k] = q[x]
    <3>1. PICK x \in DOMAIN q : R2[k] = q[x]
      BY <2>3
    <3>2. t = id
      BY <1>1, <1>3, <2>1, <3>1 DEF QueuedOnce
    <3>3. q = <<>> /\ DOMAIN <<>> = {}
      BY <2>1, <2>3, <3>2
    <3>. QED
      BY <3>1, <3>3
  <2>. QED
    BY <1>12, <2>2, <2>3
<1>16. AwaitedIsQueued(S)
  BY <1>1, <1>2 DEF AwaitedIsQueued
<1>. QED
  BY <1>9, <1>11, <1>12, <1>13, <1>14, <1>15, <1>16, QueuesParts

\* The same, with the two ways of each choice named.
Popped(Q, R, id, R0) == \/ Q[id].callee.k # "answer" /\ R0 = R
                        \/ R # <<>> /\ id = Head(R) /\ R0 = Tail(R)
Moved(Q, id, b, R0, R2) == \/ b.stuck = Q[id].queue /\ R2 = R0
                           \/ b.stuck = <<>> /\ R2 = Q[id].queue \o R0
LEMMA QueuesSettled ==
  ASSUME NEW Q, NEW R, QueuesOK(Q, R), Typed(Q), NEW id \in DOMAIN Q, ~Q[id].done,
         NEW b, b.n = Q[id].n, b.done, b.callee = Q[id].callee, b.queue = <<>>,
         NEW R0, Popped(Q, R, id, R0),
         NEW R2, Moved(Q, id, b, R0, R2),
         0 <= CallQueueSize,
         NEW S, S = [Q EXCEPT ![id] = b]
  PROVE  QueuesOK(S, R2)
<1>0. \/ Q[id].callee.k # "answer" /\ R0 = R
      \/ R # <<>> /\ id = Head(R) /\ R0 = Tail(R)
  BY DEF Popped
<1>1. \/ b.stuck = Q[id].queue /\ R2 = R0
      \/ b.stuck = <<>> /\ R2 = Q[id].queue \o R0
  BY DEF Moved
<1>2. CASE b.stuck = Q[id].queue /\ R2 = R0
  <2>1. CASE Q[id].callee.k # "answer" /\ R0 = R
    BY <2>1, <1>2, QueuesSettle
  <2>2. CASE R # <<>> /\ id = Head(R) /\ R0 = Tail(R)
    BY <2>2, <1>2, QueuesSettle
  <2>. QED
    BY <1>0, <2>1, <2>2
<1>3. CASE b.stuck = <<>> /\ R2 = Q[id].queue \o R0
  <2>1. CASE Q[id].callee.k # "answer" /\ R0 = R
    BY <2>1, <1>3, QueuesSettle
  <2>2. CASE R # <<>> /\ id = Head(R) /\ R0 = Tail(R)
    BY <2>2, <1>3, QueuesSettle
  <2>. QED
    BY <1>0, <2>1, <2>2
<1>. QED
  BY <1>1, <1>2, <1>3

-----------------------------------------------------------------------------
(* From one state to the next. *)

LEMMA QuestionTypes ==
  ASSUME NEW v \in Vat, Sound(v), Step(v)
  PROVE  /\ questionID'[v] \in [i : Nat, free : Seq(Nat)]
         /\ questions'[v] \in [0 .. questionID'[v].i - 1 -> Nat]
<1>1. Sound(v)'
  BY StaysSound
<1>2. /\ questionID'[v] \in [i : Nat, free : Seq(Nat)]
      /\ questions'[v] \in [0 .. questionID'[v].i - 1 -> (Nat \ {0}) \cup {0}]
  BY <1>1 DEF Sound, D!IInv, D!TypeOK
<1>3. (Nat \ {0}) \cup {0} = Nat
  OBVIOUS
<1>. QED
  BY <1>2, <1>3

\* What was decided stays decided.
LEMMA DecidedStays ==
  ASSUME NEW v \in Vat, Sound(v), Step(v), NEW n \in Nat \ {0}, DecidedFor(v, n) # "none"
  PROVE  DecidedFor(v, n)' # "none"
<1>1. Decided(v)[n] # "none" /\ Decided(v)'[n] = DecidedFor(v, n)' /\ DOMAIN Decided(v) = Nat \ {0}
  BY DEF Decided
<1>2. \/ Decided(v)' = Decided(v)
      \/ \E c, o : o # "none" /\ Decided(v)' = [Decided(v) EXCEPT ![c] = o]
  <2>1. D(v)!Next \/ UNCHANGED D(v)!vars
    BY DEF Step
  <2>2. CASE UNCHANGED D(v)!vars
    BY <2>2 DEF D!vars
  <2>3. \A c \in Nat \ {0} : D(v)!Ask(c) => Decided(v)' = Decided(v)
    BY DEF D!Ask
  <2>4. D(v)!HandleReturn \/ D(v)!HandleUnimplemented \/ D(v)!HandleFinish => Decided(v)' = Decided(v)
    BY DEF D!HandleReturn, D!HandleUnimplemented, D!HandleFinish
  <2>5. D(v)!HandleCallPending \/ D(v)!HandleCallRefused => Decided(v)' = Decided(v)
    BY DEF D!HandleCallPending, D!HandleCallRefused
  <2>o. \A o \in D(v)!Outcome : o # "none"
    BY DEF D!Outcome
  <2>6. ASSUME NEW o \in D(v)!Outcome, D(v)!HandleCallSettled(o)
        PROVE  \E c : Decided(v)' = [Decided(v) EXCEPT ![c] = o]
    BY <2>6 DEF D!HandleCallSettled
  <2>7. ASSUME NEW id, NEW o \in D(v)!Outcome, D(v)!Answer(id, o)
        PROVE  \E c : Decided(v)' = [Decided(v) EXCEPT ![c] = o]
    BY <2>7 DEF D!Answer
  <2>8. CASE D(v)!Next
    BY <2>8, <2>o, <2>3, <2>4, <2>5, <2>6, <2>7 DEF D!Next, D!HandleCall
  <2>. QED
    BY <2>1, <2>2, <2>8
<1>3. CASE Decided(v)' = Decided(v)
  BY <1>1, <1>3
<1>4. ASSUME NEW c, NEW o, o # "none", Decided(v)' = [Decided(v) EXCEPT ![c] = o]
      PROVE  DecidedFor(v, n)' # "none"
  BY <1>1, <1>4
<1>. QED
  BY <1>2, <1>3, <1>4

\* Entries that are not done stay, with the call they are for, and a call that is queued
\* is queued on one of them.
EntriesStay(Q, S) == \A t \in DOMAIN Q : ~Q[t].done => /\ t \in DOMAIN S /\ S[t].n = Q[t].n
                                                       /\ S[t].ok \in BOOLEAN
QueuedWas(Q, S) ==
  \A q \in DOMAIN S : S[q].callee.k = "answer" /\ ~S[q].done =>
    \/ q \in DOMAIN Q /\ ~Q[q].done /\ Q[q].callee = S[q].callee
    \/ \E t \in DOMAIN S : S[t].n = S[q].callee.id /\ ~S[t].done
LEMMA AwaitedStays ==
  ASSUME NEW v \in Vat, Sound(Peer(v)), Step(Peer(v)), AwaitedOK(v),
         Typed(answers[v]), 0 \notin DOMAIN calls[Peer(v)],
         EntriesStay(answers[v], answers'[v]), QueuedWas(answers[v], answers'[v])
  PROVE  AwaitedOK(v)'
<1>1. PICK w \in Vat : w = Peer(v) /\ Peer(w) = v
  BY PeerFacts
<1> SUFFICES ASSUME NEW c \in Awaited(v)',
                    ~ \E t \in DOMAIN answers'[v] : answers'[v][t].n = c /\ ~answers'[v][t].done
             PROVE  DecidedFor(w, c)' # "none"
  BY <1>1 DEF AwaitedOK
<1>2. PICK q \in DOMAIN answers'[v] : /\ ~answers'[v][q].done /\ answers'[v][q].callee.k = "answer"
                                     /\ c = answers'[v][q].callee.id
  BY DEF Awaited
<1>3. q \in DOMAIN answers[v] /\ ~answers[v][q].done /\ answers[v][q].callee.k = "answer"
      /\ answers[v][q].callee.id = c
  BY <1>2 DEF QueuedWas
<1>4. c \in Nat
  BY <1>3 DEF Typed, AnswerRecord, Callee
<1>5. \/ DecidedFor(w, c) # "none"
      \/ \E t \in DOMAIN answers[v] : answers[v][t].n = c /\ ~answers[v][t].done
  <2>1. c \in Awaited(v)
    BY <1>3 DEF Awaited
  <2>. QED
    BY <1>1, <2>1 DEF AwaitedOK
<1>6. \A t \in DOMAIN answers[v] : answers[v][t].n \in Nat \ {0}
  BY <1>1, Mapped
<1>7. CASE DecidedFor(w, c) # "none"
  <2>1. c # 0
    <3> SUFFICES ASSUME c = 0 PROVE FALSE
      OBVIOUS
    <3>1. ~Answered(w, c, TRUE) /\ ~Answered(w, c, FALSE)
      BY <1>1, <1>6 DEF Answered
    <3>2. c \in AskedBy(w)
      BY <1>7, <3>1 DEF DecidedFor, SettledWith
    <3>. QED
      BY <1>1, <3>2 DEF AskedBy
  <2>. QED
    BY <1>1, <1>4, <1>7, <2>1, DecidedStays
<1>8. CASE \E t \in DOMAIN answers[v] : answers[v][t].n = c /\ ~answers[v][t].done
  <2>1. PICK t \in DOMAIN answers[v] : answers[v][t].n = c /\ ~answers[v][t].done
    BY <1>8
  <2>2. t \in DOMAIN answers'[v] /\ answers'[v][t].n = c /\ answers'[v][t].ok \in BOOLEAN
    BY <2>1 DEF EntriesStay
  <2>3. answers'[v][t].done
    BY <2>2
  <2>4. Answered(w, c, TRUE)' \/ Answered(w, c, FALSE)'
    BY <1>1, <2>2, <2>3 DEF Answered
  <2>. QED
    BY <2>4 DEF DecidedFor, SettledWith
<1>. QED
  BY <1>5, <1>7, <1>8

\* What an action of v must show: nothing of the peer changes but what it is sent.
Changes(v) ==
  /\ OnlyOf(v, questionID, questionID') /\ OnlyOf(v, questions, questions')
  /\ OnlyOf(v, calls, calls') /\ OnlyOf(v, answers, answers')
  /\ OnlyOf(v, exports, exports') /\ OnlyOf(v, imports, imports')
  /\ OnlyOf(v, rejecting, rejecting') /\ DOMAIN net' = Vat
  /\ main' \in [Vat -> BOOLEAN] /\ working' \in [Vat -> BOOLEAN]
  /\ delivered' \in Seq([at : Vat, object : Object, from : Vat, n : Nat])
  /\ ChannelOK(net'[Peer(v)], exports[Peer(v)])

\* What a step of v is: Inv stays, and both directions make a step of QuestionTable.
Upholds(v) == Inv' /\ Steps(v)

LEMMA KeepsInv ==
  ASSUME Inv, [Next]_vars, NEW v \in Vat, Changes(v), Steps(v), VatOK(v)', QueuedWas(answers[v], answers'[v]),
         EntriesStay(answers[v], answers'[v])
  PROVE  Upholds(v)
<1>1. PICK w \in Vat : w = Peer(v) /\ Peer(w) = v /\ \A u \in Vat : u = v \/ u = w
  BY PeerFacts
<1>2. CountsInv'
  BY NextKeeps DEF Inv
<1>3. Sound(v)' /\ Sound(w)'
  BY <1>1, StaysSound DEF Inv, Steps
<1>4. AwaitedOK(v)'
  <2>1. Sound(Peer(v)) /\ AwaitedOK(v) /\ AnswersOK(answers[v], calls[v], exports[v], imports[v])
    BY OfVat DEF VatOK
  <2>2. Typed(answers[v]) /\ 0 \notin DOMAIN calls[Peer(v)]
    BY <1>1, <2>1, CallTypes DEF AnswersOK, EntryOK, Typed
  <2>. QED
    BY <2>1, <2>2, AwaitedStays DEF Steps
<1>5. AwaitedOK(w)'
  <2>1. /\ Sound(Peer(w)) /\ AwaitedOK(w) /\ AnswersOK(answers[w], calls[w], exports[w], imports[w])
    BY OfVat DEF VatOK
  <2>2. answers'[w] = answers[w] /\ Step(Peer(w))
    BY <1>1 DEF Changes, OnlyOf, Steps
  <2>3. EntriesStay(answers[w], answers[w]) /\ QueuedWas(answers[w], answers[w])
    <3>1. \A t \in DOMAIN answers[w] : answers[w][t].ok \in BOOLEAN
      BY <2>1 DEF AnswersOK, EntryOK, AnswerRecord
    <3>. QED
      BY <3>1 DEF EntriesStay, QueuedWas
  <2>4. Typed(answers[w]) /\ 0 \notin DOMAIN calls[Peer(w)]
    BY <1>1, <2>1, CallTypes DEF AnswersOK, EntryOK, Typed
  <2>. QED
    BY <2>1, <2>2, <2>3, <2>4, AwaitedStays
<1>6. VatOK(w)'
  <2>1. VatOK(w)
    BY OfVat
  <2>2. /\ questionID'[w] = questionID[w] /\ questions'[w] = questions[w] /\ calls'[w] = calls[w]
        /\ answers'[w] = answers[w] /\ exports'[w] = exports[w] /\ imports'[w] = imports[w]
        /\ rejecting'[w] = rejecting[w] /\ ChannelOK(net'[w], exports[w])
    BY <1>1 DEF Changes, OnlyOf
  <2>. QED
    BY <2>1, <2>2 DEF VatOK
<1>7. TablesInv'
  <2>1. \A u \in Vat : VatOK(u)'
    BY <1>1, <1>6
  <2>. QED
    BY <2>1 DEF TablesInv, VatOK, Changes, OnlyOf
<1>. QED
  BY <1>1, <1>2, <1>3, <1>4, <1>5, <1>7 DEF Inv, Upholds

ReadFrom(s, t) == t = s \/ (s # <<>> /\ t = Tail(s))
StillAsked(P, Q, C) == \A id \in DOMAIN Q : Q[id] # 0 => \/ id \in DOMAIN P /\ Q[id] = P[id]
                                                         \/ Q[id] \in DOMAIN C /\ C[Q[id]].id = id
LEMMA NothingRead ==
  ASSUME NEW s, NEW P, NEW C
  PROVE  ReadFrom(s, s) /\ StillAsked(P, P, C)
BY DEF ReadFrom, StillAsked
\* What an action of v must leave in the tables of v.
Preserves(v) ==
  /\ CallsKept(calls[v], calls'[v]) /\ DOMAIN exports[v] \subseteq DOMAIN exports'[v]
  /\ CallsOK(calls'[v], exports'[v], imports'[v])
  /\ AnswersOK(answers'[v], calls'[v], exports'[v], imports'[v])
  /\ ExportsOK(exports'[v], imports'[v]) /\ ImportsOK(imports'[v])
  /\ ReadFrom(net[v], net'[v]) /\ StillAsked(questions[v], questions'[v], calls'[v])
  /\ QueuesOK(answers'[v], rejecting'[v])
LEMMA VatKept ==
  ASSUME Inv, NEW v \in Vat, Steps(v), Preserves(v)
  PROVE  VatOK(v)'
<1>0. /\ CallsKept(calls[v], calls'[v]) /\ DOMAIN exports[v] \subseteq DOMAIN exports'[v]
      /\ CallsOK(calls'[v], exports'[v], imports'[v])
      /\ AnswersOK(answers'[v], calls'[v], exports'[v], imports'[v])
      /\ ExportsOK(exports'[v], imports'[v]) /\ ImportsOK(imports'[v])
      /\ ReadFrom(net[v], net'[v]) /\ StillAsked(questions[v], questions'[v], calls'[v])
      /\ QueuesOK(answers'[v], rejecting'[v])
  BY DEF Preserves
<1>1. VatOK(v) /\ Sound(v) /\ Step(v)
  BY OfVat DEF Steps
<1>2. ChannelOK(net'[v], exports'[v])
  BY <1>0, <1>1, ChannelRead, ChannelStays DEF VatOK, ReadFrom
<1>3. QuestionsOK(questionID'[v], questions'[v], calls'[v])
  <2>1. /\ questionID'[v] \in [i : Nat, free : Seq(Nat)]
        /\ questions'[v] \in [0 .. questionID'[v].i - 1 -> Nat]
    BY <1>1, QuestionTypes
  <2>2. \A id \in DOMAIN questions'[v] : questions'[v][id] # 0 =>
          questions'[v][id] \in DOMAIN calls'[v] /\ calls'[v][questions'[v][id]].id = id
    BY <1>0, <1>1 DEF VatOK, QuestionsOK, CallsKept, StillAsked
  <2>. QED
    BY <2>1, <2>2 DEF QuestionsOK
<1>. QED
  BY <1>0, <1>2, <1>3 DEF VatOK

LEMMA CallAdded ==
  ASSUME NEW C, NEW E, NEW I, CallsOK(C, E, I), NEW r \in CallRecord, Known(r.cap, E, I),
         r.id = NoId <=> r.route \in {"local", "error"}, NEW B, B = Append(C, r)
  PROVE  /\ CallsOK(B, E, I) /\ CallsKept(C, B)
         /\ Len(C) + 1 \in DOMAIN B /\ B[Len(C) + 1] = r
<1>1. C \in Seq(CallRecord) /\ B \in Seq(CallRecord)
  BY DEF CallsOK
<1>2. /\ DOMAIN B = DOMAIN C \cup {Len(C) + 1} /\ B[Len(C) + 1] = r
      /\ \A n \in DOMAIN C : B[n] = C[n]
  BY <1>1
<1>. QED
  BY <1>1, <1>2 DEF CallsOK, CallsKept

LEMMA CallReplaced ==
  ASSUME NEW C, NEW E, NEW I, CallsOK(C, E, I), NEW n \in DOMAIN C, NEW r \in CallRecord,
         Known(r.cap, E, I), r.id = C[n].id, r.route = C[n].route, NEW B, B = [C EXCEPT ![n] = r]
  PROVE  CallsOK(B, E, I) /\ CallsKept(C, B)
<1>1. C \in Seq(CallRecord) /\ B \in Seq(CallRecord)
  BY DEF CallsOK
<1>2. DOMAIN B = DOMAIN C /\ B[n] = r /\ \A k \in DOMAIN C : k # n => B[k] = C[k]
  OBVIOUS
<1>. QED
  BY <1>1, <1>2 DEF CallsOK, CallsKept

LEMMA CallsAlike ==
  ASSUME NEW C
  PROVE  CallsKept(C, C)
BY DEF CallsKept

\* The table of answers.
LEMMA EntryPut ==
  ASSUME NEW Q, NEW C, NEW E, NEW I, AnswersOK(Q, C, E, I), NEW id \in Nat, NEW a, EntryOK(a, C, E, I),
         NEW S, S = Put(Q, id, a)
  PROVE  AnswersOK(S, C, E, I)
<1>1. /\ DOMAIN S = DOMAIN Q \cup {id} /\ S[id] = a
      /\ \A t \in DOMAIN Q : t # id => S[t] = Q[t]
  BY DEF Put
<1>. QED
  BY <1>1 DEF AnswersOK

LEMMA EntrySet ==
  ASSUME NEW Q, NEW C, NEW E, NEW I, AnswersOK(Q, C, E, I), NEW id \in DOMAIN Q, NEW a,
         EntryOK(a, C, E, I), NEW S, S = [Q EXCEPT ![id] = a]
  PROVE  AnswersOK(S, C, E, I)
<1>1. /\ DOMAIN S = DOMAIN Q /\ S[id] = a
      /\ \A t \in DOMAIN Q : t # id => S[t] = Q[t]
  OBVIOUS
<1>. QED
  BY <1>1 DEF AnswersOK

LEMMA EntryRemoved ==
  ASSUME NEW Q, NEW C, NEW E, NEW I, AnswersOK(Q, C, E, I), NEW id, NEW S, S = Remove(Q, id)
  PROVE  AnswersOK(S, C, E, I)
BY DEF AnswersOK, Remove

\* Where no entry changes.
LEMMA EntriesAlike ==
  ASSUME Inv, NEW v \in Vat
  PROVE  EntriesStay(answers[v], answers[v]) /\ QueuedWas(answers[v], answers[v]) /\ Typed(answers[v])
<1>1. AnswersOK(answers[v], calls[v], exports[v], imports[v])
  BY OfVat DEF VatOK
<1>2. \A t \in DOMAIN answers[v] : answers[v][t] \in AnswerRecord
  BY <1>1 DEF AnswersOK, EntryOK
<1>3. \A t \in DOMAIN answers[v] : answers[v][t].ok \in BOOLEAN
  BY <1>2 DEF AnswerRecord
<1>. QED
  BY <1>2, <1>3 DEF EntriesStay, QueuedWas, Typed

\* An action that leaves the messages and the table of answers alone.
LEMMA QuietHolds ==
  ASSUME Inv, [Next]_vars, NEW v \in Vat, Steps(v),
         questionID' = questionID, questions' = questions, answers' = answers,
         rejecting' = rejecting, net' = net, working' = working,
         OnlyOf(v, calls, calls'), OnlyOf(v, exports, exports'), OnlyOf(v, imports, imports'),
         main' \in [Vat -> BOOLEAN],
         delivered' \in Seq([at : Vat, object : Object, from : Vat, n : Nat]),
         CallsKept(calls[v], calls'[v]), CallsOK(calls'[v], exports'[v], imports'[v]),
         DOMAIN exports[v] \subseteq DOMAIN exports'[v],
         DOMAIN imports[v] \subseteq DOMAIN imports'[v],
         ExportsOK(exports'[v], imports'[v]), ImportsOK(imports'[v])
  PROVE  Upholds(v)
<1>1. VatOK(v) /\ VatOK(Peer(v))
  BY PeerFacts, OfVat
<1>2. AnswersOK(answers'[v], calls'[v], exports'[v], imports'[v])
  BY <1>1, AnswersStay DEF VatOK
<1>3. VatOK(v)'
  <2>1. QueuesOK(answers'[v], rejecting'[v])
    BY <1>1 DEF VatOK
  <2>2. ReadFrom(net[v], net'[v]) /\ StillAsked(questions[v], questions'[v], calls'[v])
    BY NothingRead
  <2>4. Preserves(v)
    BY <1>2, <2>1, <2>2 DEF Preserves
  <2>. QED
    BY <2>4, VatKept
<1>4. Changes(v)
  <2>1. ChannelOK(net'[Peer(v)], exports[Peer(v)])
    BY <1>1 DEF VatOK
  <2>. QED
    BY <2>1, OfVat, Unchanged DEF Changes
<1>5. EntriesStay(answers[v], answers'[v]) /\ QueuedWas(answers[v], answers'[v])
  BY EntriesAlike
<1>. QED
  BY <1>3, <1>4, <1>5, KeepsInv

LEMMA InitMainHolds ==
  ASSUME Inv, [Next]_vars, NEW v \in Vat, InitMain(v)
  PROVE  Upholds(v)
<1>1. Steps(v)
  BY InitMainSteps
<1>2. /\ exports' = [exports EXCEPT ![v] = AddExport(v, Server(Main))]
      /\ main' = [main EXCEPT ![v] = TRUE]
      /\ UNCHANGED <<questionID, questions, calls, answers, imports, working, rejecting, net, delivered>>
  BY DEF InitMain
<1>3. /\ VatOK(v) /\ DOMAIN exports = Vat /\ DOMAIN calls = Vat /\ DOMAIN imports = Vat
      /\ main \in [Vat -> BOOLEAN] /\ delivered \in Seq([at : Vat, object : Object, from : Vat, n : Nat])
  BY OfVat
<1>4. /\ Server(Main) \in Client /\ Known(Server(Main), exports[v], imports[v])
      /\ Described(v, Server(Main)) = AddExport(v, Server(Main))
  BY DEF Server, Main, Client, Known, Object, Described
<1>5. /\ exports'[v] = AddExport(v, Server(Main)) /\ OnlyOf(v, exports, exports')
      /\ OnlyOf(v, calls, calls') /\ OnlyOf(v, imports, imports')
  BY <1>2, <1>3, Changed, Unchanged
<1>6. /\ DOMAIN exports[v] \subseteq DOMAIN exports'[v] /\ ExportsOK(exports'[v], imports'[v])
  BY <1>2, <1>4, <1>5, DescribedOK
<1>7. CallsOK(calls'[v], exports'[v], imports'[v]) /\ ImportsOK(imports'[v])
  BY <1>2, <1>3, <1>6, CallsStay DEF VatOK
<1>8. main' \in [Vat -> BOOLEAN]
  BY <1>2, <1>3
<1>. QED
  BY <1>1, <1>2, <1>3, <1>5, <1>6, <1>7, <1>8, CallsAlike, QuietHolds

LEMMA ObjectKnown ==
  ASSUME Inv, NEW v \in Vat, NEW c, Known(c, exports[v], imports[v])
  PROVE  ObjectOf(v, c) \in Object \cup {NoId}
<1>1. \A id \in DOMAIN exports[v] : exports[v][id].object \in Object \cup {NoId}
  BY OfVat DEF VatOK, ExportsOK, Export
<1>2. CASE c.k = "server"
  BY <1>2 DEF ObjectOf, Known
<1>3. CASE c.k = "ownRef"
  BY <1>1, <1>3 DEF ObjectOf, Known
<1>4. CASE c.k \notin {"server", "ownRef"}
  BY <1>4 DEF ObjectOf
<1>. QED
  BY <1>2, <1>3, <1>4

LEMMA NullKnown ==
  ASSUME NEW E, NEW I
  PROVE  NullClient \in Client /\ Known(NullClient, E, I)
BY DEF NullClient, Client, Known

LEMMA CallHereHolds ==
  ASSUME Inv, [Next]_vars, NEW v \in Vat, NEW on \in Origin, NEW c,
         Known(c, exports[v], imports[v]), CallHere(v, on, c)
  PROVE  Upholds(v)
<1>1. Steps(v)
  BY CallHereSteps
<1> DEFINE here(route, state) == [id |-> NoId, on |-> on, route |-> route,
                                  state |-> state, cap |-> NullClient]
<1>2. PICK r : /\ r = IF ObjectOf(v, c) = NoId THEN here("error", "exception") ELSE here("local", "waiting")
               /\ calls' = [calls EXCEPT ![v] = Append(@, r)]
  BY DEF CallHere
<1>3. UNCHANGED <<questionID, questions, answers, exports, imports, main, working, rejecting, net>>
  BY DEF CallHere, tables
<1>4. r \in CallRecord /\ r.cap = NullClient /\ r.id = NoId /\ r.route \in {"local", "error"}
  BY <1>2, NullKnown DEF CallRecord
<1>5. /\ VatOK(v) /\ DOMAIN exports = Vat /\ DOMAIN calls = Vat /\ DOMAIN imports = Vat
      /\ main \in [Vat -> BOOLEAN] /\ delivered \in Seq([at : Vat, object : Object, from : Vat, n : Nat])
  BY OfVat
<1>6. /\ calls'[v] = Append(calls[v], r) /\ OnlyOf(v, calls, calls')
      /\ OnlyOf(v, exports, exports') /\ OnlyOf(v, imports, imports')
      /\ exports'[v] = exports[v] /\ imports'[v] = imports[v]
  BY <1>2, <1>3, <1>5, Changed, Unchanged
<1>7. CallsOK(calls'[v], exports'[v], imports'[v]) /\ CallsKept(calls[v], calls'[v])
  <2>1. CallsOK(calls[v], exports[v], imports[v]) /\ Known(r.cap, exports[v], imports[v])
    BY <1>4, <1>5, NullKnown DEF VatOK
  <2>2. PICK C, B, E, I : C = calls[v] /\ B = calls'[v] /\ E = exports[v] /\ I = imports[v]
    OBVIOUS
  <2>a. CallsOK(C, E, I)
    BY <2>1, <2>2
  <2>b. Known(r.cap, E, I)
    BY <2>1, <2>2
  <2>c. B = Append(C, r)
    BY <1>6, <2>2
  <2>d. r.id = NoId <=> r.route \in {"local", "error"}
    BY <1>4
  <2>3. CallsOK(B, E, I) /\ CallsKept(C, B)
    BY <1>4, <2>a, <2>b, <2>c, <2>d, CallAdded
  <2>. QED
    BY <1>6, <2>2, <2>3
<1>8. delivered' \in Seq([at : Vat, object : Object, from : Vat, n : Nat])
  <2>1. CASE ObjectOf(v, c) = NoId
    BY <1>5, <2>1 DEF CallHere
  <2>2. CASE ObjectOf(v, c) # NoId
    <3>1. ObjectOf(v, c) \in Object /\ Len(calls[v]) + 1 \in Nat
      BY <2>2, ObjectKnown, CallTypes
    <3>2. PICK d : /\ d = [at |-> v, object |-> ObjectOf(v, c), from |-> v, n |-> Len(calls[v]) + 1]
                   /\ delivered' = Append(delivered, d)
      BY <2>2 DEF CallHere
    <3>. QED
      BY <1>5, <3>1, <3>2
  <2>. QED
    BY <2>1, <2>2
<1>9. ExportsOK(exports'[v], imports'[v]) /\ ImportsOK(imports'[v]) /\ main' \in [Vat -> BOOLEAN]
  BY <1>3, <1>5, <1>6 DEF VatOK
<1>. QED
  BY <1>1, <1>3, <1>6, <1>7, <1>8, <1>9, QuietHolds

LEMMA LocalFinishHolds ==
  ASSUME Inv, [Next]_vars, NEW v \in Vat, NEW n \in DOMAIN calls[v], NEW ok \in BOOLEAN, LocalFinish(v, n, ok)
  PROVE  Upholds(v)
<1>1. Steps(v)
  BY LocalFinishSteps
<1>2. PICK s \in {"results", "exception"} : calls' = [calls EXCEPT ![v][n].state = s]
  BY DEF LocalFinish
<1>3. UNCHANGED <<questionID, questions, answers, exports, imports, main, working, rejecting, net, delivered>>
  BY DEF LocalFinish, tables
<1>4. /\ VatOK(v) /\ DOMAIN exports = Vat /\ DOMAIN calls = Vat /\ DOMAIN imports = Vat
      /\ main \in [Vat -> BOOLEAN] /\ delivered \in Seq([at : Vat, object : Object, from : Vat, n : Nat])
      /\ calls[v][n] \in CallRecord
  BY OfVat, CallTypes
<1>5. PICK r : r = [calls[v][n] EXCEPT !.state = s]
  OBVIOUS
<1>6. calls' = [calls EXCEPT ![v] = [calls[v] EXCEPT ![n] = r]]
  BY <1>2, <1>5
<1>7. /\ r \in CallRecord /\ r.cap = calls[v][n].cap /\ r.id = calls[v][n].id
      /\ r.route = calls[v][n].route
  BY <1>4, <1>5 DEF CallRecord
<1>8. /\ calls'[v] = [calls[v] EXCEPT ![n] = r] /\ OnlyOf(v, calls, calls')
      /\ OnlyOf(v, exports, exports') /\ OnlyOf(v, imports, imports')
      /\ exports'[v] = exports[v] /\ imports'[v] = imports[v]
  BY <1>3, <1>4, <1>6, Changed, Unchanged
<1>9. CallsOK(calls'[v], exports'[v], imports'[v]) /\ CallsKept(calls[v], calls'[v])
  <2>1. CallsOK(calls[v], exports[v], imports[v]) /\ Known(r.cap, exports[v], imports[v])
    BY <1>4, <1>7 DEF VatOK, CallsOK
  <2>2. PICK C, B, E, I : C = calls[v] /\ B = calls'[v] /\ E = exports[v] /\ I = imports[v]
    OBVIOUS
  <2>3. CallsOK(B, E, I) /\ CallsKept(C, B)
    BY <1>7, <1>8, <2>1, <2>2, CallReplaced
  <2>. QED
    BY <1>8, <2>2, <2>3
<1>10. ExportsOK(exports'[v], imports'[v]) /\ ImportsOK(imports'[v]) /\ main' \in [Vat -> BOOLEAN]
       /\ delivered' \in Seq([at : Vat, object : Object, from : Vat, n : Nat])
  BY <1>3, <1>4, <1>8 DEF VatOK
<1>. QED
  BY <1>1, <1>3, <1>8, <1>9, <1>10, QuietHolds

LEMMA DropHolds ==
  ASSUME Inv, [Next]_vars, NEW v \in Vat, NEW n \in DOMAIN calls[v], Drop(v, n)
  PROVE  Upholds(v)
<1>1. Steps(v)
  BY DropSteps
<1>2. PICK id : id = calls[v][n].cap.id
  OBVIOUS
<1>3. /\ calls' = [calls EXCEPT ![v][n].state = "dropped", ![v][n].cap = NullClient]
      /\ imports' = [imports EXCEPT ![v][id].live = @ - 1]
      /\ UNCHANGED <<questionID, questions, answers, exports, main, working, rejecting, net, delivered>>
  BY <1>2 DEF Drop
<1>4. /\ VatOK(v) /\ DOMAIN exports = Vat /\ DOMAIN calls = Vat /\ DOMAIN imports = Vat
      /\ main \in [Vat -> BOOLEAN] /\ delivered \in Seq([at : Vat, object : Object, from : Vat, n : Nat])
      /\ calls[v][n] \in CallRecord
  BY OfVat, CallTypes
<1>5. PICK r : r = [[calls[v][n] EXCEPT !.state = "dropped"] EXCEPT !.cap = NullClient]
  OBVIOUS
<1>6. calls' = [calls EXCEPT ![v] = [calls[v] EXCEPT ![n] = r]]
  BY <1>3, <1>4, <1>5
<1>7. /\ r \in CallRecord /\ r.cap = NullClient /\ r.id = calls[v][n].id
      /\ r.route = calls[v][n].route
  BY <1>4, <1>5, NullKnown DEF CallRecord
<1>8. PICK x : imports' = [imports EXCEPT ![v] = [imports[v] EXCEPT ![id] = x]]
  BY <1>3
<1>9. /\ calls'[v] = [calls[v] EXCEPT ![n] = r] /\ OnlyOf(v, calls, calls')
      /\ OnlyOf(v, exports, exports') /\ OnlyOf(v, imports, imports')
      /\ exports'[v] = exports[v] /\ imports'[v] = [imports[v] EXCEPT ![id] = x]
  BY <1>3, <1>4, <1>6, <1>8, Changed, Unchanged
<1>10. DOMAIN imports'[v] = DOMAIN imports[v]
  BY <1>9
<1>11. ImportsOK(imports'[v])
  <2>1. CountsInv'
    BY NextKeeps DEF Inv
  <2>2. ImportTable(imports'[v])
    BY <2>1 DEF CountsInv
  <2>. QED
    BY <1>4, <1>10, <2>2 DEF ImportTable, ImportsOK, VatOK
<1>12. CallsOK(calls'[v], exports'[v], imports'[v]) /\ CallsKept(calls[v], calls'[v])
  <2>1. PICK C, B, E, I : C = calls[v] /\ B = calls'[v] /\ E = exports[v] /\ I = imports[v]
    OBVIOUS
  <2>2. CallsOK(C, E, I)
    BY <1>4, <2>1 DEF VatOK
  <2>3. Known(r.cap, E, I)
    BY <1>7, NullKnown
  <2>4. CallsOK(B, E, I) /\ CallsKept(C, B)
    BY <1>7, <1>9, <2>1, <2>2, <2>3, CallReplaced
  <2>. QED
    BY <1>9, <1>10, <2>1, <2>4, CallsStay
<1>13. ExportsOK(exports'[v], imports'[v])
  BY <1>4, <1>9, <1>10, ExportsStay DEF VatOK
<1>14. main' \in [Vat -> BOOLEAN] /\ delivered' \in Seq([at : Vat, object : Object, from : Vat, n : Nat])
  BY <1>3, <1>4
<1>. QED
  BY <1>1, <1>3, <1>9, <1>10, <1>11, <1>12, <1>13, <1>14, QuietHolds

-----------------------------------------------------------------------------
(* Questions. *)

Routes == {"bootstrap", "promised", "imported", "forward"}
LEMMA NewQuestionOK ==
  ASSUME Inv, NEW v \in Vat, NEW on \in Origin, NEW route \in Routes, NewQuestion(v, on, route)
  PROVE  /\ OnlyOf(v, questionID, questionID') /\ OnlyOf(v, questions, questions')
         /\ OnlyOf(v, calls, calls')
         /\ CallsOK(calls'[v], exports[v], imports[v]) /\ CallsKept(calls[v], calls'[v])
         /\ StillAsked(questions[v], questions'[v], calls'[v])
         /\ Len(calls[v]) + 1 \in DOMAIN calls'[v] /\ calls'[v][Len(calls[v]) + 1].route = route
         /\ IdNext(questionID[v]) \in Nat /\ Len(calls[v]) + 1 \in Nat
<1>1. PICK id : id = IdNext(questionID[v])
  OBVIOUS
<1>2. id \in Nat
  <2>1. questionID[v].i \in Nat /\ questionID[v].free \in Seq(Nat)
    BY OfVat DEF VatOK, QuestionsOK
  <2>2. \A s \in Seq(Nat) : s # <<>> => s[Len(s)] \in Nat
    OBVIOUS
  <2>. QED
    BY <1>1, <2>1, <2>2 DEF IdNext
<1>3. PICK r : r = [id |-> id, on |-> on, route |-> route, state |-> "waiting", cap |-> NullClient]
  OBVIOUS
<1>4. r \in CallRecord /\ r.cap = NullClient /\ r.id = id /\ r.route = route /\ r.id # NoId
      /\ r.route \notin {"local", "error"}
  BY <1>2, <1>3, NullKnown DEF CallRecord, Routes, NoId
<1>5. /\ VatOK(v) /\ DOMAIN questions = Vat /\ DOMAIN calls = Vat /\ DOMAIN questionID = Vat
  BY OfVat
<1>6. PICK q : q = Put(questions[v], id, Len(calls[v]) + 1)
  OBVIOUS
<1>7. /\ OnlyOf(v, questionID, questionID')
      /\ OnlyOf(v, questions, questions') /\ questions'[v] = q
      /\ OnlyOf(v, calls, calls') /\ calls'[v] = Append(calls[v], r)
  <2>1. questions' = [questions EXCEPT ![v] = q] /\ calls' = [calls EXCEPT ![v] = Append(calls[v], r)]
        /\ questionID' = [questionID EXCEPT ![v] = IdTake(questionID[v])]
    BY <1>1, <1>3, <1>6 DEF NewQuestion
  <2>. QED
    BY <1>5, <2>1, Changed
<1>8. /\ CallsOK(calls'[v], exports[v], imports[v]) /\ CallsKept(calls[v], calls'[v])
      /\ Len(calls[v]) + 1 \in DOMAIN calls'[v] /\ calls'[v][Len(calls[v]) + 1] = r
  <2>1. PICK C, B, E, I : C = calls[v] /\ B = calls'[v] /\ E = exports[v] /\ I = imports[v]
    OBVIOUS
  <2>a. CallsOK(C, E, I)
    BY <1>5, <2>1 DEF VatOK
  <2>b. Known(r.cap, E, I)
    BY <1>4, NullKnown
  <2>c. B = Append(C, r)
    BY <1>7, <2>1
  <2>d. r.id = NoId <=> r.route \in {"local", "error"}
    BY <1>4
  <2>e. r \in CallRecord
    BY <1>4
  <2>3. CallsOK(B, E, I) /\ CallsKept(C, B)
    BY <2>a, <2>b, <2>c, <2>d, <2>e, CallAdded
  <2>4. C \in Seq(CallRecord)
    BY <2>a DEF CallsOK
  <2>5. Len(C) + 1 \in DOMAIN B /\ B[Len(C) + 1] = r
    BY <2>4, <2>c, <2>e
  <2>. QED
    BY <2>1, <2>3, <2>5
<1>9. StillAsked(questions[v], questions'[v], calls'[v])
  BY <1>4, <1>6, <1>7, <1>8 DEF StillAsked, Put
<1>. QED
  BY <1>1, <1>2, <1>4, <1>7, <1>8, <1>9, CallTypes

\* A question of v goes out with message m.
LEMMA AskingHolds ==
  ASSUME Inv, [Next]_vars, NEW v \in Vat, NEW on \in Origin, NEW route \in Routes,
         NewQuestion(v, on, route), NEW m, Fits(m, exports[Peer(v)]), m.k \in {"bootstrap", "call"},
         m.id = IdNext(questionID[v]), m.n = Len(calls[v]) + 1,
         Send(v, <<m>>), OnlyOf(v, exports, exports'), DOMAIN exports[v] \subseteq DOMAIN exports'[v],
         ExportsOK(exports'[v], imports[v]),
         UNCHANGED <<answers, imports, main, working, rejecting, delivered>>
  PROVE  Upholds(v)
<1>1. m \in Message
  BY DEF Fits
<1>2. Steps(v) /\ net'[v] = net[v] /\ net'[Peer(v)] = net[Peer(v)] \o <<m>>
  <2>1. Send(v, <<m>>) /\ answers' = answers /\ working' = working
    OBVIOUS
  <2>2. net'[v] = net[v] /\ net'[Peer(v)] = net[Peer(v)] \o <<m>>
    BY <1>1, <2>1, WhenSent
  <2>. QED
    BY <1>1, <2>1, <2>2, AskingSteps
<1>3. /\ OnlyOf(v, questionID, questionID') /\ OnlyOf(v, questions, questions')
      /\ OnlyOf(v, calls, calls')
      /\ CallsOK(calls'[v], exports[v], imports[v]) /\ CallsKept(calls[v], calls'[v])
      /\ StillAsked(questions[v], questions'[v], calls'[v])
  BY NewQuestionOK
<1>4. VatOK(v) /\ VatOK(Peer(v)) /\ imports'[v] = imports[v] /\ answers'[v] = answers[v]
      /\ rejecting'[v] = rejecting[v]
  BY PeerFacts, OfVat
<1>5. /\ CallsOK(calls'[v], exports'[v], imports'[v])
      /\ AnswersOK(answers'[v], calls'[v], exports'[v], imports'[v])
      /\ ExportsOK(exports'[v], imports'[v]) /\ ImportsOK(imports'[v])
      /\ QueuesOK(answers'[v], rejecting'[v])
  BY <1>3, <1>4, CallsStay, AnswersStay DEF VatOK
<1>6. Preserves(v)
  BY <1>2, <1>3, <1>5, NothingRead DEF Preserves
<1>7. Changes(v)
  <2>1. ChannelOK(net'[Peer(v)], exports[Peer(v)])
    BY <1>2, <1>4, ChannelWritten DEF VatOK
  <2>2. DOMAIN net' = Vat
    BY NetSent DEF Inv
  <2>. QED
    BY <1>3, <2>1, <2>2, OfVat, Unchanged DEF Changes
<1>8. EntriesStay(answers[v], answers'[v]) /\ QueuedWas(answers[v], answers'[v])
  BY EntriesAlike
<1>. QED
  BY <1>2, <1>6, <1>7, <1>8, VatKept, KeepsInv

LEMMA BootstrapHolds ==
  ASSUME Inv, [Next]_vars, NEW v \in Vat, Bootstrap(v)
  PROVE  Upholds(v)
<1>1. PICK m : m = [k |-> "bootstrap", id |-> IdNext(questionID[v]), n |-> Len(calls[v]) + 1]
  OBVIOUS
<1>2. /\ NewQuestion(v, NoOrigin, "bootstrap") /\ Send(v, <<m>>)
      /\ exports' = exports /\ UNCHANGED <<answers, imports, main, working, rejecting, delivered>>
  BY <1>1 DEF Bootstrap
<1>3. NoOrigin \in Origin /\ "bootstrap" \in Routes
  BY DEF NoOrigin, Origin, Routes
<1>4. IdNext(questionID[v]) \in Nat /\ Len(calls[v]) + 1 \in Nat
  BY <1>2, <1>3, NewQuestionOK
<1>5. Fits(m, exports[Peer(v)]) /\ m.k = "bootstrap"
      /\ m.id = IdNext(questionID[v]) /\ m.n = Len(calls[v]) + 1
  BY <1>1, <1>4 DEF Fits, Message
<1>6. OnlyOf(v, exports, exports') /\ DOMAIN exports[v] \subseteq DOMAIN exports'[v]
      /\ ExportsOK(exports'[v], imports[v])
  BY <1>2, OfVat, Unchanged DEF VatOK
<1>. QED
  BY <1>2, <1>3, <1>5, <1>6, AskingHolds

LEMMA CallMessageFits ==
  ASSUME NEW v \in Vat, NEW target \in Target, NEW method \in Method, NEW arg,
         NEW d \in Descriptor, d = DescriptorFor(v, arg),
         d.k = "receiverHosted" => d.id \in DOMAIN exports[Peer(v)],
         IdNext(questionID[v]) \in Nat, Len(calls[v]) + 1 \in Nat,
         NEW m, m = CallMessage(v, target, method, arg)
  PROVE  /\ Fits(m, exports[Peer(v)]) /\ m.k = "call"
         /\ m.id = IdNext(questionID[v]) /\ m.n = Len(calls[v]) + 1
<1>1. m = [k |-> "call", id |-> IdNext(questionID[v]), n |-> Len(calls[v]) + 1,
           target |-> target, cap |-> d, method |-> method]
  BY DEF CallMessage
<1>2. /\ m.k = "call" /\ m.id = IdNext(questionID[v]) /\ m.n = Len(calls[v]) + 1 /\ m.cap = d
  BY <1>1
<1>3. m \in Message
  BY <1>1 DEF Message
<1>. QED
  BY <1>2, <1>3 DEF Fits

LEMMA AskHolds ==
  ASSUME Inv, [Next]_vars, NEW v \in Vat, NEW on \in Origin, NEW route \in Routes,
         NEW target \in Target, NEW method \in Method, NEW arg \in Client,
         Known(arg, exports[v], imports[v]), Ask(v, on, route, target, method, arg)
  PROVE  Upholds(v)
<1>1. PICK m : m = CallMessage(v, target, method, arg)
  OBVIOUS
<1>2. /\ NewQuestion(v, on, route) /\ Send(v, <<m>>)
      /\ exports' = [exports EXCEPT ![v] = Described(v, arg)]
      /\ UNCHANGED <<answers, imports, main, working, rejecting, delivered>>
  BY <1>1 DEF Ask
<1>3. IdNext(questionID[v]) \in Nat /\ Len(calls[v]) + 1 \in Nat
  BY <1>2, NewQuestionOK
<1>4. /\ Fits(m, exports[Peer(v)]) /\ m.k = "call"
      /\ m.id = IdNext(questionID[v]) /\ m.n = Len(calls[v]) + 1
  <2>1. PICK d : d = DescriptorFor(v, arg)
    OBVIOUS
  <2>2. d \in Descriptor /\ (d.k = "receiverHosted" => d.id \in DOMAIN exports[Peer(v)])
    BY <2>1, DescribedOK
  <2>. QED
    BY <1>1, <1>3, <2>1, <2>2, CallMessageFits
<1>5. OnlyOf(v, exports, exports') /\ exports'[v] = Described(v, arg)
  BY <1>2, OfVat, Changed
<1>6. DOMAIN exports[v] \subseteq DOMAIN exports'[v] /\ ExportsOK(exports'[v], imports[v])
  BY <1>5, DescribedOK
<1>. QED
  BY <1>2, <1>4, <1>5, <1>6, AskingHolds

\* What an application holds, and passes, is known.
LEMMA HeldKnown ==
  ASSUME Inv, NEW v \in Vat, NEW n \in DOMAIN calls[v]
  PROVE  calls[v][n].cap \in Client /\ Known(calls[v][n].cap, exports[v], imports[v])
<1>1. CallsOK(calls[v], exports[v], imports[v])
  BY OfVat DEF VatOK
<1>. QED
  BY <1>1, CallTypes DEF CallsOK, CallRecord

LEMMA EntryKnown ==
  ASSUME Inv, NEW v \in Vat, NEW id \in DOMAIN answers[v]
  PROVE  /\ id \in Nat /\ answers[v][id] \in AnswerRecord
         /\ EntryOK(answers[v][id], calls[v], exports[v], imports[v])
         /\ answers[v][id].param \in Client /\ Known(answers[v][id].param, exports[v], imports[v])
         /\ answers[v][id].cap \in Client /\ Known(answers[v][id].cap, exports[v], imports[v])
         /\ answers[v][id].n \in Nat
<1>1. AnswersOK(answers[v], calls[v], exports[v], imports[v])
  BY OfVat DEF VatOK
<1>. QED
  BY <1>1 DEF AnswersOK, EntryOK, AnswerRecord

LEMMA ArgsKnown ==
  ASSUME Inv, NEW v \in Vat, NEW arg \in Args(v)
  PROVE  arg \in Client /\ Known(arg, exports[v], imports[v])
<1>1. \/ arg = NullClient
      \/ arg = Server(1)
      \/ \E n \in DOMAIN calls[v] : arg = calls[v][n].cap
  BY DEF Args, HeldByApp
<1>2. Server(1) \in Client /\ Known(Server(1), exports[v], imports[v])
  BY DEF Server, Client, Known, Object
<1>. QED
  BY <1>1, <1>2, NullKnown, HeldKnown

LEMMA CallOnHolds ==
  ASSUME Inv, [Next]_vars, NEW v \in Vat, NEW on \in Origin, NEW c \in Client,
         Known(c, exports[v], imports[v]), NEW method \in Method, NEW arg \in Args(v),
         CallOn(v, on, c, method, arg)
  PROVE  Upholds(v)
<1>1. CASE c.k = "import"
  <2>1. PICK target : target = [k |-> "importedCap", id |-> c.id]
    OBVIOUS
  <2>2. target \in Target /\ "imported" \in Routes
    BY <2>1 DEF Target, Client, Routes
  <2>3. Ask(v, on, "imported", target, method, arg)
    BY <1>1, <2>1 DEF CallOn
  <2>. QED
    BY <2>2, <2>3, ArgsKnown, AskHolds
<1>2. CASE c.k # "import"
  BY <1>2, CallHereHolds DEF CallOn
<1>. QED
  BY <1>1, <1>2

LEMMA AppCallHolds ==
  ASSUME Inv, [Next]_vars, NEW v \in Vat, AppCall(v)
  PROVE  Upholds(v)
<1>1. CASE Bootstrap(v)
  BY <1>1, BootstrapHolds
<1>2. ASSUME NEW method \in Method, NEW arg \in Args(v), NEW m \in DOMAIN calls[v],
             PipelineCall(v, m, method, arg)
      PROVE  Upholds(v)
  <2>1. PICK on : on = [k |-> "call", n |-> m]
    OBVIOUS
  <2>2. on \in Origin /\ m \in Nat
    BY <2>1, CallTypes DEF Origin
  <2>3. calls[v][m] \in CallRecord /\ calls[v][m].id \in Nat \cup {NoId} /\ calls[v][m].id # NoId
    BY <1>2, CallTypes DEF CallRecord, PipelineCall
  <2>4. CASE FindQuestion(v, calls[v][m].id) = m
    <3>1. PICK target : target = [k |-> "promisedAnswer", id |-> calls[v][m].id]
      OBVIOUS
    <3>2. target \in Target /\ "promised" \in Routes
      BY <2>3, <3>1 DEF Target, Routes
    <3>3. Ask(v, on, "promised", target, method, arg)
      BY <1>2, <2>1, <2>4, <3>1 DEF PipelineCall
    <3>. QED
      BY <2>2, <3>2, <3>3, ArgsKnown, AskHolds
  <2>5. CASE FindQuestion(v, calls[v][m].id) # m
    <3>1. PICK c : /\ c = IF calls[v][m].state = "exception" THEN ErrorClient(0) ELSE calls[v][m].cap
                   /\ CallOn(v, on, c, method, arg)
      BY <1>2, <2>1, <2>5 DEF PipelineCall
    <3>2. ErrorClient(0) \in Client /\ Known(ErrorClient(0), exports[v], imports[v])
      BY DEF ErrorClient, Client, Known
    <3>3. c \in Client /\ Known(c, exports[v], imports[v])
      BY <3>1, <3>2, HeldKnown
    <3>. QED
      BY <2>2, <3>1, <3>3, CallOnHolds
  <2>. QED
    BY <2>4, <2>5
<1>3. ASSUME NEW method \in Method, NEW arg \in Args(v), NEW id \in DOMAIN answers[v],
             CallParam(v, id, method, arg)
      PROVE  Upholds(v)
  <2>1. PICK on : on = [k |-> "param", n |-> answers[v][id].n]
    OBVIOUS
  <2>2. on \in Origin
    BY <2>1, EntryKnown DEF Origin
  <2>3. CallOn(v, on, answers[v][id].param, method, arg)
    BY <1>3, <2>1 DEF CallParam
  <2>. QED
    BY <2>2, <2>3, EntryKnown, CallOnHolds
<1>. QED
  BY <1>1, <1>2, <1>3 DEF AppCall

-----------------------------------------------------------------------------
(* Answers that are settled. *)

LEMMA AnsweringHolds ==
  ASSUME Inv, [Next]_vars, NEW v \in Vat, NEW id \in DOMAIN answers[v],
         ~answers[v][id].done, answers[v][id].callee.k # "none",
         NEW b, answers' = [answers EXCEPT ![v][id] = b], EntryOK(b, calls[v], exports[v], imports[v]),
         b.n = answers[v][id].n, b.done, b.callee = answers[v][id].callee, b.queue = <<>>,
         NEW R0, Popped(answers[v], rejecting[v], id, R0),
         NEW R2, Moved(answers[v], id, b, R0, R2),
         rejecting' = [rejecting EXCEPT ![v] = R2],
         NEW m, Fits(m, exports[Peer(v)]), m.k = "return", m.id = id, m.ok = b.ok, Send(v, <<m>>),
         OnlyOf(v, exports, exports'), DOMAIN exports[v] \subseteq DOMAIN exports'[v],
         ExportsOK(exports'[v], imports[v]),
         UNCHANGED <<questionID, questions, calls, imports, main, working, delivered>>
  PROVE  Upholds(v)
<1>1. m \in Message /\ b.ok \in BOOLEAN
  BY DEF Fits, EntryOK, AnswerRecord
<1>2. net'[v] = net[v] /\ net'[Peer(v)] = net[Peer(v)] \o <<m>>
  BY <1>1, WhenSent
<1>u. /\ questionID' = questionID /\ questions' = questions /\ calls' = calls /\ working' = working
      /\ imports' = imports
  OBVIOUS
<1>3. Steps(v)
  BY <1>1, <1>u, AnsweringSteps
<1>4. /\ VatOK(v) /\ VatOK(Peer(v)) /\ DOMAIN answers = Vat /\ DOMAIN rejecting = Vat
  BY PeerFacts, OfVat
<1>5. /\ OnlyOf(v, answers, answers') /\ answers'[v] = [answers[v] EXCEPT ![id] = b]
      /\ OnlyOf(v, rejecting, rejecting') /\ rejecting'[v] = R2
  <2>1. answers' = [answers EXCEPT ![v] = [answers[v] EXCEPT ![id] = b]]
    OBVIOUS
  <2>. QED
    BY <1>4, <2>1, Changed
<1>6. QueuesOK(answers'[v], rejecting'[v])
  <2>1. PICK Q, R, S : Q = answers[v] /\ R = rejecting[v] /\ S = answers'[v]
    OBVIOUS
  <2>a. QueuesOK(Q, R) /\ Typed(Q)
    BY <1>4, <2>1, EntriesAlike DEF VatOK
  <2>b. id \in DOMAIN Q /\ ~Q[id].done
    BY <2>1
  <2>c. b.n = Q[id].n /\ b.callee = Q[id].callee
    BY <2>1
  <2>d. Popped(Q, R, id, R0)
    BY <2>1
  <2>e. Moved(Q, id, b, R0, R2)
    BY <2>1
  <2>f. S = [Q EXCEPT ![id] = b]
    BY <1>5, <2>1
  <2>g. 0 <= CallQueueSize
    BY BoundsAssumption
  <2>2. QueuesOK(S, R2)
    BY <2>a, <2>b, <2>c, <2>d, <2>e, <2>f, <2>g, QueuesSettled
  <2>. QED
    BY <1>5, <2>1, <2>2
<1>7. AnswersOK(answers'[v], calls'[v], exports'[v], imports'[v])
  <2>1. PICK Q, C, E, I, S : /\ Q = answers[v] /\ C = calls[v] /\ E = exports[v] /\ I = imports[v]
                             /\ S = answers'[v]
    OBVIOUS
  <2>a. AnswersOK(Q, C, E, I) /\ EntryOK(b, C, E, I)
    BY <1>4, <2>1 DEF VatOK
  <2>b. id \in DOMAIN Q
    BY <2>1
  <2>c. S = [Q EXCEPT ![id] = b]
    BY <1>5, <2>1
  <2>2. AnswersOK(S, C, E, I)
    BY <2>a, <2>b, <2>c, EntrySet
  <2>3. PICK E2 : E2 = exports'[v]
    OBVIOUS
  <2>4. AnswersOK(S, C, E2, I)
    BY <2>1, <2>2, <2>3, AnswersStay, CallsAlike
  <2>. QED
    BY <1>u, <2>1, <2>3, <2>4
<1>8. CallsOK(calls'[v], exports'[v], imports'[v])
  BY <1>4, <1>u, CallsStay DEF VatOK
<1>9. Preserves(v)
  <2>1. ReadFrom(net[v], net'[v]) /\ StillAsked(questions[v], questions'[v], calls'[v])
        /\ CallsKept(calls[v], calls'[v])
    BY <1>2, <1>u, NothingRead, CallsAlike
  <2>2. ExportsOK(exports'[v], imports'[v]) /\ ImportsOK(imports'[v])
    BY <1>4, <1>u DEF VatOK
  <2>. QED
    BY <1>6, <1>7, <1>8, <2>1, <2>2 DEF Preserves
<1>10. Changes(v)
  <2>1. ChannelOK(net'[Peer(v)], exports[Peer(v)])
    BY <1>2, <1>4, ChannelWritten DEF VatOK
  <2>2. DOMAIN net' = Vat
    BY NetSent DEF Inv
  <2>. QED
    BY <1>5, <2>1, <2>2, OfVat, Unchanged DEF Changes
<1>11. EntriesStay(answers[v], answers'[v]) /\ QueuedWas(answers[v], answers'[v])
  <2>1. EntriesStay(answers[v], answers[v]) /\ QueuedWas(answers[v], answers[v])
    BY EntriesAlike
  <2>2. /\ DOMAIN answers'[v] = DOMAIN answers[v] /\ answers'[v][id] = b
        /\ \A t \in DOMAIN answers[v] : t # id => answers'[v][t] = answers[v][t]
    BY <1>5
  <2>3. EntriesStay(answers[v], answers'[v])
    BY <1>1, <2>1, <2>2 DEF EntriesStay
  <2>4. QueuedWas(answers[v], answers'[v])
    BY <2>2 DEF QueuedWas
  <2>. QED
    BY <2>3, <2>4
<1>. QED
  BY <1>3, <1>9, <1>10, <1>11, VatKept, KeepsInv

\* A result goes out: fulfill().
LEMMA FulfillHolds ==
  ASSUME Inv, [Next]_vars, NEW v \in Vat, NEW id \in DOMAIN answers[v],
         ~answers[v][id].done, answers[v][id].callee.k \in {"server", "question"},
         rejecting[v] = <<>>, NEW c \in Client, Known(c, exports[v], imports[v]),
         Fulfill(v, id, c),
         UNCHANGED <<questionID, questions, calls, imports, main, working, delivered>>
  PROVE  Upholds(v)
<1>1. PICK a, b, d, m, R2 :
        /\ a = answers[v][id] /\ b = Fulfilled(a, c) /\ d = DescriptorFor(v, c)
        /\ m = ReturnMessage(id, a.n, TRUE, d)
        /\ R2 = IF c.k = "null" THEN a.queue ELSE <<>>
  OBVIOUS
<1>2. /\ answers' = [answers EXCEPT ![v][id] = b]
      /\ rejecting' = [rejecting EXCEPT ![v] = R2]
      /\ exports' = [exports EXCEPT ![v] = Described(v, c)]
      /\ Send(v, <<m>>)
  BY <1>1 DEF Fulfill
<1>3. a \in AnswerRecord /\ EntryOK(a, calls[v], exports[v], imports[v]) /\ id \in Nat /\ a.n \in Nat
      /\ a.queue \in Seq(Nat)
  BY <1>1, EntryKnown DEF AnswerRecord
<1>4. /\ b.n = a.n /\ b.done = TRUE /\ b.ok = TRUE /\ b.cap = c /\ b.queue = <<>> /\ b.callee = a.callee
      /\ b.param = a.param /\ b.stuck = (IF c.k = "null" THEN <<>> ELSE a.queue)
      /\ b = [n |-> b.n, done |-> b.done, ok |-> b.ok, cap |-> b.cap, queue |-> b.queue,
              stuck |-> b.stuck, callee |-> b.callee, param |-> b.param]
  BY <1>1, <1>3 DEF Fulfilled, AnswerRecord
<1>5. EntryOK(b, calls[v], exports[v], imports[v])
  <2>1. b.stuck \in Seq(Nat) /\ b.queue \in Seq(Nat)
    BY <1>3, <1>4
  <2>2. b \in AnswerRecord
    BY <1>3, <1>4, <2>1 DEF AnswerRecord
  <2>. QED
    BY <1>3, <1>4, <2>2 DEF EntryOK
<1>6. /\ d \in Descriptor
      /\ d.k = "receiverHosted" => d.id \in DOMAIN exports[Peer(v)]
      /\ DOMAIN exports[v] \subseteq DOMAIN Described(v, c)
      /\ ExportsOK(Described(v, c), imports[v])
  BY <1>1, DescribedOK
<1>7. /\ m.k = "return" /\ m.id = id /\ m.ok = b.ok
      /\ Fits(m, exports[Peer(v)])
  <2>1. m = [k |-> "return", id |-> id, n |-> a.n, ok |-> TRUE, cap |-> d]
    BY <1>1 DEF ReturnMessage
  <2>2. m \in Message
    BY <1>3, <1>6, <2>1 DEF Message
  <2>. QED
    BY <1>4, <1>6, <2>1, <2>2 DEF Fits
<1>8. /\ OnlyOf(v, exports, exports') /\ DOMAIN exports[v] \subseteq DOMAIN exports'[v]
      /\ ExportsOK(exports'[v], imports[v])
  BY <1>2, <1>6, OfVat, Changed
<1>9. \/ b.stuck = a.queue /\ R2 = <<>>
      \/ b.stuck = <<>> /\ R2 = a.queue \o <<>>
  <2>1. a.queue \o <<>> = a.queue
    BY <1>3
  <2>. QED
    BY <1>1, <1>4, <2>1
<1>10. answers[v][id].callee.k # "none" /\ answers[v][id].callee.k # "answer" /\ <<>> = rejecting[v]
  OBVIOUS
<1>11. b.done /\ b.n = answers[v][id].n /\ b.callee = answers[v][id].callee /\ b.queue = <<>>
  BY <1>1, <1>4
<1>12. \/ b.stuck = answers[v][id].queue /\ R2 = <<>>
       \/ b.stuck = <<>> /\ R2 = answers[v][id].queue \o <<>>
  BY <1>1, <1>9
<1>13. PICK R0 : R0 = <<>>
  OBVIOUS
<1>14. Moved(answers[v], id, b, R0, R2)
  BY <1>12, <1>13 DEF Moved
<1>15. Popped(answers[v], rejecting[v], id, R0)
  BY <1>10, <1>13 DEF Popped
<1>. QED
  BY <1>2, <1>5, <1>7, <1>8, <1>10, <1>11, <1>14, <1>15, AnsweringHolds

\* An exception goes out: reject().
LEMMA RejectHolds ==
  ASSUME Inv, [Next]_vars, NEW v \in Vat, NEW id \in DOMAIN answers[v],
         ~answers[v][id].done, answers[v][id].callee.k # "none",
         NEW R0, Popped(answers[v], rejecting[v], id, R0),
         Reject(v, id), rejecting' = [rejecting EXCEPT ![v] = answers[v][id].queue \o R0],
         UNCHANGED <<questionID, questions, calls, exports, imports, main, working, delivered>>
  PROVE  Upholds(v)
<1>1. PICK a, b, m, R2 :
        /\ a = answers[v][id] /\ b = [a EXCEPT !.done = TRUE, !.queue = <<>>]
        /\ m = ReturnMessage(id, a.n, FALSE, NoDescriptor)
        /\ R2 = a.queue \o R0
  OBVIOUS
<1>2. /\ answers' = [answers EXCEPT ![v][id] = b]
      /\ rejecting' = [rejecting EXCEPT ![v] = R2]
      /\ Send(v, <<m>>)
  BY <1>1 DEF Reject
<1>3. a \in AnswerRecord /\ EntryOK(a, calls[v], exports[v], imports[v]) /\ id \in Nat /\ a.n \in Nat
      /\ a.queue \in Seq(Nat)
  BY <1>1, EntryKnown DEF AnswerRecord
<1>4. a.stuck = <<>> /\ a.ok = FALSE
  <2>1. QueuesOK(answers[v], rejecting[v])
    BY OfVat DEF VatOK
  <2>2. a.stuck = <<>>
    BY <1>1, <2>1 DEF QueuesOK
  <2>3. a.ok \in BOOLEAN /\ ~a.ok
    BY <1>1, <1>3 DEF EntryOK, AnswerRecord
  <2>. QED
    BY <2>2, <2>3
<1>5. /\ b.n = a.n /\ b.done = TRUE /\ b.ok = a.ok /\ b.cap = a.cap /\ b.queue = <<>> /\ b.callee = a.callee
      /\ b.param = a.param /\ b.stuck = a.stuck
      /\ b = [n |-> b.n, done |-> b.done, ok |-> b.ok, cap |-> b.cap, queue |-> b.queue,
              stuck |-> b.stuck, callee |-> b.callee, param |-> b.param]
  BY <1>1, <1>3 DEF AnswerRecord
<1>6. EntryOK(b, calls[v], exports[v], imports[v])
  <2>1. b.queue \in Seq(Nat)
    BY <1>5
  <2>2. b \in AnswerRecord
    BY <1>3, <1>5, <2>1 DEF AnswerRecord
  <2>. QED
    BY <1>3, <1>5, <2>2 DEF EntryOK
<1>7. /\ m.k = "return" /\ m.id = id /\ m.ok = b.ok
      /\ Fits(m, exports[Peer(v)])
  <2>1. m = [k |-> "return", id |-> id, n |-> a.n, ok |-> FALSE, cap |-> [k |-> "none", id |-> 0]]
    BY <1>1 DEF ReturnMessage, NoDescriptor
  <2>2. m \in Message
    BY <1>3, <2>1 DEF Message, Descriptor
  <2>. QED
    BY <1>4, <1>5, <2>1, <2>2 DEF Fits
<1>8. /\ OnlyOf(v, exports, exports') /\ DOMAIN exports[v] \subseteq DOMAIN exports'[v]
      /\ ExportsOK(exports'[v], imports[v])
  BY OfVat, Unchanged DEF VatOK
<1>9. b.done /\ b.n = answers[v][id].n /\ b.callee = answers[v][id].callee /\ b.queue = <<>>
  BY <1>1, <1>5
<1>10. Moved(answers[v], id, b, R0, R2)
  BY <1>1, <1>4, <1>5 DEF Moved
<1>11. Popped(answers[v], rejecting[v], id, R0)
  OBVIOUS
<1>12. UNCHANGED <<questionID, questions, calls, imports, main, working, delivered>>
  OBVIOUS
<1>. QED
  BY <1>2, <1>6, <1>7, <1>8, <1>9, <1>10, <1>11, <1>12, AnsweringHolds

LEMMA RejectIdleHolds ==
  ASSUME Inv, [Next]_vars, NEW v \in Vat, NEW id \in DOMAIN answers[v],
         ~answers[v][id].done, answers[v][id].callee.k \in {"server", "question"},
         rejecting[v] = <<>>,
         Reject(v, id), rejecting' = [rejecting EXCEPT ![v] = answers[v][id].queue],
         UNCHANGED <<questionID, questions, calls, exports, imports, main, working, delivered>>
  PROVE  Upholds(v)
<1>1. PICK R0 : R0 = rejecting[v]
  OBVIOUS
<1>2. Popped(answers[v], rejecting[v], id, R0)
  BY <1>1 DEF Popped
<1>3. answers[v][id].queue \in Seq(Nat)
  BY EntryKnown DEF AnswerRecord
<1>4. answers[v][id].queue \o R0 = answers[v][id].queue
  BY <1>1, <1>3
<1>5. answers[v][id].callee.k # "none"
  OBVIOUS
<1>6. rejecting' = [rejecting EXCEPT ![v] = answers[v][id].queue \o R0]
  BY <1>4
<1>. QED
  BY <1>2, <1>5, <1>6, RejectHolds

LEMMA ServerEndsHolds ==
  ASSUME Inv, [Next]_vars, NEW v \in Vat, NEW id, ServerEnds(v, id)
  PROVE  Upholds(v)
<1>1. id \in DOMAIN answers[v] /\ (ServerReturns(v, id) \/ ServerThrows(v, id))
  BY DEF ServerEnds
<1>2. rejecting[v] = <<>> /\ answers[v][id].callee.k = "server" /\ ~answers[v][id].done
  BY <1>1 DEF ServerReturns, ServerThrows, Serving, Idle
<1>3. CASE ServerReturns(v, id)
  <2>1. PICK c \in Results(answers[v][id]) : Fulfill(v, id, c)
    BY <1>3 DEF ServerReturns
  <2>2. c = NullClient \/ c = Server(1) \/ c = answers[v][id].param
    BY DEF Results
  <2>3. Server(1) \in Client /\ Known(Server(1), exports[v], imports[v])
    BY DEF Server, Client, Known, Object
  <2>4. c \in Client /\ Known(c, exports[v], imports[v])
    BY <1>1, <2>2, <2>3, NullKnown, EntryKnown
  <2>5. UNCHANGED <<questionID, questions, calls, imports, main, working, delivered>>
    BY <1>3 DEF ServerReturns
  <2>. QED
    BY <1>1, <1>2, <2>1, <2>4, <2>5, FulfillHolds
<1>4. CASE ServerThrows(v, id)
  BY <1>1, <1>2, <1>4, RejectIdleHolds DEF ServerThrows
<1>. QED
  BY <1>1, <1>3, <1>4

LEMMA JoinEndsHolds ==
  ASSUME Inv, [Next]_vars, NEW v \in Vat, NEW id, JoinEnds(v, id)
  PROVE  Upholds(v)
<1>1. id \in DOMAIN answers[v] /\ JoinSettles(v, id)
  BY DEF JoinEnds
<1>2. rejecting[v] = <<>> /\ answers[v][id].callee.k = "question" /\ ~answers[v][id].done
  BY <1>1 DEF JoinSettles, Idle
<1>3. PICK n : n = answers[v][id].callee.id
  OBVIOUS
<1>4. n \in DOMAIN calls[v]
  BY <1>1, <1>2, <1>3, EntryKnown DEF EntryOK
<1>5. UNCHANGED <<questionID, questions, calls, imports, main, working, delivered>>
  BY <1>1 DEF JoinSettles
<1>6. CASE calls[v][n].state = "results"
  <2>1. Fulfill(v, id, calls[v][n].cap)
    BY <1>1, <1>3, <1>6 DEF JoinSettles
  <2>. QED
    BY <1>1, <1>2, <1>4, <1>5, <2>1, HeldKnown, FulfillHolds
<1>7. CASE calls[v][n].state # "results"
  <2>1. /\ Reject(v, id) /\ rejecting' = [rejecting EXCEPT ![v] = answers[v][id].queue]
        /\ UNCHANGED exports
    BY <1>1, <1>3, <1>7 DEF JoinSettles
  <2>. QED
    BY <1>1, <1>2, <1>5, <2>1, RejectIdleHolds
<1>. QED
  BY <1>6, <1>7

\* The next of the calls that are being rejected: it is never settled already.
LEMMA RejectNextHolds ==
  ASSUME Inv, [Next]_vars, NEW v \in Vat, RejectNext(v)
  PROVE  Upholds(v)
<1>1. PICK id, R : id = Head(rejecting[v]) /\ R = rejecting[v]
  OBVIOUS
<1>2. R # <<>> /\ R \in Seq(Nat) /\ 1 \in DOMAIN R /\ R[1] = id
  <2>1. R # <<>>
    BY <1>1 DEF RejectNext
  <2>2. R \in Seq(Nat)
    BY <1>1, OfVat DEF VatOK, QueuesOK
  <2>. QED
    BY <1>1, <2>1, <2>2
<1>3. id \in DOMAIN answers[v] /\ ~answers[v][id].done /\ answers[v][id].callee.k = "answer"
  <2>1. QueuesOK(answers[v], R)
    BY <1>1, OfVat DEF VatOK
  <2>. QED
    BY <1>2, <2>1 DEF QueuesOK
<1>4. PICK R0 : R0 = Tail(R)
  OBVIOUS
<1>5. /\ Reject(v, id) /\ rejecting' = [rejecting EXCEPT ![v] = answers[v][id].queue \o R0]
      /\ UNCHANGED <<questionID, questions, calls, exports, imports, main, working, delivered>>
  BY <1>1, <1>3, <1>4 DEF RejectNext, RejectBelow
<1>6. Popped(answers[v], rejecting[v], id, R0)
  BY <1>1, <1>2, <1>4 DEF Popped
<1>7. answers[v][id].callee.k # "none"
  BY <1>3
<1>. QED
  BY <1>3, <1>5, <1>6, <1>7, RejectHolds

-----------------------------------------------------------------------------
(* Messages that are read. *)

\* A handler that asks nothing.
LEMMA ReadHolds ==
  ASSUME Inv, [Next]_vars, NEW v \in Vat, Steps(v),
         net[v] # <<>>, net'[v] = Tail(net[v]), DOMAIN net' = Vat,
         ChannelOK(net'[Peer(v)], exports[Peer(v)]),
         OnlyOf(v, answers, answers'), OnlyOf(v, imports, imports'),
         DOMAIN imports[v] \subseteq DOMAIN imports'[v], ImportsOK(imports'[v]),
         AnswersOK(answers'[v], calls[v], exports[v], imports'[v]),
         QueuesOK(answers'[v], rejecting[v]),
         EntriesStay(answers[v], answers'[v]), QueuedWas(answers[v], answers'[v]),
         working' \in [Vat -> BOOLEAN],
         delivered' \in Seq([at : Vat, object : Object, from : Vat, n : Nat]),
         UNCHANGED <<questionID, questions, calls, exports, main, rejecting>>
  PROVE  Upholds(v)
<1>1. VatOK(v)
  BY OfVat
<1>u. /\ questionID' = questionID /\ questions' = questions /\ calls' = calls /\ exports' = exports
      /\ main' = main /\ rejecting' = rejecting
  OBVIOUS
<1>2. CallsOK(calls'[v], exports'[v], imports'[v])
  BY <1>1, <1>u, CallsStay DEF VatOK
<1>3. ExportsOK(exports'[v], imports'[v])
  BY <1>1, <1>u, ExportsStay DEF VatOK
<1>4. AnswersOK(answers'[v], calls'[v], exports'[v], imports'[v])
  BY <1>u
<1>5. QueuesOK(answers'[v], rejecting'[v])
  BY <1>u
<1>6. ReadFrom(net[v], net'[v])
  BY DEF ReadFrom
<1>7. Preserves(v)
  BY <1>u, <1>2, <1>3, <1>4, <1>5, <1>6, NothingRead, CallsAlike DEF Preserves
<1>8. Changes(v)
  <2>1. /\ OnlyOf(v, questionID, questionID') /\ OnlyOf(v, questions, questions')
        /\ OnlyOf(v, calls, calls') /\ OnlyOf(v, exports, exports') /\ OnlyOf(v, rejecting, rejecting')
        /\ main' \in [Vat -> BOOLEAN]
    BY <1>u, OfVat, Unchanged
  <2>. QED
    BY <2>1 DEF Changes
<1>. QED
  BY <1>7, <1>8, VatKept, KeepsInv

\* A call that arrives is not in the table, and nothing waits for it.
LEMMA FreshCall ==
  ASSUME Inv, NEW v \in Vat, NEW k \in {"bootstrap", "call"}, Handles(v, k),
         NEW m, m = Head(net[v])
  PROVE  /\ m \in Message /\ m.k = k /\ m.id \in Nat /\ m.n \in Nat /\ m.id \notin DOMAIN answers[v]
         /\ \A q \in DOMAIN answers[v] : ~AwaitedCall(answers[v], q, m.n)
         /\ \A u \in DOMAIN answers[v] : ~answers[v][u].done => answers[v][u].n # m.n
         /\ \A t, u \in DOMAIN answers[v] :
              ~answers[v][t].done /\ ~answers[v][u].done /\ answers[v][t].n = answers[v][u].n => t = u
<1>1. PICK w \in Vat : w = Peer(v) /\ Peer(w) = v
  BY PeerFacts
<1>2. Sound(w) /\ AwaitedOK(v)
  BY <1>1, OfVat
<1>3. m \in Message /\ m.k = k /\ net[v] # <<>> /\ net[v] \in Seq(Message)
  BY HeadFacts, ChannelTypes
<1>4. /\ m.id \in Nat /\ m.n \in Nat \ {0} /\ m.id \notin DOMAIN answers[v]
      /\ m.id \in DOMAIN questions[w] /\ questions[w][m.id] = m.n /\ Decided(w)[m.n] = "none"
  BY <1>1, <1>2, <1>3, CallFacts
<1>5. \A t \in DOMAIN answers[v] : ~answers[v][t].done =>
        /\ t \in DOMAIN questions[w] /\ questions[w][t] = answers[v][t].n /\ questions[w][t] # 0
  BY <1>1, <1>2, EntryFacts
<1>6. \A t, u \in DOMAIN answers[v] :
        ~answers[v][t].done /\ ~answers[v][u].done /\ answers[v][t].n = answers[v][u].n => t = u
  BY <1>2, <1>5, OneEntry
<1>7. \A u \in DOMAIN answers[v] : ~answers[v][u].done => answers[v][u].n # m.n
  BY <1>2, <1>4, <1>5, OneEntry
<1>8. DecidedFor(w, m.n) = "none"
  BY <1>4 DEF Decided
<1>9. \A q \in DOMAIN answers[v] : ~AwaitedCall(answers[v], q, m.n)
  <2> SUFFICES ASSUME NEW q \in DOMAIN answers[v], AwaitedCall(answers[v], q, m.n) PROVE FALSE
    OBVIOUS
  <2>1. m.n \in Awaited(v)
    BY DEF AwaitedCall, Awaited
  <2>2. \E t \in DOMAIN answers[v] : answers[v][t].n = m.n /\ ~answers[v][t].done
    BY <1>1, <1>2, <1>8, <2>1 DEF AwaitedOK
  <2>. QED
    BY <1>7, <2>2
<1>. QED
  BY <1>3, <1>4, <1>6, <1>7, <1>9

\* What is answered at once for the entry a made for question id.
Answers(v, id, a) ==
  \/ ~a.done /\ a.callee.k # "none" /\ Reply(v, <<>>)
  \/ \E m : /\ ~a.done /\ a.callee.k = "none" /\ Reply(v, <<m>>)
            /\ Fits(m, exports[Peer(v)]) /\ m.k = "unimplemented" /\ m.id = id
  \/ \E m : /\ a.done /\ Reply(v, <<m>>)
            /\ Fits(m, exports[Peer(v)]) /\ m.k = "return" /\ m.id = id /\ m.ok = a.ok
Answering(v, id, a) ==
  \/ ~a.done /\ a.callee.k # "none" /\ Reply(v, <<>>)
  \/ \E m \in Message : /\ ~a.done /\ a.callee.k = "none" /\ Reply(v, <<m>>)
                        /\ m.k = "unimplemented" /\ m.id = id
  \/ \E m \in Message : /\ a.done /\ Reply(v, <<m>>)
                        /\ m.k = "return" /\ m.id = id /\ m.ok = a.ok

LEMMA AnsweredChannel ==
  ASSUME Inv, NEW v \in Vat, NEW id, NEW a, Answers(v, id, a), NEW k, Handles(v, k)
  PROVE  /\ net'[v] = Tail(net[v]) /\ DOMAIN net' = Vat /\ net[v] # <<>>
         /\ ChannelOK(net'[Peer(v)], exports[Peer(v)])
         /\ Answering(v, id, a)
<1>1. ChannelOK(net[Peer(v)], exports[Peer(v)]) /\ net[v] # <<>>
  BY PeerFacts, OfVat, HeadFacts DEF VatOK
<1>2. CASE ~a.done /\ a.callee.k # "none" /\ Reply(v, <<>>)
  <2>1. net'[v] = Tail(net[v]) /\ net'[Peer(v)] = net[Peer(v)]
    BY <1>2, WhenRead
  <2>2. DOMAIN net' = Vat
    BY <1>2, NetReplied DEF Inv
  <2>. QED
    BY <1>1, <1>2, <2>1, <2>2 DEF Answering
<1>3. ASSUME NEW m, Fits(m, exports[Peer(v)]), Reply(v, <<m>>)
      PROVE  /\ net'[v] = Tail(net[v]) /\ DOMAIN net' = Vat /\ m \in Message
             /\ ChannelOK(net'[Peer(v)], exports[Peer(v)])
  <2>1. net'[v] = Tail(net[v]) /\ net'[Peer(v)] = net[Peer(v)] \o <<m>> /\ DOMAIN net' = Vat
    BY <1>3, NetReplied DEF Inv
  <2>. QED
    BY <1>1, <1>3, <2>1, ChannelWritten DEF Fits
<1>. QED
  BY <1>1, <1>2, <1>3 DEF Answers, Answering

\* The entry that is made when a call arrives, unless the call is queued or forwarded.
LEMMA NewEntryHolds ==
  ASSUME Inv, [Next]_vars, NEW v \in Vat, NEW k \in {"bootstrap", "call"}, Handles(v, k),
         NEW m, m = Head(net[v]),
         NEW a, EntryOK(a, calls[v], exports[v], imports'[v]), a.n = m.n,
         a.queue = <<>>, a.stuck = <<>>, a.callee.k # "answer",
         answers' = [answers EXCEPT ![v] = Put(answers[v], m.id, a)], Answers(v, m.id, a),
         OnlyOf(v, imports, imports'), DOMAIN imports[v] \subseteq DOMAIN imports'[v], ImportsOK(imports'[v]),
         delivered' \in Seq([at : Vat, object : Object, from : Vat, n : Nat]),
         UNCHANGED <<questionID, questions, calls, exports, main, working, rejecting>>
  PROVE  Upholds(v)
<1>1. /\ m \in Message /\ m.id \in Nat /\ m.id \notin DOMAIN answers[v]
      /\ \A q \in DOMAIN answers[v] : ~AwaitedCall(answers[v], q, m.n)
  BY FreshCall
<1>2. /\ VatOK(v) /\ DOMAIN answers = Vat /\ working \in [Vat -> BOOLEAN]
  BY OfVat
<1>3. OnlyOf(v, answers, answers') /\ answers'[v] = Put(answers[v], m.id, a)
      /\ answers'[Peer(v)] = answers[Peer(v)]
  <2>1. OnlyOf(v, answers, answers') /\ answers'[v] = Put(answers[v], m.id, a)
    BY <1>2, Changed
  <2>. QED
    BY <2>1 DEF OnlyOf
<1>4. /\ DOMAIN answers'[v] = DOMAIN answers[v] \cup {m.id} /\ answers'[v][m.id] = a
      /\ \A t \in DOMAIN answers[v] : answers'[v][t] = answers[v][t]
  BY <1>1, <1>3 DEF Put
<1>5. AcceptedAs(answers[v], answers'[v], m.id)
  BY <1>4 DEF AcceptedAs, SameEntry
<1>6. a.ok \in BOOLEAN
  BY DEF EntryOK, AnswerRecord
<1>7. /\ net'[v] = Tail(net[v]) /\ DOMAIN net' = Vat /\ net[v] # <<>>
      /\ ChannelOK(net'[Peer(v)], exports[Peer(v)])
      /\ Answering(v, m.id, a)
  BY AnsweredChannel
<1>u. /\ questionID' = questionID /\ questions' = questions /\ calls' = calls /\ working' = working
  OBVIOUS
<1>8. Steps(v)
  <2>1. PICK id : id = Head(net[v]).id /\ id = m.id
    OBVIOUS
  <2>2. AcceptedAs(answers[v], answers'[v], id) /\ a = answers'[v][id] /\ a.n = Head(net[v]).n
    BY <1>4, <1>5, <2>1
  <2>3. \/ ~a.done /\ a.callee.k # "none" /\ Reply(v, <<>>)
        \/ \E r \in Message : /\ ~a.done /\ a.callee.k = "none" /\ Reply(v, <<r>>)
                              /\ r.k = "unimplemented" /\ r.id = id
        \/ \E r \in Message : /\ a.done /\ Reply(v, <<r>>)
                              /\ r.k = "return" /\ r.id = id /\ r.ok = a.ok
    BY <1>7, <2>1 DEF Answering
  <2>. QED
    BY <1>3, <1>6, <1>u, <2>1, <2>2, <2>3, AcceptingSteps
<1>9. AnswersOK(answers'[v], calls[v], exports[v], imports'[v])
  <2>1. PICK Q, C, E, I, S, id : /\ Q = answers[v] /\ C = calls[v] /\ E = exports[v] /\ I = imports'[v]
                                 /\ S = answers'[v] /\ id = m.id
    OBVIOUS
  <2>2. AnswersOK(Q, C, E, imports[v])
    BY <1>2, <2>1 DEF VatOK
  <2>3. AnswersOK(Q, C, E, I)
    BY <2>1, <2>2, AnswersStay, CallsAlike
  <2>4. id \in Nat /\ S = Put(Q, id, a)
    BY <1>1, <1>3, <2>1
  <2>5. EntryOK(a, C, E, I)
    BY <2>1
  <2>6. AnswersOK(S, C, E, I)
    BY <2>3, <2>4, <2>5, EntryPut
  <2>. QED
    BY <2>1, <2>6
<1>10. QueuesOK(answers'[v], rejecting[v])
  <2>1. PICK Q, R, S, id : Q = answers[v] /\ R = rejecting[v] /\ S = answers'[v] /\ id = m.id
    OBVIOUS
  <2>2. QueuesOK(Q, R) /\ id \notin DOMAIN Q /\ S = Put(Q, id, a)
    BY <1>1, <1>2, <1>3, <2>1 DEF VatOK
  <2>3. ~a.done => \A q \in DOMAIN Q : ~AwaitedCall(Q, q, a.n)
    BY <1>1, <2>1
  <2>4. 0 <= CallQueueSize /\ (a.done \/ a.callee.k # "answer")
    BY BoundsAssumption
  <2>5. QueuesOK(S, R)
    BY <2>2, <2>3, <2>4, QueuesPut
  <2>. QED
    BY <2>1, <2>5
<1>11. EntriesStay(answers[v], answers'[v]) /\ QueuedWas(answers[v], answers'[v])
  <2>1. EntriesStay(answers[v], answers[v])
    BY EntriesAlike
  <2>2. EntriesStay(answers[v], answers'[v])
    BY <1>4, <2>1 DEF EntriesStay
  <2>3. QueuedWas(answers[v], answers'[v])
    BY <1>4 DEF QueuedWas
  <2>. QED
    BY <2>2, <2>3
<1>12. working' \in [Vat -> BOOLEAN]
  BY <1>2
<1>. QED
  BY <1>3, <1>7, <1>8, <1>9, <1>10, <1>11, <1>12, ReadHolds

\* The entry for a call.
ForwardedTo(callee, C) ==
  callee.k = "question" => callee.id \in DOMAIN C /\ C[callee.id].route = "forward"
LEMMA EntryForCall ==
  ASSUME NEW m, m.n \in Nat, NEW callee \in Callee, NEW param \in Client, NEW a, a = NewAnswer(m, callee, param),
         NEW C, NEW E, NEW I, Known(param, E, I),
         ForwardedTo(callee, C)
  PROVE  /\ EntryOK(a, C, E, I) /\ a.n = m.n /\ ~a.done /\ ~a.ok /\ a.queue = <<>>
         /\ a.stuck = <<>> /\ a.callee = callee /\ a.cap = NullClient /\ a.param = param
<1>1. a = [n |-> m.n, done |-> FALSE, ok |-> FALSE, cap |-> NullClient, queue |-> <<>>,
           stuck |-> <<>>, callee |-> callee, param |-> param]
  BY DEF NewAnswer
<1>2. <<>> \in Seq(Nat)
  OBVIOUS
<1>3. a \in AnswerRecord
  BY <1>1, <1>2, NullKnown DEF AnswerRecord
<1>. QED
  BY <1>1, <1>3, NullKnown DEF EntryOK, ForwardedTo

LEMMA EntryDone ==
  ASSUME NEW a, NEW C, NEW E, NEW I, EntryOK(a, C, E, I), NEW ok \in BOOLEAN,
         NEW c \in Client, Known(c, E, I), NEW b, b = DoneAnswer(a, ok, c)
  PROVE  /\ EntryOK(b, C, E, I) /\ b.n = a.n /\ b.done /\ b.ok = ok /\ b.queue = a.queue
         /\ b.stuck = a.stuck /\ b.callee = a.callee /\ b.cap = c
<1>1. a \in AnswerRecord
  BY DEF EntryOK
<1>2. /\ b.n = a.n /\ b.done = TRUE /\ b.ok = ok /\ b.cap = c /\ b.queue = a.queue
      /\ b.stuck = a.stuck /\ b.callee = a.callee /\ b.param = a.param
      /\ b = [n |-> b.n, done |-> b.done, ok |-> b.ok, cap |-> b.cap, queue |-> b.queue,
              stuck |-> b.stuck, callee |-> b.callee, param |-> b.param]
  BY <1>1 DEF DoneAnswer, AnswerRecord
<1>3. b \in AnswerRecord
  BY <1>1, <1>2 DEF AnswerRecord
<1>. QED
  BY <1>2, <1>3 DEF EntryOK

\* An entry that waits for nothing, of a call that was passed c.
LEMMA IdleEntry ==
  ASSUME NEW m, m.n \in Nat, NEW param \in Client, NEW a, a = NewAnswer(m, NoCallee, param),
         NEW C, NEW E, NEW I, Known(param, E, I)
  PROVE  /\ EntryOK(a, C, E, I) /\ a.n = m.n /\ ~a.done /\ a.queue = <<>>
         /\ a.stuck = <<>> /\ a.callee = NoCallee /\ a.callee.k = "none"
<1>1. PICK callee : callee = NoCallee
  OBVIOUS
<1>2. callee \in Callee /\ callee.k = "none"
  BY <1>1 DEF NoCallee, Callee
<1>3. ForwardedTo(callee, C)
  BY <1>2 DEF ForwardedTo
<1>4. a = NewAnswer(m, callee, param)
  BY <1>1
<1>5. /\ EntryOK(a, C, E, I) /\ a.n = m.n /\ ~a.done /\ a.queue = <<>>
      /\ a.stuck = <<>> /\ a.callee = callee
  BY <1>2, <1>3, <1>4, EntryForCall
<1>. QED
  BY <1>1, <1>2, <1>5


LEMMA HandleBootstrapHolds ==
  ASSUME Inv, [Next]_vars, NEW v \in Vat, HandleBootstrap(v)
  PROVE  Upholds(v)
<1>1. PICK m : m = Head(net[v])
  OBVIOUS
<1>2. Handles(v, "bootstrap")
  BY DEF HandleBootstrap
<1>3. m \in Message /\ m.id \in Nat /\ m.n \in Nat /\ m.id \notin DOMAIN answers[v]
  BY <1>1, <1>2, FreshCall
<1>4. main[v] \in BOOLEAN /\ DOMAIN imports = Vat
      /\ delivered \in Seq([at : Vat, object : Object, from : Vat, n : Nat])
      /\ ImportsOK(imports[v])
  BY OfVat DEF VatOK
<1>5. PICK c : c = IF main[v] THEN Server(Main) ELSE NullClient
  OBVIOUS
<1>6. PICK x, a : x = NewAnswer(m, NoCallee, NullClient) /\ a = DoneAnswer(x, main[v], c)
  OBVIOUS
<1>8. PICK r : r = ReturnMessage(m.id, m.n, main[v], NoDescriptor)
  OBVIOUS
<1>9. /\ answers' = [answers EXCEPT ![v] = Put(answers[v], m.id, a)]
      /\ Reply(v, <<r>>)
      /\ UNCHANGED <<questionID, questions, calls, exports, imports, main, working, rejecting, delivered>>
  BY <1>1, <1>3, <1>4, <1>5, <1>6, <1>8 DEF HandleBootstrap
<1>10. /\ EntryOK(a, calls[v], exports[v], imports'[v]) /\ a.n = m.n /\ a.queue = <<>>
       /\ a.stuck = <<>> /\ a.callee.k # "answer" /\ a.done /\ a.ok = main[v]
  <2>1. PICK C, E, I : C = calls[v] /\ E = exports[v] /\ I = imports'[v]
    OBVIOUS
  <2>2. c \in Client /\ Known(c, E, I) /\ NullClient \in Client /\ Known(NullClient, E, I)
    BY <1>5, NullKnown DEF Server, Main, Client, Known, Object
  <2>3. /\ EntryOK(x, C, E, I) /\ x.n = m.n /\ x.queue = <<>>
        /\ x.stuck = <<>> /\ x.callee.k = "none"
    BY <1>3, <1>6, <2>2, IdleEntry
  <2>4. PICK ok : ok = main[v]
    OBVIOUS
  <2>5. ok \in BOOLEAN /\ a = DoneAnswer(x, ok, c)
    BY <1>4, <1>6, <2>4
  <2>6. /\ EntryOK(a, C, E, I) /\ a.n = x.n /\ a.done /\ a.ok = ok /\ a.queue = x.queue
        /\ a.stuck = x.stuck /\ a.callee = x.callee
    BY <2>2, <2>3, <2>5, EntryDone
  <2>. QED
    BY <2>1, <2>3, <2>4, <2>6
<1>12. Answers(v, m.id, a)
  <2>1. r = [k |-> "return", id |-> m.id, n |-> m.n, ok |-> main[v], cap |-> [k |-> "none", id |-> 0]]
    BY <1>8 DEF ReturnMessage, NoDescriptor
  <2>2. r \in Message
    BY <1>3, <1>4, <2>1 DEF Message, Descriptor
  <2>3. Fits(r, exports[Peer(v)]) /\ r.k = "return" /\ r.id = m.id /\ r.ok = a.ok
    BY <1>10, <2>1, <2>2 DEF Fits
  <2>. QED
    BY <1>9, <1>10, <2>3 DEF Answers
<1>13. OnlyOf(v, imports, imports') /\ imports'[v] = imports[v]
  BY <1>4, <1>9, Unchanged
<1>14. DOMAIN imports[v] \subseteq DOMAIN imports'[v] /\ ImportsOK(imports'[v])
  BY <1>4, <1>13
<1>15. delivered' \in Seq([at : Vat, object : Object, from : Vat, n : Nat])
  BY <1>4, <1>9
<1>. QED
  BY <1>1, <1>2, <1>9, <1>10, <1>12, <1>13, <1>14, <1>15, NewEntryHolds

\* A Call that is read: its capability is found, and its id is free.
LEMMA CallRead ==
  ASSUME Inv, NEW v \in Vat, Handles(v, "call"), NEW m, m = Head(net[v]),
         NEW c, c = Param(v, m), imports' = [imports EXCEPT ![v] = Populated(v, m.cap)]
  PROVE  /\ m \in Message /\ m.k = "call" /\ m.id \in Nat /\ m.n \in Nat /\ m.id \notin DOMAIN answers[v]
         /\ m.target \in Target /\ m.method \in Method /\ Populates(v, m.cap) /\ Accepts(v, m)
         /\ c \in Client /\ Known(c, exports[v], imports'[v])
         /\ OnlyOf(v, imports, imports') /\ DOMAIN imports[v] \subseteq DOMAIN imports'[v]
         /\ ImportsOK(imports'[v])
<1>1. m \in Message /\ m.k = "call" /\ m.id \in Nat /\ m.n \in Nat /\ m.id \notin DOMAIN answers[v]
  BY FreshCall
<1>2. m.cap \in Descriptor /\ m.target \in Target /\ m.method \in Method
  BY <1>1, MessageKind
<1>3. net[v] # <<>> /\ net[v] \in Seq(Message) /\ ChannelOK(net[v], exports[v]) /\ DOMAIN imports = Vat
  BY HeadFacts, ChannelTypes, OfVat DEF VatOK
<1>4. Populates(v, m.cap)
  <2>1. 1 \in DOMAIN net[v] /\ net[v][1] = m
    BY <1>3
  <2>. QED
    BY <1>1, <1>3, <2>1 DEF Populates, ChannelOK
<1>5. OnlyOf(v, imports, imports') /\ imports'[v] = Populated(v, m.cap)
  BY <1>3, Changed
<1>6. PICK d, r : d = m.cap /\ r = m.n /\ c = ClientFor(v, d, r)
  BY DEF Param
<1>7. /\ DOMAIN imports[v] \subseteq DOMAIN Populated(v, d) /\ ImportsOK(Populated(v, d))
      /\ ClientFor(v, d, r) \in Client
      /\ Populates(v, d) => Known(ClientFor(v, d, r), exports[v], Populated(v, d))
  <2>1. d \in Descriptor /\ r \in Int
    BY <1>1, <1>2, <1>6
  <2>. QED
    BY <2>1, PopulatedOK
<1>. QED
  BY <1>1, <1>2, <1>4, <1>5, <1>6, <1>7 DEF Accepts

LEMMA HandleCallRefusedHolds ==
  ASSUME Inv, [Next]_vars, NEW v \in Vat, HandleCallRefused(v)
  PROVE  Upholds(v)
<1>1. PICK m, c : m = Head(net[v]) /\ c = Param(v, m)
  OBVIOUS
<1>2. Handles(v, "call") /\ imports' = [imports EXCEPT ![v] = Populated(v, m.cap)]
  BY <1>1 DEF HandleCallRefused
<1>3. /\ m \in Message /\ m.k = "call" /\ m.id \in Nat /\ m.n \in Nat /\ m.id \notin DOMAIN answers[v]
      /\ Populates(v, m.cap) /\ c \in Client /\ Known(c, exports[v], imports'[v])
      /\ OnlyOf(v, imports, imports') /\ DOMAIN imports[v] \subseteq DOMAIN imports'[v]
      /\ ImportsOK(imports'[v])
  BY <1>1, <1>2, CallRead
<1>4. PICK a, r : a = NewAnswer(m, NoCallee, c) /\ r = [k |-> "unimplemented", id |-> m.id, n |-> m.n]
  OBVIOUS
<1>5. /\ answers' = [answers EXCEPT ![v] = Put(answers[v], m.id, a)]
      /\ Reply(v, <<r>>)
      /\ UNCHANGED <<questionID, questions, calls, exports, main, working, rejecting, delivered>>
  BY <1>1, <1>3, <1>4 DEF HandleCallRefused
<1>7. /\ EntryOK(a, calls[v], exports[v], imports'[v]) /\ a.n = m.n /\ ~a.done
      /\ a.queue = <<>> /\ a.stuck = <<>> /\ a.callee.k = "none"
  <2>1. PICK C, E, I : C = calls[v] /\ E = exports[v] /\ I = imports'[v]
    OBVIOUS
  <2>2. /\ EntryOK(a, C, E, I) /\ a.n = m.n /\ ~a.done
        /\ a.queue = <<>> /\ a.stuck = <<>> /\ a.callee.k = "none"
    BY <1>3, <1>4, <2>1, IdleEntry
  <2>. QED
    BY <2>1, <2>2
<1>8. a.callee.k # "answer"
  BY <1>7
<1>9. Answers(v, m.id, a)
  <2>1. r \in Message /\ r.k = "unimplemented" /\ r.id = m.id
    BY <1>3, <1>4 DEF Message
  <2>2. Fits(r, exports[Peer(v)])
    BY <2>1 DEF Fits
  <2>. QED
    BY <1>5, <1>7, <1>8, <2>1, <2>2 DEF Answers
<1>10. delivered' \in Seq([at : Vat, object : Object, from : Vat, n : Nat])
  BY <1>5, OfVat
<1>. QED
  BY <1>1, <1>2, <1>3, <1>5, <1>7, <1>8, <1>9, <1>10, NewEntryHolds

LEMMA HandleCallRejectedHolds ==
  ASSUME Inv, [Next]_vars, NEW v \in Vat, HandleCallRejected(v)
  PROVE  Upholds(v)
<1>1. PICK m, c : m = Head(net[v]) /\ c = Param(v, m)
  OBVIOUS
<1>2. Handles(v, "call") /\ imports' = [imports EXCEPT ![v] = Populated(v, m.cap)]
  BY <1>1 DEF HandleCallRejected, Routed
<1>3. /\ m \in Message /\ m.k = "call" /\ m.id \in Nat /\ m.n \in Nat
      /\ c \in Client /\ Known(c, exports[v], imports'[v])
      /\ OnlyOf(v, imports, imports') /\ DOMAIN imports[v] \subseteq DOMAIN imports'[v]
      /\ ImportsOK(imports'[v])
  BY <1>1, <1>2, CallRead
<1>4. PICK x, ok, a, r : /\ x = NewAnswer(m, NoCallee, c) /\ ok = FALSE /\ a = DoneAnswer(x, ok, NullClient)
                         /\ r = ReturnMessage(m.id, m.n, ok, NoDescriptor)
  OBVIOUS
<1>b. ok \in BOOLEAN
  BY <1>4
<1>5. /\ answers' = [answers EXCEPT ![v] = Put(answers[v], m.id, a)]
      /\ Reply(v, <<r>>)
      /\ UNCHANGED <<questionID, questions, calls, exports, main, working, rejecting, delivered>>
  BY <1>1, <1>4 DEF HandleCallRejected
<1>6. /\ EntryOK(a, calls[v], exports[v], imports'[v]) /\ a.n = m.n /\ a.queue = <<>>
      /\ a.stuck = <<>> /\ a.callee.k # "answer" /\ a.done /\ a.ok = ok
  <2>1. PICK C, E, I : C = calls[v] /\ E = exports[v] /\ I = imports'[v]
    OBVIOUS
  <2>2. Known(c, E, I) /\ NullClient \in Client /\ Known(NullClient, E, I) /\ ok \in BOOLEAN
    BY <1>3, <1>4, <2>1, NullKnown
  <2>3. /\ EntryOK(x, C, E, I) /\ x.n = m.n /\ x.queue = <<>>
        /\ x.stuck = <<>> /\ x.callee.k = "none"
    BY <1>3, <1>4, <2>2, IdleEntry
  <2>4. /\ EntryOK(a, C, E, I) /\ a.n = x.n /\ a.done /\ a.ok = ok /\ a.queue = x.queue
        /\ a.stuck = x.stuck /\ a.callee = x.callee
    BY <1>4, <2>2, <2>3, EntryDone
  <2>. QED
    BY <2>1, <2>3, <2>4
<1>7. Answers(v, m.id, a)
  <2>1. r = [k |-> "return", id |-> m.id, n |-> m.n, ok |-> ok, cap |-> [k |-> "none", id |-> 0]]
    BY <1>4 DEF ReturnMessage, NoDescriptor
  <2>2. r \in Message
    BY <1>3, <1>b, <2>1 DEF Message, Descriptor
  <2>3. Fits(r, exports[Peer(v)]) /\ r.k = "return" /\ r.id = m.id /\ r.ok = a.ok
    BY <1>6, <2>1, <2>2 DEF Fits
  <2>. QED
    BY <1>5, <1>6, <2>3 DEF Answers
<1>8. delivered' \in Seq([at : Vat, object : Object, from : Vat, n : Nat])
  BY <1>5, OfVat
<1>. QED
  BY <1>1, <1>2, <1>3, <1>5, <1>6, <1>7, <1>8, NewEntryHolds

\* What a Call is on: an answer that is not done and can queue it, or a capability.
LEMMA RouteKnown ==
  ASSUME Inv, NEW v \in Vat, NEW m, NEW c, c = Route(v, m)
  PROVE  \/ /\ c = QueueClient /\ m.target.k # "importedCap" /\ m.target.id # m.id
            /\ m.target.id \in DOMAIN answers[v] /\ ~answers[v][m.target.id].done
            /\ Len(answers[v][m.target.id].queue) < CallQueueSize
         \/ c \in Client /\ Known(c, exports[v], imports[v])
<1>1. ErrorClient(0) \in Client /\ Known(ErrorClient(0), exports[v], imports[v])
  BY DEF ErrorClient, Client, Known
<1>2. \A id \in DOMAIN exports[v] : exports[v][id].client \in Client /\ Known(exports[v][id].client, exports[v], imports[v])
  BY OfVat DEF VatOK, ExportsOK, Export
<1>3. \A id \in DOMAIN answers[v] : LET d == Resolution(answers[v][id])
                                   IN d \in Client /\ Known(d, exports[v], imports[v])
  BY <1>1, EntryKnown DEF Resolution
<1>. QED
  BY <1>1, <1>2, <1>3 DEF Route

LEMMA HandleCallDeliveredHolds ==
  ASSUME Inv, [Next]_vars, NEW v \in Vat, HandleCallDelivered(v)
  PROVE  Upholds(v)
<1>1. PICK m, c, o : m = Head(net[v]) /\ c = Param(v, m) /\ o = ObjectOf(v, Route(v, m))
  OBVIOUS
<1>2. /\ Handles(v, "call") /\ imports' = [imports EXCEPT ![v] = Populated(v, m.cap)]
      /\ Kind(v, Route(v, m)) \in {"server", "ownRef"}
  BY <1>1 DEF HandleCallDelivered, Routed
<1>3. /\ m \in Message /\ m.k = "call" /\ m.id \in Nat /\ m.n \in Nat
      /\ c \in Client /\ Known(c, exports[v], imports'[v])
      /\ OnlyOf(v, imports, imports') /\ DOMAIN imports[v] \subseteq DOMAIN imports'[v]
      /\ ImportsOK(imports'[v])
  BY <1>1, <1>2, CallRead
<1>4. o \in Object
  <2>1. PICK r : r = Route(v, m)
    OBVIOUS
  <2>2. r.k \in {"server", "ownRef"} /\ (r.k = "ownRef" => o # NoId)
    BY <1>1, <1>2, <2>1 DEF Kind
  <2>3. r # QueueClient
    BY <2>2 DEF QueueClient
  <2>4. Known(r, exports[v], imports[v])
    BY <2>1, <2>3, RouteKnown
  <2>5. o \in Object \cup {NoId}
    BY <1>1, <2>1, <2>4, ObjectKnown
  <2>6. CASE r.k = "server"
    BY <1>1, <2>1, <2>4, <2>6 DEF ObjectOf, Known
  <2>. QED
    BY <2>2, <2>5, <2>6
<1>5. PICK callee, a : callee = [k |-> "server", id |-> o] /\ a = NewAnswer(m, callee, c)
  OBVIOUS
<1>6. /\ answers' = [answers EXCEPT ![v] = Put(answers[v], m.id, a)]
      /\ Reply(v, <<>>)
      /\ delivered' = Append(delivered, [at |-> v, object |-> o, from |-> Peer(v), n |-> m.n])
      /\ UNCHANGED <<questionID, questions, calls, exports, main, working, rejecting>>
  BY <1>1, <1>5 DEF HandleCallDelivered
<1>7. callee \in Callee /\ callee.k = "server" /\ ForwardedTo(callee, calls[v])
  BY <1>4, <1>5 DEF Callee, ForwardedTo, Object
<1>8. /\ EntryOK(a, calls[v], exports[v], imports'[v]) /\ a.n = m.n /\ ~a.done
      /\ a.queue = <<>> /\ a.stuck = <<>> /\ a.callee = callee
  <2>1. PICK C, E, I : C = calls[v] /\ E = exports[v] /\ I = imports'[v]
    OBVIOUS
  <2>2. Known(c, E, I) /\ ForwardedTo(callee, C)
    BY <1>3, <1>7, <2>1
  <2>3. /\ EntryOK(a, C, E, I) /\ a.n = m.n /\ ~a.done
        /\ a.queue = <<>> /\ a.stuck = <<>> /\ a.callee = callee
    BY <1>3, <1>5, <1>7, <2>2, EntryForCall
  <2>. QED
    BY <2>1, <2>3
<1>9. Answers(v, m.id, a) /\ a.callee.k # "answer"
  BY <1>6, <1>7, <1>8 DEF Answers
<1>10. delivered' \in Seq([at : Vat, object : Object, from : Vat, n : Nat])
  <2>1. delivered \in Seq([at : Vat, object : Object, from : Vat, n : Nat]) /\ Peer(v) \in Vat
    BY OfVat, PeerFacts
  <2>2. PICK d : d = [at |-> v, object |-> o, from |-> Peer(v), n |-> m.n]
    OBVIOUS
  <2>3. d \in [at : Vat, object : Object, from : Vat, n : Nat]
    BY <1>3, <1>4, <2>1, <2>2
  <2>. QED
    BY <1>6, <2>1, <2>2, <2>3
<1>. QED
  BY <1>1, <1>2, <1>3, <1>6, <1>8, <1>9, <1>10, NewEntryHolds

LEMMA HandleUnimplementedHolds ==
  ASSUME Inv, [Next]_vars, NEW v \in Vat, HandleUnimplemented(v)
  PROVE  Upholds(v)
<1>1. /\ Handles(v, "unimplemented") /\ Reply(v, <<>>)
      /\ UNCHANGED <<questionID, questions, calls, answers, exports, imports, main, working, rejecting, delivered>>
  BY DEF HandleUnimplemented, tables
<1>2. /\ net[v] # <<>> /\ net'[v] = Tail(net[v]) /\ net'[Peer(v)] = net[Peer(v)] /\ DOMAIN net' = Vat
  BY <1>1, HeadFacts, WhenRead, NetReplied DEF Inv
<1>3. VatOK(v) /\ VatOK(Peer(v)) /\ imports'[v] = imports[v] /\ answers'[v] = answers[v]
  BY <1>1, PeerFacts, OfVat
<1>4. /\ ChannelOK(net'[Peer(v)], exports[Peer(v)]) /\ ImportsOK(imports'[v])
      /\ AnswersOK(answers'[v], calls[v], exports[v], imports'[v])
      /\ QueuesOK(answers'[v], rejecting[v]) /\ DOMAIN imports[v] \subseteq DOMAIN imports'[v]
  BY <1>2, <1>3 DEF VatOK
<1>5. /\ OnlyOf(v, answers, answers') /\ OnlyOf(v, imports, imports')
      /\ working' \in [Vat -> BOOLEAN]
      /\ delivered' \in Seq([at : Vat, object : Object, from : Vat, n : Nat])
  BY <1>1, OfVat, Unchanged
<1>6. EntriesStay(answers[v], answers'[v]) /\ QueuedWas(answers[v], answers'[v])
  BY <1>3, EntriesAlike
<1>. QED
  BY <1>1, <1>2, <1>4, <1>5, <1>6, UnimplementedSteps, ReadHolds

LEMMA HandleFinishHolds ==
  ASSUME Inv, [Next]_vars, NEW v \in Vat, HandleFinish(v)
  PROVE  Upholds(v)
<1>1. PICK id : id = Head(net[v]).id
  OBVIOUS
<1>2. /\ Handles(v, "finish") /\ Reply(v, <<>>)
      /\ answers' = [answers EXCEPT ![v] = Remove(answers[v], id)]
      /\ working' = [working EXCEPT ![v] = id \in DOMAIN answers[v] \/ ~Head(net[v]).releaseResultCaps]
      /\ UNCHANGED <<questionID, questions, calls, exports, imports, main, rejecting, delivered>>
  BY <1>1 DEF HandleFinish
<1>3. Steps(v) /\ id \in DOMAIN answers[v] /\ answers[v][id].done
  BY <1>1, FinishingSteps
<1>4. /\ net[v] # <<>> /\ net'[v] = Tail(net[v]) /\ net'[Peer(v)] = net[Peer(v)] /\ DOMAIN net' = Vat
  BY <1>2, HeadFacts, WhenRead, NetReplied DEF Inv
<1>5. /\ VatOK(v) /\ VatOK(Peer(v)) /\ imports'[v] = imports[v] /\ DOMAIN answers = Vat
      /\ working \in [Vat -> BOOLEAN]
  BY <1>2, PeerFacts, OfVat
<1>6. OnlyOf(v, answers, answers') /\ answers'[v] = Remove(answers[v], id)
  BY <1>2, <1>5, Changed
<1>7. /\ ChannelOK(net'[Peer(v)], exports[Peer(v)]) /\ ImportsOK(imports'[v])
      /\ DOMAIN imports[v] \subseteq DOMAIN imports'[v]
  BY <1>4, <1>5 DEF VatOK
<1>8. AnswersOK(answers'[v], calls[v], exports[v], imports'[v])
  BY <1>5, <1>6, EntryRemoved DEF VatOK
<1>9. QueuesOK(answers'[v], rejecting[v])
  <2>1. PICK Q, R, S : Q = answers[v] /\ R = rejecting[v] /\ S = answers'[v]
    OBVIOUS
  <2>2. QueuesOK(Q, R) /\ id \in DOMAIN Q /\ Q[id].done /\ S = Remove(Q, id)
    BY <1>3, <1>5, <1>6, <2>1 DEF VatOK
  <2>. QED
    BY <2>1, <2>2, QueuesRemove
<1>10. /\ OnlyOf(v, imports, imports')
       /\ delivered' \in Seq([at : Vat, object : Object, from : Vat, n : Nat])
  BY <1>2, OfVat, Unchanged
<1>11. working' \in [Vat -> BOOLEAN]
  BY <1>2, <1>3, <1>5
<1>12. EntriesStay(answers[v], answers'[v]) /\ QueuedWas(answers[v], answers'[v])
  <2>1. EntriesStay(answers[v], answers[v])
    BY EntriesAlike
  <2>2. /\ DOMAIN answers'[v] = DOMAIN answers[v] \ {id}
        /\ \A t \in DOMAIN answers'[v] : answers'[v][t] = answers[v][t] /\ t \in DOMAIN answers[v]
        /\ \A t \in DOMAIN answers[v] : ~answers[v][t].done => t \in DOMAIN answers'[v]
    BY <1>3, <1>6 DEF Remove
  <2>3. EntriesStay(answers[v], answers'[v])
    BY <2>1, <2>2 DEF EntriesStay
  <2>4. QueuedWas(answers[v], answers'[v])
    BY <2>2 DEF QueuedWas
  <2>. QED
    BY <2>3, <2>4
<1>. QED
  BY <1>2, <1>3, <1>4, <1>6, <1>7, <1>8, <1>9, <1>10, <1>11, <1>12, ReadHolds

LEMMA HandleCallQueuedHolds ==
  ASSUME Inv, [Next]_vars, NEW v \in Vat, HandleCallQueued(v)
  PROVE  Upholds(v)
<1>1. PICK m, c, t, id, Q : /\ m = Head(net[v]) /\ c = Param(v, m) /\ t = m.target.id /\ id = m.id
                            /\ Q = answers[v]
  OBVIOUS
<1>2. /\ Handles(v, "call") /\ imports' = [imports EXCEPT ![v] = Populated(v, m.cap)]
      /\ Kind(v, Route(v, m)) \in {"queue"}
  BY <1>1 DEF HandleCallQueued, Routed
<1>3. /\ m \in Message /\ m.k = "call" /\ m.id \in Nat /\ m.n \in Nat
      /\ c \in Client /\ Known(c, exports[v], imports'[v])
      /\ OnlyOf(v, imports, imports') /\ DOMAIN imports[v] \subseteq DOMAIN imports'[v]
      /\ ImportsOK(imports'[v])
  BY <1>1, <1>2, CallRead
<1>4. t \in DOMAIN Q /\ t # id /\ ~Q[t].done /\ Len(Q[t].queue) < CallQueueSize
  <2>1. PICK r : r = Route(v, m)
    OBVIOUS
  <2>2. r.k = "queue"
    BY <1>2, <2>1 DEF Kind
  <2>3. r \notin Client
    BY <2>2 DEF Client
  <2>. QED
    BY <1>1, <2>1, <2>3, RouteKnown
<1>f. /\ id \in Nat /\ id \notin DOMAIN Q
      /\ \A q \in DOMAIN Q : ~AwaitedCall(Q, q, m.n)
      /\ \A u \in DOMAIN Q : ~Q[u].done => Q[u].n # m.n
      /\ \A x, u \in DOMAIN Q : ~Q[x].done /\ ~Q[u].done /\ Q[x].n = Q[u].n => x = u
  BY <1>1, <1>2, FreshCall
<1>5. PICK callee, a, b : /\ callee = [k |-> "answer", id |-> Q[t].n] /\ a = NewAnswer(m, callee, c)
                          /\ b = [Q[t] EXCEPT !.queue = Append(@, id)]
  OBVIOUS
<1>6. /\ answers' = [answers EXCEPT ![v] = Put(QueueCall(Q, t, id), id, a)]
      /\ Reply(v, <<>>)
      /\ UNCHANGED <<questionID, questions, calls, exports, main, working, rejecting, delivered>>
  <2>1. answers' = [answers EXCEPT ![v] =
          Put(QueueCall(answers[v], Head(net[v]).target.id, Head(net[v]).id), Head(net[v]).id,
              NewAnswer(Head(net[v]), [k |-> "answer", id |-> answers[v][Head(net[v]).target.id].n],
                        Param(v, Head(net[v]))))]
    BY DEF HandleCallQueued
  <2>2. answers' = [answers EXCEPT ![v] = Put(QueueCall(Q, t, id), id, a)]
    BY <1>1, <1>5, <2>1
  <2>. QED
    BY <2>2 DEF HandleCallQueued
<1>7. /\ VatOK(v) /\ DOMAIN answers = Vat /\ working \in [Vat -> BOOLEAN]
      /\ delivered \in Seq([at : Vat, object : Object, from : Vat, n : Nat])
  BY OfVat
<1>8. PICK S : S = answers'[v] /\ S = Put(QueueCall(Q, t, id), id, a) /\ OnlyOf(v, answers, answers')
               /\ answers'[Peer(v)] = answers[Peer(v)]
  <2>1. OnlyOf(v, answers, answers') /\ answers'[v] = Put(QueueCall(Q, t, id), id, a)
    BY <1>6, <1>7, Changed
  <2>. QED
    BY <2>1 DEF OnlyOf
<1>9. QueuesOK(Q, rejecting[v]) /\ Typed(Q) /\ AnswersOK(Q, calls[v], exports[v], imports[v])
  BY <1>1, <1>7, EntriesAlike DEF VatOK
<1>10. Q[t] \in AnswerRecord /\ Q[t].n \in Nat /\ Q[t].queue \in Seq(Nat)
  BY <1>4, <1>9 DEF Typed, AnswerRecord
<1>11. callee \in Callee /\ callee.k = "answer" /\ callee.id = Q[t].n
  BY <1>5, <1>10 DEF Callee
<1>12. /\ EntryOK(a, calls[v], exports[v], imports'[v]) /\ a.n = m.n /\ ~a.done
       /\ a.queue = <<>> /\ a.stuck = <<>> /\ a.callee = callee
  <2>1. PICK C, E, I : C = calls[v] /\ E = exports[v] /\ I = imports'[v]
    OBVIOUS
  <2>2. Known(c, E, I) /\ ForwardedTo(callee, C)
    BY <1>3, <1>11, <2>1 DEF ForwardedTo
  <2>3. /\ EntryOK(a, C, E, I) /\ a.n = m.n /\ ~a.done
        /\ a.queue = <<>> /\ a.stuck = <<>> /\ a.callee = callee
    BY <1>3, <1>5, <1>11, <2>2, EntryForCall
  <2>. QED
    BY <2>1, <2>3
<1>13. /\ b.n = Q[t].n /\ b.done = Q[t].done /\ b.ok = Q[t].ok /\ b.cap = Q[t].cap
       /\ b.queue = Append(Q[t].queue, id) /\ b.stuck = Q[t].stuck /\ b.callee = Q[t].callee
       /\ b.param = Q[t].param /\ b \in AnswerRecord
  <2>1. b = [Q[t] EXCEPT !.queue = Append(Q[t].queue, id)] /\ Append(Q[t].queue, id) \in Seq(Nat)
    BY <1>5, <1>10, <1>f
  <2>. QED
    BY <1>10, <2>1 DEF AnswerRecord
<1>14. QueueCall(Q, t, id) = [Q EXCEPT ![t] = b]
  BY <1>5 DEF QueueCall
<1>15. /\ DOMAIN S = DOMAIN Q \cup {id} /\ S[id] = a /\ S[t] = b
       /\ \A u \in DOMAIN Q : u # t => S[u] = Q[u]
  BY <1>4, <1>f, <1>8, <1>14 DEF Put
<1>16. AnswersOK(S, calls[v], exports[v], imports'[v])
  <2>1. PICK C, E, I, F : C = calls[v] /\ E = exports[v] /\ I = imports'[v] /\ F = QueueCall(Q, t, id)
    OBVIOUS
  <2>2. AnswersOK(Q, C, E, I)
    BY <1>3, <1>9, <2>1, AnswersStay, CallsAlike
  <2>3. EntryOK(Q[t], C, E, I)
    BY <1>4, <2>2 DEF AnswersOK
  <2>4. EntryOK(b, C, E, I)
    BY <1>13, <2>3 DEF EntryOK
  <2>5. AnswersOK(F, C, E, I)
    BY <1>4, <1>14, <2>1, <2>2, <2>4, EntrySet
  <2>6. EntryOK(a, C, E, I)
    BY <1>12, <2>1
  <2>7. AnswersOK(S, C, E, I)
    BY <1>f, <1>8, <2>1, <2>5, <2>6, EntryPut
  <2>. QED
    BY <2>1, <2>7
<1>17. QueuesOK(S, rejecting[v])
  <2>1. PICK R : R = rejecting[v]
    OBVIOUS
  <2>2. QueuesOK(Q, R)
    BY <1>9, <2>1
  <2>3. 0 <= CallQueueSize /\ CallQueueSize \in Nat
    BY BoundsAssumption
  <2>4. a.callee = [k |-> "answer", id |-> Q[t].n]
    BY <1>5, <1>12
  <2>5. \A q \in DOMAIN Q : ~AwaitedCall(Q, q, a.n)
    BY <1>12, <1>f
  <2>6. \A u \in DOMAIN Q : ~Q[u].done => Q[u].n # a.n /\ (Q[u].n = Q[t].n => u = t)
    BY <1>4, <1>12, <1>f
  <2>7. QueuesOK(S, R)
    BY <1>4, <1>8, <1>9, <1>12, <1>f, <2>2, <2>3, <2>4, <2>5, <2>6, QueuesQueue
  <2>. QED
    BY <2>1, <2>7
<1>18. Steps(v)
  <2>1. id = Head(net[v]).id /\ a.n = Head(net[v]).n /\ a = answers'[v][id] /\ a.ok \in BOOLEAN
    BY <1>1, <1>8, <1>12, <1>15 DEF EntryOK, AnswerRecord
  <2>2. AcceptedAs(answers[v], answers'[v], id)
    <3>1. answers[v] = Q /\ answers'[v] = S
      BY <1>1, <1>8
    <3>2. ASSUME NEW x \in DOMAIN Q PROVE SameEntry(S[x], Q[x])
      BY <1>13, <1>15, <3>2 DEF SameEntry
    <3>3. AcceptedAs(Q, S, id)
      BY <1>15, <3>2 DEF AcceptedAs
    <3>. QED
      BY <3>1, <3>3
  <2>3. ~a.done /\ a.callee.k # "none" /\ Reply(v, <<>>)
    BY <1>6, <1>11, <1>12
  <2>4. questionID' = questionID /\ questions' = questions /\ calls' = calls /\ working' = working
    BY <1>6
  <2>. QED
    BY <1>2, <1>8, <2>1, <2>2, <2>3, <2>4, AcceptingSteps
<1>19. EntriesStay(Q, S)
  <2>1. EntriesStay(Q, Q)
    BY <1>1, EntriesAlike
  <2>. QED
    BY <1>13, <1>15, <2>1 DEF EntriesStay
<1>20. QueuedWas(Q, S)
  <2>1. t \in DOMAIN S /\ S[t].n = a.callee.id /\ ~S[t].done
    BY <1>4, <1>11, <1>12, <1>13, <1>15
  <2>2. \A q \in DOMAIN Q : /\ q \in DOMAIN S /\ S[q].callee = Q[q].callee
                            /\ (S[q].done <=> Q[q].done)
    <3>1. \A q \in DOMAIN Q : S[q].done = Q[q].done
      BY <1>13, <1>15
    <3>. QED
      BY <1>13, <1>15, <3>1
  <2>. QED
    BY <1>15, <2>1, <2>2 DEF QueuedWas
<1>21. /\ net[v] # <<>> /\ net'[v] = Tail(net[v]) /\ net'[Peer(v)] = net[Peer(v)] /\ DOMAIN net' = Vat
  BY <1>2, <1>6, HeadFacts, WhenRead, NetReplied DEF Inv
<1>22. ChannelOK(net'[Peer(v)], exports[Peer(v)])
  BY <1>21, PeerFacts, OfVat DEF VatOK
<1>23. /\ AnswersOK(answers'[v], calls[v], exports[v], imports'[v]) /\ QueuesOK(answers'[v], rejecting[v])
       /\ EntriesStay(answers[v], answers'[v]) /\ QueuedWas(answers[v], answers'[v])
  BY <1>1, <1>8, <1>16, <1>17, <1>19, <1>20
<1>24. /\ working' \in [Vat -> BOOLEAN]
       /\ delivered' \in Seq([at : Vat, object : Object, from : Vat, n : Nat])
  BY <1>6, <1>7
<1>. QED
  BY <1>3, <1>6, <1>8, <1>18, <1>21, <1>22, <1>23, <1>24, ReadHolds

LEMMA HandleCallForwardedHolds ==
  ASSUME Inv, [Next]_vars, NEW v \in Vat, HandleCallForwarded(v)
  PROVE  Upholds(v)
<1>1. PICK m, c, r, id, N, target, d :
        /\ m = Head(net[v]) /\ c = Param(v, m) /\ r = Route(v, m) /\ id = m.id
        /\ N = Len(calls[v]) + 1 /\ target = [k |-> "importedCap", id |-> r.id]
        /\ d = DescriptorFor(v, c)
  OBVIOUS
<1>2. /\ Handles(v, "call") /\ imports' = [imports EXCEPT ![v] = Populated(v, m.cap)]
      /\ Kind(v, r) \in {"import"}
  BY <1>1 DEF HandleCallForwarded, Routed
<1>3. /\ m \in Message /\ m.k = "call" /\ m.id \in Nat /\ m.n \in Nat /\ m.method \in Method
      /\ c \in Client /\ Known(c, exports[v], imports'[v])
      /\ OnlyOf(v, imports, imports') /\ DOMAIN imports[v] \subseteq DOMAIN imports'[v]
      /\ ImportsOK(imports'[v])
  BY <1>1, <1>2, CallRead
<1>f. /\ id \in Nat /\ id \notin DOMAIN answers[v]
      /\ \A q \in DOMAIN answers[v] : ~AwaitedCall(answers[v], q, m.n)
  BY <1>1, <1>2, FreshCall
<1>4. target \in Target
  <2>1. r.k = "import"
    BY <1>2 DEF Kind
  <2>2. r # QueueClient
    BY <2>1 DEF QueueClient
  <2>3. r \in Client
    BY <1>1, <2>2, RouteKnown
  <2>. QED
    BY <1>1, <2>3 DEF Client, Target
<1>5. PICK on, callee, a, f :
        /\ on = [k |-> "answer", n |-> m.n] /\ callee = [k |-> "question", id |-> N]
        /\ a = NewAnswer(m, callee, c) /\ f = CallMessage(v, target, m.method, c)
  OBVIOUS
<1>6. /\ answers' = [answers EXCEPT ![v] = Put(answers[v], id, a)]
      /\ NewQuestion(v, on, "forward")
      /\ exports' = [exports EXCEPT ![v] = Described(v, c)]
      /\ Reply(v, <<f>>)
      /\ main' = main /\ working' = working /\ rejecting' = rejecting /\ delivered' = delivered
  BY <1>1, <1>5 DEF HandleCallForwarded
<1>7. /\ OnlyOf(v, questionID, questionID') /\ OnlyOf(v, questions, questions')
      /\ OnlyOf(v, calls, calls')
      /\ CallsOK(calls'[v], exports[v], imports[v]) /\ CallsKept(calls[v], calls'[v])
      /\ StillAsked(questions[v], questions'[v], calls'[v])
      /\ N \in DOMAIN calls'[v] /\ calls'[v][N].route = "forward"
      /\ IdNext(questionID[v]) \in Nat /\ N \in Nat
  <2>1. on \in Origin /\ "forward" \in Routes
    BY <1>3, <1>5 DEF Origin, Routes
  <2>. QED
    BY <1>1, <1>6, <2>1, NewQuestionOK
<1>8. /\ VatOK(v) /\ VatOK(Peer(v)) /\ Sound(v) /\ DOMAIN answers = Vat /\ DOMAIN exports = Vat
      /\ DOMAIN calls = Vat /\ DOMAIN questions = Vat /\ DOMAIN questionID = Vat
  BY PeerFacts, OfVat
<1>9. OnlyOf(v, exports, exports') /\ exports'[v] = Described(v, c)
  BY <1>6, <1>8, Changed
<1>10. DOMAIN imports'[v] \subseteq DOMAIN exports[Peer(v)]
  <2>1. CountsInv'
    BY NextKeeps DEF Inv
  <2>2. DOMAIN imports'[v] \subseteq DOMAIN exports'[Peer(v)]
    BY <2>1 DEF CountsInv
  <2>. QED
    BY <1>9, <2>2 DEF OnlyOf
<1>11. /\ DOMAIN exports[v] \subseteq DOMAIN exports'[v] /\ ExportsOK(exports'[v], imports'[v])
       /\ d \in Descriptor /\ (d.k = "receiverHosted" => d.id \in DOMAIN exports[Peer(v)])
  <2>1. PICK I : I = imports'[v]
    OBVIOUS
  <2>2. /\ DOMAIN imports[v] \subseteq DOMAIN I /\ DOMAIN I \subseteq DOMAIN exports[Peer(v)]
        /\ Known(c, exports[v], I)
    BY <1>3, <1>10, <2>1
  <2>3. /\ DOMAIN exports[v] \subseteq DOMAIN Described(v, c) /\ ExportsOK(Described(v, c), I)
        /\ DescriptorFor(v, c) \in Descriptor
        /\ (DescriptorFor(v, c).k = "receiverHosted" => DescriptorFor(v, c).id \in DOMAIN exports[Peer(v)])
    BY <1>3, <2>2, DescribedNow
  <2>. QED
    BY <1>1, <1>9, <2>1, <2>3
<1>12. /\ Fits(f, exports[Peer(v)]) /\ f.k = "call"
       /\ f.id = IdNext(questionID[v]) /\ f.n = Len(calls[v]) + 1
  <2>1. PICK method : method = m.method
    OBVIOUS
  <2>2. IdNext(questionID[v]) \in Nat /\ Len(calls[v]) + 1 \in Nat
    BY <1>1, <1>7
  <2>3. f = CallMessage(v, target, method, c) /\ method \in Method
    BY <1>3, <1>5, <2>1
  <2>. QED
    BY <1>1, <1>4, <1>11, <2>2, <2>3, CallMessageFits
<1>13. /\ net'[v] = Tail(net[v]) /\ net'[Peer(v)] = net[Peer(v)] \o <<f>> /\ DOMAIN net' = Vat
       /\ Takes(net[v], net'[v]) /\ Adds(net[Peer(v)], net'[Peer(v)], f) /\ net[v] # <<>>
  <2>1. f \in Message
    BY <1>12 DEF Fits
  <2>. QED
    BY <1>2, <1>6, <2>1, WhenAnswered, HeadFacts, NetReplied DEF Inv
<1>14. /\ OnlyOf(v, answers, answers') /\ answers'[v] = Put(answers[v], id, a)
       /\ answers'[Peer(v)] = answers[Peer(v)]
  <2>1. OnlyOf(v, answers, answers') /\ answers'[v] = Put(answers[v], id, a)
    BY <1>6, <1>8, Changed
  <2>. QED
    BY <2>1 DEF OnlyOf
<1>15. /\ DOMAIN answers'[v] = DOMAIN answers[v] \cup {id} /\ answers'[v][id] = a
       /\ \A t \in DOMAIN answers[v] : answers'[v][t] = answers[v][t]
  BY <1>f, <1>14 DEF Put
<1>16. /\ EntryOK(a, calls'[v], exports'[v], imports'[v]) /\ a.n = m.n /\ ~a.done
       /\ a.queue = <<>> /\ a.stuck = <<>> /\ a.callee = callee /\ callee.k = "question"
  <2>1. PICK C, E, I : C = calls'[v] /\ E = exports'[v] /\ I = imports'[v]
    OBVIOUS
  <2>2. callee \in Callee /\ callee.k = "question" /\ callee.id = N
    BY <1>5, <1>7 DEF Callee
  <2>3. ForwardedTo(callee, C)
    BY <1>7, <2>1, <2>2 DEF ForwardedTo
  <2>4. Known(c, E, I)
    BY <1>3, <1>11, <2>1, KnownStays
  <2>5. /\ EntryOK(a, C, E, I) /\ a.n = m.n /\ ~a.done
        /\ a.queue = <<>> /\ a.stuck = <<>> /\ a.callee = callee
    BY <1>3, <1>5, <2>2, <2>3, <2>4, EntryForCall
  <2>. QED
    BY <2>1, <2>2, <2>5
<1>17. Steps(v)
  <2>1. StillWorking /\ Still(Peer(v))
    BY <1>6, <1>7, PeerStill DEF StillWorking
  <2>2. f.k \in AskKinds
    BY <1>12 DEF AskKinds
  <2>3. /\ Asks(net'[Peer(v)]) = Append(Asks(net[Peer(v)]), AskMessage(f))
        /\ Replies(net'[Peer(v)]) = Replies(net[Peer(v)])
    BY <1>13, <2>2 DEF Adds
  <2>4. AskMessage(f) = [k |-> "call", id |-> IdNext(questionID[v]), call |-> Len(calls[v]) + 1]
    BY <1>12 DEF AskMessage
  <2>5. AcceptedAs(answers[v], answers'[v], id)
    BY <1>15 DEF AcceptedAs, SameEntry
  <2>6. id = Head(net[v]).id /\ a = answers'[v][id] /\ a.n = Head(net[v]).n /\ a.ok \in BOOLEAN
    BY <1>1, <1>15, <1>16 DEF EntryOK, AnswerRecord
  <2>7. ~a.done /\ a.callee.k # "none" /\ Replies(net'[Peer(v)]) = Replies(net[Peer(v)])
    BY <1>16, <2>3
  <2>8. Step(Peer(v)) /\ Replies(net'[v]) = Replies(net[v])
    BY <1>2, <1>13, <2>1, <2>5, <2>6, <2>7, AcceptingStep
  <2>9. calls[v] \in Seq(CallRecord)
    BY CallTypes
  <2>10. Step(v)
    BY <1>6, <1>8, <1>14, <2>1, <2>3, <2>4, <2>8, <2>9, AskStep
  <2>. QED
    BY <2>8, <2>10 DEF Steps
<1>18. CallsOK(calls'[v], exports'[v], imports'[v])
  BY <1>3, <1>7, <1>11, CallsStay
<1>19. AnswersOK(answers'[v], calls'[v], exports'[v], imports'[v])
  <2>1. PICK Q, C, E, I, S : /\ Q = answers[v] /\ C = calls'[v] /\ E = exports'[v] /\ I = imports'[v]
                             /\ S = answers'[v]
    OBVIOUS
  <2>2. AnswersOK(Q, calls[v], exports[v], imports[v])
    BY <1>8, <2>1 DEF VatOK
  <2>3. AnswersOK(Q, C, E, I)
    BY <1>3, <1>7, <1>11, <2>1, <2>2, AnswersStay
  <2>4. S = Put(Q, id, a) /\ EntryOK(a, C, E, I)
    BY <1>14, <1>16, <2>1
  <2>5. AnswersOK(S, C, E, I)
    BY <1>f, <2>3, <2>4, EntryPut
  <2>. QED
    BY <2>1, <2>5
<1>20. QueuesOK(answers'[v], rejecting'[v])
  <2>1. PICK Q, R, S : Q = answers[v] /\ R = rejecting[v] /\ S = answers'[v]
    OBVIOUS
  <2>2. QueuesOK(Q, R) /\ id \notin DOMAIN Q /\ S = Put(Q, id, a)
    BY <1>f, <1>8, <1>14, <2>1 DEF VatOK
  <2>3. ~a.done => \A q \in DOMAIN Q : ~AwaitedCall(Q, q, a.n)
    BY <1>f, <1>16, <2>1
  <2>4. 0 <= CallQueueSize /\ (a.done \/ a.callee.k # "answer")
    BY <1>16, BoundsAssumption
  <2>5. QueuesOK(S, R)
    BY <1>16, <2>2, <2>3, <2>4, QueuesPut
  <2>. QED
    BY <1>6, <2>1, <2>5
<1>21. Preserves(v)
  <2>1. ReadFrom(net[v], net'[v])
    BY <1>13 DEF ReadFrom
  <2>. QED
    BY <1>3, <1>7, <1>11, <1>18, <1>19, <1>20, <2>1 DEF Preserves
<1>22. Changes(v)
  <2>1. ChannelOK(net'[Peer(v)], exports[Peer(v)])
    BY <1>8, <1>12, <1>13, ChannelWritten DEF VatOK
  <2>2. /\ OnlyOf(v, rejecting, rejecting') /\ main' \in [Vat -> BOOLEAN] /\ working' \in [Vat -> BOOLEAN]
        /\ delivered' \in Seq([at : Vat, object : Object, from : Vat, n : Nat])
    BY <1>6, OfVat, Unchanged
  <2>. QED
    BY <1>3, <1>7, <1>9, <1>13, <1>14, <2>1, <2>2 DEF Changes
<1>23. EntriesStay(answers[v], answers'[v]) /\ QueuedWas(answers[v], answers'[v])
  <2>1. EntriesStay(answers[v], answers[v])
    BY EntriesAlike
  <2>2. EntriesStay(answers[v], answers'[v])
    BY <1>15, <2>1 DEF EntriesStay
  <2>3. QueuedWas(answers[v], answers'[v])
    BY <1>15, <1>16 DEF QueuedWas
  <2>. QED
    BY <2>2, <2>3
<1>. QED
  BY <1>17, <1>21, <1>22, <1>23, VatKept, KeepsInv

\* The Return is for a question that is in the table, and what it carries is
\* counted.
LEMMA HandleReturnHolds ==
  ASSUME Inv, [Next]_vars, NEW v \in Vat, HandleReturn(v)
  PROVE  Upholds(v)
<1>1. PICK m : m = Head(net[v])
  OBVIOUS
<1>2. PICK n : n = questions[v][m.id]
  OBVIOUS
<1>3. /\ Steps(v) /\ m \in Message /\ m.k = "return"
      /\ m.id \in DOMAIN questions[v] /\ n \in Nat \ {0} /\ n \in DOMAIN calls[v]
      /\ FindQuestion(v, m.id) = n /\ Populates(v, m.cap) /\ calls[v][n].id = m.id
  BY <1>1, <1>2, ReturningSteps
<1>4. m.ok \in BOOLEAN /\ m.id \in Nat /\ m.cap \in Descriptor
  BY <1>3, MessageKind
<1>5. PICK id, d, f : /\ id = m.id /\ d = m.cap
                      /\ f = [k |-> "finish", id |-> m.id, releaseResultCaps |-> ~m.ok]
  OBVIOUS
<1>6. PICK s, c, r : /\ s = (IF m.ok THEN "results" ELSE "exception") /\ c = ClientFor(v, d, r)
                     /\ r = -n
  OBVIOUS
<1>7. /\ questions' = [questions EXCEPT ![v][id] = 0]
      /\ questionID' = [questionID EXCEPT ![v] = IdRemove(questionID[v], id)]
      /\ imports' = [imports EXCEPT ![v] = Populated(v, d)]
      /\ working' = [working EXCEPT ![v] = TRUE]
      /\ calls' = [calls EXCEPT ![v][n].state = s, ![v][n].cap = c]
      /\ Handles(v, "return") /\ Reply(v, <<f>>)
      /\ UNCHANGED <<answers, exports, main, rejecting, delivered>>
  BY <1>1, <1>3, <1>5, <1>6 DEF HandleReturn, PopQuestion
<1>8. /\ VatOK(v) /\ VatOK(Peer(v)) /\ DOMAIN questions = Vat /\ DOMAIN questionID = Vat
      /\ DOMAIN imports = Vat /\ DOMAIN calls = Vat /\ working \in [Vat -> BOOLEAN]
      /\ calls[v][n] \in CallRecord
  BY <1>3, PeerFacts, OfVat, CallTypes
<1>9. /\ DOMAIN imports[v] \subseteq DOMAIN Populated(v, d) /\ ImportsOK(Populated(v, d))
      /\ c \in Client /\ Known(c, exports[v], Populated(v, d))
  <2>1. r \in Int /\ d \in Descriptor /\ Populates(v, d)
    BY <1>3, <1>4, <1>5, <1>6
  <2>. QED
    BY <1>6, <2>1, PopulatedOK
<1>10. PICK b : b = [[calls[v][n] EXCEPT !.state = s] EXCEPT !.cap = c]
  OBVIOUS
<1>11. calls' = [calls EXCEPT ![v] = [calls[v] EXCEPT ![n] = b]]
  BY <1>7, <1>8, <1>10
<1>12. /\ b \in CallRecord /\ b.cap = c /\ b.id = calls[v][n].id
       /\ b.route = calls[v][n].route
  <2>1. s \in {"results", "exception"}
    BY <1>6
  <2>. QED
    BY <1>8, <1>9, <1>10, <2>1 DEF CallRecord
<1>13. questions' = [questions EXCEPT ![v] = [questions[v] EXCEPT ![id] = 0]]
  BY <1>7
<1>14. /\ calls'[v] = [calls[v] EXCEPT ![n] = b] /\ OnlyOf(v, calls, calls')
       /\ questions'[v] = [questions[v] EXCEPT ![id] = 0] /\ OnlyOf(v, questions, questions')
       /\ OnlyOf(v, questionID, questionID')
       /\ imports'[v] = Populated(v, d) /\ OnlyOf(v, imports, imports')
  BY <1>7, <1>8, <1>11, <1>13, Changed
<1>15. /\ OnlyOf(v, answers, answers') /\ answers'[v] = answers[v]
       /\ OnlyOf(v, exports, exports') /\ exports'[v] = exports[v]
       /\ OnlyOf(v, rejecting, rejecting') /\ rejecting'[v] = rejecting[v]
  BY <1>7, OfVat, Unchanged
<1>16. f \in Message /\ Fits(f, exports[Peer(v)])
  <2>1. f \in Message /\ f.k = "finish"
    BY <1>4, <1>5 DEF Message
  <2>. QED
    BY <2>1 DEF Fits
<1>17. /\ net[v] # <<>> /\ net'[v] = Tail(net[v]) /\ net'[Peer(v)] = net[Peer(v)] \o <<f>>
       /\ DOMAIN net' = Vat
  BY <1>7, <1>16, HeadFacts, WhenAnswered, NetReplied DEF Inv
<1>18. CallsOK(calls'[v], exports'[v], imports'[v]) /\ CallsKept(calls[v], calls'[v])
  <2>1. PICK C, B, E, I, J : /\ C = calls[v] /\ B = calls'[v] /\ E = exports[v]
                             /\ I = imports[v] /\ J = imports'[v]
    OBVIOUS
  <2>2. CallsOK(C, E, J)
    BY <1>8, <1>9, <1>14, <2>1, CallsStay DEF VatOK
  <2>3. Known(b.cap, E, J)
    BY <1>9, <1>12, <1>14, <2>1
  <2>4. B = [C EXCEPT ![n] = b] /\ n \in DOMAIN C /\ b.id = C[n].id /\ b.route = C[n].route
    BY <1>3, <1>12, <1>14, <2>1
  <2>5. CallsOK(B, E, J) /\ CallsKept(C, B)
    BY <1>12, <2>2, <2>3, <2>4, CallReplaced
  <2>. QED
    BY <1>15, <2>1, <2>5
<1>19. AnswersOK(answers'[v], calls'[v], exports'[v], imports'[v])
  <2>1. /\ AnswersOK(answers[v], calls[v], exports[v], imports[v])
        /\ DOMAIN imports[v] \subseteq DOMAIN imports'[v]
    BY <1>8, <1>9, <1>14 DEF VatOK
  <2>2. AnswersOK(answers[v], calls'[v], exports[v], imports'[v])
    BY <1>18, <2>1, AnswersStay
  <2>. QED
    BY <1>15, <2>2
<1>20. ExportsOK(exports'[v], imports'[v]) /\ ImportsOK(imports'[v])
  BY <1>8, <1>9, <1>14, <1>15, ExportsStay DEF VatOK
<1>21. StillAsked(questions[v], questions'[v], calls'[v])
  <2>1. \A x \in DOMAIN questions'[v] : questions'[v][x] # 0 =>
          x \in DOMAIN questions[v] /\ questions'[v][x] = questions[v][x]
    BY <1>3, <1>5, <1>14
  <2>. QED
    BY <2>1 DEF StillAsked
<1>22. Preserves(v)
  <2>1. QueuesOK(answers'[v], rejecting'[v]) /\ DOMAIN exports[v] \subseteq DOMAIN exports'[v]
    BY <1>8, <1>15 DEF VatOK
  <2>2. ReadFrom(net[v], net'[v])
    BY <1>17 DEF ReadFrom
  <2>. QED
    BY <1>18, <1>19, <1>20, <1>21, <2>1, <2>2 DEF Preserves
<1>23. Changes(v)
  <2>1. ChannelOK(net'[Peer(v)], exports[Peer(v)])
    BY <1>8, <1>16, <1>17, ChannelWritten DEF VatOK
  <2>2. /\ working' \in [Vat -> BOOLEAN] /\ main' \in [Vat -> BOOLEAN]
        /\ delivered' \in Seq([at : Vat, object : Object, from : Vat, n : Nat])
    BY <1>7, <1>8, OfVat
  <2>. QED
    BY <1>14, <1>15, <1>17, <2>1, <2>2 DEF Changes
<1>24. EntriesStay(answers[v], answers'[v]) /\ QueuedWas(answers[v], answers'[v])
  BY <1>15, EntriesAlike
<1>. QED
  BY <1>3, <1>22, <1>23, <1>24, VatKept, KeepsInv

-----------------------------------------------------------------------------
(* Every step. *)

LEMMA HandleMessageHolds ==
  ASSUME Inv, [Next]_vars, NEW v \in Vat, HandleMessage(v)
  PROVE  Upholds(v)
BY HandleBootstrapHolds, HandleCallRefusedHolds, HandleCallRejectedHolds, HandleCallDeliveredHolds,
   HandleCallForwardedHolds, HandleCallQueuedHolds, HandleReturnHolds, HandleFinishHolds,
   HandleUnimplementedHolds DEF HandleMessage

LEMMA StutterHolds ==
  ASSUME Inv, UNCHANGED vars, NEW v \in Vat
  PROVE  Upholds(v)
<1>2. /\ questionID' = questionID /\ questions' = questions /\ answers' = answers
      /\ rejecting' = rejecting /\ net' = net /\ working' = working
      /\ calls' = calls /\ exports' = exports /\ imports' = imports /\ main' = main
      /\ delivered' = delivered
  BY DEF vars
<1>3. VatOK(v) /\ DOMAIN calls = Vat /\ DOMAIN exports = Vat /\ DOMAIN imports = Vat
      /\ main \in [Vat -> BOOLEAN]
      /\ delivered \in Seq([at : Vat, object : Object, from : Vat, n : Nat])
  BY OfVat
<1>4. OnlyOf(v, calls, calls') /\ OnlyOf(v, exports, exports') /\ OnlyOf(v, imports, imports')
  BY <1>2, <1>3, Unchanged
<1>5. Steps(v)
  BY <1>2, <1>4, SameCalls, QuietSteps
<1>6. /\ CallsKept(calls[v], calls'[v]) /\ CallsOK(calls'[v], exports'[v], imports'[v])
      /\ ExportsOK(exports'[v], imports'[v]) /\ ImportsOK(imports'[v])
  BY <1>2, <1>3, CallsAlike DEF VatOK
<1>. QED
  BY <1>2, <1>3, <1>4, <1>5, <1>6, QuietHolds

LEMMA StepHolds ==
  ASSUME Inv, [Next]_vars
  PROVE  \E v \in Vat : Upholds(v)
<1>1. CASE UNCHANGED vars
  <2>1. PICK v : v \in Vat
    BY FS_EmptySet, VatAssumption
  <2>. QED
    BY <1>1, <2>1, StutterHolds
<1>2. CASE Next
  <2>1. PICK v \in Vat : \/ InitMain(v)
                         \/ AppCall(v)
                         \/ \E n \in DOMAIN calls[v] : Drop(v, n)
                         \/ RejectNext(v)
                         \/ \E id \in Ids : ServerEnds(v, id) \/ JoinEnds(v, id)
                         \/ \E n \in Ids : LocalEnds(v, n)
                         \/ HandleMessage(v)
    BY <1>2 DEF Next
  <2>2. CASE InitMain(v)
    BY <2>2, InitMainHolds
  <2>3. CASE AppCall(v)
    BY <2>3, AppCallHolds
  <2>4. CASE \E n \in DOMAIN calls[v] : Drop(v, n)
    BY <2>4, DropHolds
  <2>5. CASE RejectNext(v)
    BY <2>5, RejectNextHolds
  <2>6. ASSUME NEW id \in Ids, ServerEnds(v, id) PROVE Upholds(v)
    BY <2>6, ServerEndsHolds
  <2>7. ASSUME NEW id \in Ids, JoinEnds(v, id) PROVE Upholds(v)
    BY <2>7, JoinEndsHolds
  <2>8. ASSUME NEW n \in Ids, LocalEnds(v, n) PROVE Upholds(v)
    BY <2>8, LocalFinishHolds DEF LocalEnds
  <2>9. CASE HandleMessage(v)
    BY <2>9, HandleMessageHolds
  <2>. QED
    BY <2>1, <2>2, <2>3, <2>4, <2>5, <2>6, <2>7, <2>8, <2>9
<1>. QED
  BY <1>1, <1>2

LEMMA InvHolds ==
  ASSUME Inv, [Next]_vars
  PROVE  Inv' /\ \A v \in Vat : Step(v)
<1>1. PICK u \in Vat : Upholds(u)
  BY StepHolds
<1>. QED
  BY <1>1, PeerFacts DEF Upholds, Steps

\* The tables of both vats, the messages on their way and the queued calls agree,
\* and both directions of the connection are sound.
THEOREM Everything == Spec => []Inv
<1>1. Inv /\ [Next]_vars => Inv'
  BY InvHolds
<1>. QED
  BY InitInv, <1>1, PTL DEF Spec

\* The generators of the ids are a function of the vat.
IdGenerators == questionID = [v \in Vat |-> questionID[v]]
IdsMove == questionID' = questionID \/ \E v \in Vat : \E g : questionID' = [questionID EXCEPT ![v] = g]

LEMMA NextMovesIds == [Next]_vars => IdsMove
<1>0. ASSUME UNCHANGED vars PROVE IdsMove
  BY <1>0 DEF vars, IdsMove
<1>a. ASSUME NEW v \in Vat, NEW on, NEW c, NEW method, NEW arg, CallOn(v, on, c, method, arg)
      PROVE  IdsMove
  BY <1>a DEF CallOn, Ask, NewQuestion, CallHere, tables, IdsMove
<1>1. ASSUME NEW v \in Vat, InitMain(v) \/ RejectNext(v) PROVE IdsMove
  BY <1>1 DEF InitMain, RejectNext, IdsMove
<1>2. ASSUME NEW v \in Vat, AppCall(v) PROVE IdsMove
  <2>1. CASE Bootstrap(v)
    BY <2>1 DEF Bootstrap, NewQuestion, IdsMove
  <2>2. ASSUME NEW method, NEW arg, NEW m, PipelineCall(v, m, method, arg) PROVE IdsMove
    BY <1>a, <2>2 DEF PipelineCall, Ask, NewQuestion, IdsMove
  <2>3. ASSUME NEW method, NEW arg, NEW id, CallParam(v, id, method, arg) PROVE IdsMove
    BY <1>a, <2>3 DEF CallParam
  <2>. QED
    BY <1>2, <2>1, <2>2, <2>3 DEF AppCall
<1>3. ASSUME NEW v \in Vat, NEW n, Drop(v, n) PROVE IdsMove
  BY <1>3 DEF Drop, IdsMove
<1>4. ASSUME NEW v \in Vat, NEW id, ServerEnds(v, id) \/ JoinEnds(v, id) PROVE IdsMove
  BY <1>4 DEF ServerEnds, JoinEnds, ServerReturns, ServerThrows, JoinSettles, IdsMove
<1>5. ASSUME NEW v \in Vat, NEW n, LocalEnds(v, n) PROVE IdsMove
  BY <1>5 DEF LocalEnds, LocalFinish, tables, IdsMove
<1>6. ASSUME NEW v \in Vat, HandleMessage(v) PROVE IdsMove
  <2>1. HandleBootstrap(v) \/ HandleCallRefused(v) \/ HandleCallRejected(v) => IdsMove
    BY DEF HandleBootstrap, HandleCallRefused, HandleCallRejected, IdsMove
  <2>2. HandleCallDelivered(v) => IdsMove
    BY DEF HandleCallDelivered, IdsMove
  <2>3. HandleCallForwarded(v) => IdsMove
    BY DEF HandleCallForwarded, NewQuestion, IdsMove
  <2>4. HandleCallQueued(v) => IdsMove
    BY DEF HandleCallQueued, IdsMove
  <2>5. HandleReturn(v) => IdsMove
    BY DEF HandleReturn, IdsMove
  <2>6. HandleFinish(v) \/ HandleUnimplemented(v) => IdsMove
    BY DEF HandleFinish, HandleUnimplemented, tables, IdsMove
  <2>. QED
    BY <1>6, <2>1, <2>2, <2>3, <2>4, <2>5, <2>6 DEF HandleMessage
<1>. QED
  BY <1>0, <1>1, <1>2, <1>3, <1>4, <1>5, <1>6 DEF Next

LEMMA IdGeneratorsStay == Spec => []IdGenerators
<1>1. Init => IdGenerators
  BY DEF Init, IdGenerators
<1>2. IdGenerators /\ [Next]_vars => IdGenerators'
  <2>1. IdGenerators /\ IdsMove => IdGenerators'
    BY DEF IdGenerators, IdsMove
  <2>. QED
    BY <2>1, NextMovesIds
<1>. QED
  BY <1>1, <1>2, PTL DEF Spec

\* Type correctness: in particular ids of questions and answers are natural
\* numbers, and the question table has exactly the ids IDGen has handed out.
THEOREM TypeCorrect == Spec => []TypeOK
<1>1. Inv /\ IdGenerators => TypeOK
  <2> SUFFICES ASSUME Inv, IdGenerators PROVE TypeOK
    OBVIOUS
  <2>1. \A v \in Vat : VatOK(v)
    BY OfVat
  <2>2. /\ DOMAIN questionID = Vat /\ main \in [Vat -> BOOLEAN] /\ working \in [Vat -> BOOLEAN]
        /\ delivered \in Seq([at : Vat, object : Object, from : Vat, n : Nat])
    BY DEF Inv, TablesInv
  <2>3. questionID \in [Vat -> [i : Nat, free : Seq(Nat)]]
    BY <2>1, <2>2 DEF VatOK, QuestionsOK, IdGenerators
  <2>4. ASSUME NEW v \in Vat
        PROVE  /\ questions[v] \in [0 .. questionID[v].i - 1 -> Nat]
               /\ calls[v] \in Seq(CallRecord)
               /\ DOMAIN answers[v] \subseteq Nat
               /\ \A id \in DOMAIN answers[v] : answers[v][id] \in AnswerRecord
               /\ DOMAIN exports[v] \subseteq Nat
               /\ \A id \in DOMAIN exports[v] : exports[v][id] \in Export
               /\ DOMAIN imports[v] \subseteq Nat
               /\ \A id \in DOMAIN imports[v] : imports[v][id] \in ImportEntry
               /\ rejecting[v] \in Seq(Nat)
               /\ net[v] \in Seq(Message)
    <3>1. VatOK(v)
      BY <2>1
    <3>2. /\ DOMAIN answers[v] \subseteq Nat
          /\ \A id \in DOMAIN answers[v] : answers[v][id] \in AnswerRecord
      BY <3>1 DEF VatOK, AnswersOK, EntryOK
    <3>3. rejecting[v] \in Seq(Nat) /\ calls[v] \in Seq(CallRecord) /\ net[v] \in Seq(Message)
      BY <3>1 DEF VatOK, QueuesOK, CallsOK, ChannelOK
    <3>4. questions[v] \in [0 .. questionID[v].i - 1 -> Nat]
      BY <3>1 DEF VatOK, QuestionsOK
    <3>. QED
      BY <3>1, <3>2, <3>3, <3>4 DEF VatOK, ExportsOK, ImportsOK
  <2>. QED
    BY <2>2, <2>3, <2>4 DEF TypeOK
<1>. QED
  BY <1>1, Everything, IdGeneratorsStay, PTL

\* No handler throws: each Return finds its question, each Call a free answer id,
\* each Finish its answer and each descriptor its table entry, however the ids of
\* the two directions are used again.
THEOREM Protocol == Spec => []NoProtocolError
<1>1. Inv => NoProtocolError
  BY Mapped DEF Inv, NoProtocolError
<1>. QED
  BY <1>1, Everything, PTL

\* The wire references an exporter counts are those its peer counted, those on
\* their way, and the one of initMain().
THEOREM Accounting == Spec => []ExportAccounting
BY Protocol, Exports_AreAccounted, PTL

\* A call queued on an answer that is not done waits in the queue of that answer,
\* once; afterwards in its QueueClient or among those being rejected, never in both.
LEMMA InOnePlace == Inv => QueuedInOnePlace
<1> SUFFICES ASSUME Inv, NEW v \in Vat, NEW id \in DOMAIN answers[v], NEW a, a = answers[v][id],
                    NEW copies, copies = Cardinality(Places(v, id))
                      + Cardinality({j \in DOMAIN rejecting[v] : rejecting[v][j] = id})
             PROVE  IF a.callee.k = "answer" /\ ~a.done
                    THEN /\ copies <= 1
                         /\ \A t \in Waited(v, a) : \E j \in 1 .. CallQueueSize : Places(v, id) = {<<t, j>>}
                    ELSE copies = 0
  BY DEF QueuedInOnePlace
<1> DEFINE A == answers[v]
           R == rejecting[v]
           rejected == {j \in DOMAIN R : R[j] = id}
<1>1. QueuesOK(A, R) /\ a \in AnswerRecord
  BY OfVat DEF VatOK, AnswersOK, EntryOK
<1>q. QueuedOnce(A) /\ Distinct(R) /\ Apart(A, R) /\ QueuedWaits(A) /\ RejectedWaits(A, R)
  BY <1>1, QueuesParts
<1>2. /\ \A p \in Places(v, id) : \E t \in DOMAIN A, j \in 1 .. CallQueueSize : p = <<t, j>>
      /\ \A t, j : <<t, j>> \in Places(v, id) <=>
           /\ t \in DOMAIN A /\ j \in 1 .. CallQueueSize
           /\ j \in DOMAIN QueueOf(A[t]) /\ QueueOf(A[t])[j] = id
  <2>1. ASSUME NEW p \in Places(v, id)
        PROVE  \E t \in DOMAIN A, j \in 1 .. CallQueueSize : p = <<t, j>>
    <3>1. PICK W, N : W = DOMAIN A /\ N = 1 .. CallQueueSize
      OBVIOUS
    <3>2. p \in W \X N
      BY <3>1, Zenon DEF Places
    <3>3. PICK t \in W, j \in N : p = <<t, j>>
      BY ONLY <3>2
    <3>. QED
      BY <3>1, <3>3
  <2>2. ASSUME NEW t, NEW j
        PROVE  <<t, j>> \in Places(v, id) <=>
                 /\ t \in DOMAIN A /\ j \in 1 .. CallQueueSize
                 /\ j \in DOMAIN QueueOf(A[t]) /\ QueueOf(A[t])[j] = id
    BY DEF Places, QueueOf
  <2>. QED
    BY <2>1, <2>2, Zenon
<1>3. \A p, q \in Places(v, id) : p = q
  <2> SUFFICES ASSUME NEW p \in Places(v, id), NEW q \in Places(v, id) PROVE p = q
    OBVIOUS
  <2>1. PICK t, j : p = <<t, j>> /\ t \in DOMAIN A /\ j \in DOMAIN QueueOf(A[t]) /\ QueueOf(A[t])[j] = id
    BY <1>2
  <2>2. PICK u, k : q = <<u, k>> /\ u \in DOMAIN A /\ k \in DOMAIN QueueOf(A[u]) /\ QueueOf(A[u])[k] = id
    BY <1>2
  <2>. QED
    BY <1>q, <2>1, <2>2 DEF QueuedOnce
<1>4. \A j, k \in rejected : j = k
  BY <1>q DEF Distinct
<1>5. Places(v, id) = {} \/ rejected = {}
  BY <1>q, <1>2 DEF Apart
<1>6. Places(v, id) # {} \/ rejected # {} => a.callee.k = "answer" /\ ~a.done
  <2>1. CASE Places(v, id) # {}
    <3>1. PICK t, j : t \in DOMAIN A /\ j \in DOMAIN QueueOf(A[t]) /\ QueueOf(A[t])[j] = id
      BY <1>2, <2>1
    <3>2. AwaitedCall(A, id, A[t].n)
      BY <1>q, <3>1 DEF QueuedWaits
    <3>. QED
      BY <3>2 DEF AwaitedCall
  <2>2. CASE rejected # {}
    BY <1>q, <2>2 DEF RejectedWaits
  <2>. QED
    BY <2>1, <2>2
<1>7. Cardinality({}) = 0
  BY FS_EmptySet
<1>8. \A x : Cardinality({x}) = 1
  BY FS_Singleton
<1>9. /\ Places(v, id) = {} \/ \E p \in Places(v, id) : Places(v, id) = {p}
      /\ rejected = {} \/ \E j \in rejected : rejected = {j}
  BY <1>3, <1>4
<1>10. /\ Cardinality(Places(v, id)) = 0 \/ (Cardinality(Places(v, id)) = 1 /\ Places(v, id) # {})
       /\ Cardinality(rejected) = 0 \/ (Cardinality(rejected) = 1 /\ rejected # {})
  BY <1>7, <1>8, <1>9
<1>11. CASE a.callee.k = "answer" /\ ~a.done
  <2>1. copies <= 1
    BY <1>5, <1>7, <1>10
  <2>2. ASSUME NEW t \in Waited(v, a)
        PROVE  \E j \in 1 .. CallQueueSize : Places(v, id) = {<<t, j>>}
    <3>1. t \in DOMAIN A /\ A[t].n = a.callee.id /\ ~A[t].done
      BY DEF Waited
    <3>2. a.callee = [k |-> "answer", id |-> A[t].n]
      BY <1>1, <1>11, <3>1 DEF AnswerRecord, Callee
    <3>3. PICK j \in DOMAIN A[t].queue : A[t].queue[j] = id
      BY <1>1, <1>11, <3>1, <3>2 DEF QueuesOK
    <3>4. A[t].queue \in Seq(Nat) /\ A[t].stuck \in Seq(Nat)
      BY <3>1, OfVat DEF VatOK, AnswersOK, EntryOK, AnswerRecord
    <3>5. /\ j \in DOMAIN QueueOf(A[t]) /\ QueueOf(A[t])[j] = id
          /\ j \in 1 .. Len(A[t].queue)
      <4>1. PICK q, s : q = A[t].queue /\ s = A[t].stuck
        OBVIOUS
      <4>2. q \in Seq(Nat) /\ s \in Seq(Nat) /\ j \in DOMAIN q /\ q[j] = id
        BY <3>3, <3>4, <4>1
      <4>3. j \in DOMAIN (q \o s) /\ (q \o s)[j] = id /\ j \in 1 .. Len(q)
        BY <4>2
      <4>. QED
        BY <4>1, <4>3 DEF QueueOf
    <3>6. j \in 1 .. CallQueueSize
      <4>1. Len(A[t].queue) <= CallQueueSize /\ Len(A[t].queue) \in Nat
        BY <1>1, <3>1, <3>4 DEF QueuesOK
      <4>. QED
        BY <3>5, <4>1, BoundsAssumption
    <3>7. <<t, j>> \in Places(v, id)
      BY <1>2, <3>1, <3>5, <3>6
    <3>. QED
      BY <1>3, <3>6, <3>7
  <2>. QED
    BY <1>11, <2>1, <2>2
<1>12. CASE ~(a.callee.k = "answer" /\ ~a.done)
  BY <1>6, <1>7, <1>12
<1>. QED
  BY <1>11, <1>12

\* A queued call waits in one queue and once, or is being rejected, or was left in a
\* QueueClient.
THEOREM QueuedOncePlaced == Spec => []QueuedInOnePlace
BY InOnePlace, Everything, PTL

\* Whatever is piggybacked on the question ids, each direction of the connection
\* is a QuestionTable: its calls are the natural numbers from 1 on.
THEOREM Directions ==
  Spec => /\ \A v \in Vat : D(v)!Init
          /\ [][\A v \in Vat : D(v)!Next \/ UNCHANGED D(v)!vars]_vars
<1>1. Init => \A v \in Vat : D(v)!Init
  BY InitDirections
<1>2. Inv /\ [Next]_vars => [\A v \in Vat : D(v)!Next \/ UNCHANGED D(v)!vars]_vars
  BY InvHolds DEF Step
<1>. QED
  BY <1>1, <1>2, Everything, PTL DEF Spec
=============================================================================
