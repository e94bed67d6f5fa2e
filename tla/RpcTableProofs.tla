--------------------------- MODULE RpcTableProofs ---------------------------
(***************************************************************************)
(* The reference counts of RpcConn, for any number of calls, whatever the  *)
(* applications pass and return: what an exporter counts is what its peer  *)
(* counted and what is on its way, and a reference that is held is counted.*)
(*                                                                         *)
(* Then the tables: each action of a connection is a step of the           *)
(* QuestionTable of each of its two directions.  The messages of a         *)
(* direction are those of a few kinds among the messages on their way:     *)
(* that taking and adding messages commutes with picking them out is shown *)
(* first, for a recursive function (OfKinds), by the least place at which  *)
(* two candidates would differ.                                            *)
(***************************************************************************)
EXTENDS RpcConn, FiniteSetTheorems, WellFoundedInduction, TLAPS

\* There are two vats, each the peer of the other.
LEMMA PeerFacts ==
  ASSUME NEW v \in Vat
  PROVE  /\ Peer(v) \in Vat /\ Peer(v) # v
         /\ Peer(Peer(v)) = v
         /\ \A w \in Vat : w = v \/ w = Peer(v)
<1>1. PICK a, b \in Vat : a # b /\ Vat = {a, b}
  <2>1. PICK a : a \in Vat
    OBVIOUS
  <2>2. /\ IsFiniteSet(Vat \ {v})
        /\ Cardinality(Vat \ {v}) = 1
    BY FS_RemoveElement, VatAssumption
  <2>3. PICK w : Vat \ {v} = {w}
    BY <2>2, FS_Singleton
  <2> QED
    BY <2>3
<1>2. \A w \in Vat : Peer(w) \in Vat /\ Peer(w) # w
  BY <1>1 DEF Peer
<1> QED
  BY <1>1, <1>2

-----------------------------------------------------------------------------
(* Sequences *)

LEMMA IsSequence ==
  ASSUME NEW k \in Nat, NEW s, s = [j \in 1 .. k |-> s[j]]
  PROVE  IsSeq(s)
<1> DEFINE R == {s[j] : j \in DOMAIN s}
<1>1. DOMAIN s = 1 .. k
  OBVIOUS
<1>2. \A j \in 1 .. k : s[j] \in R
  BY <1>1
<1>3. s \in [1 .. k -> R]
  <2> HIDE DEF R
  <2> QED
    BY <1>2
<1>4. s \in Seq(R)
  <2> HIDE DEF R
  <2> QED
    BY <1>3
<1> QED
  BY <1>4 DEF IsSeq

LEMMA OfItsElements ==
  ASSUME NEW S, NEW s \in Seq(S)
  PROVE  IsSeq(s)
<1>1. Len(s) \in Nat /\ s \in [1 .. Len(s) -> S]
  OBVIOUS
<1>2. s = [j \in 1 .. Len(s) |-> s[j]]
  BY <1>1
<1> QED
  BY <1>1, <1>2, IsSequence

LEMMA Sent ==
  ASSUME NEW s, IsSeq(s), NEW m
  PROVE  /\ IsSeq(s \o <<m>>)
         /\ Len(s) \in Nat /\ DOMAIN s = 1 .. Len(s)
         /\ DOMAIN (s \o <<m>>) = 1 .. Len(s) + 1
         /\ \A j \in 1 .. Len(s) : (s \o <<m>>)[j] = s[j]
         /\ (s \o <<m>>)[Len(s) + 1] = m
<1> DEFINE S == {s[j] : j \in DOMAIN s} \cup {m}
           t == s \o <<m>>
<1>1. s \in Seq(S) /\ <<m>> \in Seq(S)
  BY DEF IsSeq
<1>2. t \in Seq(S) /\ Len(t) = Len(s) + 1
  BY <1>1
<1>3. \A j \in 1 .. Len(s) : t[j] = s[j]
  BY <1>1
<1>4. t[Len(s) + 1] = m
  BY <1>1
<1>5. IsSeq(t)
  BY <1>2, OfItsElements
<1>6. DOMAIN s = 1 .. Len(s) /\ DOMAIN t = 1 .. Len(s) + 1
  BY <1>1, <1>2
<1> QED
  BY <1>1, <1>3, <1>4, <1>5, <1>6

LEMMA Taken ==
  ASSUME NEW s, IsSeq(s), s # <<>>
  PROVE  /\ IsSeq(Tail(s))
         /\ Len(s) \in Nat \ {0} /\ DOMAIN s = 1 .. Len(s)
         /\ DOMAIN Tail(s) = 1 .. Len(s) - 1
         /\ \A j \in 1 .. Len(s) - 1 : Tail(s)[j] = s[j + 1]
         /\ Head(s) = s[1]
<1> DEFINE S == {s[j] : j \in DOMAIN s}
           t == Tail(s)
<1>1. s \in Seq(S) /\ Len(s) \in Nat \ {0}
  BY DEF IsSeq
<1>2. t \in Seq(S) /\ Len(t) = Len(s) - 1
  BY <1>1
<1>3. \A j \in 1 .. Len(s) - 1 : t[j] = s[j + 1]
  BY <1>1
<1>4. IsSeq(t)
  BY <1>2, OfItsElements
<1>5. DOMAIN s = 1 .. Len(s) /\ DOMAIN t = 1 .. Len(s) - 1 /\ Head(s) = s[1]
  BY <1>1, <1>2
<1> QED
  BY <1>1, <1>3, <1>4, <1>5

LEMMA NothingSent ==
  ASSUME NEW s, IsSeq(s)
  PROVE  s \o <<>> = s
BY DEF IsSeq

-----------------------------------------------------------------------------
(* Capabilities on their way *)

Carries(m, id) ==
  m.k \in {"call", "return"} /\ m.cap = [k |-> "senderHosted", id |-> id]
Carrying(s, id) == {j \in DOMAIN s : Carries(s[j], id)}

LEMMA InFlightIs ==
  ASSUME NEW v, NEW id
  PROVE  InFlight(v, id) = Carrying(net[Peer(v)], id)
BY DEF InFlight, Carrying, Carries

LEMMA FinitelyMany ==
  ASSUME NEW s, IsSeq(s), NEW id
  PROVE  IsFiniteSet(Carrying(s, id)) /\ Cardinality(Carrying(s, id)) \in Nat
<1>1. DOMAIN s = 1 .. Len(s) /\ Len(s) \in Nat
  BY DEF IsSeq
<1>2. IsFiniteSet(1 .. Len(s))
  BY <1>1, FS_Interval
<1>3. IsFiniteSet(Carrying(s, id))
  BY <1>1, <1>2, FS_Subset DEF Carrying
<1> QED
  BY <1>3, FS_CardinalityType

LEMMA CountSent ==
  ASSUME NEW s, IsSeq(s), NEW m, NEW id
  PROVE  Cardinality(Carrying(s \o <<m>>, id)) =
           Cardinality(Carrying(s, id)) + (IF Carries(m, id) THEN 1 ELSE 0)
<1> DEFINE C == Carrying(s, id)
           D == Carrying(s \o <<m>>, id)
<1>1. IsFiniteSet(C) /\ Cardinality(C) \in Nat /\ C \subseteq 1 .. Len(s) /\ Len(s) \in Nat
  BY Sent, FinitelyMany DEF Carrying
<1>2. CASE Carries(m, id)
  <2>1. D = C \cup {Len(s) + 1}
    BY <1>1, <1>2, Sent DEF Carrying
  <2>2. Len(s) + 1 \notin C
    BY <1>1
  <2> QED
    BY <1>1, <1>2, <2>1, <2>2, FS_AddElement
<1>3. CASE ~Carries(m, id)
  <2>1. D = C
    BY <1>1, <1>3, Sent DEF Carrying
  <2> QED
    BY <1>1, <1>3, <2>1
<1> QED
  BY <1>2, <1>3

LEMMA CountTaken ==
  ASSUME NEW s, IsSeq(s), s # <<>>, NEW id
  PROVE  Cardinality(Carrying(s, id)) =
           Cardinality(Carrying(Tail(s), id)) + (IF Carries(Head(s), id) THEN 1 ELSE 0)
<1> DEFINE C == Carrying(s, id)
           D == Carrying(Tail(s), id)
           f == [j \in D |-> j + 1]
<1>1. /\ IsFiniteSet(C) /\ Cardinality(C) \in Nat
      /\ IsFiniteSet(D) /\ Cardinality(D) \in Nat
      /\ Len(s) \in Nat \ {0}
  BY Taken, FinitelyMany
<1>2. C \ {1} = {j + 1 : j \in D}
  <2>1. ASSUME NEW i \in C \ {1} PROVE i \in {j + 1 : j \in D}
    <3>1. i - 1 \in D /\ i = (i - 1) + 1
      BY Taken DEF Carrying
    <3> QED
      BY <3>1
  <2>2. ASSUME NEW j \in D PROVE j + 1 \in C \ {1}
    BY Taken DEF Carrying
  <2> QED
    BY <2>1, <2>2
<1>3. Cardinality(C \ {1}) = Cardinality(D)
  <2>1. D \subseteq Nat
    BY Taken DEF Carrying
  <2>2. f \in Bijection(D, C \ {1})
    <3> HIDE DEF C, D
    <3>1. f \in [D -> C \ {1}]
      BY <1>2
    <3>2. \A i, j \in D : f[i] = f[j] => i = j
      BY <2>1
    <3>3. \A i \in C \ {1} : \E j \in D : f[j] = i
      BY <1>2
    <3> QED
      BY <3>1, <3>2, <3>3 DEF Bijection, Injection, Surjection, IsInjective
  <2>3. ExistsBijection(D, C \ {1})
    BY <2>2 DEF ExistsBijection
  <2> QED
    BY <1>1, <2>3, FS_Bijection
<1>4. 1 \in C <=> Carries(Head(s), id)
  BY Taken DEF Carrying
<1>5. Cardinality(C \ {1}) = IF 1 \in C THEN Cardinality(C) - 1 ELSE Cardinality(C)
  BY <1>1, FS_RemoveElement
<1> QED
  <2> HIDE DEF C, D
  <2>1. Cardinality(C) = Cardinality(D) + (IF Carries(Head(s), id) THEN 1 ELSE 0)
    BY <1>1, <1>3, <1>4, <1>5
  <2> QED
    BY <2>1 DEF C, D

-----------------------------------------------------------------------------
(* Exports *)

\* An export of the very same client is found, or a new one gets the next id.
LEMMA ExportIdFacts ==
  ASSUME NEW v, ExportTable(exports[v]), NEW c
  PROVE  /\ ExportIds(v, c) # {} => /\ ExportId(v, c) \in DOMAIN exports[v]
                                   /\ exports[v][ExportId(v, c)].client = c
         /\ ExportIds(v, c) = {} => /\ ExportId(v, c) \notin DOMAIN exports[v]
                                   /\ ExportId(v, c) = Cardinality(DOMAIN exports[v])
                                   /\ \A x \in DOMAIN exports[v] : exports[v][x].client # c
<1> DEFINE E == exports[v]
           X == ExportIds(v, c)
<1>1. DOMAIN E = 0 .. Cardinality(DOMAIN E) - 1 /\ Cardinality(DOMAIN E) \in Nat
  BY FS_CardinalityType DEF ExportTable
<1>2. CASE X = {}
  BY <1>1, <1>2 DEF ExportId, ExportIds
<1>3. ASSUME NEW i \in X PROVE X = {i}
  BY DEF ExportIds, ExportTable
<1>4. CASE X # {}
  <2>1. PICK i \in X : X = {i}
    BY <1>3, <1>4
  <2>2. i \in Nat
    BY <1>1 DEF ExportIds
  <2>3. ExportId(v, c) = i
    BY <2>1, <2>2 DEF ExportId
  <2> QED
    BY <1>4, <2>1, <2>3 DEF ExportIds
<1> QED
  BY <1>2, <1>4

\* F is the export table E with one more wire reference to client c, as export id.
Gains(E, F, id, c) ==
  /\ ExportTable(F)
  /\ DOMAIN F = DOMAIN E \cup {id}
  /\ F[id].client = c
  /\ id \notin DOMAIN E => F[id].wireRefs = 1
  /\ \A x \in DOMAIN E :
       /\ F[x].client = E[x].client
       /\ F[x].wireRefs = E[x].wireRefs + (IF x = id THEN 1 ELSE 0)

LEMMA CountedAgain ==
  ASSUME NEW E, ExportTable(E), NEW id \in DOMAIN E, NEW c, E[id].client = c,
         NEW F, F = [E EXCEPT ![id].wireRefs = @ + 1]
  PROVE  Gains(E, F, id, c)
<1>1. \A x \in DOMAIN E :
        /\ E[x] = [client |-> E[x].client, object |-> E[x].object, wireRefs |-> E[x].wireRefs]
        /\ E[x].wireRefs \in Nat
  BY DEF ExportTable
<1>2. DOMAIN F = DOMAIN E /\ \A x \in DOMAIN E : x # id => F[x] = E[x]
  OBVIOUS
<1>3. F[id] = [E[id] EXCEPT !.wireRefs = @ + 1]
  OBVIOUS
<1>4. F[id] = [client |-> E[id].client, object |-> E[id].object, wireRefs |-> E[id].wireRefs + 1]
  <2> DEFINE cl == E[id].client
             ob == E[id].object
             w == E[id].wireRefs
  <2>1. E[id] = [client |-> cl, object |-> ob, wireRefs |-> w]
    BY <1>1
  <2> HIDE DEF cl, ob, w
  <2>2. F[id] = [client |-> cl, object |-> ob, wireRefs |-> w + 1]
    BY <1>3, <2>1
  <2> QED
    BY <2>2 DEF cl, ob, w
<1>5. \A x \in DOMAIN E : /\ F[x].client = E[x].client
                         /\ F[x].wireRefs = E[x].wireRefs + (IF x = id THEN 1 ELSE 0)
  <2> TAKE x \in DOMAIN E
  <2>1. CASE x = id
    BY <1>4, <2>1
  <2>2. CASE x # id
    BY <1>1, <1>2, <2>2
  <2> QED
    BY <2>1, <2>2
<1>6. \A x \in DOMAIN F :
        /\ F[x] = [client |-> F[x].client, object |-> F[x].object, wireRefs |-> F[x].wireRefs]
        /\ F[x].wireRefs \in Nat
  <2> TAKE x \in DOMAIN F
  <2>1. CASE x = id
    BY <1>1, <1>4, <2>1
  <2>2. CASE x # id
    BY <1>1, <1>2, <2>2
  <2> QED
    BY <2>1, <2>2
<1>7. ExportTable(F)
  <2>1. \A i, j \in DOMAIN F : F[i].client = F[j].client => i = j
    BY <1>2, <1>5 DEF ExportTable
  <2>2. IsFiniteSet(DOMAIN F) /\ DOMAIN F = 0 .. Cardinality(DOMAIN F) - 1
    BY <1>2 DEF ExportTable
  <2> QED
    BY <1>6, <2>1, <2>2 DEF ExportTable
<1> QED
  BY <1>2, <1>5, <1>7 DEF Gains

LEMMA CountedFirst ==
  ASSUME NEW E, ExportTable(E), NEW c, \A x \in DOMAIN E : E[x].client # c, NEW o,
         NEW id, id = Cardinality(DOMAIN E),
         NEW F, F = Put(E, id, [client |-> c, object |-> o, wireRefs |-> 1])
  PROVE  Gains(E, F, id, c)
<1>1. id \in Nat /\ DOMAIN E = 0 .. id - 1 /\ IsFiniteSet(DOMAIN E) /\ id \notin DOMAIN E
  BY FS_CardinalityType DEF ExportTable
<1>2. DOMAIN F = DOMAIN E \cup {id} /\ \A x \in DOMAIN E : F[x] = E[x]
  BY <1>1 DEF Put
<1>3. F[id] = [client |-> c, object |-> o, wireRefs |-> 1]
  BY DEF Put
<1>4. \A x \in DOMAIN E :
        /\ E[x] = [client |-> E[x].client, object |-> E[x].object, wireRefs |-> E[x].wireRefs]
        /\ E[x].wireRefs \in Nat
  BY DEF ExportTable
<1>5. \A x \in DOMAIN F :
        /\ F[x] = [client |-> F[x].client, object |-> F[x].object, wireRefs |-> F[x].wireRefs]
        /\ F[x].wireRefs \in Nat
  <2> TAKE x \in DOMAIN F
  <2>1. CASE x = id
    BY <1>3, <2>1
  <2>2. CASE x # id
    BY <1>2, <1>4, <2>2
  <2> QED
    BY <2>1, <2>2
<1>6. IsFiniteSet(DOMAIN F) /\ Cardinality(DOMAIN F) = id + 1
  <2> DEFINE S == DOMAIN E
  <2> HIDE DEF S
  <2>1. IsFiniteSet(S) /\ id \notin S /\ Cardinality(S) = id
    BY <1>1 DEF S
  <2>2. IsFiniteSet(S \cup {id}) /\ Cardinality(S \cup {id}) = id + 1
    BY <2>1, FS_AddElement
  <2> QED
    BY <1>2, <2>2 DEF S
<1>7. DOMAIN F = 0 .. Cardinality(DOMAIN F) - 1
  <2>1. DOMAIN F = 0 .. id
    <3>1. id \in Nat => (0 .. id - 1) \cup {id} = 0 .. id
      OBVIOUS
    <3> QED
      BY <1>1, <1>2, <3>1
  <2>2. Cardinality(DOMAIN F) - 1 = id
    BY <1>1, <1>6
  <2> QED
    BY <2>1, <2>2
<1>8. \A i, j \in DOMAIN F : F[i].client = F[j].client => i = j
  <2> TAKE i, j \in DOMAIN F
  <2>1. \A x, y \in DOMAIN E : E[x].client = E[y].client => x = y
    BY DEF ExportTable
  <2>2. CASE i = id /\ j = id
    BY <2>2
  <2>3. CASE i = id /\ j # id
    BY <1>2, <1>3, <2>3
  <2>4. CASE i # id /\ j = id
    BY <1>2, <1>3, <2>4
  <2>5. CASE i # id /\ j # id
    BY <1>2, <2>1, <2>5
  <2> QED
    BY <2>2, <2>3, <2>4, <2>5
<1>9. ExportTable(F)
  BY <1>5, <1>6, <1>7, <1>8 DEF ExportTable
<1> QED
  <2>1. \A x \in DOMAIN E : /\ F[x].client = E[x].client
                           /\ F[x].wireRefs = E[x].wireRefs + (IF x = id THEN 1 ELSE 0)
    <3> TAKE x \in DOMAIN E
    <3>1. x # id /\ F[x] = E[x] /\ E[x].wireRefs \in Nat
      BY <1>1, <1>2, <1>4
    <3>2. F[x].wireRefs = E[x].wireRefs + 0
      BY <3>1
    <3> QED
      BY <3>1, <3>2
  <2> QED
    BY <1>2, <1>3, <1>9, <2>1 DEF Gains

LEMMA Exported ==
  ASSUME NEW v, ExportTable(exports[v]), NEW c
  PROVE  Gains(exports[v], AddExport(v, c), ExportId(v, c), c)
<1>1. CASE ExportIds(v, c) # {}
  BY <1>1, ExportIdFacts, CountedAgain DEF AddExport
<1>2. CASE ExportIds(v, c) = {}
  BY <1>2, ExportIdFacts, CountedFirst DEF AddExport
<1> QED
  BY <1>1, <1>2

-----------------------------------------------------------------------------
(* What the exporter's side of a step does: F are its exports afterwards, t  *)
(* the messages to its peer, b whether it called initMain().                *)

MainIn(E) == \E x \in DOMAIN E : E[x].client = Server(Main)
ByMain(E, b, id) == IF b /\ E[id].client = Server(Main) THEN 1 ELSE 0
Refs(I, id) == IF id \in DOMAIN I THEN I[id].refs ELSE 0
Balanced(E, I, s, b) ==
  \A id \in DOMAIN E :
    E[id].wireRefs = ByMain(E, b, id) + Refs(I, id) + Cardinality(Carrying(s, id))

Emission(E, F, I, s, t, a, b) ==
  /\ ExportTable(F) /\ DOMAIN E \subseteq DOMAIN F
  /\ b => MainIn(F)
  /\ Channel(t, F)
  /\ Balanced(E, I, s, a) => Balanced(F, I, t, b)

LEMMA CountsAreNatural ==
  ASSUME NEW E, NEW I, ImportTable(I), NEW s, IsSeq(s), NEW b, NEW id
  PROVE  /\ ByMain(E, b, id) \in Nat /\ Refs(I, id) \in Nat
         /\ Cardinality(Carrying(s, id)) \in Nat
<1>1. Cardinality(Carrying(s, id)) \in Nat
  BY FinitelyMany
<1>2. Refs(I, id) \in Nat
  BY DEF Refs, ImportTable, ImportEntry
<1>3. ByMain(E, b, id) \in Nat
  BY DEF ByMain
<1> QED
  BY <1>1, <1>2, <1>3

\* A message is added at the end of a channel.
LEMMA ChannelSent ==
  ASSUME NEW E, NEW F, DOMAIN E \subseteq DOMAIN F, NEW s, Channel(s, E),
         NEW m, m.k \in {"call", "return"} => Carried(m.cap, F)
  PROVE  Channel(s \o <<m>>, F)
<1> DEFINE t == s \o <<m>>
<1>1. IsSeq(s)
  BY DEF Channel
<1>2. /\ IsSeq(t)
      /\ DOMAIN s = 1 .. Len(s) /\ Len(s) \in Nat
      /\ DOMAIN t = 1 .. Len(s) + 1
      /\ \A j \in 1 .. Len(s) : t[j] = s[j]
      /\ t[Len(s) + 1] = m
  BY <1>1, Sent
<1>3. ASSUME NEW j \in DOMAIN t, t[j].k \in {"call", "return"}
      PROVE  Carried(t[j].cap, F)
  <2> HIDE DEF t
  <2>1. CASE j \in 1 .. Len(s)
    <3>1. t[j] = s[j] /\ j \in DOMAIN s
      BY <1>2, <2>1
    <3>2. Carried(s[j].cap, E)
      BY <1>3, <3>1 DEF Channel
    <3>3. Carried(s[j].cap, F)
      BY <3>2 DEF Carried
    <3> QED
      BY <3>1, <3>3
  <2>2. CASE j = Len(s) + 1
    BY <1>2, <1>3, <2>2
  <2> QED
    BY <1>2, <2>1, <2>2
<1> QED
  BY <1>2, <1>3 DEF Channel

LEMMA NothingCarried ==
  ASSUME NEW E, NEW s, Channel(s, E), NEW id, id \notin DOMAIN E
  PROVE  Cardinality(Carrying(s, id)) = 0
<1>1. Carrying(s, id) = {}
  <2> SUFFICES ASSUME NEW j \in DOMAIN s, Carries(s[j], id) PROVE FALSE
    BY DEF Carrying
  <2>1. Carried(s[j].cap, E) /\ s[j].cap = [k |-> "senderHosted", id |-> id]
    BY DEF Channel, Carries
  <2> QED
    BY <2>1 DEF Carried, NoDescriptor
<1> QED
  BY <1>1, FS_EmptySet

\* A capability that is exported is counted as it is sent.
LEMMA CapabilitySent ==
  ASSUME NEW E, NEW F, NEW I, NEW s, NEW b, NEW id, NEW c, NEW m,
         ExportTable(E), ImportTable(I), DOMAIN I \subseteq DOMAIN E, Channel(s, E),
         b => MainIn(E), Gains(E, F, id, c),
         m.k \in {"call", "return"}, m.cap = [k |-> "senderHosted", id |-> id]
  PROVE  Emission(E, F, I, s, s \o <<m>>, b, b)
<1> DEFINE t == s \o <<m>>
<1>1. ExportTable(F) /\ DOMAIN F = DOMAIN E \cup {id} /\ IsSeq(s)
  BY DEF Gains, Channel
<1>2. Channel(t, F)
  <2>1. Carried(m.cap, F)
    BY <1>1 DEF Carried
  <2> QED
    BY <1>1, <2>1, ChannelSent
<1>3. b => MainIn(F)
  BY DEF MainIn, Gains
<1>4. ASSUME Balanced(E, I, s, b), NEW x \in DOMAIN F
      PROVE  F[x].wireRefs = ByMain(F, b, x) + Refs(I, x) + Cardinality(Carrying(t, x))
  <2> HIDE DEF t
  <2>1. Cardinality(Carrying(t, x)) =
          Cardinality(Carrying(s, x)) + (IF x = id THEN 1 ELSE 0)
    <3>1. Carries(m, x) <=> x = id
      BY DEF Carries
    <3> QED
      BY <1>1, <3>1, CountSent DEF t
  <2>2. /\ ByMain(F, b, x) \in Nat /\ Refs(I, x) \in Nat
        /\ Cardinality(Carrying(s, x)) \in Nat
    BY <1>1, CountsAreNatural
  <2>3. CASE x \in DOMAIN E
    <3>1. /\ F[x].client = E[x].client
          /\ F[x].wireRefs = E[x].wireRefs + (IF x = id THEN 1 ELSE 0)
      BY <2>3 DEF Gains
    <3>2. E[x].wireRefs = ByMain(E, b, x) + Refs(I, x) + Cardinality(Carrying(s, x))
      BY <1>4, <2>3 DEF Balanced
    <3>3. ByMain(F, b, x) = ByMain(E, b, x)
      BY <3>1 DEF ByMain
    <3> QED
      BY <2>1, <2>2, <3>1, <3>2, <3>3
  <2>4. CASE x \notin DOMAIN E
    <3>1. x = id /\ F[x].wireRefs = 1
      BY <1>1, <2>4 DEF Gains
    <3>2. Refs(I, x) = 0 /\ Cardinality(Carrying(s, x)) = 0
      BY <2>4, NothingCarried DEF Refs
    <3>3. ByMain(F, b, x) = 0
      <4> SUFFICES ASSUME b, F[x].client = Server(Main) PROVE FALSE
        BY DEF ByMain
      <4>1. PICK y \in DOMAIN E : E[y].client = Server(Main)
        BY DEF MainIn
      <4>2. F[y].client = Server(Main) /\ y \in DOMAIN F
        BY <1>1, <4>1 DEF Gains
      <4>3. y = x
        BY <1>1, <4>2 DEF ExportTable
      <4> QED
        BY <2>4, <4>3
    <3> QED
      BY <2>1, <3>1, <3>2, <3>3
  <2> QED
    BY <2>3, <2>4
<1> QED
  BY <1>1, <1>2, <1>3, <1>4 DEF Emission, Balanced

\* A message without a capability of the sender changes no count.
LEMMA PlainSent ==
  ASSUME NEW E, NEW I, NEW s, NEW b, NEW m,
         ExportTable(E), Channel(s, E), b => MainIn(E),
         m.k \in {"call", "return"} => \/ m.cap = NoDescriptor
                                       \/ m.cap = [k |-> "receiverHosted", id |-> m.cap.id]
  PROVE  Emission(E, E, I, s, s \o <<m>>, b, b)
<1>1. Channel(s \o <<m>>, E) /\ IsSeq(s)
  <2>1. m.k \in {"call", "return"} => Carried(m.cap, E)
    BY DEF Carried
  <2> QED
    BY <2>1, ChannelSent DEF Channel
<1>2. ASSUME NEW x \in DOMAIN E
      PROVE  Cardinality(Carrying(s \o <<m>>, x)) = Cardinality(Carrying(s, x))
  <2>1. ~Carries(m, x)
    BY DEF Carries, NoDescriptor
  <2>2. Cardinality(Carrying(s, x)) \in Nat
    BY <1>1, FinitelyMany
  <2> QED
    BY <1>1, <2>1, <2>2, CountSent
<1>3. Balanced(E, I, s, b) => Balanced(E, I, s \o <<m>>, b)
  BY <1>2 DEF Balanced
<1> QED
  BY <1>1, <1>3 DEF Emission

LEMMA NotSent ==
  ASSUME NEW E, NEW I, NEW s, NEW b, ExportTable(E), Channel(s, E), b => MainIn(E)
  PROVE  Emission(E, E, I, s, s, b, b)
BY DEF Emission

\* initMain() exports a server without sending it.
LEMMA MainExported ==
  ASSUME NEW E, NEW F, NEW I, NEW s, NEW id, NEW a, ~a, NEW b, b,
         ExportTable(E), ImportTable(I), DOMAIN I \subseteq DOMAIN E, Channel(s, E),
         Gains(E, F, id, Server(Main))
  PROVE  Emission(E, F, I, s, s, a, b)
<1>1. ExportTable(F) /\ DOMAIN F = DOMAIN E \cup {id} /\ IsSeq(s)
  BY DEF Gains, Channel
<1>2. Channel(s, F)
  <2>1. \A d : Carried(d, E) => Carried(d, F)
    BY <1>1 DEF Carried
  <2> QED
    BY <2>1 DEF Channel
<1>3. MainIn(F)
  BY <1>1 DEF MainIn, Gains
<1>4. ASSUME Balanced(E, I, s, a), NEW x \in DOMAIN F
      PROVE  F[x].wireRefs = ByMain(F, b, x) + Refs(I, x) + Cardinality(Carrying(s, x))
  <2> DEFINE k == ByMain(F, b, x)
  <2>1. Refs(I, x) \in Nat /\ Cardinality(Carrying(s, x)) \in Nat
    BY <1>1, CountsAreNatural
  <2>2. k = IF x = id THEN 1 ELSE 0
    <3>1. F[x].client = Server(Main) <=> x = id
      BY <1>1 DEF Gains, ExportTable
    <3> QED
      BY <3>1 DEF ByMain
  <2> HIDE DEF k
  <2>3. ASSUME x \in DOMAIN E
        PROVE  F[x].wireRefs = k + Refs(I, x) + Cardinality(Carrying(s, x))
    <3>1. F[x].wireRefs = E[x].wireRefs + (IF x = id THEN 1 ELSE 0)
      BY <2>3 DEF Gains
    <3>2. E[x].wireRefs = 0 + Refs(I, x) + Cardinality(Carrying(s, x))
      BY <1>4, <2>3 DEF Balanced, ByMain
    <3>3. CASE x = id
      <4>1. k = 1 /\ F[x].wireRefs = E[x].wireRefs + 1
        BY <2>2, <3>1, <3>3
      <4> QED
        BY <2>1, <3>2, <4>1
    <3>4. CASE x # id
      <4>1. k = 0 /\ F[x].wireRefs = E[x].wireRefs + 0
        BY <2>2, <3>1, <3>4
      <4> QED
        BY <2>1, <3>2, <4>1
    <3> QED
      BY <3>3, <3>4
  <2>4. ASSUME x \notin DOMAIN E
        PROVE  F[x].wireRefs = k + Refs(I, x) + Cardinality(Carrying(s, x))
    <3>1. x = id /\ F[x].wireRefs = 1
      BY <1>1, <2>4 DEF Gains
    <3>2. Refs(I, x) = 0 /\ Cardinality(Carrying(s, x)) = 0
      BY <2>4, NothingCarried DEF Refs
    <3>3. k = 1
      BY <2>2, <3>1
    <3> QED
      BY <3>1, <3>2, <3>3
  <2> QED
    BY <2>3, <2>4 DEF k
<1> QED
  BY <1>1, <1>2, <1>3, <1>4 DEF Emission, Balanced

-----------------------------------------------------------------------------
(* What the importer's side of a step does: I and J are its imports before   *)
(* and after, s and t the messages on their way to it, E the exports of its *)
(* peer; the counts need only hold while it works.                          *)

Tables(E, J, t) == ImportTable(J) /\ DOMAIN J \subseteq DOMAIN E /\ Channel(t, E)
Consumption(E, I, J, s, t, b) ==
  /\ Tables(E, J, t) /\ DOMAIN I \subseteq DOMAIN J
  /\ Balanced(E, I, s, b) => Balanced(E, J, t, b)

\* J is the import table I after one more receipt of the import id.
Receives(I, J, id) ==
  /\ ImportTable(J) /\ DOMAIN J = DOMAIN I \cup {id}
  /\ \A x : Refs(J, x) = Refs(I, x) + (IF x = id THEN 1 ELSE 0)
  /\ \A x \in DOMAIN I : x # id => J[x] = I[x]
  /\ id \in DOMAIN I => J[id].live = IF I[id].live > 0 THEN I[id].live + 1 ELSE 0
  /\ id \notin DOMAIN I => J[id].live = 1

LEMMA Imported ==
  ASSUME NEW v, ImportTable(imports[v]), NEW id
  PROVE  Receives(imports[v], AddImport(v, id), id)
<1> DEFINE I == imports[v]
           J == AddImport(v, id)
<1>1. CASE id \in DOMAIN I
  <2>1. J = [I EXCEPT ![id] = [refs |-> I[id].refs + 1,
                               live |-> IF I[id].live > 0 THEN I[id].live + 1 ELSE 0]]
    BY <1>1 DEF AddImport
  <2>2. /\ DOMAIN J = DOMAIN I /\ \A x \in DOMAIN I : x # id => J[x] = I[x]
        /\ J[id] = [refs |-> I[id].refs + 1, live |-> IF I[id].live > 0 THEN I[id].live + 1 ELSE 0]
    BY <1>1, <2>1
  <2>3. \A x \in DOMAIN I : I[x] \in ImportEntry /\ I[x].refs \in Nat /\ I[x].live \in Nat
    BY DEF ImportTable, ImportEntry
  <2>4. J[id] \in ImportEntry
    BY <1>1, <2>2, <2>3 DEF ImportEntry
  <2> HIDE DEF J
  <2>5. ImportTable(J)
    BY <2>2, <2>3, <2>4 DEF ImportTable
  <2>6. ASSUME NEW x PROVE Refs(J, x) = Refs(I, x) + (IF x = id THEN 1 ELSE 0)
    <3>1. CASE x = id
      BY <1>1, <2>2, <2>3, <3>1 DEF Refs
    <3>2. CASE x # id /\ x \in DOMAIN I
      BY <2>2, <2>3, <3>2 DEF Refs
    <3>3. CASE x # id /\ x \notin DOMAIN I
      BY <2>2, <3>3 DEF Refs
    <3> QED
      BY <3>1, <3>2, <3>3
  <2>7. J[id].live = IF I[id].live > 0 THEN I[id].live + 1 ELSE 0
    BY <2>2
  <2> QED
    BY <1>1, <2>2, <2>5, <2>6, <2>7 DEF Receives, J
<1>2. CASE id \notin DOMAIN I
  <2>1. J = Put(I, id, [refs |-> 1, live |-> 1])
    BY <1>2 DEF AddImport
  <2>2. /\ DOMAIN J = DOMAIN I \cup {id} /\ \A x \in DOMAIN I : J[x] = I[x]
        /\ J[id] = [refs |-> 1, live |-> 1]
    BY <1>2, <2>1 DEF Put
  <2>3. \A x \in DOMAIN I : I[x] \in ImportEntry /\ I[x].refs \in Nat
    BY DEF ImportTable, ImportEntry
  <2>4. J[id] \in ImportEntry /\ J[id].refs = 1 /\ J[id].live = 1
    BY <2>2 DEF ImportEntry
  <2> HIDE DEF J
  <2>5. ImportTable(J)
    BY <2>2, <2>3, <2>4 DEF ImportTable
  <2>6. ASSUME NEW x PROVE Refs(J, x) = Refs(I, x) + (IF x = id THEN 1 ELSE 0)
    <3>1. CASE x = id
      BY <1>2, <2>2, <2>4, <3>1 DEF Refs
    <3>2. CASE x # id /\ x \in DOMAIN I
      BY <2>2, <2>3, <3>2 DEF Refs
    <3>3. CASE x # id /\ x \notin DOMAIN I
      BY <2>2, <3>3 DEF Refs
    <3> QED
      BY <3>1, <3>2, <3>3
  <2> QED
    BY <1>2, <2>2, <2>4, <2>5, <2>6 DEF Receives, J
<1> QED
  BY <1>1, <1>2

\* A message is taken from the head of a channel.
LEMMA ChannelTaken ==
  ASSUME NEW E, NEW s, Channel(s, E), s # <<>>
  PROVE  /\ Channel(Tail(s), E)
         /\ Head(s).k \in {"call", "return"} => Carried(Head(s).cap, E)
<1>1. /\ IsSeq(Tail(s))
      /\ DOMAIN s = 1 .. Len(s) /\ Len(s) \in Nat \ {0}
      /\ DOMAIN Tail(s) = 1 .. Len(s) - 1
      /\ \A j \in 1 .. Len(s) - 1 : Tail(s)[j] = s[j + 1]
      /\ Head(s) = s[1]
  BY Taken DEF Channel
<1> DEFINE t == Tail(s)
<1> HIDE DEF t
<1>2. ASSUME NEW j \in DOMAIN t PROVE j + 1 \in DOMAIN s /\ t[j] = s[j + 1]
  BY <1>1 DEF t
<1>3. IsSeq(t)
  BY <1>1 DEF t
<1>4. Channel(t, E)
  BY <1>2, <1>3 DEF Channel
<1>5. Head(s).k \in {"call", "return"} => Carried(Head(s).cap, E)
  BY <1>1 DEF Channel
<1> QED
  BY <1>4, <1>5 DEF t

\* The capability that a message carries is counted as it is read.
LEMMA CapabilityTaken ==
  ASSUME NEW v, NEW E, NEW s, NEW b,
         ImportTable(imports[v]), DOMAIN imports[v] \subseteq DOMAIN E,
         Channel(s, E), s # <<>>, Head(s).k \in {"call", "return"}
  PROVE  Consumption(E, imports[v], Populated(v, Head(s).cap), s, Tail(s), b)
<1> DEFINE I == imports[v]
           d == Head(s).cap
           t == Tail(s)
<1>1. Channel(t, E) /\ Carried(d, E) /\ IsSeq(s) /\ IsSeq(t)
  BY ChannelTaken DEF Channel
<1>2. ASSUME NEW x
      PROVE  /\ Cardinality(Carrying(s, x)) =
                  Cardinality(Carrying(t, x)) + (IF Carries(Head(s), x) THEN 1 ELSE 0)
             /\ Cardinality(Carrying(t, x)) \in Nat
             /\ Refs(I, x) \in Nat /\ ByMain(E, b, x) \in Nat
  BY <1>1, CountTaken, CountsAreNatural
<1>3. CASE d.k = "senderHosted"
  <2> DEFINE J == AddImport(v, d.id)
  <2>1. Receives(I, J, d.id) /\ Populated(v, d) = J
    BY <1>3, Imported DEF Populated
  <2>2. d = [k |-> "senderHosted", id |-> d.id] /\ d.id \in DOMAIN E
    BY <1>1, <1>3 DEF Carried, NoDescriptor
  <2>3. ASSUME NEW x PROVE Carries(Head(s), x) <=> x = d.id
    BY <2>2 DEF Carries
  <2> HIDE DEF J, d, t
  <2>4. ASSUME Balanced(E, I, s, b), NEW x \in DOMAIN E
        PROVE  E[x].wireRefs = ByMain(E, b, x) + Refs(J, x) + Cardinality(Carrying(t, x))
    <3> DEFINE m == ByMain(E, b, x)
    <3>1. E[x].wireRefs = m + Refs(I, x) + Cardinality(Carrying(s, x))
      BY <2>4 DEF Balanced
    <3>2. /\ m \in Nat /\ Refs(I, x) \in Nat /\ Cardinality(Carrying(t, x)) \in Nat
      BY <1>2
    <3> HIDE DEF m
    <3>3. CASE x = d.id
      <4>1. Cardinality(Carrying(s, x)) = Cardinality(Carrying(t, x)) + 1
        BY <1>2, <2>3, <3>3
      <4>2. Refs(J, x) = Refs(I, x) + 1
        BY <2>1, <3>3 DEF Receives
      <4>3. E[x].wireRefs = m + Refs(J, x) + Cardinality(Carrying(t, x))
        BY <3>1, <3>2, <4>1, <4>2
      <4> QED
        BY <4>3 DEF m
    <3>4. CASE x # d.id
      <4>1. Cardinality(Carrying(s, x)) = Cardinality(Carrying(t, x)) + 0
        BY <1>2, <2>3, <3>4
      <4>2. Refs(J, x) = Refs(I, x) + 0
        BY <2>1, <3>4 DEF Receives
      <4>3. E[x].wireRefs = m + Refs(J, x) + Cardinality(Carrying(t, x))
        BY <3>1, <3>2, <4>1, <4>2
      <4> QED
        BY <4>3 DEF m
    <3> QED
      BY <3>3, <3>4
  <2>5. Balanced(E, I, s, b) => Balanced(E, J, t, b)
    BY <2>4 DEF Balanced
  <2>6. ImportTable(J) /\ DOMAIN I \subseteq DOMAIN J /\ DOMAIN J \subseteq DOMAIN E
    BY <2>1, <2>2 DEF Receives
  <2> QED
    BY <1>1, <2>1, <2>5, <2>6 DEF Consumption, Tables, d, t
<1>4. CASE d.k # "senderHosted"
  <2>1. Populated(v, d) = I
    BY <1>4 DEF Populated
  <2>2. ASSUME NEW x PROVE Cardinality(Carrying(s, x)) = Cardinality(Carrying(t, x))
    <3>1. ~Carries(Head(s), x)
      BY <1>4 DEF Carries
    <3> HIDE DEF t
    <3> QED
      BY <1>2, <3>1
  <2>3. Balanced(E, I, s, b) => Balanced(E, I, t, b)
    BY <2>2 DEF Balanced
  <2> QED
    BY <1>1, <2>1, <2>3 DEF Consumption, Tables
<1> QED
  BY <1>3, <1>4

\* A message of another kind is read.
LEMMA PlainTaken ==
  ASSUME NEW E, NEW I, NEW s, NEW b, ImportTable(I), DOMAIN I \subseteq DOMAIN E,
         Channel(s, E), s # <<>>, Head(s).k \notin {"call", "return"}
  PROVE  Consumption(E, I, I, s, Tail(s), b)
<1>1. Channel(Tail(s), E) /\ IsSeq(s) /\ IsSeq(Tail(s))
  BY ChannelTaken DEF Channel
<1>2. ASSUME NEW x PROVE Cardinality(Carrying(s, x)) = Cardinality(Carrying(Tail(s), x))
  <2>1. ~Carries(Head(s), x)
    BY DEF Carries
  <2>2. Cardinality(Carrying(Tail(s), x)) \in Nat
    BY <1>1, FinitelyMany
  <2> QED
    BY <1>1, <2>1, <2>2, CountTaken
<1>3. Balanced(E, I, s, b) => Balanced(E, I, Tail(s), b)
  BY <1>2 DEF Balanced
<1> QED
  BY <1>1, <1>3 DEF Consumption, Tables

\* Nothing is read; a reference may be finalized.
LEMMA NotTaken ==
  ASSUME NEW E, NEW I, NEW J, NEW s, NEW b, ImportTable(J), DOMAIN J = DOMAIN I,
         \A x \in DOMAIN I : J[x].refs = I[x].refs,
         DOMAIN I \subseteq DOMAIN E, Channel(s, E)
  PROVE  Consumption(E, I, J, s, s, b)
<1>1. \A x : Refs(J, x) = Refs(I, x)
  BY DEF Refs
<1>2. Balanced(E, I, s, b) => Balanced(E, J, s, b)
  BY <1>1 DEF Balanced
<1> QED
  BY <1>2 DEF Consumption, Tables

-----------------------------------------------------------------------------
(* What the application holds: C are its calls, I its imports.              *)

HeldBy(C, id) == {n \in DOMAIN C : C[n].cap = Import(id)}
Holds(C, I) ==
  CallTable(C, I) /\ \A id \in DOMAIN I : I[id].live >= Cardinality(HeldBy(C, id))

LEMMA HeldFinitely ==
  ASSUME NEW C, IsSeq(C), NEW id
  PROVE  IsFiniteSet(HeldBy(C, id)) /\ Cardinality(HeldBy(C, id)) \in Nat
<1>1. DOMAIN C = 1 .. Len(C) /\ Len(C) \in Nat
  BY DEF IsSeq
<1>2. IsFiniteSet(1 .. Len(C))
  BY <1>1, FS_Interval
<1>3. IsFiniteSet(HeldBy(C, id))
  BY <1>1, <1>2, FS_Subset DEF HeldBy
<1> QED
  BY <1>3, FS_CardinalityType

\* A new call holds nothing yet.
LEMMA CallMade ==
  ASSUME NEW C, NEW I, Holds(C, I), NEW r, {"state", "cap"} \subseteq DOMAIN r, r.cap = NullClient
  PROVE  Holds(Append(C, r), I)
<1> DEFINE D == C \o <<r>>
<1>1. CallTable(C, I) /\ IsSeq(C)
  BY DEF Holds, CallTable
<1>2. Append(C, r) = D
  BY <1>1 DEF IsSeq
<1>3. /\ IsSeq(D)
      /\ DOMAIN C = 1 .. Len(C) /\ Len(C) \in Nat
      /\ DOMAIN D = 1 .. Len(C) + 1
      /\ \A n \in DOMAIN C : D[n] = C[n]
      /\ D[Len(C) + 1] = r
  <2>1. /\ IsSeq(D)
        /\ Len(C) \in Nat /\ DOMAIN C = 1 .. Len(C)
        /\ DOMAIN D = 1 .. Len(C) + 1
        /\ \A j \in 1 .. Len(C) : D[j] = C[j]
        /\ D[Len(C) + 1] = r
    BY <1>1, Sent
  <2> QED
    BY <2>1
<1>4. r.cap.k = "null"
  BY DEF NullClient
<1> HIDE DEF D
<1>5. ASSUME NEW n \in DOMAIN D
      PROVE  /\ {"state", "cap"} \subseteq DOMAIN D[n]
             /\ D[n].cap.k = "import" => D[n].cap = Import(D[n].cap.id) /\ D[n].cap.id \in DOMAIN I
  <2>1. CASE n \in DOMAIN C
    BY <1>1, <1>3, <2>1 DEF CallTable
  <2>2. CASE n = Len(C) + 1
    BY <1>3, <1>4, <2>2
  <2> QED
    BY <1>3, <2>1, <2>2
<1>6. ASSUME NEW id PROVE HeldBy(D, id) = HeldBy(C, id)
  <2>1. r.cap # Import(id)
    BY <1>4 DEF Import
  <2>2. Len(C) + 1 \notin DOMAIN C
    BY <1>3
  <2>3. DOMAIN D = DOMAIN C \cup {Len(C) + 1}
    BY <1>3
  <2> QED
    BY <1>3, <2>1, <2>2, <2>3 DEF HeldBy
<1>7. CallTable(D, I)
  BY <1>3, <1>5 DEF CallTable
<1> QED
  BY <1>2, <1>6, <1>7 DEF Holds

\* More references than before leave every reference counted.
LEMMA StillHeld ==
  ASSUME NEW C, NEW I, Holds(C, I), ImportTable(I), NEW J, ImportTable(J),
         DOMAIN I \subseteq DOMAIN J, \A x \in DOMAIN I : J[x].live >= I[x].live
  PROVE  Holds(C, J)
<1>1. CallTable(C, J) /\ IsSeq(C)
  BY DEF Holds, CallTable
<1>2. ASSUME NEW x \in DOMAIN J PROVE J[x].live >= Cardinality(HeldBy(C, x))
  <2>1. J[x].live \in Nat /\ Cardinality(HeldBy(C, x)) \in Nat
    BY <1>1, HeldFinitely DEF ImportTable, ImportEntry
  <2>2. CASE x \in DOMAIN I
    <3>1. I[x].live \in Nat
      BY <2>2 DEF ImportTable, ImportEntry
    <3>2. I[x].live >= Cardinality(HeldBy(C, x)) /\ J[x].live >= I[x].live
      BY <2>2 DEF Holds
    <3> QED
      BY <2>1, <3>1, <3>2
  <2>3. CASE x \notin DOMAIN I
    <3>1. HeldBy(C, x) = {}
      BY <2>3 DEF HeldBy, Holds, CallTable, Import
    <3> QED
      BY <2>1, <3>1, FS_EmptySet
  <2> QED
    BY <2>2, <2>3
<1> QED
  BY <1>1, <1>2 DEF Holds

\* D is the call table C with r for its n-th call.
Updates(C, D, n, r) == n \in DOMAIN C /\ D = [C EXCEPT ![n] = r]
Uses(c, id) == IF c = Import(id) THEN 1 ELSE 0

LEMMA UsesFacts ==
  ASSUME NEW c, NEW id
  PROVE  /\ Uses(c, id) \in {0, 1}
         /\ c.k # "import" => Uses(c, id) = 0
BY DEF Uses, Import

\* One call is updated: how many calls hold an import.
LEMMA HeldCounts ==
  ASSUME NEW C, IsSeq(C), NEW n, NEW r, NEW D, Updates(C, D, n, r), NEW id
  PROVE  Cardinality(HeldBy(D, id)) + Uses(C[n].cap, id)
           = Cardinality(HeldBy(C, id)) + Uses(r.cap, id)
<1> DEFINE X == HeldBy(C, id)
           Y == HeldBy(D, id)
           B == X \ {n}
<1>1. IsFiniteSet(X) /\ IsFiniteSet(B)
  BY HeldFinitely, FS_Subset
<1>2. IsFiniteSet(B) /\ Cardinality(B) \in Nat /\ n \notin B
  BY <1>1, FS_CardinalityType
<1>3. Cardinality(B \cup {n}) = Cardinality(B) + 1
  <2> HIDE DEF B
  <2> QED
    BY <1>2, FS_AddElement
<1>4. X = IF C[n].cap = Import(id) THEN B \cup {n} ELSE B
  BY DEF HeldBy, Updates
<1>5. Y = IF r.cap = Import(id) THEN B \cup {n} ELSE B
  BY DEF HeldBy, Updates
<1> HIDE DEF X, Y, B
<1>6. Cardinality(X) = Cardinality(B) + Uses(C[n].cap, id)
  BY <1>2, <1>3, <1>4 DEF Uses
<1>7. Cardinality(Y) = Cardinality(B) + Uses(r.cap, id)
  BY <1>2, <1>3, <1>5 DEF Uses
<1>8. Cardinality(Y) + Uses(C[n].cap, id) = Cardinality(X) + Uses(r.cap, id)
  BY <1>2, <1>6, <1>7, UsesFacts
<1> QED
  BY <1>8 DEF X, Y

\* One call is updated: the call table stays one.
LEMMA CallUpdated ==
  ASSUME NEW C, NEW I, CallTable(C, I), NEW n, NEW r, NEW D, Updates(C, D, n, r),
         NEW J, DOMAIN I \subseteq DOMAIN J,
         {"state", "cap"} \subseteq DOMAIN r,
         r.cap.k = "import" => r.cap = Import(r.cap.id) /\ r.cap.id \in DOMAIN J
  PROVE  CallTable(D, J)
<1>1. IsSeq(C) /\ DOMAIN C = 1 .. Len(C) /\ Len(C) \in Nat
  BY DEF CallTable, IsSeq
<1>2. DOMAIN D = DOMAIN C /\ D[n] = r /\ \A m \in DOMAIN C : m # n => D[m] = C[m]
  BY DEF Updates
<1>3. IsSeq(D)
  <2>1. D = [m \in 1 .. Len(C) |-> D[m]]
    BY <1>1 DEF Updates
  <2> QED
    BY <1>1, <2>1, IsSequence
<1>4. ASSUME NEW m \in DOMAIN D
      PROVE  /\ {"state", "cap"} \subseteq DOMAIN D[m]
             /\ D[m].cap.k = "import" => D[m].cap = Import(D[m].cap.id) /\ D[m].cap.id \in DOMAIN J
  BY <1>2 DEF CallTable
<1> QED
  BY <1>3, <1>4 DEF CallTable

\* A call that holds what it held.
LEMMA StateUpdated ==
  ASSUME NEW C, NEW I, Holds(C, I), ImportTable(I), NEW n, NEW r, NEW D,
         Updates(C, D, n, r), {"state", "cap"} \subseteq DOMAIN r,
         r.cap = C[n].cap \/ r.cap.k # "import"
  PROVE  Holds(D, I)
<1>1. CallTable(C, I) /\ IsSeq(C)
  BY DEF Holds, CallTable
<1>2. CallTable(D, I)
  <2>1. r.cap.k = "import" => r.cap = Import(r.cap.id) /\ r.cap.id \in DOMAIN I
    BY <1>1 DEF CallTable, Updates
  <2> QED
    BY <1>1, <2>1, CallUpdated
<1>3. ASSUME NEW x \in DOMAIN I PROVE I[x].live >= Cardinality(HeldBy(D, x))
  <2> DEFINE X == Cardinality(HeldBy(C, x))
             Y == Cardinality(HeldBy(D, x))
  <2>1. Y + Uses(C[n].cap, x) = X + Uses(r.cap, x)
    BY <1>1, HeldCounts
  <2>2. X \in Nat /\ Y \in Nat
    BY <1>1, <1>2, HeldFinitely DEF CallTable
  <2>3. I[x].live \in Nat /\ I[x].live >= X
    BY DEF ImportTable, ImportEntry, Holds
  <2>4. Uses(r.cap, x) \in {0, 1} /\ Uses(C[n].cap, x) \in {0, 1}
    BY UsesFacts
  <2>5. Uses(r.cap, x) <= Uses(C[n].cap, x)
    BY <2>4, UsesFacts
  <2> HIDE DEF X, Y
  <2>6. I[x].live >= Y
    BY <2>1, <2>2, <2>3, <2>4, <2>5
  <2> QED
    BY <2>6 DEF Y
<1> QED
  BY <1>2, <1>3 DEF Holds

\* J is the import table I after a reference to import i was finalized.
Drops(I, J, i) == J = [I EXCEPT ![i].live = @ - 1]

\* A call whose result is collected, with its reference.
LEMMA ReferenceDropped ==
  ASSUME NEW C, NEW I, Holds(C, I), ImportTable(I), NEW n, C[n].cap.k = "import",
         NEW r, NEW D, Updates(C, D, n, r),
         {"state", "cap"} \subseteq DOMAIN r, r.cap = NullClient,
         NEW J, Drops(I, J, C[n].cap.id)
  PROVE  /\ Holds(D, J) /\ ImportTable(J)
         /\ DOMAIN J = DOMAIN I /\ \A x \in DOMAIN I : J[x].refs = I[x].refs
<1> DEFINE i == C[n].cap.id
<1>1. CallTable(C, I) /\ IsSeq(C) /\ C[n].cap = Import(i) /\ i \in DOMAIN I
  BY DEF Holds, CallTable, Updates
<1>2. r.cap.k # "import"
  BY DEF NullClient
<1> HIDE DEF i
<1>3. J = [I EXCEPT ![i].live = @ - 1]
  BY DEF i, Drops
<1>4. DOMAIN J = DOMAIN I /\ \A x \in DOMAIN I : x # i => J[x] = I[x]
  BY <1>3
<1>5. \A x \in DOMAIN I : I[x] \in ImportEntry /\ I[x].refs \in Nat /\ I[x].live \in Nat
  BY DEF ImportTable, ImportEntry
<1>6. J[i] = [I[i] EXCEPT !.live = @ - 1]
  BY <1>1, <1>3
<1>7. J[i].refs = I[i].refs /\ J[i].live = I[i].live - 1
  BY <1>1, <1>5, <1>6 DEF ImportEntry
<1>8. ASSUME NEW x
      PROVE  /\ Cardinality(HeldBy(D, x)) + (IF x = i THEN 1 ELSE 0) = Cardinality(HeldBy(C, x))
             /\ Cardinality(HeldBy(C, x)) \in Nat /\ Cardinality(HeldBy(D, x)) \in Nat
  <2>1. CallTable(D, I)
    BY <1>1, <1>2, CallUpdated
  <2>2. Cardinality(HeldBy(C, x)) \in Nat /\ Cardinality(HeldBy(D, x)) \in Nat
    BY <1>1, <2>1, HeldFinitely DEF CallTable
  <2>3. Cardinality(HeldBy(D, x)) + Uses(C[n].cap, x) = Cardinality(HeldBy(C, x)) + Uses(r.cap, x)
    BY <1>1, HeldCounts
  <2>4. Uses(C[n].cap, x) = IF x = i THEN 1 ELSE 0
    BY <1>1 DEF Uses, Import
  <2>5. Uses(r.cap, x) = 0
    BY <1>2, UsesFacts
  <2> QED
    BY <2>2, <2>3, <2>4, <2>5
<1>9. ASSUME NEW x \in DOMAIN I
      PROVE  J[x].live \in Nat /\ J[x].live >= Cardinality(HeldBy(D, x)) /\ J[x].refs = I[x].refs
  <2>1. I[x].live >= Cardinality(HeldBy(C, x))
    BY DEF Holds
  <2>2. CASE x = i
    <3>1. Cardinality(HeldBy(D, x)) + 1 = Cardinality(HeldBy(C, x))
      BY <1>8, <2>2
    <3>2. J[x].live = I[x].live - 1
      BY <1>7, <2>2
    <3> QED
      BY <1>5, <1>7, <1>8, <2>1, <2>2, <3>1, <3>2
  <2>3. CASE x # i
    <3>1. Cardinality(HeldBy(D, x)) = Cardinality(HeldBy(C, x))
      BY <1>8, <2>3
    <3>2. J[x] = I[x]
      BY <1>4, <2>3
    <3> QED
      BY <1>5, <2>1, <3>1, <3>2
  <2> QED
    BY <2>2, <2>3
<1>10. ImportTable(J)
  <2>1. J[i] = [refs |-> J[i].refs, live |-> J[i].live]
    <3>1. I[i] = [refs |-> I[i].refs, live |-> I[i].live]
      BY <1>1, <1>5 DEF ImportEntry
    <3> QED
      BY <1>1, <1>5, <1>6, <3>1 DEF ImportEntry
  <2>2. J[i] \in ImportEntry
    BY <1>1, <1>5, <1>9, <2>1 DEF ImportEntry
  <2> QED
    BY <1>4, <1>5, <2>2 DEF ImportTable
<1>11. CallTable(D, J)
  <2>1. DOMAIN I \subseteq DOMAIN J
    BY <1>4
  <2>2. r.cap.k = "import" => r.cap = Import(r.cap.id) /\ r.cap.id \in DOMAIN J
    BY <1>2
  <2> QED
    BY <1>1, <2>1, <2>2, CallUpdated
<1> QED
  BY <1>4, <1>9, <1>10, <1>11 DEF Holds

\* A call whose result holds an import that was just counted.
LEMMA ReferenceGained ==
  ASSUME NEW C, NEW I, Holds(C, I), ImportTable(I), NEW n, NEW i,
         NEW r, NEW D, Updates(C, D, n, r),
         {"state", "cap"} \subseteq DOMAIN r, r.cap = Import(i),
         NEW J, Receives(I, J, i), i \in DOMAIN I => I[i].live > 0
  PROVE  Holds(D, J)
<1>1. CallTable(C, I) /\ IsSeq(C)
  BY DEF Holds, CallTable
<1>2. r.cap.k = "import" /\ r.cap.id = i
  BY DEF Import
<1>3. ImportTable(J) /\ DOMAIN J = DOMAIN I \cup {i}
  BY DEF Receives
<1>4. CallTable(D, J)
  BY <1>1, <1>2, <1>3, CallUpdated
<1>5. ASSUME NEW x \in DOMAIN J PROVE J[x].live >= Cardinality(HeldBy(D, x))
  <2> DEFINE X == Cardinality(HeldBy(C, x))
             Y == Cardinality(HeldBy(D, x))
  <2>1. /\ Y + Uses(C[n].cap, x) = X + Uses(r.cap, x)
        /\ X \in Nat /\ Y \in Nat /\ J[x].live \in Nat
    <3>1. Y + Uses(C[n].cap, x) = X + Uses(r.cap, x)
      BY <1>1, HeldCounts
    <3>2. X \in Nat /\ Y \in Nat
      BY <1>1, <1>4, HeldFinitely DEF CallTable
    <3>3. J[x].live \in Nat
      BY <1>3 DEF ImportTable, ImportEntry
    <3> QED
      BY <3>1, <3>2, <3>3
  <2>2. Uses(r.cap, x) = IF x = i THEN 1 ELSE 0
    BY DEF Uses, Import
  <2>3. x \in DOMAIN I => I[x].live \in Nat /\ I[x].live >= X
    BY DEF ImportTable, ImportEntry, Holds
  <2>4. x \notin DOMAIN I => X = 0
    <3>1. x \notin DOMAIN I => HeldBy(C, x) = {}
      BY <1>1 DEF HeldBy, CallTable, Import
    <3> QED
      BY <3>1, FS_EmptySet
  <2> HIDE DEF X, Y
  <2>5. Y <= X + (IF x = i THEN 1 ELSE 0)
    BY <2>1, <2>2, UsesFacts
  <2>6. CASE x = i
    <3>1. CASE x \in DOMAIN I
      <4>1. J[x].live = I[x].live + 1
        BY <2>6, <3>1 DEF Receives
      <4>2. Y <= X + 1
        BY <2>5, <2>6
      <4>3. J[x].live >= Y
        BY <2>1, <2>3, <3>1, <4>1, <4>2
      <4> QED
        BY <4>3 DEF Y
    <3>2. CASE x \notin DOMAIN I
      <4>1. J[x].live = 1
        BY <2>6, <3>2 DEF Receives
      <4>2. Y <= 0 + 1
        BY <2>4, <2>5, <2>6, <3>2
      <4>3. J[x].live >= Y
        BY <2>1, <4>1, <4>2
      <4> QED
        BY <4>3 DEF Y
    <3> QED
      BY <3>1, <3>2
  <2>7. CASE x # i
    <3>1. x \in DOMAIN I /\ J[x] = I[x]
      BY <1>3, <2>7 DEF Receives
    <3>2. Y <= X + 0
      BY <2>5, <2>7
    <3>3. J[x].live >= Y
      BY <2>1, <2>3, <3>1, <3>2
    <3> QED
      BY <3>3 DEF Y
  <2> QED
    BY <2>6, <2>7
<1> QED
  BY <1>4, <1>5 DEF Holds

-----------------------------------------------------------------------------
(* A step of one vat.                                                       *)

\* The step of v changes nothing of its peer in a variable that is f before and g after.
OnlyOf(v, f, g) == DOMAIN g = Vat /\ g[Peer(v)] = f[Peer(v)]
Frame(v) == /\ OnlyOf(v, exports, exports') /\ OnlyOf(v, imports, imports')
            /\ OnlyOf(v, calls, calls')
            /\ OnlyOf(v, main, main') /\ main' \in [Vat -> BOOLEAN]
            /\ OnlyOf(v, working, working') /\ working' \in [Vat -> BOOLEAN]
            /\ DOMAIN net' = Vat
            /\ working'[v] => working[v]
Emits(v) == Emission(exports[v], exports'[v], imports[Peer(v)],
                     net[Peer(v)], net'[Peer(v)], main[v], main'[v])
Reads(v) == Consumption(exports[Peer(v)], imports[v], imports'[v],
                        net[v], net'[v], main[Peer(v)])
Keeps(v) == Holds(calls'[v], imports'[v])

\* What the invariant says of one vat, in terms of the tables.
LEMMA InvariantOf ==
  ASSUME CountsInv, NEW v \in Vat
  PROVE  /\ ExportTable(exports[v]) /\ ImportTable(imports[v])
         /\ DOMAIN imports[v] \subseteq DOMAIN exports[Peer(v)]
         /\ main[v] => MainIn(exports[v])
         /\ Channel(net[v], exports[Peer(v)])
         /\ Holds(calls[v], imports[v])
         /\ working[Peer(v)] => Balanced(exports[v], imports[Peer(v)], net[Peer(v)], main[v])
         /\ main[v] \in BOOLEAN /\ working[v] \in BOOLEAN
<1>1. main[v] => MainIn(exports[v])
  BY DEF CountsInv, ExportIds, MainIn
<1>2. Holds(calls[v], imports[v])
  BY DEF CountsInv, Holds, Held, HeldImports, HeldBy
<1>3. working[Peer(v)] => Balanced(exports[v], imports[Peer(v)], net[Peer(v)], main[v])
  BY DEF CountsInv, Accounted, InFlight, Balanced, ByMain, Refs, Carrying, Carries
<1> QED
  BY <1>1, <1>2, <1>3 DEF CountsInv

\* The two sides of a step keep the invariant.
LEMMA StepKeeps ==
  ASSUME CountsInv, NEW v \in Vat, Frame(v), Emits(v), Keeps(v),
         Tables(exports[Peer(v)], imports'[v], net'[v]), working'[v] => Reads(v)
  PROVE  CountsInv'
<1> DEFINE w == Peer(v)
<1>1. /\ w \in Vat /\ w # v /\ Peer(w) = v /\ \A x \in Vat : x = v \/ x = w
  BY PeerFacts
<1>2. /\ DOMAIN exports' = Vat /\ DOMAIN imports' = Vat /\ DOMAIN net' = Vat
      /\ DOMAIN calls' = Vat /\ DOMAIN main' = Vat /\ DOMAIN working' = Vat
      /\ main' \in [Vat -> BOOLEAN] /\ working' \in [Vat -> BOOLEAN]
      /\ exports'[w] = exports[w] /\ imports'[w] = imports[w] /\ calls'[w] = calls[w]
      /\ main'[w] = main[w] /\ working'[w] = working[w]
      /\ working'[v] => working[v]
  BY DEF Frame, OnlyOf
<1>3. /\ ExportTable(exports[w]) /\ ImportTable(imports[w])
      /\ DOMAIN imports[w] \subseteq DOMAIN exports[v]
      /\ main[w] => MainIn(exports[w])
      /\ Holds(calls[w], imports[w])
      /\ main[w] \in BOOLEAN /\ working[w] \in BOOLEAN
      /\ main[v] \in BOOLEAN /\ working[v] \in BOOLEAN
      /\ working[v] => Balanced(exports[w], imports[v], net[v], main[w])
      /\ working[w] => Balanced(exports[v], imports[w], net[w], main[v])
  BY <1>1, InvariantOf
<1> DEFINE TablesOf(x) ==
       /\ ExportTable(exports'[x]) /\ ImportTable(imports'[x])
       /\ DOMAIN imports'[x] \subseteq DOMAIN exports'[Peer(x)]
       /\ main'[x] => MainIn(exports'[x])
       /\ Channel(net'[x], exports'[Peer(x)])
       /\ Holds(calls'[x], imports'[x])
       /\ working'[Peer(x)] => Balanced(exports'[x], imports'[Peer(x)], net'[Peer(x)], main'[x])
<1>4. TablesOf(v)
  <2>1. /\ ExportTable(exports'[v])
        /\ main'[v] => MainIn(exports'[v])
        /\ Balanced(exports[v], imports[w], net[w], main[v])
             => Balanced(exports'[v], imports[w], net'[w], main'[v])
    BY DEF Emits, Emission
  <2>2. /\ ImportTable(imports'[v]) /\ DOMAIN imports'[v] \subseteq DOMAIN exports[w]
        /\ Channel(net'[v], exports[w])
    BY DEF Tables
  <2>3. Holds(calls'[v], imports'[v])
    BY DEF Keeps
  <2> HIDE DEF w
  <2>4. Peer(v) = w
    BY DEF w
  <2>5. DOMAIN imports'[v] \subseteq DOMAIN exports'[w] /\ Channel(net'[v], exports'[w])
    BY <1>2, <2>2
  <2>6. working'[w] => Balanced(exports'[v], imports'[w], net'[w], main'[v])
    BY <1>2, <1>3, <2>1
  <2> QED
    BY <2>1, <2>2, <2>3, <2>4, <2>5, <2>6, Zenon
<1>5. TablesOf(w)
  <2>1. /\ DOMAIN exports[v] \subseteq DOMAIN exports'[v]
        /\ Channel(net'[w], exports'[v])
    BY DEF Emits, Emission
  <2>2. working'[v] => (Balanced(exports[w], imports[v], net[v], main[w])
                          => Balanced(exports[w], imports'[v], net'[v], main[w]))
    BY DEF Reads, Consumption
  <2> HIDE DEF w
  <2>3. ExportTable(exports'[w]) /\ ImportTable(imports'[w]) /\ Holds(calls'[w], imports'[w])
    BY <1>2, <1>3
  <2>4. DOMAIN imports'[w] \subseteq DOMAIN exports'[v]
    BY <1>2, <1>3, <2>1
  <2>5. main'[w] => MainIn(exports'[w])
    BY <1>2, <1>3
  <2>6. working'[v] => Balanced(exports'[w], imports'[v], net'[v], main'[w])
    BY <1>2, <1>3, <2>2
  <2> QED
    BY <1>1, <2>1, <2>3, <2>4, <2>5, <2>6, Zenon
<1>6. ASSUME NEW x \in Vat
      PROVE  /\ (ExportTable(exports[x]) /\ ImportTable(imports[x]))'
             /\ (DOMAIN imports[x] \subseteq DOMAIN exports[Peer(x)])'
             /\ (main[x] => ExportIds(x, Server(Main)) # {})'
             /\ Channel(net[x], exports[Peer(x)])'
             /\ CallTable(calls[x], imports[x])'
             /\ Held(x)'
             /\ (working[Peer(x)] => Accounted(x))'
  <2>1. TablesOf(x)
    BY <1>1, <1>4, <1>5
  <2>2. (main[x] => ExportIds(x, Server(Main)) # {})'
    BY <2>1 DEF ExportIds, MainIn
  <2>3. CallTable(calls[x], imports[x])' /\ Held(x)'
    BY <2>1 DEF Holds, Held, HeldImports, HeldBy
  <2>4. (working[Peer(x)] => Accounted(x))'
    BY <2>1 DEF Accounted, InFlight, Balanced, ByMain, Refs, Carrying, Carries
  <2> QED
    BY <2>1, <2>2, <2>3, <2>4
<1> QED
  BY <1>2, <1>6 DEF CountsInv

LEMMA Stepped ==
  ASSUME CountsInv, NEW v \in Vat, Frame(v), Emits(v), Reads(v), Keeps(v)
  PROVE  CountsInv'
<1>1. Tables(exports[Peer(v)], imports'[v], net'[v])
  BY DEF Reads, Consumption
<1> QED
  BY <1>1, StepKeeps

-----------------------------------------------------------------------------
(* What the parts of the actions do to the tables. *)

LEMMA Changed ==
  ASSUME NEW v \in Vat, NEW f, DOMAIN f = Vat, NEW e, NEW g, g = [f EXCEPT ![v] = e]
  PROVE  OnlyOf(v, f, g) /\ g[v] = e
BY PeerFacts DEF OnlyOf

LEMMA Unchanged ==
  ASSUME NEW v \in Vat, NEW f, DOMAIN f = Vat, NEW g, g = f
  PROVE  OnlyOf(v, f, g) /\ g[v] = f[v]
BY DEF OnlyOf

LEMMA NetSent ==
  ASSUME CountsInv, NEW v \in Vat, NEW ms, Send(v, ms)
  PROVE  /\ DOMAIN net' = Vat
         /\ net'[v] = net[v] /\ net'[Peer(v)] = net[Peer(v)] \o ms
BY PeerFacts DEF Send, CountsInv

LEMMA NetReplied ==
  ASSUME CountsInv, NEW v \in Vat, NEW ms, Reply(v, ms)
  PROVE  /\ DOMAIN net' = Vat
         /\ net'[v] = Tail(net[v]) /\ net'[Peer(v)] = net[Peer(v)] \o ms
BY PeerFacts DEF Reply, CountsInv

\* A message with the descriptor of client c is sent.
LEMMA EmitsCapability ==
  ASSUME CountsInv, NEW v \in Vat, NEW c, NEW m, m.k \in {"call", "return"},
         m.cap = DescriptorFor(v, c),
         exports'[v] = Described(v, c), main'[v] = main[v],
         net'[Peer(v)] = net[Peer(v)] \o <<m>>
  PROVE  Emits(v)
<1> DEFINE w == Peer(v)
<1>1. /\ w \in Vat /\ Peer(w) = v
      /\ ExportTable(exports[v]) /\ ImportTable(imports[w])
      /\ DOMAIN imports[w] \subseteq DOMAIN exports[v]
      /\ Channel(net[w], exports[v])
      /\ main[v] => MainIn(exports[v])
  BY PeerFacts, InvariantOf
<1>2. CASE c.k \in {"null", "import"}
  <2>1. exports'[v] = exports[v]
    BY <1>2 DEF Described
  <2>2. \/ m.cap = NoDescriptor
        \/ m.cap = [k |-> "receiverHosted", id |-> m.cap.id]
    BY <1>2 DEF DescriptorFor, NoDescriptor
  <2>3. Emission(exports[v], exports[v], imports[w], net[w], net[w] \o <<m>>, main[v], main[v])
    BY <1>1, <2>2, PlainSent
  <2> QED
    BY <2>1, <2>3 DEF Emits
<1>3. CASE c.k \notin {"null", "import"}
  <2>1. exports'[v] = AddExport(v, c)
    BY <1>3 DEF Described
  <2>2. m.cap = [k |-> "senderHosted", id |-> ExportId(v, c)]
    BY <1>3 DEF DescriptorFor
  <2>3. Gains(exports[v], AddExport(v, c), ExportId(v, c), c)
    BY <1>1, Exported
  <2>4. Emission(exports[v], AddExport(v, c), imports[w], net[w], net[w] \o <<m>>, main[v], main[v])
    BY <1>1, <2>2, <2>3, CapabilitySent
  <2> QED
    BY <2>1, <2>4 DEF Emits
<1> QED
  BY <1>2, <1>3

\* A message without a capability is sent.
LEMMA EmitsPlain ==
  ASSUME CountsInv, NEW v \in Vat, NEW m,
         m.k \in {"call", "return"} => m.cap = NoDescriptor,
         exports'[v] = exports[v], main'[v] = main[v],
         net'[Peer(v)] = net[Peer(v)] \o <<m>>
  PROVE  Emits(v)
<1> DEFINE w == Peer(v)
<1>1. /\ w \in Vat /\ Peer(w) = v
      /\ ExportTable(exports[v]) /\ Channel(net[w], exports[v])
      /\ main[v] => MainIn(exports[v])
  BY PeerFacts, InvariantOf
<1>2. Emission(exports[v], exports[v], imports[w], net[w], net[w] \o <<m>>, main[v], main[v])
  BY <1>1, PlainSent
<1> QED
  BY <1>2 DEF Emits

\* Nothing is sent.
LEMMA EmitsNothing ==
  ASSUME CountsInv, NEW v \in Vat, exports'[v] = exports[v], main'[v] = main[v],
         net'[Peer(v)] = net[Peer(v)] \/ net'[Peer(v)] = net[Peer(v)] \o <<>>
  PROVE  Emits(v)
<1> DEFINE w == Peer(v)
<1>1. /\ w \in Vat /\ Peer(w) = v
      /\ ExportTable(exports[v]) /\ Channel(net[w], exports[v])
      /\ main[v] => MainIn(exports[v])
  BY PeerFacts, InvariantOf
<1>2. net'[w] = net[w]
  BY <1>1, NothingSent DEF Channel
<1>3. Emission(exports[v], exports[v], imports[w], net[w], net[w], main[v], main[v])
  BY <1>1, NotSent
<1> QED
  BY <1>2, <1>3 DEF Emits

LEMMA ReadsNothing ==
  ASSUME CountsInv, NEW v \in Vat, imports'[v] = imports[v], net'[v] = net[v]
  PROVE  Reads(v)
<1>1. /\ ImportTable(imports[v]) /\ DOMAIN imports[v] \subseteq DOMAIN exports[Peer(v)]
      /\ Channel(net[v], exports[Peer(v)])
  BY InvariantOf
<1>2. Consumption(exports[Peer(v)], imports[v], imports[v], net[v], net[v], main[Peer(v)])
  BY <1>1, NotTaken
<1> QED
  BY <1>2 DEF Reads

\* A Call or a Return is read, with the capability it carries.
LEMMA ReadsCapability ==
  ASSUME CountsInv, NEW v \in Vat, net[v] # <<>>, Head(net[v]).k \in {"call", "return"},
         imports'[v] = Populated(v, Head(net[v]).cap), net'[v] = Tail(net[v])
  PROVE  Reads(v)
<1>1. /\ ImportTable(imports[v]) /\ DOMAIN imports[v] \subseteq DOMAIN exports[Peer(v)]
      /\ Channel(net[v], exports[Peer(v)])
  BY InvariantOf
<1>2. Consumption(exports[Peer(v)], imports[v], Populated(v, Head(net[v]).cap),
                  net[v], Tail(net[v]), main[Peer(v)])
  BY <1>1, CapabilityTaken
<1> QED
  BY <1>2 DEF Reads

\* A message of another kind is read.
LEMMA ReadsPlain ==
  ASSUME CountsInv, NEW v \in Vat, net[v] # <<>>, Head(net[v]).k \notin {"call", "return"},
         imports'[v] = imports[v], net'[v] = Tail(net[v])
  PROVE  Reads(v)
<1>1. /\ ImportTable(imports[v]) /\ DOMAIN imports[v] \subseteq DOMAIN exports[Peer(v)]
      /\ Channel(net[v], exports[Peer(v)])
  BY InvariantOf
<1>2. Consumption(exports[Peer(v)], imports[v], imports[v], net[v], Tail(net[v]), main[Peer(v)])
  BY <1>1, PlainTaken
<1> QED
  BY <1>2 DEF Reads

\* Reading a descriptor leaves every reference counted.
LEMMA HoldsPopulated ==
  ASSUME CountsInv, NEW v \in Vat, NEW d, NEW C, Holds(C, imports[v])
  PROVE  Holds(C, Populated(v, d))
<1>1. ImportTable(imports[v])
  BY InvariantOf
<1>2. CASE d.k = "senderHosted"
  <2> DEFINE I == imports[v]
             J == AddImport(v, d.id)
  <2>1. Receives(I, J, d.id)
    BY <1>1, Imported
  <2> HIDE DEF J
  <2>2. ASSUME NEW x \in DOMAIN I PROVE J[x].live >= I[x].live
    <3>1. I[x].live \in Nat
      BY <1>1 DEF ImportTable, ImportEntry
    <3>2. CASE x = d.id
      BY <2>1, <3>1, <3>2 DEF Receives
    <3>3. CASE x # d.id
      BY <2>1, <3>1, <3>3 DEF Receives
    <3> QED
      BY <3>2, <3>3
  <2>3. ImportTable(J) /\ DOMAIN I \subseteq DOMAIN J
    BY <2>1 DEF Receives
  <2>4. Holds(C, J)
    BY <1>1, <2>2, <2>3, StillHeld
  <2> QED
    BY <1>2, <2>4 DEF Populated, J
<1>3. CASE d.k # "senderHosted"
  BY <1>3 DEF Populated
<1> QED
  BY <1>2, <1>3

\* A vat keeps what it holds, makes a call, or reads a descriptor.
LEMMA KeepsAll ==
  ASSUME CountsInv, NEW v \in Vat, calls'[v] = calls[v], imports'[v] = imports[v]
  PROVE  Keeps(v)
BY InvariantOf DEF Keeps

LEMMA KeepsPopulated ==
  ASSUME CountsInv, NEW v \in Vat, calls'[v] = calls[v], NEW d, imports'[v] = Populated(v, d)
  PROVE  Keeps(v)
BY InvariantOf, HoldsPopulated DEF Keeps

LEMMA KeepsMade ==
  ASSUME CountsInv, NEW v \in Vat, NEW r, {"state", "cap"} \subseteq DOMAIN r, r.cap = NullClient,
         calls'[v] = Append(calls[v], r),
         NEW d, imports'[v] = imports[v] \/ imports'[v] = Populated(v, d)
  PROVE  Keeps(v)
<1>1. Holds(Append(calls[v], r), imports[v])
  BY InvariantOf, CallMade
<1>2. Holds(Append(calls[v], r), Populated(v, d))
  BY <1>1, HoldsPopulated
<1> QED
  BY <1>1, <1>2 DEF Keeps

LEMMA Questioned ==
  ASSUME CountsInv, NEW v \in Vat, NEW on, NEW route, NewQuestion(v, on, route),
         NEW d, imports'[v] = imports[v] \/ imports'[v] = Populated(v, d)
  PROVE  OnlyOf(v, calls, calls') /\ Keeps(v)
<1> DEFINE r == [id |-> IdNext(questionID[v]), on |-> on, route |-> route,
                 state |-> "waiting", cap |-> NullClient]
<1>1. calls' = [calls EXCEPT ![v] = Append(calls[v], r)]
  BY DEF NewQuestion
<1>2. {"state", "cap"} \subseteq DOMAIN r /\ r.cap = NullClient
  OBVIOUS
<1> HIDE DEF r
<1>3. OnlyOf(v, calls, calls') /\ calls'[v] = Append(calls[v], r)
  BY <1>1, Changed DEF CountsInv
<1> QED
  BY <1>2, <1>3, KeepsMade

-----------------------------------------------------------------------------
(* The actions *)

LEMMA InitMainKeeps ==
  ASSUME CountsInv, NEW v \in Vat, InitMain(v)
  PROVE  CountsInv'
<1>1. /\ ~main[v] /\ main' = [main EXCEPT ![v] = TRUE]
      /\ exports' = [exports EXCEPT ![v] = AddExport(v, Server(Main))]
      /\ UNCHANGED <<calls, imports, working, net>>
  BY DEF InitMain
<1>2. /\ OnlyOf(v, exports, exports') /\ exports'[v] = AddExport(v, Server(Main))
      /\ OnlyOf(v, main, main') /\ main'[v] /\ main' \in [Vat -> BOOLEAN]
  BY <1>1, Changed DEF CountsInv
<1>3. Frame(v)
  BY <1>1, <1>2, Unchanged DEF Frame, CountsInv
<1>4. Emits(v)
  <2> DEFINE w == Peer(v)
             F == AddExport(v, Server(Main))
  <2>1. /\ ExportTable(exports[v]) /\ ImportTable(imports[w])
        /\ DOMAIN imports[w] \subseteq DOMAIN exports[v]
        /\ Channel(net[w], exports[v])
    BY PeerFacts, InvariantOf
  <2>2. Gains(exports[v], F, ExportId(v, Server(Main)), Server(Main))
    BY <2>1, Exported
  <2>3. Emission(exports[v], F, imports[w], net[w], net[w], main[v], main'[v])
    BY <1>1, <1>2, <2>1, <2>2, MainExported
  <2> QED
    BY <1>1, <1>2, <2>3 DEF Emits
<1>5. Reads(v) /\ Keeps(v)
  BY <1>1, ReadsNothing, KeepsAll
<1> QED
  BY <1>3, <1>4, <1>5, Stepped

LEMMA BootstrapKeeps ==
  ASSUME CountsInv, NEW v \in Vat, Bootstrap(v)
  PROVE  CountsInv'
<1> DEFINE m == [k |-> "bootstrap", id |-> IdNext(questionID[v]), n |-> Len(calls[v]) + 1]
<1>1. /\ NewQuestion(v, NoOrigin, "bootstrap") /\ Send(v, <<m>>)
      /\ UNCHANGED <<exports, imports, main, working>>
  BY DEF Bootstrap
<1>2. m.k \notin {"call", "return"}
  OBVIOUS
<1> HIDE DEF m
<1>3. DOMAIN net' = Vat /\ net'[v] = net[v] /\ net'[Peer(v)] = net[Peer(v)] \o <<m>>
  BY <1>1, NetSent
<1>4. OnlyOf(v, calls, calls') /\ Keeps(v)
  BY <1>1, Questioned
<1>5. Frame(v)
  BY <1>1, <1>3, <1>4, Unchanged DEF Frame, CountsInv
<1>6. Emits(v)
  BY <1>1, <1>2, <1>3, EmitsPlain
<1>7. Reads(v)
  BY <1>1, <1>3, ReadsNothing
<1> QED
  BY <1>4, <1>5, <1>6, <1>7, Stepped

LEMMA AskKeeps ==
  ASSUME CountsInv, NEW v \in Vat, NEW on, NEW route, NEW target, NEW method, NEW arg,
         Ask(v, on, route, target, method, arg)
  PROVE  CountsInv'
<1> DEFINE m == CallMessage(v, target, method, arg)
<1>1. /\ NewQuestion(v, on, route) /\ Send(v, <<m>>)
      /\ exports' = [exports EXCEPT ![v] = Described(v, arg)]
      /\ UNCHANGED <<imports, main, working>>
  BY DEF Ask
<1>2. m.k = "call" /\ m.cap = DescriptorFor(v, arg)
  BY DEF CallMessage
<1> HIDE DEF m
<1>3. DOMAIN net' = Vat /\ net'[v] = net[v] /\ net'[Peer(v)] = net[Peer(v)] \o <<m>>
  BY <1>1, NetSent
<1>4. OnlyOf(v, exports, exports') /\ exports'[v] = Described(v, arg)
  BY <1>1, Changed DEF CountsInv
<1>5. OnlyOf(v, calls, calls') /\ Keeps(v)
  BY <1>1, Questioned
<1>6. Frame(v)
  BY <1>1, <1>3, <1>4, <1>5, Unchanged DEF Frame, CountsInv
<1>7. Emits(v)
  BY <1>1, <1>2, <1>3, <1>4, EmitsCapability
<1>8. Reads(v)
  BY <1>1, <1>3, ReadsNothing
<1> QED
  BY <1>5, <1>6, <1>7, <1>8, Stepped

\* A step that sends and reads nothing and leaves the capability tables alone.
LEMMA LocalStep ==
  ASSUME CountsInv, NEW v \in Vat, OnlyOf(v, calls, calls'), Keeps(v),
         UNCHANGED <<exports, imports, main, working, net>>
  PROVE  CountsInv'
<1>1. Frame(v)
  BY Unchanged DEF Frame, CountsInv
<1>2. Emits(v) /\ Reads(v)
  BY EmitsNothing, ReadsNothing
<1> QED
  BY <1>1, <1>2, Stepped

LEMMA CallHereKeeps ==
  ASSUME CountsInv, NEW v \in Vat, NEW on, NEW c, CallHere(v, on, c)
  PROVE  CountsInv'
<1>1. UNCHANGED <<exports, imports, main, working, net>>
  BY DEF CallHere, tables
<1> DEFINE here(route, state) == [id |-> NoId, on |-> on, route |-> route,
                                  state |-> state, cap |-> NullClient]
           r == IF ObjectOf(v, c) = NoId THEN here("error", "exception")
                                         ELSE here("local", "waiting")
<1>2. /\ {"state", "cap"} \subseteq DOMAIN r /\ r.cap = NullClient
      /\ calls' = [calls EXCEPT ![v] = Append(calls[v], r)]
  BY DEF CallHere
<1> HIDE DEF r
<1>3. OnlyOf(v, calls, calls') /\ calls'[v] = Append(calls[v], r)
  BY <1>2, Changed DEF CountsInv
<1>4. Keeps(v)
  BY <1>1, <1>2, <1>3, KeepsMade
<1> QED
  BY <1>1, <1>3, <1>4, LocalStep

LEMMA CallOnKeeps ==
  ASSUME CountsInv, NEW v \in Vat, NEW on, NEW c, NEW method, NEW arg,
         CallOn(v, on, c, method, arg)
  PROVE  CountsInv'
BY AskKeeps, CallHereKeeps DEF CallOn

LEMMA AppCallKeeps ==
  ASSUME CountsInv, NEW v \in Vat, AppCall(v)
  PROVE  CountsInv'
<1>1. CASE Bootstrap(v)
  BY <1>1, BootstrapKeeps
<1>2. ASSUME NEW method, NEW arg, NEW m, PipelineCall(v, m, method, arg)
      PROVE  CountsInv'
  BY <1>2, AskKeeps, CallOnKeeps DEF PipelineCall
<1>3. ASSUME NEW method, NEW arg, NEW id, CallParam(v, id, method, arg)
      PROVE  CountsInv'
  BY <1>3, CallOnKeeps DEF CallParam
<1> QED
  BY <1>1, <1>2, <1>3 DEF AppCall

LEMMA LocalFinishKeeps ==
  ASSUME CountsInv, NEW v \in Vat, NEW n \in DOMAIN calls[v], NEW ok, LocalFinish(v, n, ok)
  PROVE  CountsInv'
<1> DEFINE C == calls[v]
           r == [C[n] EXCEPT !.state = IF ok THEN "results" ELSE "exception"]
           D == [C EXCEPT ![n] = r]
<1>1. /\ calls' = [calls EXCEPT ![v] = D]
      /\ UNCHANGED <<exports, imports, main, working, net>>
  BY DEF LocalFinish, tables
<1>2. CallTable(C, imports[v]) /\ Holds(C, imports[v]) /\ ImportTable(imports[v])
  BY InvariantOf DEF Holds
<1>3. {"state", "cap"} \subseteq DOMAIN r /\ r.cap = C[n].cap
  BY <1>2 DEF CallTable
<1>4. Updates(C, D, n, r)
  BY DEF Updates
<1> HIDE DEF r, D
<1>5. Holds(D, imports[v])
  BY <1>2, <1>3, <1>4, StateUpdated
<1>6. OnlyOf(v, calls, calls') /\ calls'[v] = D
  BY <1>1, Changed DEF CountsInv
<1>7. Keeps(v)
  BY <1>1, <1>5, <1>6 DEF Keeps
<1> QED
  BY <1>1, <1>6, <1>7, LocalStep

LEMMA DropKeeps ==
  ASSUME CountsInv, NEW v \in Vat, NEW n \in DOMAIN calls[v], Drop(v, n)
  PROVE  CountsInv'
<1> DEFINE C == calls[v]
           I == imports[v]
           i == C[n].cap.id
           r == [C[n] EXCEPT !.state = "dropped", !.cap = NullClient]
           D == [C EXCEPT ![n] = r]
           J == [I EXCEPT ![i].live = @ - 1]
<1>1. /\ C[n].cap.k = "import"
      /\ calls' = [calls EXCEPT ![v] = D]
      /\ imports' = [imports EXCEPT ![v] = J]
      /\ UNCHANGED <<exports, main, working, net>>
  BY DEF Drop
<1>2. /\ CallTable(C, I) /\ Holds(C, I) /\ ImportTable(I)
      /\ DOMAIN I \subseteq DOMAIN exports[Peer(v)] /\ Channel(net[v], exports[Peer(v)])
  BY InvariantOf DEF Holds
<1>3. {"state", "cap"} \subseteq DOMAIN r /\ r.cap = NullClient
  BY <1>2 DEF CallTable
<1>4. Updates(C, D, n, r) /\ Drops(I, J, i)
  BY DEF Updates, Drops
<1> HIDE DEF r, D, J
<1>5. /\ Holds(D, J) /\ ImportTable(J)
      /\ DOMAIN J = DOMAIN I /\ \A x \in DOMAIN I : J[x].refs = I[x].refs
  BY <1>1, <1>2, <1>3, <1>4, ReferenceDropped
<1>6. /\ OnlyOf(v, calls, calls') /\ calls'[v] = D
      /\ OnlyOf(v, imports, imports') /\ imports'[v] = J
  BY <1>1, Changed DEF CountsInv
<1>7. Keeps(v)
  BY <1>5, <1>6 DEF Keeps
<1>8. Reads(v)
  <2>1. Consumption(exports[Peer(v)], I, J, net[v], net[v], main[Peer(v)])
    BY <1>2, <1>5, NotTaken
  <2> QED
    BY <1>1, <1>6, <2>1 DEF Reads
<1>9. Frame(v) /\ Emits(v)
  BY <1>1, <1>6, Unchanged, EmitsNothing DEF Frame, CountsInv
<1> QED
  BY <1>7, <1>8, <1>9, Stepped

\* A step that sends one message, with the capability of a client or with none.
LEMMA SendingStep ==
  ASSUME CountsInv, NEW v \in Vat, NEW m, Send(v, <<m>>),
         UNCHANGED <<calls, imports, main, working>>, OnlyOf(v, exports, exports'), Emits(v)
  PROVE  CountsInv'
<1>1. DOMAIN net' = Vat /\ net'[v] = net[v]
  BY NetSent
<1>2. Frame(v)
  BY <1>1, Unchanged DEF Frame, CountsInv
<1>3. Reads(v) /\ Keeps(v)
  BY <1>1, ReadsNothing, KeepsAll
<1> QED
  BY <1>2, <1>3, Stepped

LEMMA FulfillKeeps ==
  ASSUME CountsInv, NEW v \in Vat, NEW id, NEW c, Fulfill(v, id, c),
         UNCHANGED <<calls, imports, main, working>>
  PROVE  CountsInv'
<1> DEFINE m == ReturnMessage(id, answers[v][id].n, TRUE, DescriptorFor(v, c))
<1>1. /\ Send(v, <<m>>)
      /\ exports' = [exports EXCEPT ![v] = Described(v, c)]
  BY DEF Fulfill
<1>2. m.k = "return" /\ m.cap = DescriptorFor(v, c)
  BY DEF ReturnMessage
<1> HIDE DEF m
<1>3. OnlyOf(v, exports, exports') /\ exports'[v] = Described(v, c)
  BY <1>1, Changed DEF CountsInv
<1>4. Emits(v)
  <2>1. net'[Peer(v)] = net[Peer(v)] \o <<m>>
    BY <1>1, NetSent
  <2>2. m.k \in {"call", "return"}
    BY <1>2
  <2> QED
    BY <1>2, <1>3, <2>1, <2>2, EmitsCapability
<1> QED
  BY <1>1, <1>3, <1>4, SendingStep

LEMMA RejectKeeps ==
  ASSUME CountsInv, NEW v \in Vat, NEW id, Reject(v, id),
         UNCHANGED <<calls, exports, imports, main, working>>
  PROVE  CountsInv'
<1> DEFINE m == ReturnMessage(id, answers[v][id].n, FALSE, NoDescriptor)
<1>1. Send(v, <<m>>)
  BY DEF Reject
<1>2. m.cap = NoDescriptor
  BY DEF ReturnMessage
<1> HIDE DEF m
<1>3. OnlyOf(v, exports, exports')
  BY Unchanged DEF CountsInv
<1>4. Emits(v)
  BY <1>1, <1>2, NetSent, EmitsPlain
<1> QED
  BY <1>1, <1>3, <1>4, SendingStep

LEMMA AnswerKeeps ==
  ASSUME CountsInv, NEW v \in Vat, NEW id,
         ServerReturns(v, id) \/ ServerThrows(v, id) \/ JoinSettles(v, id)
  PROVE  CountsInv'
<1>1. CASE ServerReturns(v, id)
  BY <1>1, FulfillKeeps DEF ServerReturns
<1>2. CASE ServerThrows(v, id)
  BY <1>2, RejectKeeps DEF ServerThrows
<1>3. CASE JoinSettles(v, id)
  BY <1>3, FulfillKeeps, RejectKeeps DEF JoinSettles
<1> QED
  BY <1>1, <1>2, <1>3

LEMMA RejectNextKeeps ==
  ASSUME CountsInv, NEW v \in Vat, RejectNext(v)
  PROVE  CountsInv'
<1> DEFINE id == Head(rejecting[v])
<1>1. UNCHANGED <<calls, exports, imports, main, working>>
  BY DEF RejectNext
<1>2. CASE Reject(v, id)
  BY <1>1, <1>2, RejectKeeps
<1>3. CASE UNCHANGED net
  <2>1. OnlyOf(v, calls, calls') /\ Keeps(v)
    BY <1>1, Unchanged, KeepsAll DEF CountsInv
  <2> QED
    BY <1>1, <1>3, <2>1, LocalStep
<1> QED
  BY <1>2, <1>3 DEF RejectNext

\* The descriptor of the message that is read is, if it has one; the messages
\* sent back are none, or one without a capability; the vat may stop.
ReadsHead(v) ==
  \/ /\ Head(net[v]).k \in {"call", "return"}
     /\ imports' = [imports EXCEPT ![v] = Populated(v, Head(net[v]).cap)]
  \/ Head(net[v]).k \notin {"call", "return"} /\ UNCHANGED imports
Capless(ms) ==
  \/ ms = <<>>
  \/ \E m : ms = <<m>> /\ (m.k \in {"call", "return"} => m.cap = NoDescriptor)
MayStop(v) ==
  /\ working[v]
  /\ (\E b \in BOOLEAN : working' = [working EXCEPT ![v] = b]) \/ UNCHANGED working

LEMMA HeadRead ==
  ASSUME CountsInv, NEW v \in Vat, ReadsHead(v)
  PROVE  /\ OnlyOf(v, imports, imports')
         /\ Head(net[v]).k \in {"call", "return"}
              => imports'[v] = Populated(v, Head(net[v]).cap)
         /\ Head(net[v]).k \notin {"call", "return"} => imports'[v] = imports[v]
<1>1. DOMAIN imports = Vat
  BY DEF CountsInv
<1>2. CASE UNCHANGED imports /\ Head(net[v]).k \notin {"call", "return"}
  BY <1>1, <1>2 DEF OnlyOf
<1>3. CASE /\ Head(net[v]).k \in {"call", "return"}
           /\ imports' = [imports EXCEPT ![v] = Populated(v, Head(net[v]).cap)]
  BY <1>1, <1>3, Changed
<1> QED
  BY <1>2, <1>3 DEF ReadsHead

LEMMA MayHaveStopped ==
  ASSUME CountsInv, NEW v \in Vat, MayStop(v)
  PROVE  /\ working' \in [Vat -> BOOLEAN] /\ OnlyOf(v, working, working')
         /\ working'[v] => working[v]
<1>1. working \in [Vat -> BOOLEAN] /\ working[v]
  BY DEF CountsInv, MayStop
<1>2. CASE UNCHANGED working
  BY <1>1, <1>2 DEF OnlyOf
<1>3. ASSUME NEW b \in BOOLEAN, working' = [working EXCEPT ![v] = b]
      PROVE  working' \in [Vat -> BOOLEAN] /\ OnlyOf(v, working, working')
  BY <1>1, <1>3, PeerFacts DEF OnlyOf
<1> QED
  BY <1>1, <1>2, <1>3 DEF MayStop

\* A step that reads a message.
LEMMA ReadingStep ==
  ASSUME CountsInv, NEW v \in Vat, NEW ms, Reply(v, ms), net[v] # <<>>, Capless(ms),
         ReadsHead(v), MayStop(v), UNCHANGED <<exports, main>>,
         OnlyOf(v, calls, calls'), Keeps(v)
  PROVE  CountsInv'
<1>1. /\ DOMAIN net' = Vat
      /\ net'[v] = Tail(net[v]) /\ net'[Peer(v)] = net[Peer(v)] \o ms
  BY NetReplied
<1>2. Frame(v)
  BY <1>1, HeadRead, MayHaveStopped, Unchanged DEF Frame, CountsInv
<1>3. Emits(v)
  <2>1. CASE ms = <<>>
    BY <1>1, <2>1, EmitsNothing
  <2>2. ASSUME NEW m, ms = <<m>>, m.k \in {"call", "return"} => m.cap = NoDescriptor
        PROVE  Emits(v)
    BY <1>1, <2>2, EmitsPlain
  <2> QED
    BY <2>1, <2>2 DEF Capless
<1>4. Reads(v)
  BY <1>1, HeadRead, ReadsCapability, ReadsPlain
<1> QED
  BY <1>2, <1>3, <1>4, Stepped

\* The same for the handlers that make and end no call.
LEMMA HandlingStep ==
  ASSUME CountsInv, NEW v \in Vat, NEW ms, Reply(v, ms), net[v] # <<>>, Capless(ms),
         ReadsHead(v), MayStop(v), UNCHANGED <<calls, exports, main>>
  PROVE  CountsInv'
<1>1. OnlyOf(v, calls, calls')
  BY Unchanged DEF CountsInv
<1>2. Keeps(v)
  BY HeadRead, KeepsAll, KeepsPopulated
<1> QED
  BY <1>1, <1>2, ReadingStep

LEMMA HandleBootstrapKeeps ==
  ASSUME CountsInv, NEW v \in Vat, HandleBootstrap(v)
  PROVE  CountsInv'
<1> DEFINE h == Head(net[v])
           m == ReturnMessage(h.id, h.n, main[v] /\ h.id \notin DOMAIN answers[v], NoDescriptor)
<1>1. /\ net[v] # <<>> /\ working[v] /\ h.k = "bootstrap"
      /\ Reply(v, <<m>>) /\ UNCHANGED <<calls, exports, imports, main, working>>
  BY DEF HandleBootstrap, Handles
<1>2. m.cap = NoDescriptor
  BY DEF ReturnMessage
<1> HIDE DEF m
<1>3. Capless(<<m>>) /\ ReadsHead(v) /\ MayStop(v)
  BY <1>1, <1>2 DEF Capless, ReadsHead, MayStop
<1> QED
  BY <1>1, <1>3, HandlingStep

LEMMA HandleCallRefusedKeeps ==
  ASSUME CountsInv, NEW v \in Vat, HandleCallRefused(v)
  PROVE  CountsInv'
<1> DEFINE h == Head(net[v])
           m == [k |-> "unimplemented", id |-> h.id, n |-> h.n]
<1>1. /\ net[v] # <<>> /\ working[v] /\ h.k = "call"
      /\ imports' = [imports EXCEPT ![v] = Populated(v, h.cap)]
      /\ UNCHANGED <<calls, exports, main>>
      /\ Reply(v, <<m>>) \/ Reply(v, <<>>)
      /\ working' = [working EXCEPT ![v] = FALSE] \/ UNCHANGED working
  BY DEF HandleCallRefused, Handles
<1>2. m.k \notin {"call", "return"}
  OBVIOUS
<1> HIDE DEF m
<1>3. Capless(<<m>>) /\ Capless(<<>>) /\ ReadsHead(v) /\ MayStop(v)
  BY <1>1, <1>2 DEF Capless, ReadsHead, MayStop
<1> QED
  BY <1>1, <1>3, HandlingStep

LEMMA HandleCallRejectedKeeps ==
  ASSUME CountsInv, NEW v \in Vat, HandleCallRejected(v)
  PROVE  CountsInv'
<1> DEFINE h == Head(net[v])
           m == ReturnMessage(h.id, h.n, FALSE, NoDescriptor)
<1>1. /\ net[v] # <<>> /\ working[v] /\ h.k = "call"
      /\ imports' = [imports EXCEPT ![v] = Populated(v, h.cap)]
      /\ Reply(v, <<m>>) /\ UNCHANGED <<calls, exports, main, working>>
  BY DEF HandleCallRejected, Routed, Handles
<1>2. m.cap = NoDescriptor
  BY DEF ReturnMessage
<1> HIDE DEF m
<1>3. Capless(<<m>>) /\ ReadsHead(v) /\ MayStop(v)
  BY <1>1, <1>2 DEF Capless, ReadsHead, MayStop
<1> QED
  BY <1>1, <1>3, HandlingStep

LEMMA HandleCallKeptKeeps ==
  ASSUME CountsInv, NEW v \in Vat, HandleCallDelivered(v) \/ HandleCallQueued(v)
  PROVE  CountsInv'
<1> DEFINE h == Head(net[v])
<1>1. /\ net[v] # <<>> /\ working[v] /\ h.k = "call"
      /\ imports' = [imports EXCEPT ![v] = Populated(v, h.cap)]
      /\ Reply(v, <<>>) /\ UNCHANGED <<calls, exports, main, working>>
  BY DEF HandleCallDelivered, HandleCallQueued, Routed, Handles
<1>2. Capless(<<>>) /\ ReadsHead(v) /\ MayStop(v)
  BY <1>1 DEF Capless, ReadsHead, MayStop
<1> QED
  BY <1>1, <1>2, HandlingStep

LEMMA HandleCallForwardedKeeps ==
  ASSUME CountsInv, NEW v \in Vat, HandleCallForwarded(v)
  PROVE  CountsInv'
<1> DEFINE h == Head(net[v])
           target == [k |-> "importedCap", id |-> Route(v, h).id]
           m == CallMessage(v, target, h.method, Param(v, h))
<1>1. /\ net[v] # <<>> /\ h.k = "call"
      /\ imports' = [imports EXCEPT ![v] = Populated(v, h.cap)]
      /\ NewQuestion(v, [k |-> "answer", n |-> h.n], "forward")
      /\ exports' = [exports EXCEPT ![v] = Described(v, Param(v, h))]
      /\ Reply(v, <<m>>) /\ UNCHANGED <<main, working>>
  BY DEF HandleCallForwarded, Routed, Handles
<1>2. m.k \in {"call", "return"} /\ m.cap = DescriptorFor(v, Param(v, h))
  BY DEF CallMessage
<1> HIDE DEF m
<1>3. /\ DOMAIN net' = Vat
      /\ net'[v] = Tail(net[v]) /\ net'[Peer(v)] = net[Peer(v)] \o <<m>>
  BY <1>1, NetReplied
<1>4. /\ OnlyOf(v, exports, exports') /\ exports'[v] = Described(v, Param(v, h))
      /\ OnlyOf(v, imports, imports') /\ imports'[v] = Populated(v, h.cap)
  BY <1>1, Changed DEF CountsInv
<1>5. OnlyOf(v, calls, calls') /\ Keeps(v)
  BY <1>1, <1>4, Questioned
<1>6. Frame(v)
  BY <1>1, <1>3, <1>4, <1>5, Unchanged DEF Frame, CountsInv
<1>7. Emits(v)
  BY <1>1, <1>2, <1>3, <1>4, EmitsCapability
<1>8. Reads(v)
  BY <1>1, <1>3, <1>4, ReadsCapability
<1> QED
  BY <1>5, <1>6, <1>7, <1>8, Stepped

LEMMA HandleFinishKeeps ==
  ASSUME CountsInv, NEW v \in Vat, HandleFinish(v)
  PROVE  CountsInv'
<1> DEFINE h == Head(net[v])
           b == h.id \in DOMAIN answers[v] \/ ~h.releaseResultCaps
<1>1. /\ net[v] # <<>> /\ working[v] /\ h.k = "finish" /\ b \in BOOLEAN
      /\ working' = [working EXCEPT ![v] = b]
      /\ Reply(v, <<>>) /\ UNCHANGED <<calls, exports, imports, main>>
  BY DEF HandleFinish, Handles
<1> HIDE DEF b
<1>2. Capless(<<>>) /\ ReadsHead(v) /\ MayStop(v)
  BY <1>1 DEF Capless, ReadsHead, MayStop
<1> QED
  BY <1>1, <1>2, HandlingStep

LEMMA HandleUnimplementedKeeps ==
  ASSUME CountsInv, NEW v \in Vat, HandleUnimplemented(v)
  PROVE  CountsInv'
<1>1. /\ net[v] # <<>> /\ working[v] /\ Head(net[v]).k = "unimplemented"
      /\ Reply(v, <<>>) /\ UNCHANGED <<calls, exports, imports, main, working>>
  BY DEF HandleUnimplemented, Handles, tables
<1>2. Capless(<<>>) /\ ReadsHead(v) /\ MayStop(v)
  BY <1>1 DEF Capless, ReadsHead, MayStop
<1> QED
  BY <1>1, <1>2, HandlingStep

\* A Return that finds no question stops the vat, unread.
LEMMA StrayReturnKeeps ==
  ASSUME CountsInv, NEW v \in Vat, HandleReturn(v), FindQuestion(v, Head(net[v]).id) = 0
  PROVE  CountsInv'
<1>1. /\ net[v] # <<>> /\ working' = [working EXCEPT ![v] = FALSE]
      /\ Reply(v, <<>>) /\ UNCHANGED <<calls, exports, imports, main>>
  BY DEF HandleReturn, Handles
<1>2. /\ DOMAIN net' = Vat
      /\ net'[v] = Tail(net[v]) /\ net'[Peer(v)] = net[Peer(v)] \o <<>>
  BY <1>1, NetReplied
<1>3. /\ OnlyOf(v, working, working') /\ working' \in [Vat -> BOOLEAN]
      /\ ~working'[v]
  BY <1>1, Changed DEF CountsInv
<1>4. Frame(v)
  BY <1>1, <1>2, <1>3, Unchanged DEF Frame, CountsInv
<1>5. Tables(exports[Peer(v)], imports'[v], net'[v])
  BY <1>1, <1>2, InvariantOf, ChannelTaken DEF Tables
<1>6. Emits(v) /\ Keeps(v)
  BY <1>1, <1>2, EmitsNothing, KeepsAll
<1> QED
  BY <1>3, <1>4, <1>5, <1>6, StepKeeps

\* The result of a Return is put into its call.
LEMMA ReturnHeld ==
  ASSUME CountsInv, NEW v \in Vat, net[v] # <<>>, Head(net[v]).k = "return",
         NEW n, NEW x, NEW D,
         D = [calls[v] EXCEPT ![n].state = x, ![n].cap = ClientFor(v, Head(net[v]).cap, -n)]
  PROVE  Holds(D, Populated(v, Head(net[v]).cap))
<1> DEFINE C == calls[v]
           I == imports[v]
           d == Head(net[v]).cap
           c == ClientFor(v, d, -n)
           r == [[C[n] EXCEPT !.state = x] EXCEPT !.cap = c]
<1>1. Holds(C, I) /\ CallTable(C, I) /\ ImportTable(I) /\ Carried(d, exports[Peer(v)])
  BY InvariantOf, ChannelTaken DEF Holds
<1>2. CASE n \notin DOMAIN C
  <2>1. D = C
    <3>1. DOMAIN D = DOMAIN C /\ \A m \in DOMAIN C : D[m] = C[m]
      BY <1>2
    <3>2. C = [m \in DOMAIN C |-> C[m]]
      BY <1>1 DEF CallTable, IsSeq
    <3> QED
      BY <1>2, <3>1, <3>2
  <2> QED
    BY <1>1, <2>1, HoldsPopulated
<1>3. CASE n \in DOMAIN C
  <2>1. {"state", "cap"} \subseteq DOMAIN r /\ r.cap = c
    BY <1>1, <1>3 DEF CallTable
  <2>2. Updates(C, D, n, r)
    BY <1>3 DEF Updates
  <2> HIDE DEF r, c, d
  <2>3. CASE d.k = "senderHosted" /\ c = Import(d.id)
    <3> DEFINE J == AddImport(v, d.id)
    <3>1. Receives(I, J, d.id) /\ Populated(v, d) = J
      BY <1>1, <2>3, Imported DEF Populated
    <3>2. d.id \in DOMAIN I => I[d.id].live > 0
      <4>1. ~(d.id \in DOMAIN I /\ I[d.id].live = 0)
        BY <2>3 DEF ClientFor, Import, ErrorClient, c
      <4>2. d.id \in DOMAIN I => I[d.id].live \in Nat
        BY <1>1 DEF ImportTable, ImportEntry
      <4> QED
        BY <4>1, <4>2
    <3> HIDE DEF J
    <3>3. Holds(D, J)
      BY <1>1, <2>1, <2>2, <2>3, <3>1, <3>2, ReferenceGained
    <3> QED
      BY <3>1, <3>3 DEF d
  <2>4. CASE ~(d.k = "senderHosted" /\ c = Import(d.id))
    <3>1. c.k # "import"
      BY <1>1, <2>4 DEF Carried, NoDescriptor, ClientFor, NullClient, OwnRef, ErrorClient, Import, c
    <3>2. Holds(D, I)
      BY <1>1, <2>1, <2>2, <3>1, StateUpdated
    <3> QED
      BY <3>2, HoldsPopulated DEF d
  <2> QED
    BY <2>3, <2>4
<1> QED
  BY <1>2, <1>3

LEMMA HandleReturnKeeps ==
  ASSUME CountsInv, NEW v \in Vat, HandleReturn(v)
  PROVE  CountsInv'
<1> DEFINE h == Head(net[v])
           n == FindQuestion(v, h.id)
           x == IF h.ok THEN "results" ELSE "exception"
           m == [k |-> "finish", id |-> h.id, releaseResultCaps |-> ~h.ok]
           D == [calls[v] EXCEPT ![n].state = x, ![n].cap = ClientFor(v, h.cap, -n)]
<1>1. CASE n = 0
  BY <1>1, StrayReturnKeeps
<1>2. CASE n # 0
  <2>1. /\ net[v] # <<>> /\ working[v] /\ h.k = "return"
        /\ imports' = [imports EXCEPT ![v] = Populated(v, h.cap)]
        /\ working' = [working EXCEPT ![v] = Populates(v, h.cap)]
        /\ UNCHANGED <<exports, main>>
        /\ \/ calls' = [calls EXCEPT ![v] = D] /\ Reply(v, <<m>>)
           \/ UNCHANGED calls /\ Reply(v, <<>>)
    BY <1>2 DEF HandleReturn, Handles
  <2>2. Holds(D, Populated(v, h.cap))
    BY <2>1, ReturnHeld
  <2>3. m.k \notin {"call", "return"}
    OBVIOUS
  <2>4. Populates(v, h.cap) \in BOOLEAN
    BY DEF Populates
  <2> HIDE DEF D, m
  <2>5. ReadsHead(v) /\ MayStop(v) /\ Capless(<<m>>) /\ Capless(<<>>)
    BY <2>1, <2>3, <2>4 DEF ReadsHead, MayStop, Capless
  <2>6. imports'[v] = Populated(v, h.cap)
    BY <2>1, Changed DEF CountsInv
  <2>7. CASE UNCHANGED calls /\ Reply(v, <<>>)
    BY <2>1, <2>5, <2>7, HandlingStep
  <2>8. CASE calls' = [calls EXCEPT ![v] = D] /\ Reply(v, <<m>>)
    <3>1. OnlyOf(v, calls, calls') /\ calls'[v] = D
      BY <2>8, Changed DEF CountsInv
    <3>2. Keeps(v)
      BY <2>2, <2>6, <3>1 DEF Keeps
    <3> QED
      BY <2>1, <2>5, <2>8, <3>1, <3>2, ReadingStep
  <2> QED
    BY <2>1, <2>7, <2>8
<1> QED
  BY <1>1, <1>2

LEMMA HandleMessageKeeps ==
  ASSUME CountsInv, NEW v \in Vat, HandleMessage(v)
  PROVE  CountsInv'
BY HandleBootstrapKeeps, HandleCallRefusedKeeps, HandleCallRejectedKeeps, HandleCallKeptKeeps,
   HandleCallForwardedKeeps, HandleReturnKeeps, HandleFinishKeeps, HandleUnimplementedKeeps
   DEF HandleMessage

-----------------------------------------------------------------------------
(* The theorems *)

LEMMA InitHolds == Init => CountsInv
<1> SUFFICES ASSUME Init PROVE CountsInv
  OBVIOUS
<1>1. /\ DOMAIN exports = Vat /\ DOMAIN imports = Vat /\ DOMAIN net = Vat /\ DOMAIN calls = Vat
      /\ main \in [Vat -> BOOLEAN] /\ working \in [Vat -> BOOLEAN]
  BY DEF Init
<1>2. \A v \in Vat : /\ exports[v] = Empty /\ imports[v] = Empty
                     /\ net[v] = <<>> /\ calls[v] = <<>> /\ ~main[v]
  BY DEF Init
<1>3. DOMAIN Empty = {} /\ IsFiniteSet({}) /\ Cardinality({}) = 0
  BY FS_EmptySet DEF Empty
<1>4. IsSeq(<<>>) /\ DOMAIN <<>> = {}
  BY DEF IsSeq
<1>5. ExportTable(Empty) /\ ImportTable(Empty)
  <2>1. 0 .. 0 - 1 = {}
    OBVIOUS
  <2> QED
    BY <1>3, <2>1 DEF ExportTable, ImportTable
<1>6. \A E : Channel(<<>>, E) /\ CallTable(<<>>, E)
  BY <1>4 DEF Channel, CallTable
<1> QED
  BY <1>1, <1>2, <1>3, <1>5, <1>6, PeerFacts DEF CountsInv, Held, Accounted

LEMMA NextKeeps == CountsInv /\ [Next]_vars => CountsInv'
<1> SUFFICES ASSUME CountsInv, [Next]_vars PROVE CountsInv'
  OBVIOUS
<1>1. CASE UNCHANGED vars
  BY <1>1 DEF vars, CountsInv, ExportIds, Held, HeldImports, Accounted, InFlight
<1>2. CASE Next
  BY <1>2, InitMainKeeps, AppCallKeeps, DropKeeps, RejectNextKeeps, AnswerKeeps,
     LocalFinishKeeps, HandleMessageKeeps DEF Next, ServerEnds, JoinEnds, LocalEnds
<1> QED
  BY <1>1, <1>2

\* The tables of both vats keep the shape that the counts rest on.
THEOREM CountsInvariant == Spec => []CountsInv
BY InitHolds, NextKeeps, PTL DEF Spec

\* No vat closes an import client while its application holds a reference to it.
THEOREM Held_IsCounted == Spec => []HeldIsCounted
<1>1. CountsInv => HeldIsCounted
  BY DEF CountsInv, HeldIsCounted
<1> QED
  BY <1>1, CountsInvariant, PTL

\* As long as no handler has thrown, the wire references an exporter counts are
\* those its peer counted, those on their way, and the one of initMain().
THEOREM Exports_AreAccounted == Spec => [](NoProtocolError => ExportAccounting)
<1>1. CountsInv => (NoProtocolError => ExportAccounting)
  BY PeerFacts DEF CountsInv, NoProtocolError, ExportAccounting
<1> QED
  BY <1>1, CountsInvariant, PTL

-----------------------------------------------------------------------------
(* Induction, and the messages of a direction. *)

\* Induction, without an operator as a parameter.
LEMMA LeastNatural ==
  ASSUME NEW T, T \subseteq Nat, T # {}
  PROVE  \E x \in T : \A y \in T : x <= y
<1>1. IsWellFoundedOn(OpToRel(<, Nat), Nat)
  BY NatLessThanWellFounded
<1>2. PICK x \in T : \A y \in T : ~(<<y, x>> \in OpToRel(<, Nat))
  BY <1>1, WFMin
<1>3. \A y \in T : ~(y < x)
  BY <1>2 DEF OpToRel
<1>. QED
  BY <1>3

\* f[j] is what OfKinds makes of the first j messages.
Sift(u, m, K) == IF m.k \in K THEN Append(u, m) ELSE u
Sifting(f, s, K, n) ==
  /\ f = [j \in 0 .. n |-> f[j]] /\ f[0] = <<>>
  /\ \A j \in 1 .. n : f[j] = Sift(f[j - 1], s[j], K)

LEMMA SiftingExists ==
  ASSUME NEW s, NEW K, NEW n \in Nat
  PROVE  \E f : Sifting(f, s, K, n)
<1> DEFINE T == {i \in Nat : ~\E f : Sifting(f, s, K, i)}
<1> SUFFICES ASSUME T # {} PROVE FALSE
  OBVIOUS
<1>1. PICK m \in T : \A i \in T : m <= i
  BY LeastNatural
<1>2. ASSUME m = 0 PROVE FALSE
  <2> DEFINE f == [j \in {0} |-> <<>>]
  <2>1. Sifting(f, s, K, 0)
    BY DEF Sifting
  <2>. QED
    BY <1>1, <1>2, <2>1
<1>3. ASSUME m # 0 PROVE FALSE
  <2>1. m - 1 \in Nat /\ m - 1 \notin T
    BY <1>1, <1>3
  <2>2. PICK f : Sifting(f, s, K, m - 1)
    BY <2>1
  <2> DEFINE x == Sift(f[m - 1], s[m], K)
             g == [j \in 0 .. m |-> IF j = m THEN x ELSE f[j]]
  <2>3. /\ g[0] = f[0] /\ g[m] = x
        /\ \A j \in 0 .. m - 1 : g[j] = f[j]
    BY <1>1, <1>3
  <2>a. g = [j \in 0 .. m |-> g[j]]
    OBVIOUS
  <2> HIDE DEF g, x
  <2>4. ASSUME NEW j \in 1 .. m PROVE g[j] = Sift(g[j - 1], s[j], K)
    <3>1. CASE j = m
      BY <1>1, <1>3, <2>1, <2>3, <3>1 DEF x
    <3>2. CASE j # m
      <4>1. j \in 1 .. m - 1 /\ j - 1 \in 0 .. m - 1
        BY <2>1, <3>2
      <4>2. f[j] = Sift(f[j - 1], s[j], K)
        BY <2>2, <4>1 DEF Sifting
      <4>3. g[j] = f[j] /\ g[j - 1] = f[j - 1]
        BY <2>3, <4>1
      <4>. QED
        BY <4>2, <4>3
    <3>. QED
      BY <3>1, <3>2
  <2>5. Sifting(g, s, K, m)
    BY <2>2, <2>3, <2>4, <2>a DEF Sifting
  <2>. QED
    BY <1>1, <2>5
<1>. QED
  BY <1>2, <1>3

LEMMA SiftingUnique ==
  ASSUME NEW s, NEW t, NEW K, NEW n \in Nat, NEW f, NEW g,
         Sifting(f, s, K, n), NEW l \in Nat, n <= l, Sifting(g, t, K, l),
         \A j \in 1 .. n : s[j] = t[j]
  PROVE  \A j \in 0 .. n : f[j] = g[j]
<1> DEFINE T == {j \in 0 .. n : f[j] # g[j]}
<1> SUFFICES ASSUME T # {} PROVE FALSE
  OBVIOUS
<1>1. PICK m \in T : \A i \in T : m <= i
  <2>1. T \subseteq Nat
    OBVIOUS
  <2>. QED
    BY <2>1, LeastNatural
<1>2. m # 0
  BY <1>1 DEF Sifting
<1>3. m \in 0 .. n /\ f[m] # g[m]
  BY <1>1
<1>4. f[m - 1] = g[m - 1]
  <2>1. m - 1 \in 0 .. n /\ m - 1 \notin T
    BY <1>1, <1>2, <1>3
  <2>. QED
    BY <2>1
<1>5. m \in 1 .. n /\ m \in 1 .. l /\ s[m] = t[m]
  BY <1>2, <1>3
<1>6. f[m] = Sift(f[m - 1], s[m], K) /\ g[m] = Sift(g[m - 1], t[m], K)
  BY <1>5 DEF Sifting
<1>. QED
  BY <1>3, <1>4, <1>5, <1>6

LEMMA OfKindsIs ==
  ASSUME NEW s, Len(s) \in Nat, NEW K
  PROVE  \E f : Sifting(f, s, K, Len(s)) /\ OfKinds(s, K) = f[Len(s)]
<1> DEFINE R(f) == [j \in 0 .. Len(s) |-> IF j = 0 THEN <<>> ELSE Sift(f[j - 1], s[j], K)]
           of == CHOOSE f : f = R(f)
<1>1. OfKinds(s, K) = of[Len(s)]
  BY DEF OfKinds, Sift
<1>2. PICK f : Sifting(f, s, K, Len(s))
  BY SiftingExists
<1>3. f = R(f)
  <2>1. f = [j \in 0 .. Len(s) |-> f[j]]
    BY <1>2 DEF Sifting
  <2>2. \A j \in 0 .. Len(s) : f[j] = R(f)[j]
    BY <1>2 DEF Sifting
  <2>3. R(f) = [j \in 0 .. Len(s) |-> R(f)[j]]
    OBVIOUS
  <2> HIDE DEF R
  <2>. QED
    BY <2>1, <2>2, <2>3
<1>4. of = R(of)
  <2> HIDE DEF R
  <2>. QED
    BY <1>3
<1> HIDE DEF of
<1>5. Sifting(of, s, K, Len(s))
  <2>1. of = [j \in 0 .. Len(s) |-> of[j]] /\ of[0] = <<>>
    BY <1>4
  <2>2. \A j \in 1 .. Len(s) : of[j] = Sift(of[j - 1], s[j], K)
    BY <1>4
  <2>. QED
    BY <2>1, <2>2 DEF Sifting
<1>. QED
  BY <1>1, <1>5

LEMMA OfKindsType ==
  ASSUME NEW S, NEW s \in Seq(S), NEW K
  PROVE  OfKinds(s, K) \in Seq({m \in S : m.k \in K})
<1> DEFINE U == {m \in S : m.k \in K}
<1>1. PICK f : Sifting(f, s, K, Len(s)) /\ OfKinds(s, K) = f[Len(s)]
  BY OfKindsIs
<1> DEFINE T == {j \in 0 .. Len(s) : f[j] \notin Seq(U)}
<1> SUFFICES ASSUME T # {} PROVE FALSE
  BY <1>1
<1>2. PICK m \in T : \A i \in T : m <= i
  <2>1. T \subseteq Nat
    OBVIOUS
  <2>. QED
    BY <2>1, LeastNatural
<1>a. m \in 0 .. Len(s) /\ f[m] \notin Seq(U)
  OBVIOUS
<1>b. f[0] = <<>>
  BY <1>1 DEF Sifting
<1>c. <<>> \in Seq(U)
  OBVIOUS
<1>3. m # 0
  BY <1>a, <1>b, <1>c
<1>4. m - 1 \in 0 .. Len(s) /\ f[m - 1] \in Seq(U)
  BY <1>2, <1>3
<1>5. s[m] \in S
  BY <1>3
<1>6. s[m].k \in K => s[m] \in U
  BY <1>5
<1>7. f[m] = Sift(f[m - 1], s[m], K)
  BY <1>1, <1>3, <1>a DEF Sifting
<1> HIDE DEF U
<1>. QED
  BY <1>4, <1>6, <1>7, <1>a DEF Sift

\* A message that is sent is the last of its kind.
LEMMA OfKindsSent ==
  ASSUME NEW S, NEW s \in Seq(S), NEW m \in S, NEW K
  PROVE  OfKinds(s \o <<m>>, K) = IF m.k \in K THEN Append(OfKinds(s, K), m)
                                  ELSE OfKinds(s, K)
<1> DEFINE t == s \o <<m>>
<1>1. t \in Seq(S) /\ Len(t) = Len(s) + 1 /\ t[Len(s) + 1] = m
      /\ \A j \in 1 .. Len(s) : t[j] = s[j]
  OBVIOUS
<1> HIDE DEF t
<1>2. PICK f : Sifting(f, s, K, Len(s)) /\ OfKinds(s, K) = f[Len(s)]
  BY OfKindsIs
<1>3. PICK g : Sifting(g, t, K, Len(t)) /\ OfKinds(t, K) = g[Len(t)]
  BY <1>1, OfKindsIs
<1>4. f[Len(s)] = g[Len(s)]
  <2>1. /\ Len(s) \in Nat /\ Len(t) \in Nat /\ Len(s) <= Len(t)
        /\ \A j \in 1 .. Len(s) : s[j] = t[j]
        /\ Len(s) \in 0 .. Len(s)
    BY <1>1
  <2>a. PICK n, l : n = Len(s) /\ l = Len(t)
    OBVIOUS
  <2>b. Sifting(f, s, K, n) /\ Sifting(g, t, K, l) /\ n \in Nat /\ l \in Nat /\ n <= l
       /\ \A j \in 1 .. n : s[j] = t[j]
    BY <1>2, <1>3, <2>1, <2>a
  <2>2. \A j \in 0 .. n : f[j] = g[j]
    BY <2>b, SiftingUnique
  <2>. QED
    BY <2>1, <2>2, <2>a
<1>5. g[Len(s) + 1] = Sift(g[Len(s)], m, K)
  <2>1. Len(s) + 1 \in 1 .. Len(t) /\ (Len(s) + 1) - 1 = Len(s)
    BY <1>1
  <2>. QED
    BY <1>1, <1>3, <2>1 DEF Sifting
<1>. QED
  BY <1>1, <1>2, <1>3, <1>4, <1>5 DEF t, Sift

\* The first message is the first of its kind.
LEMMA OfKindsTaken ==
  ASSUME NEW S, NEW s \in Seq(S), s # <<>>, NEW K
  PROVE  OfKinds(s, K) = IF Head(s).k \in K THEN <<Head(s)>> \o OfKinds(Tail(s), K)
                         ELSE OfKinds(Tail(s), K)
<1> DEFINE t == Tail(s)
           m == Head(s)
           U == {x \in S : x.k \in K}
<1>1. /\ t \in Seq(S) /\ Len(s) \in Nat \ {0} /\ Len(t) = Len(s) - 1
      /\ m = s[1] /\ m \in S
      /\ \A j \in 1 .. Len(t) : t[j] = s[j + 1]
  OBVIOUS
<1> HIDE DEF t, m
<1>2. PICK f : Sifting(f, s, K, Len(s)) /\ OfKinds(s, K) = f[Len(s)]
  BY <1>1, OfKindsIs
<1>3. PICK g : Sifting(g, t, K, Len(t)) /\ OfKinds(t, K) = g[Len(t)]
  BY <1>1, OfKindsIs
<1> DEFINE P(j) == /\ g[j] \in Seq(U)
                   /\ f[j + 1] = IF m.k \in K THEN <<m>> \o g[j] ELSE g[j]
           T == {j \in 0 .. Len(t) : ~P(j)}
<1>4. ASSUME T # {} PROVE FALSE
  <2>1. PICK i \in T : \A j \in T : i <= j
    <3>1. T \subseteq Nat
      BY <1>1
    <3> HIDE DEF T
    <3>. QED
      BY <1>4, <3>1, LeastNatural
  <2>2. P(0)
    <3>1. g[0] = <<>> /\ f[0] = <<>>
      BY <1>2, <1>3 DEF Sifting
    <3>0. f[1] = Sift(f[0], s[1], K)
      BY <1>1, <1>2 DEF Sifting
    <3>2. f[1] = IF m.k \in K THEN <<m>> ELSE <<>>
      BY <1>1, <3>0, <3>1 DEF Sift
    <3>3. <<m>> \o <<>> = <<m>>
      OBVIOUS
    <3>. QED
      BY <3>1, <3>2, <3>3
  <2>3. i # 0
    BY <2>1, <2>2
  <2>4. i - 1 \in 0 .. Len(t) /\ P(i - 1)
    <3>1. i \in 0 .. Len(t) /\ i - 1 \in 0 .. Len(t)
      BY <1>1, <2>1, <2>3
    <3>2. i - 1 \notin T
      <4> HIDE DEF T
      <4>. QED
        BY <2>1, <3>1
    <3> HIDE DEF P
    <3>. QED
      BY <3>1, <3>2
  <2>a. /\ i \in 1 .. Len(t) /\ i + 1 \in 1 .. Len(s) /\ (i + 1) - 1 = i
        /\ t[i] = s[i + 1]
    BY <1>1, <2>1, <2>3
  <2>5. /\ g[i] = Sift(g[i - 1], t[i], K)
        /\ f[i + 1] = Sift(f[i], t[i], K)
    BY <1>2, <1>3, <2>a DEF Sifting
  <2>6. t[i] \in S /\ (t[i].k \in K => t[i] \in U)
    BY <1>1, <2>1, <2>3
  <2>7. m.k \in K => m \in U
    BY <1>1
  <2>8. f[i] = IF m.k \in K THEN <<m>> \o g[i - 1] ELSE g[i - 1]
    BY <2>1, <2>3, <2>4
  <2> HIDE DEF U
  <2>9. g[i - 1] \in Seq(U)
    BY <2>4
  <2>10. t[i].k \in K /\ m.k \in K =>
           Append(<<m>> \o g[i - 1], t[i]) = <<m>> \o Append(g[i - 1], t[i])
    <3>1. ASSUME NEW x \in U, NEW y \in U, NEW q \in Seq(U)
          PROVE  Append(<<x>> \o q, y) = <<x>> \o Append(q, y)
      OBVIOUS
    <3>. QED
      BY <2>6, <2>7, <2>9, <3>1
  <2>11. g[i] \in Seq(U)
    BY <2>5, <2>6, <2>9 DEF Sift
  <2>12. f[i + 1] = IF m.k \in K THEN <<m>> \o g[i] ELSE g[i]
    BY <2>5, <2>8, <2>10 DEF Sift
  <2>. QED
    BY <2>1, <2>11, <2>12
<1>5. P(Len(t))
  BY <1>1, <1>4
<1>. QED
  BY <1>1, <1>2, <1>3, <1>5 DEF t, m

-----------------------------------------------------------------------------
(* The messages of one direction. *)

AskKinds == {"bootstrap", "call", "finish"}
ReplyKinds == {"return", "unimplemented"}

LEMMA MessageSent ==
  ASSUME NEW S, NEW t \in Seq(S), NEW m \in S
  PROVE  /\ Append(t, m) \in Seq(S) /\ DOMAIN Append(t, m) = 1 .. Len(t) + 1
         /\ DOMAIN t = 1 .. Len(t) /\ Len(t) \in Nat
         /\ \A j \in 1 .. Len(t) : Append(t, m)[j] = t[j]
         /\ Append(t, m)[Len(t) + 1] = m
OBVIOUS

LEMMA MessageTaken ==
  ASSUME NEW S, NEW t \in Seq(S), NEW m \in S
  PROVE  /\ <<m>> \o t \in Seq(S) /\ DOMAIN (<<m>> \o t) = 1 .. Len(t) + 1
         /\ DOMAIN t = 1 .. Len(t) /\ Len(t) \in Nat
         /\ \A j \in 1 .. Len(t) : (<<m>> \o t)[j + 1] = t[j]
         /\ (<<m>> \o t)[1] = m
OBVIOUS

LEMMA SameSequence ==
  ASSUME NEW V, NEW x \in Seq(V), NEW y \in Seq(V), Len(x) = Len(y),
         \A j \in 1 .. Len(x) : x[j] = y[j]
  PROVE  x = y
OBVIOUS

LEMMA LastOf ==
  ASSUME NEW V, NEW x \in Seq(V), NEW a \in V, NEW y \in Seq(V),
         Len(y) = Len(x) + 1, \A j \in 1 .. Len(x) : y[j] = x[j], y[Len(x) + 1] = a
  PROVE  y = Append(x, a)
<1>1. /\ Append(x, a) \in Seq(V) /\ Len(Append(x, a)) = Len(x) + 1
      /\ \A j \in 1 .. Len(x) : Append(x, a)[j] = x[j]
      /\ Append(x, a)[Len(x) + 1] = a
  OBVIOUS
<1>2. \A j \in 1 .. Len(y) : j \in 1 .. Len(x) \/ j = Len(x) + 1
  OBVIOUS
<1>3. \A j \in 1 .. Len(y) : y[j] = Append(x, a)[j]
  BY <1>1, <1>2
<1> HIDE <1>2
<1>. QED
  BY <1>1, <1>3, SameSequence

LEMMA FirstOf ==
  ASSUME NEW V, NEW x \in Seq(V), NEW a \in V, NEW y \in Seq(V),
         Len(y) = Len(x) + 1, \A j \in 1 .. Len(x) : y[j + 1] = x[j], y[1] = a
  PROVE  y # <<>> /\ Head(y) = a /\ Tail(y) = x
<1>1. y # <<>> /\ Head(y) = a
  OBVIOUS
<1>2. /\ Tail(y) \in Seq(V) /\ Len(Tail(y)) = Len(x)
      /\ \A j \in 1 .. Len(x) : Tail(y)[j] = y[j + 1]
  OBVIOUS
<1>3. \A j \in 1 .. Len(Tail(y)) : Tail(y)[j] = x[j]
  BY <1>2
<1>4. Tail(y) = x
  BY <1>2, <1>3, SameSequence
<1>. QED
  BY <1>1, <1>4

LEMMA AsksType ==
  ASSUME NEW s \in Seq(Message)
  PROVE  Asks(s) \in Seq({AskMessage(m) : m \in Message})
<1> DEFINE t == OfKinds(s, AskKinds)
           U == {AskMessage(m) : m \in Message}
<1>1. t \in Seq(Message)
  <2>1. t \in Seq({m \in Message : m.k \in AskKinds})
    BY OfKindsType
  <2>. QED
    BY <2>1
<1>2. Asks(s) = [j \in DOMAIN t |-> AskMessage(t[j])]
  BY DEF Asks, AskKinds
<1>3. \A j \in DOMAIN t : t[j] \in Message
  BY <1>1
<1>4. \A j \in DOMAIN t : AskMessage(t[j]) \in U
  BY <1>3
<1> HIDE DEF t, U
<1>5. DOMAIN t = 1 .. Len(t) /\ Len(t) \in Nat
  BY <1>1
<1>6. Asks(s) \in [1 .. Len(t) -> U]
  BY <1>2, <1>4, <1>5
<1>. QED
  BY <1>5, <1>6 DEF U

LEMMA AsksSent ==
  ASSUME NEW s \in Seq(Message), NEW m \in Message
  PROVE  Asks(s \o <<m>>) = IF m.k \in AskKinds THEN Append(Asks(s), AskMessage(m))
                            ELSE Asks(s)
<1> DEFINE t == OfKinds(s, AskKinds)
           u == OfKinds(s \o <<m>>, AskKinds)
           a == AskMessage(m)
           V == {AskMessage(x) : x \in Message}
<1>1. t \in Seq(Message)
  <2>1. t \in Seq({x \in Message : x.k \in AskKinds})
    BY OfKindsType
  <2>. QED
    BY <2>1
<1>2. /\ Asks(s) = [j \in DOMAIN t |-> AskMessage(t[j])]
      /\ Asks(s \o <<m>>) = [j \in DOMAIN u |-> AskMessage(u[j])]
  BY DEF Asks, AskKinds
<1>3. u = IF m.k \in AskKinds THEN Append(t, m) ELSE t
  BY OfKindsSent
<1>4. Asks(s) \in Seq(V) /\ a \in V
  BY AsksType
<1> HIDE DEF t, u, a, V
<1>5. CASE m.k \in AskKinds
  <2>1. /\ DOMAIN u = 1 .. Len(t) + 1 /\ DOMAIN t = 1 .. Len(t) /\ Len(t) \in Nat
        /\ \A j \in 1 .. Len(t) : u[j] = t[j]
        /\ u[Len(t) + 1] = m
    BY <1>1, <1>3, <1>5, MessageSent
  <2> DEFINE y == Asks(s \o <<m>>)
  <2>2. y \in Seq(V)
    <3>1. s \o <<m>> \in Seq(Message)
      OBVIOUS
    <3>. QED
      BY <3>1, AsksType DEF V
  <2>3. Len(Asks(s)) = Len(t) /\ Len(y) = Len(t) + 1
    BY <1>2, <1>4, <2>1, <2>2
  <2>4. \A j \in 1 .. Len(t) : y[j] = Asks(s)[j]
    BY <1>2, <2>1
  <2>5. y[Len(t) + 1] = a
    BY <1>2, <2>1 DEF a
  <2> HIDE DEF y
  <2>6. y = Append(Asks(s), a)
    BY <1>4, <2>2, <2>3, <2>4, <2>5, LastOf
  <2>. QED
    BY <1>5, <2>6 DEF y, a
<1>. QED
  BY <1>2, <1>3, <1>5

LEMMA AsksTaken ==
  ASSUME NEW s \in Seq(Message), s # <<>>
  PROVE  IF Head(s).k \in AskKinds
         THEN /\ Asks(s) # <<>> /\ Head(Asks(s)) = AskMessage(Head(s))
              /\ Tail(Asks(s)) = Asks(Tail(s))
         ELSE Asks(Tail(s)) = Asks(s)
<1> DEFINE u == OfKinds(s, AskKinds)
           t == OfKinds(Tail(s), AskKinds)
           m == Head(s)
           a == AskMessage(m)
           V == {AskMessage(x) : x \in Message}
<1>0. Tail(s) \in Seq(Message) /\ m \in Message
  OBVIOUS
<1>1. t \in Seq(Message)
  <2>1. t \in Seq({x \in Message : x.k \in AskKinds})
    BY <1>0, OfKindsType
  <2>. QED
    BY <2>1
<1>2. /\ Asks(s) = [j \in DOMAIN u |-> AskMessage(u[j])]
      /\ Asks(Tail(s)) = [j \in DOMAIN t |-> AskMessage(t[j])]
  BY DEF Asks, AskKinds
<1>3. u = IF m.k \in AskKinds THEN <<m>> \o t ELSE t
  BY OfKindsTaken
<1>4. Asks(Tail(s)) \in Seq(V) /\ a \in V /\ Asks(s) \in Seq(V)
  BY <1>0, AsksType
<1> HIDE DEF t, u, V, m
<1>5. CASE m.k \in AskKinds
  <2>1. /\ DOMAIN u = 1 .. Len(t) + 1 /\ DOMAIN t = 1 .. Len(t) /\ Len(t) \in Nat
        /\ \A j \in 1 .. Len(t) : u[j + 1] = t[j]
        /\ u[1] = m
    BY <1>0, <1>1, <1>3, <1>5, MessageTaken
  <2>2. Len(Asks(s)) = Len(t) + 1 /\ Len(Asks(Tail(s))) = Len(t)
    BY <1>2, <1>4, <2>1
  <2>3. Asks(s)[1] = a
    BY <1>2, <2>1 DEF a
  <2>4. \A j \in 1 .. Len(t) : Asks(s)[j + 1] = Asks(Tail(s))[j]
    <3> SUFFICES ASSUME NEW j \in 1 .. Len(t) PROVE Asks(s)[j + 1] = Asks(Tail(s))[j]
      OBVIOUS
    <3>1. j + 1 \in 1 .. Len(t) + 1 /\ j \in 1 .. Len(t)
      BY <2>1
    <3>. QED
      BY <1>2, <2>1, <3>1
  <2>5. Asks(s) # <<>> /\ Head(Asks(s)) = a /\ Tail(Asks(s)) = Asks(Tail(s))
    <3>1. PICK x, y : x = Asks(Tail(s)) /\ y = Asks(s)
      OBVIOUS
    <3>. QED
      BY <1>4, <2>2, <2>3, <2>4, <3>1, FirstOf
  <2>. QED
    BY <1>5, <2>5 DEF m, a
<1>. QED
  BY <1>2, <1>3, <1>5 DEF m

LEMMA RepliesType ==
  ASSUME NEW s \in Seq(Message)
  PROVE  Replies(s) \in Seq({AnswerMessage(m) : m \in Message})
<1> DEFINE t == OfKinds(s, ReplyKinds)
           U == {AnswerMessage(m) : m \in Message}
<1>1. t \in Seq(Message)
  <2>1. t \in Seq({m \in Message : m.k \in ReplyKinds})
    BY OfKindsType
  <2>. QED
    BY <2>1
<1>2. Replies(s) = [j \in DOMAIN t |-> AnswerMessage(t[j])]
  BY DEF Replies, ReplyKinds
<1>3. \A j \in DOMAIN t : t[j] \in Message
  BY <1>1
<1>4. \A j \in DOMAIN t : AnswerMessage(t[j]) \in U
  BY <1>3
<1> HIDE DEF t, U
<1>5. DOMAIN t = 1 .. Len(t) /\ Len(t) \in Nat
  BY <1>1
<1>6. Replies(s) \in [1 .. Len(t) -> U]
  BY <1>2, <1>4, <1>5
<1>. QED
  BY <1>5, <1>6 DEF U

LEMMA RepliesSent ==
  ASSUME NEW s \in Seq(Message), NEW m \in Message
  PROVE  Replies(s \o <<m>>) = IF m.k \in ReplyKinds THEN Append(Replies(s), AnswerMessage(m))
                            ELSE Replies(s)
<1> DEFINE t == OfKinds(s, ReplyKinds)
           u == OfKinds(s \o <<m>>, ReplyKinds)
           a == AnswerMessage(m)
           V == {AnswerMessage(x) : x \in Message}
<1>1. t \in Seq(Message)
  <2>1. t \in Seq({x \in Message : x.k \in ReplyKinds})
    BY OfKindsType
  <2>. QED
    BY <2>1
<1>2. /\ Replies(s) = [j \in DOMAIN t |-> AnswerMessage(t[j])]
      /\ Replies(s \o <<m>>) = [j \in DOMAIN u |-> AnswerMessage(u[j])]
  BY DEF Replies, ReplyKinds
<1>3. u = IF m.k \in ReplyKinds THEN Append(t, m) ELSE t
  BY OfKindsSent
<1>4. Replies(s) \in Seq(V) /\ a \in V
  BY RepliesType
<1> HIDE DEF t, u, a, V
<1>5. CASE m.k \in ReplyKinds
  <2>1. /\ DOMAIN u = 1 .. Len(t) + 1 /\ DOMAIN t = 1 .. Len(t) /\ Len(t) \in Nat
        /\ \A j \in 1 .. Len(t) : u[j] = t[j]
        /\ u[Len(t) + 1] = m
    BY <1>1, <1>3, <1>5, MessageSent
  <2> DEFINE y == Replies(s \o <<m>>)
  <2>2. y \in Seq(V)
    <3>1. s \o <<m>> \in Seq(Message)
      OBVIOUS
    <3>. QED
      BY <3>1, RepliesType DEF V
  <2>3. Len(Replies(s)) = Len(t) /\ Len(y) = Len(t) + 1
    BY <1>2, <1>4, <2>1, <2>2
  <2>4. \A j \in 1 .. Len(t) : y[j] = Replies(s)[j]
    BY <1>2, <2>1
  <2>5. y[Len(t) + 1] = a
    BY <1>2, <2>1 DEF a
  <2> HIDE DEF y
  <2>6. y = Append(Replies(s), a)
    BY <1>4, <2>2, <2>3, <2>4, <2>5, LastOf
  <2>. QED
    BY <1>5, <2>6 DEF y, a
<1>. QED
  BY <1>2, <1>3, <1>5

LEMMA RepliesTaken ==
  ASSUME NEW s \in Seq(Message), s # <<>>
  PROVE  IF Head(s).k \in ReplyKinds
         THEN /\ Replies(s) # <<>> /\ Head(Replies(s)) = AnswerMessage(Head(s))
              /\ Tail(Replies(s)) = Replies(Tail(s))
         ELSE Replies(Tail(s)) = Replies(s)
<1> DEFINE u == OfKinds(s, ReplyKinds)
           t == OfKinds(Tail(s), ReplyKinds)
           m == Head(s)
           a == AnswerMessage(m)
           V == {AnswerMessage(x) : x \in Message}
<1>0. Tail(s) \in Seq(Message) /\ m \in Message
  OBVIOUS
<1>1. t \in Seq(Message)
  <2>1. t \in Seq({x \in Message : x.k \in ReplyKinds})
    BY <1>0, OfKindsType
  <2>. QED
    BY <2>1
<1>2. /\ Replies(s) = [j \in DOMAIN u |-> AnswerMessage(u[j])]
      /\ Replies(Tail(s)) = [j \in DOMAIN t |-> AnswerMessage(t[j])]
  BY DEF Replies, ReplyKinds
<1>3. u = IF m.k \in ReplyKinds THEN <<m>> \o t ELSE t
  BY OfKindsTaken
<1>4. Replies(Tail(s)) \in Seq(V) /\ a \in V /\ Replies(s) \in Seq(V)
  BY <1>0, RepliesType
<1> HIDE DEF t, u, V, m
<1>5. CASE m.k \in ReplyKinds
  <2>1. /\ DOMAIN u = 1 .. Len(t) + 1 /\ DOMAIN t = 1 .. Len(t) /\ Len(t) \in Nat
        /\ \A j \in 1 .. Len(t) : u[j + 1] = t[j]
        /\ u[1] = m
    BY <1>0, <1>1, <1>3, <1>5, MessageTaken
  <2>2. Len(Replies(s)) = Len(t) + 1 /\ Len(Replies(Tail(s))) = Len(t)
    BY <1>2, <1>4, <2>1
  <2>3. Replies(s)[1] = a
    BY <1>2, <2>1 DEF a
  <2>4. \A j \in 1 .. Len(t) : Replies(s)[j + 1] = Replies(Tail(s))[j]
    <3> SUFFICES ASSUME NEW j \in 1 .. Len(t) PROVE Replies(s)[j + 1] = Replies(Tail(s))[j]
      OBVIOUS
    <3>1. j + 1 \in 1 .. Len(t) + 1 /\ j \in 1 .. Len(t)
      BY <2>1
    <3>. QED
      BY <1>2, <2>1, <3>1
  <2>5. Replies(s) # <<>> /\ Head(Replies(s)) = a /\ Tail(Replies(s)) = Replies(Tail(s))
    <3>1. PICK x, y : x = Replies(Tail(s)) /\ y = Replies(s)
      OBVIOUS
    <3>. QED
      BY <1>4, <2>2, <2>3, <2>4, <3>1, FirstOf
  <2>. QED
    BY <1>5, <2>5 DEF m, a
<1>. QED
  BY <1>2, <1>3, <1>5 DEF m

-----------------------------------------------------------------------------
(* Each direction of the connection is a QuestionTable, of any number of calls. *)

Alice == CHOOSE v \in Vat : TRUE
Bob == Peer(Alice)
Decided(v) == [n \in Nat \ {0} |-> DecidedFor(v, n)]
Settlement(v) == [n \in Nat \ {0} |-> SettledWith(v, n)]
D(v) == INSTANCE QuestionTable WITH
  Call <- Nat \ {0}, Result <- {"results"}, Exception <- {"exception"},
  NoCall <- 0, NoOutcome <- "none",
  questionID <- questionID[v],
  questions <- questions[v],
  answers <- Entries(v),
  toAnswerer <- Asks(net[Peer(v)]),
  toAsker <- Replies(net[v]),
  asked <- AskedBy(v),
  outcome <- Decided(v),
  settled <- Settlement(v),
  askerWorking <- working[v],
  answererWorking <- working[Peer(v)]
AliceTable == INSTANCE QuestionTableProofs WITH
  Call <- Nat \ {0}, Result <- {"results"}, Exception <- {"exception"},
  NoCall <- 0, NoOutcome <- "none",
  questionID <- questionID[Alice],
  questions <- questions[Alice],
  answers <- Entries(Alice),
  toAnswerer <- Asks(net[Peer(Alice)]),
  toAsker <- Replies(net[Alice]),
  asked <- AskedBy(Alice),
  outcome <- Decided(Alice),
  settled <- Settlement(Alice),
  askerWorking <- working[Alice],
  answererWorking <- working[Peer(Alice)]
BobTable == INSTANCE QuestionTableProofs WITH
  Call <- Nat \ {0}, Result <- {"results"}, Exception <- {"exception"},
  NoCall <- 0, NoOutcome <- "none",
  questionID <- questionID[Bob],
  questions <- questions[Bob],
  answers <- Entries(Bob),
  toAnswerer <- Asks(net[Peer(Bob)]),
  toAsker <- Replies(net[Bob]),
  asked <- AskedBy(Bob),
  outcome <- Decided(Bob),
  settled <- Settlement(Bob),
  askerWorking <- working[Bob],
  answererWorking <- working[Peer(Bob)]
Step(v) == D(v)!Next \/ UNCHANGED D(v)!vars
Sound(v) == D(v)!IInv

LEMMA AliceSound == Sound(Alice) <=> AliceTable!IInv
  BY DEF Sound, D!IInv, AliceTable!IInv, D!TypeOK, AliceTable!TypeOK, D!ToAnswerer, AliceTable!ToAnswerer, D!ToAsker, AliceTable!ToAsker,
     D!Entry, AliceTable!Entry, D!Outcome, AliceTable!Outcome, D!NoProtocolError, AliceTable!NoProtocolError,
     D!NoCrosstalk, AliceTable!NoCrosstalk, D!FreeIdsAreNullSlots, AliceTable!FreeIdsAreNullSlots,
     D!SlotsInv, AliceTable!SlotsInv, D!CallsInv, AliceTable!CallsInv, D!EntriesInv, AliceTable!EntriesInv,
     D!ReturnsInv, AliceTable!ReturnsInv, D!FinishesInv, AliceTable!FinishesInv, D!Indices, AliceTable!Indices,
     D!Returned, AliceTable!Returned, D!Finished, AliceTable!Finished

LEMMA AliceSoundNext == Sound(Alice)' <=> AliceTable!IInv'
  BY DEF Sound, D!IInv, AliceTable!IInv, D!TypeOK, AliceTable!TypeOK, D!ToAnswerer, AliceTable!ToAnswerer, D!ToAsker, AliceTable!ToAsker,
     D!Entry, AliceTable!Entry, D!Outcome, AliceTable!Outcome, D!NoProtocolError, AliceTable!NoProtocolError,
     D!NoCrosstalk, AliceTable!NoCrosstalk, D!FreeIdsAreNullSlots, AliceTable!FreeIdsAreNullSlots,
     D!SlotsInv, AliceTable!SlotsInv, D!CallsInv, AliceTable!CallsInv, D!EntriesInv, AliceTable!EntriesInv,
     D!ReturnsInv, AliceTable!ReturnsInv, D!FinishesInv, AliceTable!FinishesInv, D!Indices, AliceTable!Indices,
     D!Returned, AliceTable!Returned, D!Finished, AliceTable!Finished

LEMMA AliceStep == Step(Alice) <=> [AliceTable!Next]_(AliceTable!vars)
  BY DEF Step,
     D!Next, AliceTable!Next, D!vars, AliceTable!vars, D!Ask, AliceTable!Ask, D!HandleReturn, AliceTable!HandleReturn,
     D!HandleUnimplemented, AliceTable!HandleUnimplemented, D!HandleCall, AliceTable!HandleCall,
     D!HandleCallPending, AliceTable!HandleCallPending, D!HandleCallRefused,
     AliceTable!HandleCallRefused, D!HandleCallSettled, AliceTable!HandleCallSettled, D!Accept, AliceTable!Accept,
     D!Incoming, AliceTable!Incoming, D!Answer, AliceTable!Answer, D!HandleFinish, AliceTable!HandleFinish,
     D!IdNext, AliceTable!IdNext, D!IdTake, AliceTable!IdTake, D!IdRemove, AliceTable!IdRemove, D!FindQuestion,
     AliceTable!FindQuestion, D!PopQuestion, AliceTable!PopQuestion, D!InsertAnswer, AliceTable!InsertAnswer,
     D!PopAnswer, AliceTable!PopAnswer, D!Settleable, AliceTable!Settleable, D!CallMessage,
     AliceTable!CallMessage, D!FinishMessage, AliceTable!FinishMessage, D!ReturnMessage, AliceTable!ReturnMessage,
     D!UnimplementedMessage, AliceTable!UnimplementedMessage, D!Outcome, AliceTable!Outcome

LEMMA AliceKeeps == Sound(Alice) /\ Step(Alice) => Sound(Alice)'
<1>1. /\ 0 \notin Nat \ {0} /\ "none" \notin {"results"} \cup {"exception"}
      /\ {"results"} \cap {"exception"} = {}
  OBVIOUS
<1>2. AliceTable!IInv /\ [AliceTable!Next]_(AliceTable!vars) => AliceTable!IInv'
  BY AliceTable!InvNext, <1>1 DEF AliceTable!Outcome
<1>. QED
  BY <1>2, AliceSound, AliceSoundNext, AliceStep

LEMMA AliceStarts == D(Alice)!Init => Sound(Alice)
<1>1. /\ 0 \notin Nat \ {0} /\ "none" \notin {"results"} \cup {"exception"}
      /\ {"results"} \cap {"exception"} = {}
  OBVIOUS
<1>2. AliceTable!Init => AliceTable!IInv
  BY AliceTable!InvInit, <1>1 DEF AliceTable!Outcome
<1>3. D(Alice)!Init <=> AliceTable!Init
  BY DEF D!Init, AliceTable!Init
<1>. QED
  BY <1>2, <1>3, AliceSound

LEMMA BobSound == Sound(Bob) <=> BobTable!IInv
  BY DEF Sound, D!IInv, BobTable!IInv, D!TypeOK, BobTable!TypeOK, D!ToAnswerer, BobTable!ToAnswerer, D!ToAsker, BobTable!ToAsker,
     D!Entry, BobTable!Entry, D!Outcome, BobTable!Outcome, D!NoProtocolError, BobTable!NoProtocolError,
     D!NoCrosstalk, BobTable!NoCrosstalk, D!FreeIdsAreNullSlots, BobTable!FreeIdsAreNullSlots,
     D!SlotsInv, BobTable!SlotsInv, D!CallsInv, BobTable!CallsInv, D!EntriesInv, BobTable!EntriesInv,
     D!ReturnsInv, BobTable!ReturnsInv, D!FinishesInv, BobTable!FinishesInv, D!Indices, BobTable!Indices,
     D!Returned, BobTable!Returned, D!Finished, BobTable!Finished

LEMMA BobSoundNext == Sound(Bob)' <=> BobTable!IInv'
  BY DEF Sound, D!IInv, BobTable!IInv, D!TypeOK, BobTable!TypeOK, D!ToAnswerer, BobTable!ToAnswerer, D!ToAsker, BobTable!ToAsker,
     D!Entry, BobTable!Entry, D!Outcome, BobTable!Outcome, D!NoProtocolError, BobTable!NoProtocolError,
     D!NoCrosstalk, BobTable!NoCrosstalk, D!FreeIdsAreNullSlots, BobTable!FreeIdsAreNullSlots,
     D!SlotsInv, BobTable!SlotsInv, D!CallsInv, BobTable!CallsInv, D!EntriesInv, BobTable!EntriesInv,
     D!ReturnsInv, BobTable!ReturnsInv, D!FinishesInv, BobTable!FinishesInv, D!Indices, BobTable!Indices,
     D!Returned, BobTable!Returned, D!Finished, BobTable!Finished

LEMMA BobStep == Step(Bob) <=> [BobTable!Next]_(BobTable!vars)
  BY DEF Step,
     D!Next, BobTable!Next, D!vars, BobTable!vars, D!Ask, BobTable!Ask, D!HandleReturn, BobTable!HandleReturn,
     D!HandleUnimplemented, BobTable!HandleUnimplemented, D!HandleCall, BobTable!HandleCall,
     D!HandleCallPending, BobTable!HandleCallPending, D!HandleCallRefused,
     BobTable!HandleCallRefused, D!HandleCallSettled, BobTable!HandleCallSettled, D!Accept, BobTable!Accept,
     D!Incoming, BobTable!Incoming, D!Answer, BobTable!Answer, D!HandleFinish, BobTable!HandleFinish,
     D!IdNext, BobTable!IdNext, D!IdTake, BobTable!IdTake, D!IdRemove, BobTable!IdRemove, D!FindQuestion,
     BobTable!FindQuestion, D!PopQuestion, BobTable!PopQuestion, D!InsertAnswer, BobTable!InsertAnswer,
     D!PopAnswer, BobTable!PopAnswer, D!Settleable, BobTable!Settleable, D!CallMessage,
     BobTable!CallMessage, D!FinishMessage, BobTable!FinishMessage, D!ReturnMessage, BobTable!ReturnMessage,
     D!UnimplementedMessage, BobTable!UnimplementedMessage, D!Outcome, BobTable!Outcome

LEMMA BobKeeps == Sound(Bob) /\ Step(Bob) => Sound(Bob)'
<1>1. /\ 0 \notin Nat \ {0} /\ "none" \notin {"results"} \cup {"exception"}
      /\ {"results"} \cap {"exception"} = {}
  OBVIOUS
<1>2. BobTable!IInv /\ [BobTable!Next]_(BobTable!vars) => BobTable!IInv'
  BY BobTable!InvNext, <1>1 DEF BobTable!Outcome
<1>. QED
  BY <1>2, BobSound, BobSoundNext, BobStep

LEMMA BobStarts == D(Bob)!Init => Sound(Bob)
<1>1. /\ 0 \notin Nat \ {0} /\ "none" \notin {"results"} \cup {"exception"}
      /\ {"results"} \cap {"exception"} = {}
  OBVIOUS
<1>2. BobTable!Init => BobTable!IInv
  BY BobTable!InvInit, <1>1 DEF BobTable!Outcome
<1>3. D(Bob)!Init <=> BobTable!Init
  BY DEF D!Init, BobTable!Init
<1>. QED
  BY <1>2, <1>3, BobSound


LEMMA EachVat ==
  ASSUME NEW v \in Vat
  PROVE  Alice \in Vat /\ Bob \in Vat /\ (v = Alice \/ v = Bob)
<1>1. Alice \in Vat
  BY DEF Alice
<1>. QED
  BY <1>1, PeerFacts DEF Bob

\* What holds of QuestionTable holds of each direction.
LEMMA StaysSound ==
  ASSUME NEW v \in Vat, Sound(v), Step(v)
  PROVE  Sound(v)'
  BY EachVat, AliceKeeps, BobKeeps

LEMMA Starts ==
  ASSUME NEW v \in Vat, D(v)!Init
  PROVE  Sound(v)
  BY EachVat, AliceStarts, BobStarts

\* What the tables of the two ends say of the messages that are handled next.
LEMMA Mapped ==
  ASSUME NEW v \in Vat, Sound(v)
  PROVE  /\ Asks(net[Peer(v)]) \in Seq(D(v)!ToAnswerer) /\ Replies(net[v]) \in Seq(D(v)!ToAsker)
         /\ questionID[v] \in [i : Nat, free : Seq(Nat)]
         /\ questions[v] \in [0 .. questionID[v].i - 1 -> Nat]
         /\ Decided(v) \in [Nat \ {0} -> {"results", "exception", "none"}]
         /\ Settlement(v) \in [Nat \ {0} -> {"results", "exception", "none"}]
         /\ working[v] = TRUE /\ working[Peer(v)] = TRUE
         /\ \A id \in DOMAIN answers[Peer(v)] : id \in Nat /\ answers[Peer(v)][id].n \in Nat \ {0}
<1>1. /\ questionID[v] \in [i : Nat, free : Seq(Nat)]
      /\ questions[v] \in [0 .. questionID[v].i - 1 -> (Nat \ {0}) \cup {0}]
      /\ Decided(v) \in [Nat \ {0} -> {"results", "exception", "none"}]
      /\ Settlement(v) \in [Nat \ {0} -> {"results", "exception", "none"}]
  <2>1. ({"results"} \cup {"exception"}) \cup {"none"} = {"results", "exception", "none"}
    OBVIOUS
  <2>. QED
    BY <2>1 DEF Sound, D!IInv, D!TypeOK, D!Outcome
<1>2. (Nat \ {0}) \cup {0} = Nat
  OBVIOUS
<1>3. DOMAIN Entries(v) \subseteq Nat /\ \A id \in DOMAIN Entries(v) : Entries(v)[id] \in D(v)!Entry
  BY DEF Sound, D!IInv, D!TypeOK
<1>4. \A id \in DOMAIN answers[Peer(v)] : /\ id \in Nat
                                         /\ Entries(v)[id].call \in Nat \ {0}
  BY <1>3 DEF Entries, D!Entry
<1>. QED
  BY <1>1, <1>2, <1>4 DEF Sound, D!IInv, D!TypeOK, D!NoProtocolError, Entries

LEMMA EntryFacts ==
  ASSUME NEW v \in Vat, Sound(v), NEW id \in DOMAIN answers[Peer(v)]
  PROVE  LET a == answers[Peer(v)][id] IN
         /\ a.n \in Nat \ {0}
         /\ ~a.done => /\ id \in DOMAIN questions[v] /\ questions[v][id] = a.n
                       /\ Decided(v)[a.n] = "none"
<1>1. answers[Peer(v)][id].n \in Nat \ {0}
  BY Mapped
<1>2. /\ DOMAIN Entries(v) = DOMAIN answers[Peer(v)]
      /\ Entries(v)[id].call = answers[Peer(v)][id].n
      /\ Entries(v)[id].state = EntryState(answers[Peer(v)][id])
  BY DEF Entries
<1>3. D(v)!EntriesInv
  BY DEF Sound, D!IInv
<1>4. ~answers[Peer(v)][id].done => Entries(v)[id].state # "done"
  BY <1>2 DEF EntryState
<1>. QED
  BY <1>1, <1>2, <1>3, <1>4 DEF D!EntriesInv

\* Two entries that are not done are for two calls.
LEMMA OneEntry ==
  ASSUME NEW v \in Vat, Sound(v), NEW x \in DOMAIN questions[v], NEW y \in DOMAIN questions[v],
         questions[v][x] = questions[v][y], questions[v][x] # 0
  PROVE  x = y
BY DEF Sound, D!IInv, D!SlotsInv

LEMMA QuestionFacts ==
  ASSUME NEW v \in Vat, Sound(v)
  PROVE  /\ \A id \in DOMAIN questions[v] : questions[v][id] # 0 =>
              /\ questions[v][id] \in AskedBy(v)
              /\ Settlement(v)[questions[v][id]] = "none"
         /\ \A n \in Nat \ {0} : Decided(v)[n] # "none" => n \in AskedBy(v)
         /\ \A n \in Nat \ {0} : Settlement(v)[n] # "none" => Settlement(v)[n] = Decided(v)[n]
BY DEF Sound, D!IInv, D!SlotsInv, D!NoCrosstalk

LEMMA CallFacts ==
  ASSUME NEW v \in Vat, Sound(v), net[Peer(v)] \in Seq(Message), net[Peer(v)] # <<>>,
         Head(net[Peer(v)]).k \in {"bootstrap", "call"}
  PROVE  LET m == Head(net[Peer(v)]) IN
         /\ m.id \in Nat /\ m.n \in Nat \ {0}
         /\ m.id \notin DOMAIN answers[Peer(v)]
         /\ m.id \in DOMAIN questions[v] /\ questions[v][m.id] = m.n
         /\ Decided(v)[m.n] = "none"
         /\ Head(Asks(net[Peer(v)])) = [k |-> "call", id |-> m.id, call |-> m.n]
         /\ D(v)!Incoming
<1> DEFINE s == net[Peer(v)]
           m == Head(s)
           a == [k |-> "call", id |-> m.id, call |-> m.n]
<1>1. Asks(s) # <<>> /\ Head(Asks(s)) = a /\ a.k = "call"
  <2>1. m.k \in AskKinds /\ AskMessage(m) = a
    BY DEF AskKinds, AskMessage
  <2>. QED
    BY <2>1, AsksTaken
<1>2. Asks(s) \in Seq(D(v)!ToAnswerer) /\ working[Peer(v)] = TRUE
  BY Mapped
<1>3. 1 \in DOMAIN Asks(s) /\ Asks(s)[1] = a /\ a \in D(v)!ToAnswerer
  BY <1>1, <1>2
<1>4. m.id \in Nat /\ m.n \in Nat \ {0}
  BY <1>3 DEF D!ToAnswerer
<1>5. 1 \in D(v)!Indices(Asks(s), "call")
  BY <1>1, <1>3 DEF D!Indices
<1>6. D(v)!CallsInv
  BY DEF Sound, D!IInv
<1> HIDE DEF s, m
<1>7. /\ m.id \in DOMAIN questions[v] /\ questions[v][m.id] = m.n
      /\ Decided(v)[m.n] = "none"
      /\ m.id \in DOMAIN Entries(v) => \E i \in D(v)!Indices(Asks(s), "finish") : i < 1
  BY <1>3, <1>5, <1>6 DEF D!CallsInv, s
<1>8. \A i \in D(v)!Indices(Asks(s), "finish") : i \in Nat \ {0}
  <2>1. DOMAIN Asks(s) \subseteq Nat \ {0}
    BY <1>2
  <2>. QED
    BY <2>1 DEF D!Indices
<1>9. m.id \notin DOMAIN answers[Peer(v)]
  <2>1. m.id \notin DOMAIN Entries(v)
    BY <1>7, <1>8
  <2>. QED
    BY <2>1 DEF Entries
<1>10. D(v)!Incoming
  BY <1>1, <1>2 DEF D!Incoming, s
<1>. QED
  BY <1>1, <1>4, <1>7, <1>9, <1>10 DEF s, m

LEMMA FinishFacts ==
  ASSUME NEW v \in Vat, Sound(v), net[Peer(v)] \in Seq(Message), net[Peer(v)] # <<>>,
         Head(net[Peer(v)]).k = "finish"
  PROVE  LET m == Head(net[Peer(v)]) IN
         /\ m.id \in DOMAIN answers[Peer(v)] /\ answers[Peer(v)][m.id].done
         /\ Settlement(v)[answers[Peer(v)][m.id].n] # "none"
<1> DEFINE s == net[Peer(v)]
           m == Head(s)
<1>1. Asks(s) # <<>> /\ Head(Asks(s)) = m /\ m.k = "finish"
  <2>1. m.k \in AskKinds /\ AskMessage(m) = m
    BY DEF AskKinds, AskMessage
  <2>. QED
    BY <2>1, AsksTaken
<1>2. Asks(s) \in Seq(D(v)!ToAnswerer)
  BY Mapped
<1>3. 1 \in DOMAIN Asks(s) /\ Asks(s)[1] = m
  BY <1>1, <1>2
<1>5. 1 \in D(v)!Indices(Asks(s), "finish")
  BY <1>1, <1>3 DEF D!Indices
<1>6. D(v)!FinishesInv
  BY DEF Sound, D!IInv
<1> HIDE DEF s, m
<1>7. /\ m.id \in DOMAIN Entries(v) /\ Entries(v)[m.id].state = "done"
      /\ Settlement(v)[Entries(v)[m.id].call] # "none"
  BY <1>3, <1>5, <1>6 DEF D!FinishesInv, s
<1>. QED
  BY <1>7 DEF Entries, EntryState, s, m

LEMMA ReturnFacts ==
  ASSUME NEW v \in Vat, Sound(v), net[v] \in Seq(Message), net[v] # <<>>,
         Head(net[v]).k = "return"
  PROVE  LET m == Head(net[v]) IN
         /\ m.id \in DOMAIN questions[v] /\ questions[v][m.id] \in Nat \ {0}
         /\ Decided(v)[questions[v][m.id]] = Word(m.ok)
         /\ Head(Replies(net[v])) = [k |-> "return", id |-> m.id, outcome |-> Word(m.ok)]
         /\ Replies(net[v]) # <<>>
         /\ m.id \in DOMAIN answers[Peer(v)] /\ answers[Peer(v)][m.id].done
         /\ answers[Peer(v)][m.id].n = questions[v][m.id]
<1> DEFINE s == net[v]
           m == Head(s)
           r == [k |-> "return", id |-> m.id, outcome |-> Word(m.ok)]
<1>1. Replies(s) # <<>> /\ Head(Replies(s)) = r /\ r.k = "return"
  <2>1. m.k \in ReplyKinds /\ AnswerMessage(m) = r
    BY DEF ReplyKinds, AnswerMessage
  <2>. QED
    BY <2>1, RepliesTaken
<1>2. Replies(s) \in Seq(D(v)!ToAsker)
  BY Mapped
<1>3. 1 \in DOMAIN Replies(s) /\ Replies(s)[1] = r
  BY <1>1, <1>2
<1>5. 1 \in D(v)!Indices(Replies(s), "return")
  BY <1>1, <1>3 DEF D!Indices
<1>6. D(v)!ReturnsInv
  BY DEF Sound, D!IInv
<1>a. r.id = m.id /\ r.outcome = Word(m.ok)
  OBVIOUS
<1> HIDE DEF s, m, r
<1>7. /\ m.id \in DOMAIN questions[v]
      /\ m.id \in DOMAIN Entries(v) /\ Entries(v)[m.id].state = "done"
      /\ questions[v][m.id] = Entries(v)[m.id].call
      /\ Decided(v)[Entries(v)[m.id].call] = Word(m.ok)
  BY <1>3, <1>5, <1>6, <1>a DEF D!ReturnsInv, s
<1>8. /\ m.id \in DOMAIN answers[Peer(v)] /\ answers[Peer(v)][m.id].n \in Nat \ {0}
      /\ answers[Peer(v)][m.id].n = Entries(v)[m.id].call
      /\ answers[Peer(v)][m.id].done
  BY <1>7, Mapped DEF Entries, EntryState
<1>. QED
  BY <1>1, <1>7, <1>8 DEF s, m, r

-----------------------------------------------------------------------------
(* What the steps of a vat are in the two directions. *)

LEMMA Stutters ==
  ASSUME NEW v \in Vat,
         questionID'[v] = questionID[v], questions'[v] = questions[v],
         Entries(v)' = Entries(v),
         Asks(net[Peer(v)])' = Asks(net[Peer(v)]), Replies(net[v])' = Replies(net[v]),
         AskedBy(v)' = AskedBy(v), Decided(v)' = Decided(v), Settlement(v)' = Settlement(v),
         working'[v] = working[v], working'[Peer(v)] = working[Peer(v)]
  PROVE  Step(v)
BY DEF Step, D!vars

\* A call is settled with the same result, if any, and asked as before.
SameCall(C, B, n) ==
  /\ n \in DOMAIN B /\ B[n].id # NoId <=> n \in DOMAIN C /\ C[n].id # NoId
  /\ n \in DOMAIN C /\ C[n].id # NoId =>
       /\ B[n].state = "waiting" <=> C[n].state = "waiting"
       /\ B[n].state = "exception" <=> C[n].state = "exception"

LEMMA CallsAs ==
  ASSUME NEW v \in Vat, \A n : SameCall(calls[v], calls'[v], n)
  PROVE  AskedBy(v)' = AskedBy(v) /\ Settlement(v)' = Settlement(v)
<1>1. AskedBy(v)' = AskedBy(v)
  BY DEF AskedBy, SameCall
<1>2. \A n \in Nat \ {0} : SettledWith(v, n)' = SettledWith(v, n)
  <2> SUFFICES ASSUME NEW n \in Nat \ {0} PROVE SettledWith(v, n)' = SettledWith(v, n)
    OBVIOUS
  <2>1. CASE n \in AskedBy(v)
    BY <1>1, <2>1 DEF SettledWith, Settled, AskedBy, SameCall
  <2>2. CASE n \notin AskedBy(v)
    BY <1>1, <2>2 DEF SettledWith
  <2>. QED
    BY <2>1, <2>2
<1>. QED
  BY <1>1, <1>2 DEF Settlement

LEMMA CallsStill ==
  ASSUME NEW v \in Vat, calls'[v] = calls[v]
  PROVE  AskedBy(v)' = AskedBy(v) /\ Settlement(v)' = Settlement(v)
BY DEF AskedBy, Settlement, SettledWith, Settled

LEMMA AnswersStill ==
  ASSUME NEW v \in Vat, answers'[Peer(v)] = answers[Peer(v)]
  PROVE  /\ Entries(v)' = Entries(v)
         /\ \A n, ok : Answered(v, n, ok)' <=> Answered(v, n, ok)
BY DEF Entries, Answered

LEMMA DecidedAs ==
  ASSUME NEW v \in Vat, Settlement(v)' = Settlement(v),
         \A n, ok : Answered(v, n, ok)' <=> Answered(v, n, ok)
  PROVE  Decided(v)' = Decided(v)
<1>1. \A n \in Nat \ {0} : Settlement(v)[n] = SettledWith(v, n)
  BY DEF Settlement
<1>2. \A n \in Nat \ {0} : Settlement(v)'[n] = SettledWith(v, n)'
  BY DEF Settlement
<1>3. \A n \in Nat \ {0} : DecidedFor(v, n)' = DecidedFor(v, n)
  BY <1>1, <1>2 DEF DecidedFor
<1>. QED
  BY <1>3 DEF Decided

\* The asking vat, in its direction.
Still(v) == /\ questionID'[v] = questionID[v] /\ questions'[v] = questions[v]
            /\ \A n : SameCall(calls[v], calls'[v], n)
StillWorking == \A v \in Vat : working'[v] = working[v]

\* Neither end of the direction does anything.
LEMMA BothStill ==
  ASSUME NEW v \in Vat, Still(v), StillWorking, answers'[Peer(v)] = answers[Peer(v)],
         Asks(net[Peer(v)])' = Asks(net[Peer(v)]), Replies(net[v])' = Replies(net[v])
  PROVE  Step(v)
<1>1. AskedBy(v)' = AskedBy(v) /\ Settlement(v)' = Settlement(v)
  BY CallsAs DEF Still
<1>2. Entries(v)' = Entries(v) /\ Decided(v)' = Decided(v)
  BY <1>1, AnswersStill, DecidedAs
<1>3. Peer(v) \in Vat
  BY PeerFacts
<1>. QED
  BY <1>1, <1>2, <1>3, Stutters DEF Still, StillWorking

LEMMA AskStep ==
  ASSUME NEW v \in Vat, Sound(v), DOMAIN questionID = Vat, DOMAIN questions = Vat,
         DOMAIN calls = Vat, calls[v] \in Seq(CallRecord),
         NEW on, NEW route, NewQuestion(v, on, route),
         Asks(net[Peer(v)])' = Append(Asks(net[Peer(v)]),
            [k |-> "call", id |-> IdNext(questionID[v]), call |-> Len(calls[v]) + 1]),
         Replies(net[v])' = Replies(net[v]),
         StillWorking, answers'[Peer(v)] = answers[Peer(v)]
  PROVE  Step(v)
<1> DEFINE n == Len(calls[v]) + 1
           id == IdNext(questionID[v])
           r == [id |-> id, on |-> on, route |-> route, state |-> "waiting", cap |-> NullClient]
<1>1. /\ n \in Nat \ {0} /\ n \notin DOMAIN calls[v]
      /\ calls'[v] = Append(calls[v], r)
      /\ DOMAIN calls'[v] = DOMAIN calls[v] \cup {n}
      /\ \A j \in DOMAIN calls[v] : calls'[v][j] = calls[v][j]
      /\ calls'[v][n] = r
  <2>1. calls'[v] = Append(calls[v], r)
    BY DEF NewQuestion
  <2> HIDE DEF r
  <2>2. /\ DOMAIN Append(calls[v], r) = DOMAIN calls[v] \cup {n}
        /\ \A j \in DOMAIN calls[v] : Append(calls[v], r)[j] = calls[v][j]
        /\ Append(calls[v], r)[n] = r
        /\ n \in Nat \ {0} /\ n \notin DOMAIN calls[v]
    OBVIOUS
  <2>. QED
    BY <2>1, <2>2
<1>2. id \in Nat
  <2>1. questionID[v] \in [i : Nat, free : Seq(Nat)]
    BY Mapped
  <2>. QED
    BY <2>1 DEF IdNext
<1>3. r.id # NoId /\ r.state = "waiting"
  BY <1>2 DEF NoId
<1> HIDE DEF r, n
<1>4. n \notin AskedBy(v) /\ AskedBy(v)' = AskedBy(v) \cup {n}
  BY <1>1, <1>3 DEF AskedBy
<1>5. Settlement(v)' = Settlement(v)
  <2> SUFFICES ASSUME NEW k \in Nat \ {0} PROVE SettledWith(v, k)' = SettledWith(v, k)
    BY DEF Settlement
  <2>1. CASE k = n
    BY <1>1, <1>3, <1>4, <2>1 DEF SettledWith, Settled
  <2>2. CASE k # n /\ k \in AskedBy(v)
    BY <1>1, <1>4, <2>2 DEF SettledWith, Settled, AskedBy
  <2>3. CASE k # n /\ k \notin AskedBy(v)
    BY <1>4, <2>3 DEF SettledWith
  <2>. QED
    BY <2>1, <2>2, <2>3
<1>6. Entries(v)' = Entries(v) /\ Decided(v)' = Decided(v)
  BY <1>5, AnswersStill, DecidedAs
<1>7. /\ questionID'[v] = IdTake(questionID[v])
      /\ questions'[v] = Put(questions[v], id, n)
  BY DEF NewQuestion, n
<1>8. /\ D(v)!IdNext(questionID[v]) = id /\ D(v)!IdTake(questionID[v]) = IdTake(questionID[v])
      /\ D(v)!CallMessage(id, n) = [k |-> "call", id |-> id, call |-> n]
  BY DEF D!IdNext, D!IdTake, D!CallMessage, IdNext, IdTake
<1>9. working'[v] = working[v] /\ working'[Peer(v)] = working[Peer(v)]
  BY PeerFacts DEF StillWorking
<1> HIDE DEF id
<1>10. Asks(net[Peer(v)])' = Append(Asks(net[Peer(v)]), D(v)!CallMessage(id, n))
  BY <1>8 DEF n, id
<1>11. D(v)!Ask(n)
  BY <1>4, <1>5, <1>6, <1>7, <1>8, <1>9, <1>10 DEF D!Ask, Put
<1>. QED
  BY <1>1, <1>11 DEF Step, D!Next

\* What is left of the other calls, and of this one, when a call is settled.
SettledAs(E, C, n, s, c) == E = [C EXCEPT ![n].state = s, ![n].cap = c]
LEMMA CallSettled ==
  ASSUME NEW C, NEW n, n \in DOMAIN C, C[n] \in CallRecord, NEW s, NEW c,
         NEW E, SettledAs(E, C, n, s, c)
  PROVE  /\ DOMAIN E = DOMAIN C
         /\ \A k \in DOMAIN C : k # n => E[k] = C[k]
         /\ E[n].id = C[n].id /\ E[n].on = C[n].on /\ E[n].route = C[n].route
         /\ E[n].state = s /\ E[n].cap = c
<1>1. /\ DOMAIN E = DOMAIN C
      /\ \A k \in DOMAIN C : k # n => E[k] = C[k]
      /\ E[n] = [C[n] EXCEPT !.state = s, !.cap = c]
  BY DEF SettledAs
<1>. QED
  BY <1>1 DEF CallRecord

ReturnRead(v, id, ok, n, s) ==
  /\ questionID'[v] = IdRemove(questionID[v], id)
  /\ questions'[v] = [questions[v] EXCEPT ![id] = 0]
  /\ \E c : SettledAs(calls'[v], calls[v], n, s, c)
  /\ Replies(net[v])' = Tail(Replies(net[v]))
  /\ Asks(net[Peer(v)])' = Append(Asks(net[Peer(v)]),
       [k |-> "finish", id |-> id, releaseResultCaps |-> ~ok])
  /\ StillWorking /\ answers'[Peer(v)] = answers[Peer(v)]
LEMMA ReturnStep ==
  ASSUME NEW v \in Vat, Sound(v), net[v] \in Seq(Message), net[v] # <<>>,
         Head(net[v]).k = "return", Head(net[v]).ok \in BOOLEAN,
         NEW id, id = Head(net[v]).id, NEW ok, ok = Head(net[v]).ok,
         NEW n, n = questions[v][id], n \in DOMAIN calls[v], calls[v][n] \in CallRecord,
         calls[v][n].id # NoId,
         ReturnRead(v, id, ok, n, IF ok THEN "results" ELSE "exception")
  PROVE  Step(v)
<1>r. /\ questionID'[v] = IdRemove(questionID[v], id)
      /\ questions'[v] = [questions[v] EXCEPT ![id] = 0]
      /\ Replies(net[v])' = Tail(Replies(net[v]))
      /\ Asks(net[Peer(v)])' = Append(Asks(net[Peer(v)]),
           [k |-> "finish", id |-> id, releaseResultCaps |-> ~ok])
      /\ StillWorking /\ answers'[Peer(v)] = answers[Peer(v)]
  BY DEF ReturnRead
<1>c. /\ DOMAIN calls'[v] = DOMAIN calls[v]
      /\ \A k \in DOMAIN calls[v] : k # n => calls'[v][k] = calls[v][k]
      /\ calls'[v][n].id = calls[v][n].id
      /\ calls'[v][n].state = IF ok THEN "results" ELSE "exception"
  <2>0. PICK s : s = IF ok THEN "results" ELSE "exception"
    OBVIOUS
  <2>1. PICK c : SettledAs(calls'[v], calls[v], n, s, c)
    <3>1. ReturnRead(v, id, ok, n, s)
      BY <2>0
    <3>. QED
      BY <3>1 DEF ReturnRead
  <2>2. /\ DOMAIN calls'[v] = DOMAIN calls[v]
        /\ \A k \in DOMAIN calls[v] : k # n => calls'[v][k] = calls[v][k]
        /\ calls'[v][n].id = calls[v][n].id
        /\ calls'[v][n].state = s
    <3>1. PICK C, E : C = calls[v] /\ E = calls'[v]
      OBVIOUS
    <3>2. SettledAs(E, C, n, s, c) /\ n \in DOMAIN C /\ C[n] \in CallRecord
      BY <2>1, <3>1
    <3>3. /\ DOMAIN E = DOMAIN C /\ \A k \in DOMAIN C : k # n => E[k] = C[k]
          /\ E[n].id = C[n].id /\ E[n].state = s
      BY ONLY <3>2, CallSettled
    <3>. QED
      BY <3>1, <3>3
  <2>. QED
    BY <2>0, <2>2
<1>1. /\ id \in DOMAIN questions[v] /\ n \in Nat \ {0}
      /\ Decided(v)[n] = Word(ok)
      /\ Head(Replies(net[v])) = [k |-> "return", id |-> id, outcome |-> Word(ok)]
      /\ Replies(net[v]) # <<>>
  BY ReturnFacts
<1>a. \A k \in DOMAIN calls[v] : calls'[v][k].id = calls[v][k].id
  BY <1>c
<1>2. AskedBy(v)' = AskedBy(v) /\ n \in AskedBy(v)
  BY <1>a, <1>c DEF AskedBy
<1>3. SettledWith(v, n)' = Word(ok)
  BY <1>2, <1>c DEF SettledWith, Settled, Word
<1>4. \A k \in Nat \ {0} : k # n => SettledWith(v, k)' = SettledWith(v, k)
  BY <1>2, <1>c DEF SettledWith, Settled
<1>5. Settlement(v)' = [Settlement(v) EXCEPT ![n] = Word(ok)]
  BY <1>1, <1>3, <1>4 DEF Settlement
<1>6. Entries(v)' = Entries(v) /\ \A k, b : Answered(v, k, b)' <=> Answered(v, k, b)
  BY <1>r, AnswersStill
<1>7. Decided(v)' = Decided(v)
  <2>1. \A k \in Nat \ {0} : k # n => DecidedFor(v, k)' = DecidedFor(v, k)
    BY <1>4, <1>6 DEF DecidedFor
  <2>2. DecidedFor(v, n)' = Word(ok)
    BY <1>3 DEF DecidedFor, Word
  <2>3. DecidedFor(v, n) = Word(ok)
    BY <1>1 DEF Decided
  <2>4. \A k \in Nat \ {0} : DecidedFor(v, k)' = DecidedFor(v, k)
    BY <2>1, <2>2, <2>3
  <2>. QED
    BY <2>4 DEF Decided
<1>8. /\ working'[v] = working[v] /\ working'[Peer(v)] = working[Peer(v)]
      /\ working[v] = TRUE
  BY <1>r, PeerFacts, Mapped DEF StillWorking
<1>9. (Word(ok) \in {"exception"}) = ~ok
  <2>1. CASE ok = TRUE
    <3>1. Word(ok) \notin {"exception"}
      BY <2>1 DEF Word
    <3>. QED
      BY <2>1, <3>1
  <2>2. CASE ok = FALSE
    <3>1. Word(ok) \in {"exception"}
      BY <2>2 DEF Word
    <3>. QED
      BY <2>2, <3>1
  <2>. QED
    BY <2>1, <2>2
<1>10. D(v)!HandleReturn
  <2>1. /\ D(v)!FindQuestion(id) = n /\ n # 0
        /\ D(v)!PopQuestion(id) = [questions[v] EXCEPT ![id] = 0]
        /\ D(v)!IdRemove(questionID[v], id) = IdRemove(questionID[v], id)
        /\ D(v)!FinishMessage(id, Word(ok) \in {"exception"})
             = [k |-> "finish", id |-> id, releaseResultCaps |-> ~ok]
    BY <1>1, <1>9 DEF D!FindQuestion, D!PopQuestion, D!IdRemove, D!FinishMessage, IdRemove
  <2>2. PICK m : m = [k |-> "return", id |-> id, outcome |-> Word(ok)]
    OBVIOUS
  <2>3. m.k = "return" /\ m.id = id /\ m.outcome = Word(ok)
    BY <2>2
  <2>4. m = Head(Replies(net[v])) /\ Replies(net[v]) # <<>>
    BY <1>1, <2>2
  <2>5. Settlement(v)' = [Settlement(v) EXCEPT ![n] = m.outcome]
    BY <1>5, <2>3
  <2>6. Asks(net[Peer(v)])' = Append(Asks(net[Peer(v)]),
                                D(v)!FinishMessage(m.id, m.outcome \in {"exception"}))
    BY <1>r, <2>1, <2>3
  <2> HIDE <2>2
  <2>. QED
    BY <1>r, <1>2, <1>6, <1>7, <1>8, <2>1, <2>3, <2>4, <2>5, <2>6 DEF D!HandleReturn
<1>. QED
  BY <1>10 DEF Step, D!Next

LEMMA UnimplementedStep ==
  ASSUME NEW v \in Vat, Sound(v), net[v] \in Seq(Message), net[v] # <<>>,
         Head(net[v]).k = "unimplemented", Still(v), StillWorking,
         Replies(net[v])' = Tail(Replies(net[v])),
         Asks(net[Peer(v)])' = Asks(net[Peer(v)]),
         answers'[Peer(v)] = answers[Peer(v)]
  PROVE  Step(v)
<1>1. Replies(net[v]) # <<>> /\ Head(Replies(net[v])).k = "unimplemented"
  <2>1. /\ Head(net[v]).k \in ReplyKinds
        /\ AnswerMessage(Head(net[v])) = [k |-> "unimplemented", id |-> Head(net[v]).id]
    BY DEF ReplyKinds, AnswerMessage
  <2>. QED
    BY <2>1, RepliesTaken
<1>2. AskedBy(v)' = AskedBy(v) /\ Settlement(v)' = Settlement(v)
  BY CallsAs DEF Still
<1>3. Entries(v)' = Entries(v) /\ Decided(v)' = Decided(v)
  BY <1>2, AnswersStill, DecidedAs
<1>4. /\ working'[v] = working[v] /\ working'[Peer(v)] = working[Peer(v)]
      /\ working[v] = TRUE
  BY PeerFacts, Mapped DEF StillWorking
<1>5. D(v)!HandleUnimplemented
  BY <1>1, <1>2, <1>3, <1>4 DEF D!HandleUnimplemented, Still
<1>. QED
  BY <1>5 DEF Step, D!Next

\* What the id protocol sees of an entry.
SameEntry(a, b) == a.n = b.n /\ a.done = b.done /\ a.ok = b.ok /\ a.callee = b.callee
AcceptedAs(A, B, id) == /\ DOMAIN B = DOMAIN A \cup {id}
                        /\ \A x \in DOMAIN A : x # id => SameEntry(B[x], A[x])

\* The answering vat makes an entry for the Call (or the Bootstrap) it reads.
EntryAdded(v, id) ==
  /\ Entries(v)' = D(v)!InsertAnswer(id, [call |-> answers'[Peer(v)][id].n,
                                         state |-> EntryState(answers'[Peer(v)][id])])
  /\ \A n, ok : Answered(v, n, ok)' <=>
       \/ Answered(v, n, ok)
       \/ LET a == answers'[Peer(v)][id] IN a.n = n /\ a.done /\ a.ok = ok
LEMMA EntryMade ==
  ASSUME NEW v \in Vat, NEW id, id \notin DOMAIN answers[Peer(v)],
         AcceptedAs(answers[Peer(v)], answers'[Peer(v)], id)
  PROVE  EntryAdded(v, id)
<1>1. \A x \in DOMAIN answers[Peer(v)] :
        EntryState(answers'[Peer(v)][x]) = EntryState(answers[Peer(v)][x])
  BY DEF EntryState, SameEntry, AcceptedAs
<1>2. Entries(v)' = D(v)!InsertAnswer(id, [call |-> answers'[Peer(v)][id].n,
                                           state |-> EntryState(answers'[Peer(v)][id])])
  BY <1>1 DEF Entries, D!InsertAnswer, SameEntry, AcceptedAs
<1>3. \A n, ok : Answered(v, n, ok)' <=>
        \/ Answered(v, n, ok)
        \/ LET a == answers'[Peer(v)][id] IN a.n = n /\ a.done /\ a.ok = ok
  BY DEF Answered, SameEntry, AcceptedAs
<1>. QED
  BY <1>2, <1>3 DEF EntryAdded

\* The result of call n is decided, and nothing else.
LEMMA DecidedNow ==
  ASSUME NEW v \in Vat, Settlement(v)' = Settlement(v), NEW n \in Nat \ {0}, NEW r \in BOOLEAN,
         Decided(v)[n] = "none",
         \A k, ok : Answered(v, k, ok)' <=> Answered(v, k, ok) \/ (k = n /\ ok = r)
  PROVE  Decided(v)' = [Decided(v) EXCEPT ![n] = Word(r)]
<1>1. \A k \in Nat \ {0} : Settlement(v)[k] = SettledWith(v, k)
  BY DEF Settlement
<1>2. \A k \in Nat \ {0} : Settlement(v)'[k] = SettledWith(v, k)'
  BY DEF Settlement
<1>3. \A k \in Nat \ {0} : SettledWith(v, k)' = SettledWith(v, k)
  BY <1>1, <1>2
<1>4. \A k \in Nat \ {0} : k # n => DecidedFor(v, k)' = DecidedFor(v, k)
  BY <1>3 DEF DecidedFor
<1>5. DecidedFor(v, n) = "none"
  BY DEF Decided
<1>6. SettledWith(v, n)' = "none" /\ ~Answered(v, n, TRUE) /\ ~Answered(v, n, FALSE)
  BY <1>3, <1>5 DEF DecidedFor
<1>7. DecidedFor(v, n)' = Word(r)
  <2>1. (Answered(v, n, TRUE)' <=> r = TRUE) /\ (Answered(v, n, FALSE)' <=> r = FALSE)
    BY <1>6
  <2>2. CASE r = TRUE
    BY <1>6, <2>1, <2>2 DEF DecidedFor, Word
  <2>3. CASE r = FALSE
    BY <1>6, <2>1, <2>3 DEF DecidedFor, Word
  <2>. QED
    BY <2>2, <2>3
<1>. QED
  BY <1>4, <1>7 DEF Decided

LEMMA AcceptStep ==
  ASSUME NEW v \in Vat, Sound(v), net[Peer(v)] \in Seq(Message), net[Peer(v)] # <<>>,
         Head(net[Peer(v)]).k \in {"bootstrap", "call"},
         NEW id, id = Head(net[Peer(v)]).id,
         AcceptedAs(answers[Peer(v)], answers'[Peer(v)], id),
         NEW a, a = answers'[Peer(v)][id], a.n = Head(net[Peer(v)]).n, a.ok \in BOOLEAN,
         Asks(net[Peer(v)])' = Tail(Asks(net[Peer(v)])),
         Still(v), StillWorking,
         \/ ~a.done /\ a.callee.k # "none" /\ Replies(net[v])' = Replies(net[v])
         \/ /\ ~a.done /\ a.callee.k = "none"
            /\ Replies(net[v])' = Append(Replies(net[v]), [k |-> "unimplemented", id |-> id])
         \/ /\ a.done
            /\ Replies(net[v])' = Append(Replies(net[v]),
                                         [k |-> "return", id |-> id, outcome |-> Word(a.ok)])
  PROVE  Step(v)
<1> DEFINE n == Head(net[Peer(v)]).n
<1>1. /\ id \notin DOMAIN answers[Peer(v)] /\ Decided(v)[n] = "none" /\ n \in Nat \ {0}
      /\ Head(Asks(net[Peer(v)])) = [k |-> "call", id |-> id, call |-> n]
      /\ D(v)!Incoming
  BY CallFacts
<1>2. a.n = n
  OBVIOUS
<1> HIDE DEF n
<1>3. AskedBy(v)' = AskedBy(v) /\ Settlement(v)' = Settlement(v)
  BY CallsAs DEF Still
<1>4. /\ Entries(v)' = D(v)!InsertAnswer(id, [call |-> n, state |-> EntryState(a)])
      /\ \A k, ok : Answered(v, k, ok)' <=> Answered(v, k, ok) \/ (n = k /\ a.done /\ a.ok = ok)
  <2>1. EntryAdded(v, id)
    BY <1>1, EntryMade
  <2>. QED
    BY <1>2, <2>1 DEF EntryAdded
<1>5. working'[v] = working[v] /\ working'[Peer(v)] = working[Peer(v)]
  BY PeerFacts DEF StillWorking
<1>6. PICK m : m = Head(Asks(net[Peer(v)]))
  OBVIOUS
<1>7. m.id = id /\ m.call = n
  <2>1. m = [k |-> "call", id |-> id, call |-> n]
    BY <1>1, <1>6
  <2>. QED
    BY <2>1
<1>8. id \notin DOMAIN Entries(v)
  BY <1>1 DEF Entries
<1>9. ASSUME NEW state, state = EntryState(a) PROVE D(v)!Accept(state)
  BY <1>1, <1>3, <1>4, <1>5, <1>6, <1>7, <1>8, <1>9 DEF D!Accept, Still
<1>10. ASSUME ~a.done PROVE Decided(v)' = Decided(v)
  BY <1>3, <1>4, <1>10, DecidedAs
<1>11. CASE ~a.done /\ a.callee.k # "none" /\ Replies(net[v])' = Replies(net[v])
  <2>1. EntryState(a) \in {"running", "waiting"}
    BY <1>11 DEF EntryState
  <2>2. D(v)!HandleCallPending
    BY <1>9, <1>10, <1>11, <2>1 DEF D!HandleCallPending
  <2>. QED
    BY <2>2 DEF Step, D!Next, D!HandleCall
<1>12. CASE /\ ~a.done /\ a.callee.k = "none"
            /\ Replies(net[v])' = Append(Replies(net[v]), [k |-> "unimplemented", id |-> id])
  <2>1. EntryState(a) = "unimplemented"
    BY <1>12 DEF EntryState
  <2>2. D(v)!Accept("unimplemented")
    BY <1>9, <2>1
  <2>3. D(v)!HandleCallRefused
    BY <1>1, <1>6, <1>7, <1>8, <1>10, <1>12, <2>2 DEF D!HandleCallRefused, D!UnimplementedMessage
  <2>. QED
    BY <2>3 DEF Step, D!Next, D!HandleCall
<1>13. CASE /\ a.done
            /\ Replies(net[v])' = Append(Replies(net[v]),
                                         [k |-> "return", id |-> id, outcome |-> Word(a.ok)])
  <2>1. EntryState(a) = "done"
    BY <1>13 DEF EntryState
  <2>2. D(v)!Accept("done")
    BY <1>9, <2>1
  <2>3. Decided(v)' = [Decided(v) EXCEPT ![n] = Word(a.ok)]
    <3>1. \A k, ok : Answered(v, k, ok)' <=> Answered(v, k, ok) \/ (k = n /\ ok = a.ok)
      BY <1>4, <1>13
    <3>. QED
      BY <1>1, <1>3, <3>1, DecidedNow
  <2>4. D(v)!HandleCallSettled(Word(a.ok))
    BY <1>6, <1>7, <1>13, <2>2, <2>3 DEF D!HandleCallSettled, D!ReturnMessage
  <2>5. Word(a.ok) \in D(v)!Outcome
    BY DEF D!Outcome, Word
  <2>. QED
    BY <2>4, <2>5 DEF Step, D!Next, D!HandleCall
<1>. QED
  BY <1>11, <1>12, <1>13

\* The answering vat settles an answer.
LEMMA AnswerStep ==
  ASSUME NEW v \in Vat, Sound(v), NEW id \in DOMAIN answers[Peer(v)],
         ~answers[Peer(v)][id].done, answers[Peer(v)][id].callee.k # "none",
         DOMAIN answers'[Peer(v)] = DOMAIN answers[Peer(v)],
         \A x \in DOMAIN answers[Peer(v)] : x # id =>
           SameEntry(answers'[Peer(v)][x], answers[Peer(v)][x]),
         NEW a, a = answers'[Peer(v)][id], a.n = answers[Peer(v)][id].n,
         a.done, a.ok \in BOOLEAN,
         Asks(net[Peer(v)])' = Asks(net[Peer(v)]),
         Replies(net[v])' = Append(Replies(net[v]),
                                   [k |-> "return", id |-> id, outcome |-> Word(a.ok)]),
         Still(v), StillWorking
  PROVE  Step(v)
<1> DEFINE n == a.n
<1>1. n \in Nat \ {0} /\ Decided(v)[n] = "none"
  BY EntryFacts
<1>2. AskedBy(v)' = AskedBy(v) /\ Settlement(v)' = Settlement(v)
  BY CallsAs DEF Still
<1>3. \A x \in DOMAIN answers[Peer(v)] : x # id =>
        EntryState(answers'[Peer(v)][x]) = EntryState(answers[Peer(v)][x])
  BY DEF EntryState, SameEntry
<1>4. EntryState(a) = "done" /\ EntryState(answers[Peer(v)][id]) \in {"running", "waiting"}
  BY DEF EntryState
<1>5. Entries(v)' = [Entries(v) EXCEPT ![id].state = "done"]
  BY <1>3, <1>4 DEF Entries, SameEntry
<1>6. /\ Entries(v)[id].call = n /\ Entries(v)[id].state \in {"running", "waiting"}
      /\ id \in DOMAIN Entries(v)
  BY <1>4 DEF Entries
<1>7. \A k, ok : Answered(v, k, ok)' <=> Answered(v, k, ok) \/ (k = n /\ ok = a.ok)
  BY DEF Answered, SameEntry
<1>8. Decided(v)' = [Decided(v) EXCEPT ![n] = Word(a.ok)]
  BY <1>1, <1>2, <1>7, DecidedNow
<1>9. working'[v] = working[v] /\ working'[Peer(v)] = working[Peer(v)]
  BY PeerFacts DEF StillWorking
<1>10. D(v)!Answer(id, Word(a.ok))
  <2>1. Entries(v)[id].call = n /\ D(v)!Settleable(Entries(v)[id])
    BY <1>6 DEF D!Settleable
  <2>. QED
    BY <1>2, <1>5, <1>8, <1>9, <2>1 DEF D!Answer, D!Settleable, D!ReturnMessage, Still
<1>11. Word(a.ok) \in D(v)!Outcome
  BY DEF D!Outcome, Word
<1>. QED
  BY <1>6, <1>10, <1>11 DEF Step, D!Next

\* The answering vat drops an entry.
LEMMA FinishStep ==
  ASSUME NEW v \in Vat, Sound(v), net[Peer(v)] \in Seq(Message), net[Peer(v)] # <<>>,
         Head(net[Peer(v)]).k = "finish",
         answers'[Peer(v)] = Remove(answers[Peer(v)], Head(net[Peer(v)]).id),
         Asks(net[Peer(v)])' = Tail(Asks(net[Peer(v)])),
         Replies(net[v])' = Replies(net[v]),
         Still(v), StillWorking
  PROVE  Step(v)
<1> DEFINE m == Head(net[Peer(v)])
           A == answers[Peer(v)]
<1>n. PICK n : n = A[m.id].n
  OBVIOUS
<1>1. m.id \in DOMAIN A /\ A[m.id].done /\ Settlement(v)[n] # "none"
  BY <1>n, FinishFacts
<1>2. Asks(net[Peer(v)]) # <<>> /\ Head(Asks(net[Peer(v)])) = m
  <2>1. m.k \in AskKinds /\ AskMessage(m) = m
    BY DEF AskKinds, AskMessage
  <2>. QED
    BY <2>1, AsksTaken
<1>3. AskedBy(v)' = AskedBy(v) /\ Settlement(v)' = Settlement(v)
  BY CallsAs DEF Still
<1>4. Entries(v)' = D(v)!PopAnswer(m.id)
  BY DEF Entries, D!PopAnswer, Remove
<1>5. n \in Nat \ {0}
  BY <1>1, <1>n, Mapped
<1>6. Decided(v)' = Decided(v)
  <2>1. \A k \in Nat \ {0} : Settlement(v)[k] = SettledWith(v, k)
    BY DEF Settlement
  <2>2. \A k \in Nat \ {0} : Settlement(v)'[k] = SettledWith(v, k)'
    BY DEF Settlement
  <2>a. SettledWith(v, n)' = SettledWith(v, n) /\ SettledWith(v, n) # "none"
    BY <1>1, <1>3, <1>5, <2>1, <2>2
  <2>3. DecidedFor(v, n)' = DecidedFor(v, n)
    BY <2>a DEF DecidedFor
  <2>4. \A k, ok : k # n => (Answered(v, k, ok)' <=> Answered(v, k, ok))
    BY <1>n DEF Answered, Remove
  <2>5. \A k \in Nat \ {0} : k # n => DecidedFor(v, k)' = DecidedFor(v, k)
    BY <1>3, <2>1, <2>2, <2>4 DEF DecidedFor
  <2>6. \A k \in Nat \ {0} : DecidedFor(v, k)' = DecidedFor(v, k)
    BY <2>3, <2>5
  <2>. QED
    BY <2>6 DEF Decided
<1>7. /\ working'[v] = working[v] /\ working'[Peer(v)] = working[Peer(v)]
      /\ working[Peer(v)] = TRUE
  BY PeerFacts, Mapped DEF StillWorking
<1>8. m.id \in DOMAIN Entries(v)
  BY <1>1 DEF Entries
<1> HIDE DEF m, A
<1>9. D(v)!HandleFinish
  BY <1>2, <1>3, <1>4, <1>6, <1>7, <1>8 DEF D!HandleFinish, Still, m
<1>. QED
  BY <1>9 DEF Step, D!Next

-----------------------------------------------------------------------------
(* What sending and reading a message is in the two directions. *)

LEMMA MessageKind ==
  ASSUME NEW m \in Message
  PROVE  /\ m.k \in AskKinds \/ m.k \in ReplyKinds
         /\ ~(m.k \in AskKinds /\ m.k \in ReplyKinds)
         /\ m.id \in Nat
         /\ m.k \in {"bootstrap", "call", "return", "unimplemented"} => m.n \in Nat
         /\ m.k \in {"call", "return"} => m.cap \in Descriptor
         /\ m.k = "call" => m.target \in Target /\ m.method \in Method
         /\ m.k = "return" => m.ok \in BOOLEAN
         /\ m.k = "finish" => m.releaseResultCaps \in BOOLEAN
BY DEF Message, AskKinds, ReplyKinds

\* What a vat that sends m adds to the channel s.
Adds(s, t, m) ==
  IF m.k \in AskKinds
  THEN Asks(t) = Append(Asks(s), AskMessage(m)) /\ Replies(t) = Replies(s)
  ELSE Asks(t) = Asks(s) /\ Replies(t) = Append(Replies(s), AnswerMessage(m))
\* What a vat that reads its channel takes from it.
Takes(s, t) ==
  IF Head(s).k \in AskKinds
  THEN Asks(t) = Tail(Asks(s)) /\ Replies(t) = Replies(s)
  ELSE Asks(t) = Asks(s) /\ Replies(t) = Tail(Replies(s))

LEMMA Adding ==
  ASSUME NEW s \in Seq(Message), NEW m \in Message
  PROVE  Adds(s, s \o <<m>>, m)
BY AsksSent, RepliesSent, MessageKind DEF Adds

LEMMA Taking ==
  ASSUME NEW s \in Seq(Message), s # <<>>
  PROVE  Takes(s, Tail(s)) /\ Head(s) \in Message /\ Tail(s) \in Seq(Message)
<1>1. Head(s) \in Message /\ Tail(s) \in Seq(Message)
  OBVIOUS
<1>. QED
  BY <1>1, AsksTaken, RepliesTaken, MessageKind DEF Takes

\* All that holds in every state.
Inv == CountsInv /\ TablesInv /\ \A v \in Vat : Sound(v) /\ AwaitedOK(v)

LEMMA ChannelTypes ==
  ASSUME Inv, NEW v \in Vat
  PROVE  net[v] \in Seq(Message) /\ net[Peer(v)] \in Seq(Message)
BY PeerFacts DEF Inv, TablesInv, ChannelOK

LEMMA WhenSent ==
  ASSUME Inv, NEW v \in Vat, NEW m \in Message, Send(v, <<m>>)
  PROVE  /\ net'[v] = net[v] /\ net'[Peer(v)] = net[Peer(v)] \o <<m>>
         /\ Adds(net[Peer(v)], net'[Peer(v)], m)
BY NetSent, ChannelTypes, Adding DEF Inv

LEMMA WhenRead ==
  ASSUME Inv, NEW v \in Vat, NEW k, Handles(v, k), Reply(v, <<>>)
  PROVE  /\ net'[v] = Tail(net[v]) /\ net'[Peer(v)] = net[Peer(v)]
         /\ Takes(net[v], net'[v])
<1>1. net'[Peer(v)] = net[Peer(v)] \o <<>> /\ net'[v] = Tail(net[v])
  BY NetReplied DEF Inv
<1>2. net[Peer(v)] \o <<>> = net[Peer(v)]
  BY ChannelTypes
<1>. QED
  BY <1>1, <1>2, ChannelTypes, Taking DEF Handles

LEMMA WhenAnswered ==
  ASSUME Inv, NEW v \in Vat, NEW k, Handles(v, k), NEW m \in Message, Reply(v, <<m>>)
  PROVE  /\ net'[v] = Tail(net[v]) /\ net'[Peer(v)] = net[Peer(v)] \o <<m>>
         /\ Takes(net[v], net'[v]) /\ Adds(net[Peer(v)], net'[Peer(v)], m)
<1>1. net'[Peer(v)] = net[Peer(v)] \o <<m>> /\ net'[v] = Tail(net[v])
  BY NetReplied DEF Inv
<1>. QED
  BY <1>1, ChannelTypes, Taking, Adding DEF Handles

LEMMA HeadFacts ==
  ASSUME Inv, NEW v \in Vat, NEW k, Handles(v, k)
  PROVE  Head(net[v]) \in Message /\ Head(net[v]).k = k /\ net[v] # <<>>
BY ChannelTypes, Taking DEF Handles

LEMMA SameCalls ==
  ASSUME NEW C
  PROVE  \A n : SameCall(C, C, n)
BY DEF SameCall

\* The other end of a direction in which v only answers, or only asks.
LEMMA PeerStill ==
  ASSUME Inv, NEW v \in Vat,
         OnlyOf(v, questionID, questionID'), OnlyOf(v, questions, questions'),
         OnlyOf(v, calls, calls')
  PROVE  Still(Peer(v))
BY PeerFacts, SameCalls DEF Still, OnlyOf

-----------------------------------------------------------------------------
(* Each action is a step of both directions. *)

Steps(v) == Step(v) /\ Step(Peer(v))

LEMMA QuietSteps ==
  ASSUME Inv, NEW v \in Vat, questionID' = questionID, questions' = questions,
         answers' = answers, working' = working, net' = net,
         OnlyOf(v, calls, calls'), \A n : SameCall(calls[v], calls'[v], n)
  PROVE  Steps(v)
<1>1. Still(v) /\ Still(Peer(v)) /\ StillWorking
  BY PeerFacts, PeerStill, SameCalls DEF Still, StillWorking, OnlyOf
<1>2. Step(v)
  BY <1>1, BothStill
<1>3. Step(Peer(v))
  BY <1>1, BothStill, PeerFacts
<1>. QED
  BY <1>2, <1>3 DEF Steps

LEMMA CallTypes ==
  ASSUME Inv, NEW v \in Vat
  PROVE  /\ calls[v] \in Seq(CallRecord) /\ DOMAIN calls[v] = 1 .. Len(calls[v])
         /\ Len(calls[v]) \in Nat
         /\ \A n \in DOMAIN calls[v] :
              /\ calls[v][n] \in CallRecord
              /\ calls[v][n].id = NoId <=> calls[v][n].route \in {"local", "error"}
<1>1. calls[v] \in Seq(CallRecord)
  BY DEF Inv, TablesInv, CallsOK
<1>2. \A n \in DOMAIN calls[v] : calls[v][n].id = NoId <=> calls[v][n].route \in {"local", "error"}
  BY DEF Inv, TablesInv, CallsOK
<1>. QED
  BY <1>1, <1>2

LEMMA InitMainSteps ==
  ASSUME Inv, NEW v \in Vat, InitMain(v)
  PROVE  Steps(v)
BY SameCalls, QuietSteps DEF InitMain, OnlyOf, Inv, TablesInv

LEMMA CallHereSteps ==
  ASSUME Inv, NEW v \in Vat, NEW on, NEW c, CallHere(v, on, c)
  PROVE  Steps(v)
<1> DEFINE here(route, state) == [id |-> NoId, on |-> on, route |-> route,
                                  state |-> state, cap |-> NullClient]
<1>a. PICK r : r = IF ObjectOf(v, c) = NoId THEN here("error", "exception") ELSE here("local", "waiting")
  OBVIOUS
<1>b. calls' = [calls EXCEPT ![v] = Append(@, r)]
  BY <1>a DEF CallHere
<1>1. calls' = [calls EXCEPT ![v] = Append(@, r)] /\ r.id = NoId
  BY <1>a, <1>b
<1>2. OnlyOf(v, calls, calls') /\ calls'[v] = Append(calls[v], r)
  BY <1>1, Changed DEF Inv, TablesInv
<1>3. /\ DOMAIN calls'[v] = DOMAIN calls[v] \cup {Len(calls[v]) + 1}
      /\ Len(calls[v]) + 1 \notin DOMAIN calls[v]
      /\ \A n \in DOMAIN calls[v] : calls'[v][n] = calls[v][n]
      /\ calls'[v][Len(calls[v]) + 1] = r
  <2>1. calls[v] \in Seq(CallRecord)
    BY CallTypes
  <2>. QED
    BY <1>2, <2>1
<1>4. \A n : SameCall(calls[v], calls'[v], n)
  BY <1>1, <1>3 DEF SameCall
<1>. QED
  BY <1>2, <1>4, QuietSteps DEF CallHere, tables

LEMMA LocalFinishSteps ==
  ASSUME Inv, NEW v \in Vat, NEW n \in DOMAIN calls[v], NEW ok, LocalFinish(v, n, ok)
  PROVE  Steps(v)
<1>1. PICK s : calls' = [calls EXCEPT ![v][n].state = s]
  BY DEF LocalFinish
<1>2. /\ OnlyOf(v, calls, calls')
      /\ calls'[v] = [calls[v] EXCEPT ![n].state = s]
  BY <1>1, Changed DEF Inv, TablesInv
<1>3. calls[v][n].id = NoId
  BY CallTypes DEF LocalFinish
<1>4. \A k : SameCall(calls[v], calls'[v], k)
  BY <1>2, <1>3 DEF SameCall
<1>. QED
  BY <1>2, <1>4, QuietSteps DEF LocalFinish, tables

LEMMA DropSteps ==
  ASSUME Inv, NEW v \in Vat, NEW n \in DOMAIN calls[v], Drop(v, n)
  PROVE  Steps(v)
<1>1. calls' = [calls EXCEPT ![v][n].state = "dropped", ![v][n].cap = NullClient]
  BY DEF Drop
<1>2. /\ OnlyOf(v, calls, calls')
      /\ calls'[v] = [calls[v] EXCEPT ![n].state = "dropped", ![n].cap = NullClient]
  <2>1. DOMAIN calls = Vat /\ Peer(v) # v
    BY PeerFacts DEF Inv, TablesInv
  <2>. QED
    BY <1>1, <2>1, PeerFacts DEF OnlyOf
<1>3. calls[v][n].state = "results" /\ calls[v][n] \in CallRecord
  BY CallTypes DEF Drop
<1>4. /\ DOMAIN calls'[v] = DOMAIN calls[v]
      /\ \A k \in DOMAIN calls[v] : k # n => calls'[v][k] = calls[v][k]
      /\ calls'[v][n].id = calls[v][n].id /\ calls'[v][n].state = "dropped"
  BY <1>2, <1>3 DEF CallRecord
<1>5. \A k : SameCall(calls[v], calls'[v], k)
  BY <1>3, <1>4 DEF SameCall
<1>. QED
  BY <1>2, <1>5, QuietSteps DEF Drop, tables

\* A question of v goes out with message m.
LEMMA AskingSteps ==
  ASSUME Inv, NEW v \in Vat, NEW on, NEW route, NewQuestion(v, on, route),
         NEW m \in Message, m.k \in {"bootstrap", "call"},
         m.id = IdNext(questionID[v]), m.n = Len(calls[v]) + 1,
         Send(v, <<m>>), answers' = answers, working' = working
  PROVE  Steps(v)
<1>1. /\ net'[v] = net[v] /\ Adds(net[Peer(v)], net'[Peer(v)], m)
  BY WhenSent
<1>2. m.k \in AskKinds
  BY DEF AskKinds
<1>3. /\ Asks(net'[Peer(v)]) = Append(Asks(net[Peer(v)]), AskMessage(m))
      /\ Replies(net'[Peer(v)]) = Replies(net[Peer(v)])
      /\ Asks(net'[v]) = Asks(net[v]) /\ Replies(net'[v]) = Replies(net[v])
  BY <1>1, <1>2 DEF Adds
<1>4. StillWorking
  BY DEF StillWorking
<1>5. AskMessage(m) = [k |-> "call", id |-> IdNext(questionID[v]), call |-> Len(calls[v]) + 1]
  BY DEF AskMessage
<1>6. /\ Sound(v) /\ calls[v] \in Seq(CallRecord) /\ DOMAIN questionID = Vat
      /\ DOMAIN questions = Vat /\ DOMAIN calls = Vat
  BY CallTypes DEF Inv, TablesInv
<1>7. Step(v)
  BY <1>3, <1>4, <1>5, <1>6, AskStep
<1>8. Still(Peer(v))
  <2>1. OnlyOf(v, questionID, questionID') /\ OnlyOf(v, questions, questions') /\ OnlyOf(v, calls, calls')
    BY <1>6, Changed DEF NewQuestion
  <2>. QED
    BY <2>1, PeerStill
<1>9. Step(Peer(v))
  <2>1. PICK w \in Vat : w = Peer(v) /\ Peer(w) = v
    BY PeerFacts
  <2>2. /\ Asks(net[Peer(w)])' = Asks(net[Peer(w)])
        /\ Replies(net[w])' = Replies(net[w])
    BY <1>3, <2>1
  <2>. QED
    BY <1>4, <1>8, <2>1, <2>2, BothStill
<1>. QED
  BY <1>7, <1>9 DEF Steps

\* An answer of v is settled.
LEMMA AnsweringSteps ==
  ASSUME Inv, NEW v \in Vat, NEW id \in DOMAIN answers[v],
         ~answers[v][id].done, answers[v][id].callee.k # "none",
         NEW a, answers' = [answers EXCEPT ![v][id] = a],
         a.n = answers[v][id].n, a.done, a.ok \in BOOLEAN,
         NEW m \in Message, m.k = "return", m.id = id, m.ok = a.ok, Send(v, <<m>>),
         questionID' = questionID, questions' = questions, calls' = calls, working' = working
  PROVE  Steps(v)
<1>1. /\ net'[v] = net[v] /\ Adds(net[Peer(v)], net'[Peer(v)], m)
  BY WhenSent
<1>2. /\ Replies(net'[Peer(v)]) = Append(Replies(net[Peer(v)]), AnswerMessage(m))
      /\ Asks(net'[Peer(v)]) = Asks(net[Peer(v)])
      /\ Asks(net'[v]) = Asks(net[v]) /\ Replies(net'[v]) = Replies(net[v])
  BY <1>1 DEF Adds, AskKinds
<1>3. AnswerMessage(m) = [k |-> "return", id |-> id, outcome |-> Word(a.ok)]
  BY DEF AnswerMessage
<1>4. /\ StillWorking /\ \A w \in Vat : Still(w)
  BY SameCalls DEF StillWorking, Still
<1>5. DOMAIN answers = Vat
  BY DEF Inv, TablesInv
<1>6. PICK w \in Vat : w = Peer(v) /\ Peer(w) = v /\ w # v
  BY PeerFacts
<1>7. /\ DOMAIN answers'[v] = DOMAIN answers[v] /\ answers'[v][id] = a
      /\ \A x \in DOMAIN answers[v] : x # id => SameEntry(answers'[v][x], answers[v][x])
      /\ answers'[w] = answers[w]
  BY <1>5, <1>6 DEF SameEntry
<1>8. Step(w)
  <2>1. Sound(w)
    BY DEF Inv
  <2>2. /\ Replies(net[w])' = Append(Replies(net[w]), [k |-> "return", id |-> id, outcome |-> Word(a.ok)])
        /\ Asks(net[Peer(w)])' = Asks(net[Peer(w)])
    BY <1>2, <1>3, <1>6
  <2>3. /\ id \in DOMAIN answers[Peer(w)] /\ ~answers[Peer(w)][id].done
        /\ answers[Peer(w)][id].callee.k # "none"
        /\ DOMAIN answers'[Peer(w)] = DOMAIN answers[Peer(w)]
        /\ \A x \in DOMAIN answers[Peer(w)] : x # id =>
             SameEntry(answers'[Peer(w)][x], answers[Peer(w)][x])
        /\ a = answers'[Peer(w)][id] /\ a.n = answers[Peer(w)][id].n
    BY <1>6, <1>7
  <2>. QED
    BY <1>4, <2>1, <2>2, <2>3, AnswerStep
<1>9. Step(v)
  BY <1>2, <1>4, <1>6, <1>7, BothStill
<1>. QED
  BY <1>6, <1>8, <1>9 DEF Steps

\* A call, or a Bootstrap, is read: the entry for it is made.
LEMMA AcceptingStep ==
  ASSUME Inv, NEW v \in Vat, NEW k \in {"bootstrap", "call"}, Handles(v, k),
         NEW id, id = Head(net[v]).id,
         AcceptedAs(answers[v], answers'[v], id),
         NEW a, a = answers'[v][id], a.n = Head(net[v]).n, a.ok \in BOOLEAN,
         Takes(net[v], net'[v]), Still(Peer(v)), StillWorking,
         \/ ~a.done /\ a.callee.k # "none" /\ Replies(net'[Peer(v)]) = Replies(net[Peer(v)])
         \/ /\ ~a.done /\ a.callee.k = "none"
            /\ Replies(net'[Peer(v)])
                 = Append(Replies(net[Peer(v)]), [k |-> "unimplemented", id |-> id])
         \/ /\ a.done
            /\ Replies(net'[Peer(v)])
                 = Append(Replies(net[Peer(v)]), [k |-> "return", id |-> id, outcome |-> Word(a.ok)])
  PROVE  Step(Peer(v)) /\ id \notin DOMAIN answers[v] /\ Asks(net'[v]) = Tail(Asks(net[v]))
         /\ Replies(net'[v]) = Replies(net[v])
<1>1. PICK w \in Vat : w = Peer(v) /\ Peer(w) = v
  BY PeerFacts
<1>2. net[v] \in Seq(Message) /\ net[v] # <<>> /\ Head(net[v]).k \in {"bootstrap", "call"}
  BY ChannelTypes, HeadFacts
<1>3. Asks(net'[v]) = Tail(Asks(net[v])) /\ Replies(net'[v]) = Replies(net[v])
  BY <1>2 DEF Takes, AskKinds
<1>4. Sound(w)
  BY DEF Inv
<1>5. id \notin DOMAIN answers[v]
  BY <1>1, <1>2, <1>4, CallFacts
<1>6. /\ net[Peer(w)] \in Seq(Message) /\ net[Peer(w)] # <<>>
      /\ Head(net[Peer(w)]).k \in {"bootstrap", "call"}
      /\ id = Head(net[Peer(w)]).id
      /\ AcceptedAs(answers[Peer(w)], answers'[Peer(w)], id)
      /\ a = answers'[Peer(w)][id] /\ a.n = Head(net[Peer(w)]).n
      /\ Asks(net[Peer(w)])' = Tail(Asks(net[Peer(w)]))
      /\ Still(w)
  BY <1>1, <1>2, <1>3
<1>7. \/ ~a.done /\ a.callee.k # "none" /\ Replies(net[w])' = Replies(net[w])
      \/ /\ ~a.done /\ a.callee.k = "none"
         /\ Replies(net[w])' = Append(Replies(net[w]), [k |-> "unimplemented", id |-> id])
      \/ /\ a.done
         /\ Replies(net[w])' = Append(Replies(net[w]),
                                      [k |-> "return", id |-> id, outcome |-> Word(a.ok)])
  BY <1>1
<1>8. Step(w)
  BY <1>4, <1>6, <1>7, AcceptStep
<1>. QED
  BY <1>1, <1>3, <1>5, <1>8

\* The vat that answers only does that: its own direction stands still.
LEMMA AnswererStill ==
  ASSUME Inv, NEW v \in Vat, questionID' = questionID, questions' = questions, calls' = calls,
         working' = working, answers'[Peer(v)] = answers[Peer(v)],
         Asks(net'[Peer(v)]) = Asks(net[Peer(v)]), Replies(net'[v]) = Replies(net[v])
  PROVE  Step(v) /\ Still(Peer(v)) /\ StillWorking
<1>1. StillWorking /\ Still(v) /\ Still(Peer(v))
  BY SameCalls DEF StillWorking, Still
<1>. QED
  BY <1>1, BothStill

LEMMA AcceptingSteps ==
  ASSUME Inv, NEW v \in Vat, NEW k \in {"bootstrap", "call"}, Handles(v, k),
         NEW id, id = Head(net[v]).id,
         AcceptedAs(answers[v], answers'[v], id), answers'[Peer(v)] = answers[Peer(v)],
         NEW a, a = answers'[v][id], a.n = Head(net[v]).n, a.ok \in BOOLEAN,
         questionID' = questionID, questions' = questions, calls' = calls, working' = working,
         \/ ~a.done /\ a.callee.k # "none" /\ Reply(v, <<>>)
         \/ \E m \in Message : /\ ~a.done /\ a.callee.k = "none" /\ Reply(v, <<m>>)
                               /\ m.k = "unimplemented" /\ m.id = id
         \/ \E m \in Message : /\ a.done /\ Reply(v, <<m>>)
                               /\ m.k = "return" /\ m.id = id /\ m.ok = a.ok
  PROVE  Steps(v) /\ id \notin DOMAIN answers[v]
<1>1. /\ Takes(net[v], net'[v])
      /\ Asks(net'[Peer(v)]) = Asks(net[Peer(v)])
      /\ \/ ~a.done /\ a.callee.k # "none" /\ Replies(net'[Peer(v)]) = Replies(net[Peer(v)])
         \/ /\ ~a.done /\ a.callee.k = "none"
            /\ Replies(net'[Peer(v)])
                 = Append(Replies(net[Peer(v)]), [k |-> "unimplemented", id |-> id])
         \/ /\ a.done
            /\ Replies(net'[Peer(v)])
                 = Append(Replies(net[Peer(v)]), [k |-> "return", id |-> id, outcome |-> Word(a.ok)])
  <2>1. CASE ~a.done /\ a.callee.k # "none" /\ Reply(v, <<>>)
    <3>1. Takes(net[v], net'[v]) /\ net'[Peer(v)] = net[Peer(v)]
      BY <2>1, WhenRead
    <3>. QED
      BY <2>1, <3>1
  <2>2. ASSUME NEW m \in Message, ~a.done, a.callee.k = "none", Reply(v, <<m>>),
               m.k = "unimplemented", m.id = id
        PROVE  /\ Takes(net[v], net'[v])
               /\ Asks(net'[Peer(v)]) = Asks(net[Peer(v)])
               /\ Replies(net'[Peer(v)])
                    = Append(Replies(net[Peer(v)]), [k |-> "unimplemented", id |-> id])
    <3>1. Takes(net[v], net'[v]) /\ Adds(net[Peer(v)], net'[Peer(v)], m)
      BY <2>2, WhenAnswered
    <3>2. AnswerMessage(m) = [k |-> "unimplemented", id |-> id] /\ m.k \notin AskKinds
      BY <2>2 DEF AnswerMessage, AskKinds
    <3>. QED
      BY <3>1, <3>2 DEF Adds
  <2>3. ASSUME NEW m \in Message, a.done, Reply(v, <<m>>),
               m.k = "return", m.id = id, m.ok = a.ok
        PROVE  /\ Takes(net[v], net'[v])
               /\ Asks(net'[Peer(v)]) = Asks(net[Peer(v)])
               /\ Replies(net'[Peer(v)])
                    = Append(Replies(net[Peer(v)]), [k |-> "return", id |-> id, outcome |-> Word(a.ok)])
    <3>1. Takes(net[v], net'[v]) /\ Adds(net[Peer(v)], net'[Peer(v)], m)
      BY <2>3, WhenAnswered
    <3>2. AnswerMessage(m) = [k |-> "return", id |-> id, outcome |-> Word(a.ok)] /\ m.k \notin AskKinds
      BY <2>3 DEF AnswerMessage, AskKinds
    <3>. QED
      BY <3>1, <3>2 DEF Adds
  <2>. QED
    BY <2>1, <2>2, <2>3
<1>2. Still(Peer(v)) /\ StillWorking
  BY SameCalls DEF StillWorking, Still
<1>3. /\ Step(Peer(v)) /\ id \notin DOMAIN answers[v]
      /\ Replies(net'[v]) = Replies(net[v])
  BY <1>1, <1>2, AcceptingStep
<1>4. Step(v)
  BY <1>1, <1>3, AnswererStill
<1>. QED
  BY <1>3, <1>4 DEF Steps

LEMMA FinishingSteps ==
  ASSUME Inv, NEW v \in Vat, HandleFinish(v)
  PROVE  /\ Steps(v)
         /\ Head(net[v]).id \in DOMAIN answers[v] /\ answers[v][Head(net[v]).id].done
<1>1. PICK w \in Vat : w = Peer(v) /\ Peer(w) = v /\ w # v
  BY PeerFacts
<1>2. /\ Handles(v, "finish") /\ Reply(v, <<>>)
      /\ questionID' = questionID /\ questions' = questions /\ calls' = calls
      /\ answers' = [answers EXCEPT ![v] = Remove(@, Head(net[v]).id)]
      /\ working' = [working EXCEPT ![v] = Head(net[v]).id \in DOMAIN answers[v]
                                            \/ ~Head(net[v]).releaseResultCaps]
  BY DEF HandleFinish
<1>3. /\ net[v] \in Seq(Message) /\ net[v] # <<>> /\ Head(net[v]).k = "finish"
      /\ net'[w] = net[w] /\ Takes(net[v], net'[v])
  BY <1>1, <1>2, ChannelTypes, HeadFacts, WhenRead
<1>4. Asks(net'[v]) = Tail(Asks(net[v])) /\ Replies(net'[v]) = Replies(net[v])
  BY <1>3 DEF Takes, AskKinds
<1>5. Sound(w)
  BY DEF Inv
<1>6. Head(net[v]).id \in DOMAIN answers[v] /\ answers[v][Head(net[v]).id].done
  BY <1>1, <1>3, <1>5, FinishFacts
<1>7. StillWorking /\ Still(v) /\ Still(w)
  <2>1. working[v] = TRUE /\ DOMAIN working = Vat
    BY <1>1, <1>5, Mapped DEF Inv, TablesInv
  <2>2. StillWorking
    BY <1>2, <1>6, <2>1 DEF StillWorking
  <2>. QED
    BY <1>2, <2>2, SameCalls DEF Still
<1>8. /\ answers'[v] = Remove(answers[v], Head(net[v]).id)
      /\ answers'[w] = answers[w]
  BY <1>1, <1>2 DEF Inv, TablesInv
<1>9. Step(w)
  <2>1. /\ net[Peer(w)] \in Seq(Message) /\ net[Peer(w)] # <<>> /\ Head(net[Peer(w)]).k = "finish"
        /\ answers'[Peer(w)] = Remove(answers[Peer(w)], Head(net[Peer(w)]).id)
        /\ Asks(net[Peer(w)])' = Tail(Asks(net[Peer(w)]))
        /\ Replies(net[w])' = Replies(net[w])
    BY <1>1, <1>3, <1>4, <1>8
  <2>. QED
    BY <1>5, <1>7, <2>1, FinishStep
<1>10. Step(v)
  <2>1. /\ Asks(net[Peer(v)])' = Asks(net[Peer(v)]) /\ Replies(net[v])' = Replies(net[v])
        /\ answers'[Peer(v)] = answers[Peer(v)]
    BY <1>1, <1>3, <1>4, <1>8
  <2>. QED
    BY <1>7, <2>1, BothStill
<1>. QED
  BY <1>1, <1>6, <1>9, <1>10 DEF Steps

LEMMA UnimplementedSteps ==
  ASSUME Inv, NEW v \in Vat, HandleUnimplemented(v)
  PROVE  Steps(v)
<1>1. PICK w \in Vat : w = Peer(v) /\ Peer(w) = v /\ w # v
  BY PeerFacts
<1>2. /\ Handles(v, "unimplemented") /\ Reply(v, <<>>)
      /\ UNCHANGED <<questionID, questions, calls, answers, working>>
  BY DEF HandleUnimplemented, tables
<1>3. /\ net[v] \in Seq(Message) /\ net[v] # <<>> /\ Head(net[v]).k = "unimplemented"
      /\ net'[w] = net[w] /\ Takes(net[v], net'[v])
  BY <1>1, <1>2, ChannelTypes, HeadFacts, WhenRead
<1>4. Asks(net'[v]) = Asks(net[v]) /\ Replies(net'[v]) = Tail(Replies(net[v]))
  BY <1>3 DEF Takes, AskKinds
<1>5. StillWorking /\ Still(v) /\ Still(w) /\ Sound(v)
  BY <1>2, SameCalls DEF Still, StillWorking, Inv
<1>6. Step(v)
  <2>1. /\ Asks(net[Peer(v)])' = Asks(net[Peer(v)])
        /\ Replies(net[v])' = Tail(Replies(net[v]))
        /\ answers'[Peer(v)] = answers[Peer(v)]
    BY <1>1, <1>2, <1>3, <1>4
  <2>. QED
    BY <1>3, <1>5, <2>1, UnimplementedStep
<1>7. Step(w)
  <2>1. /\ Asks(net[Peer(w)])' = Asks(net[Peer(w)]) /\ Replies(net[w])' = Replies(net[w])
        /\ answers'[Peer(w)] = answers[Peer(w)]
    BY <1>1, <1>2, <1>3, <1>4
  <2>. QED
    BY <1>5, <2>1, BothStill
<1>. QED
  BY <1>1, <1>6, <1>7 DEF Steps

\* A Return finds its question, and what it carries.
LEMMA ReturningSteps ==
  ASSUME Inv, NEW v \in Vat, HandleReturn(v),
         NEW m, m = Head(net[v]), NEW n, n = questions[v][m.id]
  PROVE  /\ Steps(v)
         /\ m \in Message /\ m.k = "return"
         /\ m.id \in DOMAIN questions[v] /\ n \in Nat \ {0} /\ n \in DOMAIN calls[v]
         /\ FindQuestion(v, m.id) = n /\ Populates(v, m.cap)
         /\ calls[v][n].id = m.id
<1>1. PICK w \in Vat : w = Peer(v) /\ Peer(w) = v /\ w # v
  BY PeerFacts
<1>2. Handles(v, "return")
  BY DEF HandleReturn
<1>3. net[v] \in Seq(Message) /\ net[v] # <<>> /\ m \in Message /\ m.k = "return"
      /\ m.ok \in BOOLEAN /\ m.id \in Nat /\ net[w] \in Seq(Message)
  BY <1>1, <1>2, ChannelTypes, HeadFacts, MessageKind
<1>4. Sound(v) /\ Sound(w)
  BY DEF Inv
<1>5. m.id \in DOMAIN questions[v] /\ n \in Nat \ {0}
  BY <1>3, <1>4, ReturnFacts
<1>6. FindQuestion(v, m.id) = n /\ n # 0
  BY <1>5 DEF FindQuestion
<1>7. Populates(v, m.cap)
  <2>1. 1 \in DOMAIN net[v] /\ net[v][1] = m
    BY <1>3
  <2>. QED
    BY <1>3, <2>1 DEF Populates, Inv, TablesInv, ChannelOK
<1>8. n \in DOMAIN calls[v] /\ calls[v][n].id = m.id
  BY <1>5 DEF Inv, TablesInv, QuestionsOK
<1> DEFINE f == [k |-> "finish", id |-> m.id, releaseResultCaps |-> ~m.ok]
<1>9. /\ questions' = PopQuestion(v, m.id)
      /\ questionID' = [questionID EXCEPT ![v] = IdRemove(@, m.id)]
      /\ working' = [working EXCEPT ![v] = TRUE]
      /\ calls' = [calls EXCEPT ![v][n].state = IF m.ok THEN "results" ELSE "exception",
                                ![v][n].cap = ClientFor(v, m.cap, -n)]
      /\ Reply(v, <<f>>)
      /\ answers' = answers
  BY <1>6, <1>7 DEF HandleReturn
<1>10. f \in Message /\ f.k = "finish" /\ AskMessage(f) = f
  BY <1>3 DEF Message, AskMessage
<1> HIDE DEF f
<1>11. Takes(net[v], net'[v]) /\ Adds(net[w], net'[w], f)
  BY <1>1, <1>2, <1>9, <1>10, WhenAnswered
<1>12. /\ Asks(net'[v]) = Asks(net[v]) /\ Replies(net'[v]) = Tail(Replies(net[v]))
       /\ Asks(net'[w]) = Append(Asks(net[w]), f) /\ Replies(net'[w]) = Replies(net[w])
  BY <1>3, <1>10, <1>11 DEF Takes, Adds, AskKinds
<1>13. /\ DOMAIN questionID = Vat /\ DOMAIN questions = Vat /\ DOMAIN calls = Vat
       /\ DOMAIN working = Vat /\ working[v] = TRUE
  BY <1>4, Mapped DEF Inv, TablesInv
<1>14. StillWorking
  BY <1>9, <1>13 DEF StillWorking
<1>s. PICK s, c : /\ s = (IF m.ok THEN "results" ELSE "exception") /\ c = ClientFor(v, m.cap, -n)
                  /\ calls' = [calls EXCEPT ![v][n].state = s, ![v][n].cap = c]
  BY <1>9
<1>15. /\ questionID'[v] = IdRemove(questionID[v], m.id) /\ questionID'[w] = questionID[w]
       /\ questions'[v] = [questions[v] EXCEPT ![m.id] = 0] /\ questions'[w] = questions[w]
       /\ calls'[w] = calls[w]
       /\ calls'[v] = [calls[v] EXCEPT ![n].state = s, ![n].cap = c]
  <2>1. /\ questionID'[v] = IdRemove(questionID[v], m.id) /\ questionID'[w] = questionID[w]
        /\ questions'[v] = [questions[v] EXCEPT ![m.id] = 0] /\ questions'[w] = questions[w]
    BY <1>1, <1>9, <1>13 DEF PopQuestion
  <2>2. /\ calls'[w] = calls[w]
        /\ calls'[v] = [calls[v] EXCEPT ![n].state = s, ![n].cap = c]
    BY <1>1, <1>s, <1>13
  <2>. QED
    BY <2>1, <2>2
<1>16. calls[v][n] \in CallRecord
  BY <1>8, CallTypes
<1>18. Step(v)
  <2>1. PICK id, ok : id = m.id /\ ok = m.ok
    OBVIOUS
  <2>2. /\ id = Head(net[v]).id /\ ok = Head(net[v]).ok /\ Head(net[v]).k = "return"
        /\ Head(net[v]).ok \in BOOLEAN
        /\ n = questions[v][id] /\ n \in DOMAIN calls[v] /\ calls[v][n].id # NoId
    BY <1>3, <1>8, <2>1 DEF NoId
  <2>3. /\ questionID'[v] = IdRemove(questionID[v], id)
        /\ questions'[v] = [questions[v] EXCEPT ![id] = 0]
    BY <1>15, <2>1
  <2>4. /\ Replies(net[v])' = Tail(Replies(net[v]))
        /\ Asks(net[Peer(v)])' = Append(Asks(net[Peer(v)]),
             [k |-> "finish", id |-> id, releaseResultCaps |-> ~ok])
        /\ answers'[Peer(v)] = answers[Peer(v)]
    BY <1>1, <1>9, <1>12, <2>1 DEF f
  <2>5. s = IF ok THEN "results" ELSE "exception"
    BY <1>s, <2>1
  <2>6. SettledAs(calls'[v], calls[v], n, s, c)
    BY <1>15 DEF SettledAs
  <2>7. ReturnRead(v, id, ok, n, s)
    BY <1>14, <2>3, <2>4, <2>6 DEF ReturnRead
  <2>. QED
    BY <1>3, <1>4, <1>16, <2>2, <2>5, <2>7, ReturnStep
<1>19. Step(w)
  <2>1. Still(w)
    BY <1>15, SameCalls DEF Still
  <2>2. /\ Asks(net[Peer(w)])' = Asks(net[Peer(w)]) /\ Replies(net[w])' = Replies(net[w])
        /\ answers'[Peer(w)] = answers[Peer(w)]
    BY <1>1, <1>9, <1>12
  <2>. QED
    BY <1>14, <2>1, <2>2, BothStill
<1>. QED
  BY <1>1, <1>3, <1>5, <1>6, <1>7, <1>8, <1>18, <1>19 DEF Steps
=============================================================================
