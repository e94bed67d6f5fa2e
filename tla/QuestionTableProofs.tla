------------------------- MODULE QuestionTableProofs -------------------------
(***************************************************************************)
(* Proofs about QuestionTable, for every set of calls and of outcomes.     *)
(***************************************************************************)
EXTENDS QuestionTable, TLAPS

-----------------------------------------------------------------------------
(* Facts about the two operations on a channel *)

\* What handling the oldest message of a channel leaves behind.
LEMMA TailFacts ==
  ASSUME NEW S, NEW s \in Seq(S), s # <<>>
  PROVE  /\ Len(s) \in Nat \ {0}
         /\ Head(s) \in S /\ Head(s) = s[1]
         /\ 1 \in DOMAIN s
         /\ Tail(s) \in Seq(S)
         /\ DOMAIN s = 1 .. Len(s)
         /\ DOMAIN Tail(s) = 1 .. Len(s) - 1
         /\ \A j \in DOMAIN Tail(s) : j + 1 \in DOMAIN s /\ Tail(s)[j] = s[j + 1]
  OBVIOUS

\* What sending a message adds to a channel.
LEMMA AppendFacts ==
  ASSUME NEW S, NEW s \in Seq(S), NEW x \in S
  PROVE  /\ Len(s) \in Nat
         /\ Append(s, x) \in Seq(S)
         /\ DOMAIN s = 1 .. Len(s)
         /\ DOMAIN Append(s, x) = 1 .. Len(s) + 1
         /\ \A j \in DOMAIN s : Append(s, x)[j] = s[j]
         /\ Append(s, x)[Len(s) + 1] = x
  OBVIOUS

\* The messages of each kind have the fields the handlers read.
LEMMA MessageFacts ==
  /\ \A m \in ToAnswerer : /\ m.k \in {"call", "finish"} /\ m.id \in Nat
                           /\ m.k = "call" => m.call \in Call
                           /\ m.k = "finish" => m.releaseResultCaps \in BOOLEAN
  /\ \A m \in ToAsker : /\ m.k \in {"return", "unimplemented"} /\ m.id \in Nat
                        /\ m.k = "return" => m.outcome \in Outcome
  /\ \A id \in Nat, c \in Call : CallMessage(id, c) \in ToAnswerer
  /\ \A id \in Nat, r \in BOOLEAN : FinishMessage(id, r) \in ToAnswerer
  /\ \A id \in Nat, o \in Outcome : ReturnMessage(id, o) \in ToAsker
  /\ \A id \in Nat : UnimplementedMessage(id) \in ToAsker
  BY DEF ToAnswerer, ToAsker, CallMessage, FinishMessage, ReturnMessage, UnimplementedMessage

\* IDGen: what next() hands out and leaves behind.
LEMMA IdGenFacts ==
  ASSUME NEW g \in [i : Nat, free : Seq(Nat)]
  PROVE  /\ IdNext(g) \in Nat
         /\ IdTake(g) \in [i : Nat, free : Seq(Nat)]
         /\ g.free = <<>> => /\ IdNext(g) = g.i /\ IdTake(g).i = g.i + 1
                             /\ IdTake(g).free = <<>>
         /\ g.free # <<>> => /\ Len(g.free) \in Nat \ {0} /\ DOMAIN g.free = 1 .. Len(g.free)
                             /\ IdNext(g) = g.free[Len(g.free)] /\ IdTake(g).i = g.i
                             /\ DOMAIN IdTake(g).free = 1 .. Len(g.free) - 1
                             /\ \A j \in 1 .. Len(g.free) - 1 : IdTake(g).free[j] = g.free[j]
<1>1. CASE g.free = <<>>
  BY <1>1 DEF IdNext, IdTake
<1>2. CASE g.free # <<>>
  <2>1. /\ Len(g.free) \in Nat \ {0} /\ DOMAIN g.free = 1 .. Len(g.free)
        /\ g.free[Len(g.free)] \in Nat
    BY <1>2
  <2>2. /\ SubSeq(g.free, 1, Len(g.free) - 1) \in Seq(Nat)
        /\ DOMAIN SubSeq(g.free, 1, Len(g.free) - 1) = 1 .. Len(g.free) - 1
        /\ \A j \in 1 .. Len(g.free) - 1 : SubSeq(g.free, 1, Len(g.free) - 1)[j] = g.free[j]
    BY <2>1
  <2>3. IdTake(g) = [i |-> g.i, free |-> SubSeq(g.free, 1, Len(g.free) - 1)]
    BY <1>2 DEF IdTake
  <2>. QED
    BY <1>2, <2>1, <2>2, <2>3 DEF IdNext
<1>. QED
  BY <1>1, <1>2

\* IDGen: what remove() leaves behind.
LEMMA IdRemoveFacts ==
  ASSUME NEW g \in [i : Nat, free : Seq(Nat)], NEW id \in Nat
  PROVE  /\ IdRemove(g, id) \in [i : Nat, free : Seq(Nat)]
         /\ IdRemove(g, id).i = g.i
         /\ IdRemove(g, id).free = Append(g.free, id)
<1>1. g.free \in Seq(Nat) /\ Append(g.free, id) \in Seq(Nat)
  OBVIOUS
<1>2. IdRemove(g, id) = [g EXCEPT !.free = Append(g.free, id)]
  BY DEF IdRemove
<1>3. IdRemove(g, id).i = g.i /\ IdRemove(g, id).free = Append(g.free, id)
  BY <1>2
<1>4. IdRemove(g, id) \in [i : Nat, free : Seq(Nat)]
  BY <1>1, <1>2
<1>. QED
  BY <1>3, <1>4

-----------------------------------------------------------------------------
(* Types *)

LEMMA TypeInit == Init => TypeOK
  BY DEF Init, TypeOK

\* newQuestion(): the id handed out is new or a null slot, and the table with
\* the call in it has a slot for every id below the counter.
LEMMA AskFacts ==
  ASSUME TypeOK, FreeIdsAreNullSlots, NEW c \in Call, Ask(c)
  PROVE  /\ IdNext(questionID) \in Nat
         /\ IdNext(questionID) \in DOMAIN questions => questions[IdNext(questionID)] = NoCall
         /\ questionID' \in [i : Nat, free : Seq(Nat)]
         /\ DOMAIN questions' = DOMAIN questions \cup {IdNext(questionID)}
         /\ questions'[IdNext(questionID)] = c
         /\ \A x \in DOMAIN questions : x # IdNext(questionID) => questions'[x] = questions[x]
         /\ questions' \in [0 .. questionID'.i - 1 -> Call \cup {NoCall}]
<1> DEFINE id == IdNext(questionID)
<1>1. /\ questionID \in [i : Nat, free : Seq(Nat)]
      /\ questions \in [0 .. questionID.i - 1 -> Call \cup {NoCall}]
      /\ DOMAIN questions = 0 .. questionID.i - 1
  BY DEF TypeOK
<1>2. /\ questionID' = IdTake(questionID)
      /\ questions' = [x \in DOMAIN questions \cup {id} |-> IF x = id THEN c ELSE questions[x]]
  BY DEF Ask
<1>3. CASE questionID.free = <<>>
  <2>1. id = questionID.i /\ IdTake(questionID).i = questionID.i + 1
        /\ IdTake(questionID) \in [i : Nat, free : Seq(Nat)]
    BY <1>1, <1>3, IdGenFacts
  <2>2. DOMAIN questions \cup {id} = 0 .. questionID'.i - 1 /\ id \notin DOMAIN questions
    BY <1>1, <1>2, <2>1
  <2>. QED
    BY <1>1, <1>2, <2>1, <2>2
<1>4. CASE questionID.free # <<>>
  <2>1. /\ Len(questionID.free) \in DOMAIN questionID.free
        /\ id = questionID.free[Len(questionID.free)]
        /\ IdTake(questionID).i = questionID.i
        /\ IdTake(questionID) \in [i : Nat, free : Seq(Nat)]
        /\ id \in Nat
    <3>1. questionID.free # <<>> =>
            /\ Len(questionID.free) \in Nat \ {0}
            /\ DOMAIN questionID.free = 1 .. Len(questionID.free)
            /\ id = questionID.free[Len(questionID.free)]
            /\ IdTake(questionID).i = questionID.i
      BY <1>1, IdGenFacts
    <3>2. IdTake(questionID) \in [i : Nat, free : Seq(Nat)] /\ id \in Nat
      BY <1>1, IdGenFacts
    <3>. QED
      BY <1>4, <3>1, <3>2
  <2>2. id \in DOMAIN questions /\ questions[id] = NoCall
    <3>1. id \in {questionID.free[j] : j \in DOMAIN questionID.free}
      BY <2>1
    <3>. QED
      BY <3>1 DEF FreeIdsAreNullSlots
  <2>. QED
    BY <1>1, <1>2, <2>1, <2>2
<1>. QED
  BY <1>3, <1>4

LEMMA TypeNext == TypeOK /\ FreeIdsAreNullSlots /\ [Next]_vars => TypeOK'
<1> SUFFICES ASSUME TypeOK, FreeIdsAreNullSlots, [Next]_vars PROVE TypeOK'
  OBVIOUS
<1>1. ASSUME NEW c \in Call, Ask(c) PROVE TypeOK'
  <2>1. CallMessage(IdNext(questionID), c) \in ToAnswerer
    BY <1>1, AskFacts, MessageFacts
  <2>2. toAnswerer' \in Seq(ToAnswerer)
    BY <1>1, <2>1 DEF Ask, TypeOK
  <2>3. questionID' \in [i : Nat, free : Seq(Nat)] /\ questions' \in [0 .. questionID'.i - 1 -> Call \cup {NoCall}]
    BY <1>1, AskFacts
  <2>. QED
    BY <1>1, <2>2, <2>3 DEF Ask, TypeOK
<1>2. ASSUME HandleReturn PROVE TypeOK'
  <2> DEFINE m == Head(toAsker)
  <2>1. m \in ToAsker /\ m.id \in Nat /\ m.outcome \in Outcome /\ Tail(toAsker) \in Seq(ToAsker)
    BY <1>2, TailFacts, MessageFacts DEF HandleReturn, TypeOK
  <2>2. CASE FindQuestion(m.id) = NoCall
    BY <1>2, <2>1, <2>2 DEF HandleReturn, TypeOK
  <2>3. CASE FindQuestion(m.id) # NoCall
    <3>1. m.id \in DOMAIN questions /\ FindQuestion(m.id) = questions[m.id] /\ questions[m.id] \in Call
      BY <2>3 DEF FindQuestion, TypeOK
    <3>2. FinishMessage(m.id, m.outcome \in Exception) \in ToAnswerer
      <4>1. (m.outcome \in Exception) \in BOOLEAN
        OBVIOUS
      <4>. QED
        BY <2>1, <4>1, MessageFacts
    <3>3. toAnswerer' \in Seq(ToAnswerer)
      <4>1. toAnswerer' = Append(toAnswerer, FinishMessage(m.id, m.outcome \in Exception))
        BY <1>2, <2>3 DEF HandleReturn
      <4>. QED
        BY <3>2, <4>1 DEF TypeOK
    <3>4. questions' \in [0 .. questionID.i - 1 -> Call \cup {NoCall}]
      BY <1>2, <2>3 DEF HandleReturn, PopQuestion, TypeOK
    <3>5. questionID' \in [i : Nat, free : Seq(Nat)] /\ questionID'.i = questionID.i
      <4>1. questionID' = IdRemove(questionID, m.id)
        BY <1>2, <2>3 DEF HandleReturn
      <4>. QED
        BY <2>1, <4>1, IdRemoveFacts DEF TypeOK
    <3>6. settled' \in [Call -> Outcome \cup {NoOutcome}]
      BY <1>2, <2>1, <2>3 DEF HandleReturn, TypeOK
    <3>. QED
      BY <1>2, <2>1, <2>3, <3>3, <3>4, <3>5, <3>6 DEF HandleReturn, TypeOK
  <2>. QED
    BY <2>2, <2>3
<1>3. ASSUME HandleUnimplemented PROVE TypeOK'
  BY <1>3, TailFacts DEF HandleUnimplemented, TypeOK
<1>4. ASSUME NEW state \in {"running", "waiting", "unimplemented", "done"}, Accept(state)
      PROVE  /\ toAnswerer' \in Seq(ToAnswerer)
             /\ DOMAIN answers' \subseteq Nat
             /\ \A id \in DOMAIN answers' : answers'[id] \in Entry
             /\ Head(toAnswerer).call \in Call /\ Head(toAnswerer).id \in Nat
  <2> DEFINE m == Head(toAnswerer)
  <2>1. m \in ToAnswerer /\ m.k = "call" /\ Tail(toAnswerer) \in Seq(ToAnswerer)
    BY <1>4, TailFacts DEF Accept, Incoming, TypeOK
  <2>2. m.call \in Call /\ m.id \in Nat
    BY <2>1, MessageFacts
  <2>3. [call |-> m.call, state |-> state] \in Entry
    BY <2>2 DEF Entry
  <2>. QED
    BY <1>4, <2>1, <2>2, <2>3 DEF Accept, InsertAnswer, TypeOK
<1>5. ASSUME HandleCallPending PROVE TypeOK'
  <2>1. PICK state \in {"running", "waiting"} : Accept(state)
    BY <1>5 DEF HandleCallPending
  <2>. QED
    BY <1>5, <2>1, <1>4 DEF HandleCallPending, Accept, TypeOK
<1>6. ASSUME HandleCallRefused PROVE TypeOK'
  <2>1. CASE Head(toAnswerer).id \in DOMAIN answers
    <3>1. Tail(toAnswerer) \in Seq(ToAnswerer)
      BY <1>6, TailFacts DEF HandleCallRefused, Incoming, TypeOK
    <3>. QED
      BY <1>6, <2>1, <3>1 DEF HandleCallRefused, TypeOK
  <2>2. CASE Head(toAnswerer).id \notin DOMAIN answers
    <3>1. Accept("unimplemented") /\ toAsker' = Append(toAsker, UnimplementedMessage(Head(toAnswerer).id))
      BY <1>6, <2>2 DEF HandleCallRefused
    <3>2. toAsker' \in Seq(ToAsker)
      BY <3>1, <1>4, MessageFacts DEF TypeOK
    <3>. QED
      BY <1>6, <2>2, <3>1, <3>2, <1>4 DEF HandleCallRefused, Accept, TypeOK
  <2>. QED
    BY <2>1, <2>2
<1>7. ASSUME NEW o \in Outcome, HandleCallSettled(o) PROVE TypeOK'
  <2>1. Accept("done")
    BY <1>7 DEF HandleCallSettled
  <2>2. toAsker' \in Seq(ToAsker)
    BY <1>7, <2>1, <1>4, MessageFacts DEF HandleCallSettled, TypeOK
  <2>. QED
    BY <1>7, <2>1, <2>2, <1>4 DEF HandleCallSettled, Accept, TypeOK
<1>8. ASSUME NEW id \in DOMAIN answers, NEW o \in Outcome, Answer(id, o) PROVE TypeOK'
  <2>1. id \in Nat /\ answers[id] \in Entry /\ answers[id].call \in Call
    BY DEF TypeOK, Entry
  <2>2. toAsker' \in Seq(ToAsker)
    BY <1>8, <2>1, MessageFacts DEF Answer, TypeOK
  <2>3. [answers[id] EXCEPT !.state = "done"] \in Entry
    BY <2>1 DEF Entry
  <2>4. DOMAIN answers' \subseteq Nat /\ \A x \in DOMAIN answers' : answers'[x] \in Entry
    BY <1>8, <2>3 DEF Answer, TypeOK
  <2>. QED
    BY <1>8, <2>1, <2>2, <2>4 DEF Answer, TypeOK
<1>9. ASSUME HandleFinish PROVE TypeOK'
  <2>1. Tail(toAnswerer) \in Seq(ToAnswerer) /\ Head(toAnswerer) \in ToAnswerer
    BY <1>9, TailFacts DEF HandleFinish, TypeOK
  <2>2. answererWorking' \in BOOLEAN
    BY <1>9 DEF HandleFinish
  <2>. QED
    BY <1>9, <2>1, <2>2 DEF HandleFinish, PopAnswer, TypeOK
<1>10. CASE UNCHANGED vars
  BY <1>10 DEF vars, TypeOK
<1>. QED
  BY <1>1, <1>2, <1>3, <1>5, <1>6, <1>7, <1>8, <1>9, <1>10 DEF Next, HandleCall

-----------------------------------------------------------------------------
(* The messages of one kind in a channel, before and after a step *)

LEMMA IndexFacts ==
  ASSUME NEW S, NEW s \in Seq(S), NEW k
  PROVE  \A j \in Indices(s, k) : j \in Nat \ {0} /\ s[j] \in S /\ s[j].k = k
  BY DEF Indices

\* A message that is sent comes behind the others.
LEMMA SendFacts ==
  ASSUME NEW S, NEW s \in Seq(S), NEW x \in S, NEW k
  PROVE  /\ Len(s) \in Nat
         /\ \A j \in Indices(s, k) : /\ j \in 1 .. Len(s)
                                     /\ j \in Indices(Append(s, x), k)
                                     /\ Append(s, x)[j] = s[j]
         /\ x.k = k => Len(s) + 1 \in Indices(Append(s, x), k)
         /\ Append(s, x)[Len(s) + 1] = x
         /\ \A j \in Indices(Append(s, x), k) :
              j \in Indices(s, k) \/ (j = Len(s) + 1 /\ x.k = k)
  BY AppendFacts DEF Indices

\* Once the oldest message to the asking vat is taken, the others move up.
LEMMA AskerReceives ==
  ASSUME TypeOK, toAsker # <<>>, toAsker' = Tail(toAsker)
  PROVE  /\ Head(toAsker) = toAsker[1] /\ Head(toAsker) \in ToAsker
         /\ \A k : Head(toAsker).k = k <=> 1 \in Indices(toAsker, k)
         /\ \A k : \A j \in Indices(toAsker', k) : /\ j \in Nat \ {0}
                                               /\ j + 1 \in Indices(toAsker, k)
                                               /\ toAsker'[j] = toAsker[j + 1]
         /\ \A k : \A j \in Indices(toAsker, k) :
              j # 1 => \E i \in Indices(toAsker', k) : j = i + 1
<1>1. toAsker \in Seq(ToAsker)
  BY DEF TypeOK
<1>2. /\ Len(toAsker) \in Nat \ {0}
      /\ Head(toAsker) \in ToAsker /\ Head(toAsker) = toAsker[1]
      /\ DOMAIN toAsker = 1 .. Len(toAsker)
      /\ DOMAIN toAsker' = 1 .. Len(toAsker) - 1
      /\ \A j \in DOMAIN toAsker' : toAsker'[j] = toAsker[j + 1]
  BY <1>1
<1>3. ASSUME NEW k, NEW j \in Indices(toAsker, k), j # 1
      PROVE  \E i \in Indices(toAsker', k) : j = i + 1
  <2>1. j - 1 \in DOMAIN toAsker' /\ j = (j - 1) + 1 /\ toAsker[j].k = k
    BY <1>2, <1>3 DEF Indices
  <2>2. j - 1 \in Indices(toAsker', k)
    BY <1>2, <2>1 DEF Indices
  <2>. QED
    BY <2>1, <2>2
<1>. QED
  BY <1>2, <1>3 DEF Indices

\* Once the oldest message to the answering vat is taken, the others move up.
LEMMA AnswererReceives ==
  ASSUME TypeOK, toAnswerer # <<>>, toAnswerer' = Tail(toAnswerer)
  PROVE  /\ Head(toAnswerer) = toAnswerer[1] /\ Head(toAnswerer) \in ToAnswerer
         /\ \A k : Head(toAnswerer).k = k <=> 1 \in Indices(toAnswerer, k)
         /\ \A k : \A j \in Indices(toAnswerer', k) : /\ j \in Nat \ {0}
                                               /\ j + 1 \in Indices(toAnswerer, k)
                                               /\ toAnswerer'[j] = toAnswerer[j + 1]
         /\ \A k : \A j \in Indices(toAnswerer, k) :
              j # 1 => \E i \in Indices(toAnswerer', k) : j = i + 1
<1>1. toAnswerer \in Seq(ToAnswerer)
  BY DEF TypeOK
<1>2. /\ Len(toAnswerer) \in Nat \ {0}
      /\ Head(toAnswerer) \in ToAnswerer /\ Head(toAnswerer) = toAnswerer[1]
      /\ DOMAIN toAnswerer = 1 .. Len(toAnswerer)
      /\ DOMAIN toAnswerer' = 1 .. Len(toAnswerer) - 1
      /\ \A j \in DOMAIN toAnswerer' : toAnswerer'[j] = toAnswerer[j + 1]
  BY <1>1
<1>3. ASSUME NEW k, NEW j \in Indices(toAnswerer, k), j # 1
      PROVE  \E i \in Indices(toAnswerer', k) : j = i + 1
  <2>1. j - 1 \in DOMAIN toAnswerer' /\ j = (j - 1) + 1 /\ toAnswerer[j].k = k
    BY <1>2, <1>3 DEF Indices
  <2>2. j - 1 \in Indices(toAnswerer', k)
    BY <1>2, <2>1 DEF Indices
  <2>. QED
    BY <2>1, <2>2
<1>. QED
  BY <1>2, <1>3 DEF Indices

-----------------------------------------------------------------------------
(* The inductive invariant *)

LEMMA InvInit == Init => IInv
<1> SUFFICES ASSUME Init PROVE IInv
  OBVIOUS
<1>1. toAnswerer = <<>> /\ toAsker = <<>> /\ answers = [id \in {} |-> NoCall]
      /\ questions = [id \in {} |-> NoCall] /\ questionID.free = <<>>
      /\ outcome = [c \in Call |-> NoOutcome] /\ settled = [c \in Call |-> NoOutcome]
      /\ askerWorking /\ answererWorking
  BY DEF Init
<1>2. \A k : Indices(<<>>, k) = {}
  BY DEF Indices
<1>. QED
  BY <1>1, <1>2, TypeInit DEF IInv, NoProtocolError, NoCrosstalk, FreeIdsAreNullSlots,
     SlotsInv, CallsInv, EntriesInv, ReturnsInv, FinishesInv

\* A call that is asked takes a slot nobody waits in.
LEMMA AskInv ==
  ASSUME IInv, NEW c \in Call, Ask(c)
  PROVE  IInv'
<1> DEFINE id == IdNext(questionID)
           m == CallMessage(id, c)
<1> USE DEF IInv
<1>1. TypeOK'
  BY TypeNext DEF Next
<1>2. /\ id \in Nat
      /\ id \in DOMAIN questions => questions[id] = NoCall
      /\ DOMAIN questions' = DOMAIN questions \cup {id}
      /\ questions'[id] = c
      /\ \A x \in DOMAIN questions : x # id => questions'[x] = questions[x]
  BY AskFacts
<1>3. /\ toAnswerer' = Append(toAnswerer, m) /\ m \in ToAnswerer
      /\ m.k = "call" /\ m.id = id /\ m.call = c
      /\ toAnswerer \in Seq(ToAnswerer) /\ toAsker \in Seq(ToAsker)
  BY <1>2, MessageFacts DEF Ask, CallMessage, TypeOK
<1>4. /\ c \notin asked /\ asked' = asked \cup {c}
      /\ answers' = answers /\ toAsker' = toAsker /\ outcome' = outcome /\ settled' = settled
      /\ askerWorking' = askerWorking /\ answererWorking' = answererWorking
  BY DEF Ask
<1>5. /\ \A j \in Indices(toAnswerer, "call") :
           j \in Nat /\ toAnswerer[j].call \in Call /\ toAnswerer[j].id # id
      /\ \A j \in Indices(toAsker, "return") : toAsker[j].id # id
      /\ id \in DOMAIN answers => answers[id].state = "done" /\ ~Returned(id)
  <2>1. \A j \in Indices(toAnswerer, "call") : j \in Nat /\ toAnswerer[j].call \in Call
    BY <1>3, IndexFacts, MessageFacts
  <2>2. \A x \in DOMAIN answers : answers[x].call \in Call
    BY DEF TypeOK, Entry
  <2>3. \A j \in Indices(toAsker, "return") : toAsker[j].id # id
    BY <1>2, <2>2, ConstantsAssumption DEF ReturnsInv
  <2>4. \A j \in Indices(toAnswerer, "call") : toAnswerer[j].id # id
    BY <1>2, <2>1, ConstantsAssumption DEF CallsInv
  <2>5. id \in DOMAIN answers => answers[id].state = "done"
    BY <1>2, <2>2, ConstantsAssumption DEF EntriesInv
  <2>. QED
    BY <2>1, <2>3, <2>4, <2>5 DEF Returned
<1>6. outcome[c] = NoOutcome /\ settled[c] = NoOutcome
  BY <1>4 DEF SlotsInv, NoCrosstalk
<1>7. /\ Len(toAnswerer) \in Nat
      /\ toAnswerer'[Len(toAnswerer) + 1] = m
      /\ \A k : \A j \in Indices(toAnswerer, k) :
           j \in 1 .. Len(toAnswerer) /\ j \in Indices(toAnswerer', k) /\ toAnswerer'[j] = toAnswerer[j]
      /\ \A j \in Indices(toAnswerer', "call") :
           j \in Indices(toAnswerer, "call") \/ j = Len(toAnswerer) + 1
      /\ \A j \in Indices(toAnswerer', "finish") : j \in Indices(toAnswerer, "finish")
  BY <1>3, SendFacts
<1>8. NoProtocolError' /\ NoCrosstalk'
  BY <1>4 DEF NoProtocolError, NoCrosstalk
<1>9. FreeIdsAreNullSlots'
  <2>1. questionID \in [i : Nat, free : Seq(Nat)] /\ questionID' = IdTake(questionID)
        /\ c # NoCall
    BY ConstantsAssumption DEF Ask, TypeOK
  <2>2. CASE questionID.free = <<>>
    <3>1. questionID'.free = <<>>
      BY <2>1, <2>2, IdGenFacts
    <3>. QED
      BY <1>2, <2>1, <2>2, <3>1 DEF FreeIdsAreNullSlots
  <2>3. CASE questionID.free # <<>>
    <3> DEFINE n == Len(questionID.free)
    <3>1. /\ n \in Nat \ {0} /\ DOMAIN questionID.free = 1 .. n
          /\ id = questionID.free[n]
          /\ DOMAIN questionID'.free = 1 .. n - 1
          /\ \A j \in 1 .. n - 1 : questionID'.free[j] = questionID.free[j]
      BY <2>1, <2>3, IdGenFacts
    <3> HIDE DEF n
    <3>2. \A j, k \in DOMAIN questionID'.free : j # k => questionID'.free[j] # questionID'.free[k]
      BY <3>1 DEF FreeIdsAreNullSlots
    <3>3. {questionID'.free[j] : j \in DOMAIN questionID'.free}
            = {questionID.free[j] : j \in DOMAIN questionID.free} \ {id}
      BY <3>1 DEF FreeIdsAreNullSlots
    <3>4. {x \in DOMAIN questions' : questions'[x] = NoCall}
            = {x \in DOMAIN questions : questions[x] = NoCall} \ {id}
      BY <1>2, <2>1
    <3>. QED
      BY <3>2, <3>3, <3>4 DEF FreeIdsAreNullSlots
  <2>. QED
    BY <2>2, <2>3
<1>10. SlotsInv'
  <2>1. \A x \in DOMAIN questions : questions[x] # c
    BY <1>4, ConstantsAssumption DEF SlotsInv
  <2>. QED
    BY <1>2, <1>4, <1>6, <2>1 DEF SlotsInv
<1>11. CallsInv'
  <2> SUFFICES ASSUME NEW j \in Indices(toAnswerer', "call")
               PROVE  LET e == toAnswerer'[j] IN
                      /\ e.id \in DOMAIN questions' /\ questions'[e.id] = e.call
                      /\ outcome'[e.call] = NoOutcome
                      /\ \A k \in Indices(toAnswerer', "call") : toAnswerer'[k].id = e.id => k = j
                      /\ e.id \in DOMAIN answers' =>
                           \E i \in Indices(toAnswerer', "finish") : i < j /\ toAnswerer'[i].id = e.id
    BY DEF CallsInv
  <2>1. CASE j \in Indices(toAnswerer, "call")
    BY <1>2, <1>3, <1>4, <1>5, <1>7, <2>1 DEF CallsInv
  <2>2. CASE j = Len(toAnswerer) + 1
    <3>1. id \in DOMAIN answers =>
            \E i \in Indices(toAnswerer, "finish") : toAnswerer[i].id = id
      BY <1>5 DEF EntriesInv, Finished
    <3>. QED
      BY <1>2, <1>3, <1>4, <1>5, <1>6, <1>7, <2>2, <3>1
  <2>. QED
    BY <1>7, <2>1, <2>2
<1>12. EntriesInv'
  BY <1>2, <1>4, <1>5, <1>7 DEF EntriesInv, Returned, Finished
<1>13. ReturnsInv'
  BY <1>2, <1>4, <1>5, <1>7 DEF ReturnsInv, Finished
<1>14. FinishesInv'
  BY <1>4, <1>7 DEF FinishesInv
<1>. QED
  BY <1>1, <1>8, <1>9, <1>10, <1>11, <1>12, <1>13, <1>14

\* A Return finds its question, settles it with what was decided for it, and
\* the Finish it provokes is the only one for the entry.
LEMMA HandleReturnInv ==
  ASSUME IInv, HandleReturn
  PROVE  IInv'
<1> DEFINE m == Head(toAsker)
           c == questions[m.id]
           f == FinishMessage(m.id, m.outcome \in Exception)
<1> USE DEF IInv
<1>1. TypeOK'
  BY TypeNext DEF Next
<1>2. /\ toAnswerer \in Seq(ToAnswerer) /\ toAsker \in Seq(ToAsker) /\ toAsker # <<>>
      /\ m.k = "return" /\ m = toAsker[1] /\ m \in ToAsker /\ m.id \in Nat /\ m.outcome \in Outcome
      /\ 1 \in Indices(toAsker, "return")
      /\ toAsker' = Tail(toAsker)
  BY AskerReceives, MessageFacts DEF HandleReturn, TypeOK
<1>3. /\ m.id \in DOMAIN answers /\ answers[m.id].state = "done"
      /\ m.id \in DOMAIN questions /\ c = answers[m.id].call
      /\ outcome[c] = m.outcome
      /\ \A k \in Indices(toAsker, "return") : toAsker[k].id = m.id => k = 1
      /\ ~Finished(m.id)
  BY <1>2 DEF ReturnsInv
<1>4. c \in Call /\ c # NoCall /\ FindQuestion(m.id) = c
  BY <1>3, ConstantsAssumption DEF TypeOK, Entry, FindQuestion
<1>5. /\ questions' = [questions EXCEPT ![m.id] = NoCall]
      /\ questionID' = IdRemove(questionID, m.id)
      /\ settled' = [settled EXCEPT ![c] = m.outcome]
      /\ toAnswerer' = Append(toAnswerer, f)
      /\ askerWorking' = askerWorking /\ answererWorking' = answererWorking
      /\ answers' = answers /\ asked' = asked /\ outcome' = outcome
  BY <1>4 DEF HandleReturn, PopQuestion
<1>6. /\ DOMAIN questions' = DOMAIN questions /\ questions'[m.id] = NoCall
      /\ \A x \in DOMAIN questions : x # m.id => questions'[x] = questions[x]
      /\ \A x \in Call : settled'[x] = IF x = c THEN m.outcome ELSE settled[x]
  BY <1>3, <1>4, <1>5 DEF TypeOK
<1>7. /\ f \in ToAnswerer /\ f.k = "finish" /\ f.id = m.id
  <2>1. (m.outcome \in Exception) \in BOOLEAN
    OBVIOUS
  <2>. QED
    BY <1>2, <2>1, MessageFacts DEF FinishMessage
<1>8. /\ Len(toAnswerer) \in Nat
      /\ toAnswerer'[Len(toAnswerer) + 1] = f
      /\ Len(toAnswerer) + 1 \in Indices(toAnswerer', "finish")
      /\ \A k : \A j \in Indices(toAnswerer, k) :
           j \in 1 .. Len(toAnswerer) /\ j \in Indices(toAnswerer', k) /\ toAnswerer'[j] = toAnswerer[j]
      /\ \A j \in Indices(toAnswerer', "finish") :
           j \in Indices(toAnswerer, "finish") \/ j = Len(toAnswerer) + 1
      /\ \A j \in Indices(toAnswerer', "call") : j \in Indices(toAnswerer, "call")
  BY <1>2, <1>5, <1>7, SendFacts
<1>9. /\ \A j \in Indices(toAsker', "return") :
           /\ j \in Nat \ {0}
           /\ j + 1 \in Indices(toAsker, "return") /\ toAsker'[j] = toAsker[j + 1]
      /\ \A j \in Indices(toAsker, "return") :
           j # 1 => \E i \in Indices(toAsker', "return") : j = i + 1
  BY <1>2, AskerReceives
<1>10. /\ \A j \in Indices(toAsker', "return") : toAsker'[j].id # m.id
       /\ \A j \in Indices(toAnswerer, "call") :
            toAnswerer[j].id # m.id /\ toAnswerer[j].call # c
  <2>1. \A j \in Indices(toAsker', "return") : toAsker'[j].id # m.id
    <3>1. \A j \in Indices(toAsker', "return") : j + 1 # 1
      BY <1>9
    <3>. QED
      BY <1>3, <1>9, <3>1
  <2>2. \A j \in Indices(toAnswerer, "call") : toAnswerer[j].id # m.id
    BY <1>3 DEF CallsInv, Finished
  <2>3. \A j \in Indices(toAnswerer, "call") : toAnswerer[j].call # c
    BY <1>3, <1>4, <2>2 DEF CallsInv, SlotsInv
  <2>. QED
    BY <2>1, <2>2, <2>3
<1>11. NoProtocolError'
  BY <1>5 DEF NoProtocolError
<1>12. NoCrosstalk'
  BY <1>3, <1>5, <1>6 DEF NoCrosstalk
<1>13. FreeIdsAreNullSlots'
  <2> DEFINE n == Len(questionID.free)
  <2>1. questionID \in [i : Nat, free : Seq(Nat)] /\ questionID.free \in Seq(Nat)
    BY DEF TypeOK
  <2>2. questionID'.free = Append(questionID.free, m.id)
    BY <1>2, <1>5, <2>1, IdRemoveFacts
  <2>3. /\ n \in Nat /\ DOMAIN questionID.free = 1 .. n
        /\ DOMAIN questionID'.free = 1 .. n + 1
        /\ \A j \in 1 .. n : questionID'.free[j] = questionID.free[j]
        /\ questionID'.free[n + 1] = m.id
    BY <1>2, <2>1, <2>2, AppendFacts
  <2> HIDE DEF n
  <2>4. m.id \notin {questionID.free[j] : j \in DOMAIN questionID.free}
    BY <1>4 DEF FreeIdsAreNullSlots
  <2>5. \A j, k \in DOMAIN questionID'.free : j # k => questionID'.free[j] # questionID'.free[k]
    BY <2>3, <2>4 DEF FreeIdsAreNullSlots
  <2>6. {questionID'.free[j] : j \in DOMAIN questionID'.free}
          = {questionID.free[j] : j \in DOMAIN questionID.free} \cup {m.id}
    BY <2>3
  <2>7. {x \in DOMAIN questions' : questions'[x] = NoCall}
          = {x \in DOMAIN questions : questions[x] = NoCall} \cup {m.id}
    BY <1>3, <1>6
  <2>. QED
    BY <2>5, <2>6, <2>7 DEF FreeIdsAreNullSlots
<1>14. SlotsInv'
  <2>1. \A x \in DOMAIN questions : questions[x] # NoCall => questions[x] \in Call
    BY DEF TypeOK
  <2>. QED
    BY <1>3, <1>4, <1>5, <1>6, <2>1 DEF SlotsInv
<1>15. CallsInv'
  <2> SUFFICES ASSUME NEW j \in Indices(toAnswerer', "call")
               PROVE  LET e == toAnswerer'[j] IN
                      /\ e.id \in DOMAIN questions' /\ questions'[e.id] = e.call
                      /\ outcome'[e.call] = NoOutcome
                      /\ \A k \in Indices(toAnswerer', "call") : toAnswerer'[k].id = e.id => k = j
                      /\ e.id \in DOMAIN answers' =>
                           \E i \in Indices(toAnswerer', "finish") : i < j /\ toAnswerer'[i].id = e.id
    BY DEF CallsInv
  <2>1. j \in Indices(toAnswerer, "call") /\ toAnswerer'[j] = toAnswerer[j]
    BY <1>8
  <2>. QED
    BY <1>5, <1>6, <1>8, <1>10, <2>1 DEF CallsInv
<1>16. EntriesInv'
  <2> SUFFICES ASSUME NEW id \in DOMAIN answers
               PROVE  IF answers[id].state = "done"
                      THEN Returned(id)' \/ Finished(id)'
                      ELSE /\ id \in DOMAIN questions' /\ questions'[id] = answers[id].call
                           /\ outcome[answers[id].call] = NoOutcome
    BY <1>5 DEF EntriesInv
  <2>1. CASE id = m.id
    BY <1>3, <1>7, <1>8, <2>1 DEF Finished
  <2>2. CASE id # m.id /\ answers[id].state = "done"
    <3>1. CASE Returned(id)
      <4>1. PICK j \in Indices(toAsker, "return") : toAsker[j].id = id
        BY <3>1 DEF Returned
      <4>2. j # 1
        BY <1>2, <2>2, <4>1
      <4>. QED
        BY <1>9, <2>2, <4>1, <4>2 DEF Returned
    <3>2. CASE Finished(id)
      BY <1>8, <2>2, <3>2 DEF Finished
    <3>. QED
      BY <2>2, <3>1, <3>2 DEF EntriesInv
  <2>3. CASE id # m.id /\ answers[id].state # "done"
    BY <1>6, <2>3 DEF EntriesInv
  <2>. QED
    BY <2>1, <2>2, <2>3
<1>17. ReturnsInv'
  <2> SUFFICES ASSUME NEW j \in Indices(toAsker', "return")
               PROVE  LET e == toAsker'[j] IN
                      /\ e.id \in DOMAIN answers /\ answers[e.id].state = "done"
                      /\ e.id \in DOMAIN questions' /\ questions'[e.id] = answers[e.id].call
                      /\ outcome[answers[e.id].call] = e.outcome
                      /\ \A k \in Indices(toAsker', "return") : toAsker'[k].id = e.id => k = j
                      /\ \A i \in Indices(toAnswerer', "finish") : toAnswerer'[i].id # e.id
    BY <1>5 DEF ReturnsInv, Finished
  <2> DEFINE e == toAsker'[j]
  <2>1. /\ j \in Nat /\ j + 1 \in Indices(toAsker, "return") /\ e = toAsker[j + 1] /\ e.id # m.id
    BY <1>9, <1>10
  <2>2. /\ e.id \in DOMAIN answers /\ answers[e.id].state = "done"
        /\ e.id \in DOMAIN questions /\ questions[e.id] = answers[e.id].call
        /\ outcome[answers[e.id].call] = e.outcome
        /\ \A k \in Indices(toAsker, "return") : toAsker[k].id = e.id => k = j + 1
        /\ ~Finished(e.id)
    BY <2>1 DEF ReturnsInv
  <2>3. ASSUME NEW k \in Indices(toAsker', "return"), toAsker'[k].id = e.id PROVE k = j
    <3>1. k \in Nat \ {0} /\ k + 1 \in Indices(toAsker, "return") /\ toAsker'[k] = toAsker[k + 1]
      BY <1>9
    <3>2. k + 1 = j + 1
      BY <2>2, <2>3, <3>1
    <3>. QED
      BY <2>1, <3>1, <3>2
  <2>4. \A i \in Indices(toAnswerer', "finish") : toAnswerer'[i].id # e.id
    BY <1>7, <1>8, <2>1, <2>2 DEF Finished
  <2>. QED
    BY <1>6, <2>1, <2>2, <2>3, <2>4
<1>18. FinishesInv'
  <2>1. \A x \in Call : settled[x] # NoOutcome => settled'[x] # NoOutcome
    BY <1>2, <1>6, ConstantsAssumption
  <2>2. settled'[answers[m.id].call] # NoOutcome
    BY <1>2, <1>3, <1>4, <1>6, ConstantsAssumption
  <2>3. \A x \in DOMAIN answers : answers[x].call \in Call
    BY DEF TypeOK, Entry
  <2> SUFFICES ASSUME NEW j \in Indices(toAnswerer', "finish")
               PROVE  LET e == toAnswerer'[j] IN
                      /\ e.id \in DOMAIN answers /\ answers[e.id].state = "done"
                      /\ settled'[answers[e.id].call] # NoOutcome
                      /\ \A k \in Indices(toAnswerer', "finish") : toAnswerer'[k].id = e.id => k = j
    BY <1>5 DEF FinishesInv
  <2>4. CASE j \in Indices(toAnswerer, "finish")
    BY <1>3, <1>7, <1>8, <2>1, <2>3, <2>4 DEF FinishesInv, Finished
  <2>5. CASE j \notin Indices(toAnswerer, "finish")
    BY <1>3, <1>7, <1>8, <2>2, <2>5 DEF Finished
  <2>. QED
    BY <2>4, <2>5
<1>. QED
  BY <1>1, <1>11, <1>12, <1>13, <1>14, <1>15, <1>16, <1>17, <1>18

\* An Unimplemented message settles nothing and is no Return.
LEMMA HandleUnimplementedInv ==
  ASSUME IInv, HandleUnimplemented
  PROVE  IInv'
<1> USE DEF IInv
<1>1. TypeOK'
  BY TypeNext DEF Next
<1>2. /\ toAsker \in Seq(ToAsker) /\ toAsker # <<>> /\ toAsker' = Tail(toAsker)
      /\ Head(toAsker).k = "unimplemented"
      /\ questionID' = questionID /\ questions' = questions /\ answers' = answers
      /\ toAnswerer' = toAnswerer /\ asked' = asked /\ outcome' = outcome /\ settled' = settled
      /\ askerWorking' = askerWorking /\ answererWorking' = answererWorking
  BY DEF HandleUnimplemented, TypeOK
<1>3. /\ \A j \in Indices(toAsker', "return") :
           /\ j \in Nat \ {0}
           /\ j + 1 \in Indices(toAsker, "return") /\ toAsker'[j] = toAsker[j + 1]
      /\ \A j \in Indices(toAsker, "return") :
           \E i \in Indices(toAsker', "return") : j = i + 1
  <2>1. 1 \notin Indices(toAsker, "return")
    BY <1>2, AskerReceives
  <2>2. /\ \A k : \A j \in Indices(toAsker', k) : /\ j \in Nat \ {0}
                                               /\ j + 1 \in Indices(toAsker, k)
                                               /\ toAsker'[j] = toAsker[j + 1]
        /\ \A k : \A j \in Indices(toAsker, k) :
             j # 1 => \E i \in Indices(toAsker', k) : j = i + 1
    BY <1>2, AskerReceives
  <2>. QED
    BY <2>1, <2>2
<1>4. \A id : Returned(id)' <=> Returned(id)
  BY <1>3 DEF Returned
<1>5. ReturnsInv'
  <2> SUFFICES ASSUME NEW j \in Indices(toAsker', "return")
               PROVE  LET e == toAsker'[j] IN
                      /\ e.id \in DOMAIN answers /\ answers[e.id].state = "done"
                      /\ e.id \in DOMAIN questions /\ questions[e.id] = answers[e.id].call
                      /\ outcome[answers[e.id].call] = e.outcome
                      /\ \A k \in Indices(toAsker', "return") : toAsker'[k].id = e.id => k = j
                      /\ ~Finished(e.id)
    BY <1>2 DEF ReturnsInv, Finished
  <2> DEFINE e == toAsker'[j]
  <2>1. j \in Nat \ {0} /\ j + 1 \in Indices(toAsker, "return") /\ e = toAsker[j + 1]
    BY <1>3
  <2>2. /\ e.id \in DOMAIN answers /\ answers[e.id].state = "done"
        /\ e.id \in DOMAIN questions /\ questions[e.id] = answers[e.id].call
        /\ outcome[answers[e.id].call] = e.outcome
        /\ \A k \in Indices(toAsker, "return") : toAsker[k].id = e.id => k = j + 1
        /\ ~Finished(e.id)
    BY <2>1 DEF ReturnsInv
  <2>3. ASSUME NEW k \in Indices(toAsker', "return"), toAsker'[k].id = e.id PROVE k = j
    <3>1. k \in Nat \ {0} /\ k + 1 \in Indices(toAsker, "return") /\ toAsker'[k] = toAsker[k + 1]
      BY <1>3
    <3>2. k + 1 = j + 1
      BY <2>2, <2>3, <3>1
    <3>. QED
      BY <2>1, <3>1, <3>2
  <2>. QED
    BY <2>2, <2>3
<1>6. /\ NoProtocolError' /\ NoCrosstalk' /\ FreeIdsAreNullSlots'
      /\ SlotsInv' /\ CallsInv' /\ FinishesInv'
  BY <1>2 DEF NoProtocolError, NoCrosstalk, FreeIdsAreNullSlots, SlotsInv, CallsInv, FinishesInv
<1>7. EntriesInv'
  BY <1>2, <1>4 DEF EntriesInv, Finished
<1>. QED
  BY <1>1, <1>5, <1>6, <1>7

-----------------------------------------------------------------------------
(* The answering vat *)

\* A Call never meets an entry of its id: the Finish of the earlier call was
\* handled before it.
LEMMA IncomingFacts ==
  ASSUME IInv, Incoming
  PROVE  LET m == Head(toAnswerer) IN
         /\ m = toAnswerer[1] /\ 1 \in Indices(toAnswerer, "call")
         /\ 1 \notin Indices(toAnswerer, "finish")
         /\ m.id \in Nat /\ m.call \in Call
         /\ m.id \notin DOMAIN answers
         /\ m.id \in DOMAIN questions /\ questions[m.id] = m.call
         /\ outcome[m.call] = NoOutcome
         /\ \A k \in Indices(toAnswerer, "call") : toAnswerer[k].id = m.id => k = 1
<1> DEFINE m == Head(toAnswerer)
<1>1. toAnswerer \in Seq(ToAnswerer) /\ toAnswerer # <<>> /\ m.k = "call"
  BY DEF Incoming, IInv, TypeOK
<1>2. /\ Len(toAnswerer) \in Nat \ {0} /\ DOMAIN toAnswerer = 1 .. Len(toAnswerer)
      /\ m = toAnswerer[1] /\ m \in ToAnswerer
  BY <1>1
<1>3. 1 \in Indices(toAnswerer, "call") /\ 1 \notin Indices(toAnswerer, "finish")
  BY <1>1, <1>2 DEF Indices
<1>4. m.id \in Nat /\ m.call \in Call
  BY <1>1, <1>2, MessageFacts
<1>5. ~\E i \in Indices(toAnswerer, "finish") : i < 1
  BY <1>1, IndexFacts
<1>. QED
  BY <1>2, <1>3, <1>4, <1>5 DEF IInv, CallsInv

\* A Call becomes an entry that is waited for, or whose Return is on the way.
LEMMA AcceptInv ==
  ASSUME IInv, TypeOK', NEW state, Accept(state),
         \/ state \in {"running", "waiting"} /\ toAsker' = toAsker /\ outcome' = outcome
         \/ /\ state = "unimplemented" /\ outcome' = outcome
            /\ toAsker' = Append(toAsker, UnimplementedMessage(Head(toAnswerer).id))
         \/ /\ state = "done"
            /\ \E o \in Outcome :
                 /\ outcome' = [outcome EXCEPT ![Head(toAnswerer).call] = o]
                 /\ toAsker' = Append(toAsker, ReturnMessage(Head(toAnswerer).id, o))
  PROVE  IInv'
<1> DEFINE m == Head(toAnswerer)
<1>0. PICK o : state = "done" => /\ o \in Outcome
                                /\ outcome' = [outcome EXCEPT ![m.call] = o]
                                /\ toAsker' = Append(toAsker, ReturnMessage(m.id, o))
  OBVIOUS
<1> DEFINE r == ReturnMessage(m.id, o)
           n == Len(toAsker) + 1
<1> USE DEF IInv
<1>1. /\ Incoming
      /\ toAnswerer' = Tail(toAnswerer)
      /\ answers' = InsertAnswer(m.id, [call |-> m.call, state |-> state])
      /\ questionID' = questionID /\ questions' = questions /\ asked' = asked /\ settled' = settled
      /\ askerWorking' = askerWorking /\ answererWorking' = answererWorking
  BY DEF Accept
<1>2. /\ m = toAnswerer[1] /\ 1 \in Indices(toAnswerer, "call")
      /\ 1 \notin Indices(toAnswerer, "finish")
      /\ m.id \in Nat /\ m.call \in Call
      /\ m.id \notin DOMAIN answers
      /\ m.id \in DOMAIN questions /\ questions[m.id] = m.call
      /\ outcome[m.call] = NoOutcome
      /\ \A k \in Indices(toAnswerer, "call") : toAnswerer[k].id = m.id => k = 1
  BY <1>1, IncomingFacts
<1>3. /\ DOMAIN answers' = DOMAIN answers \cup {m.id}
      /\ answers'[m.id].call = m.call /\ answers'[m.id].state = state
      /\ \A x \in DOMAIN answers : x # m.id /\ answers'[x] = answers[x]
  BY <1>1, <1>2 DEF InsertAnswer
<1>4. /\ \A k : \A j \in Indices(toAnswerer', k) :
           /\ j \in Nat \ {0}
           /\ j + 1 \in Indices(toAnswerer, k) /\ toAnswerer'[j] = toAnswerer[j + 1]
      /\ \A k : \A j \in Indices(toAnswerer, k) :
           j # 1 => \E i \in Indices(toAnswerer', k) : j = i + 1
  BY <1>1, AnswererReceives DEF Incoming
<1>5. /\ \A j \in Indices(toAsker, "return") :
           /\ j \in Nat /\ j < n
           /\ j \in Indices(toAsker', "return") /\ toAsker'[j] = toAsker[j]
      /\ \A j \in Indices(toAsker', "return") :
           j \in Indices(toAsker, "return") \/ (state = "done" /\ j = n)
      /\ state = "done" => n \in Indices(toAsker', "return") /\ toAsker'[n] = r
      /\ r.k = "return" /\ r.id = m.id /\ r.outcome = o
  <2>1. /\ UnimplementedMessage(m.id) \in ToAsker /\ UnimplementedMessage(m.id).k = "unimplemented"
        /\ r.k = "return" /\ r.id = m.id /\ r.outcome = o
        /\ state = "done" => r \in ToAsker
    BY <1>0, <1>2, MessageFacts DEF UnimplementedMessage, ReturnMessage
  <2>2. toAsker \in Seq(ToAsker) /\ Len(toAsker) \in Nat
    BY DEF TypeOK
  <2>3. \A j \in Indices(toAsker, "return") : j \in 1 .. Len(toAsker)
    BY <2>1, <2>2, SendFacts
  <2>4. CASE state \in {"running", "waiting"}
    BY <2>1, <2>2, <2>3, <2>4
  <2>5. CASE state = "unimplemented"
    <3>1. toAsker' = Append(toAsker, UnimplementedMessage(m.id))
      BY <2>5
    <3>2. /\ \A j \in Indices(toAsker, "return") :
               j \in Indices(toAsker', "return") /\ toAsker'[j] = toAsker[j]
          /\ \A j \in Indices(toAsker', "return") : j \in Indices(toAsker, "return")
      BY <2>1, <2>2, <3>1, SendFacts
    <3>. QED
      BY <2>1, <2>2, <2>3, <2>5, <3>2
  <2>6. CASE state = "done"
    <3>1. toAsker' = Append(toAsker, r)
      BY <1>0, <2>6
    <3>2. /\ \A j \in Indices(toAsker, "return") :
               j \in Indices(toAsker', "return") /\ toAsker'[j] = toAsker[j]
          /\ \A j \in Indices(toAsker', "return") : j \in Indices(toAsker, "return") \/ j = n
          /\ n \in Indices(toAsker', "return") /\ toAsker'[n] = r
      BY <2>1, <2>2, <2>6, <3>1, SendFacts
    <3>. QED
      BY <2>1, <2>2, <2>3, <2>6, <3>2
  <2>. QED
    BY <2>4, <2>5, <2>6
<1> HIDE DEF n, r
<1>6. /\ outcome' = (IF state = "done" THEN [outcome EXCEPT ![m.call] = o] ELSE outcome)
      /\ outcome'[m.call] = IF state = "done" THEN o ELSE NoOutcome
      /\ \A c \in Call : c # m.call => outcome'[c] = outcome[c]
  BY <1>0, <1>2 DEF TypeOK
<1>7. /\ \A j \in Indices(toAsker, "return") : toAsker[j].id # m.id
      /\ ~Finished(m.id)
      /\ \A j \in Indices(toAnswerer, "call") : j # 1 => /\ toAnswerer[j].id # m.id
                                                         /\ toAnswerer[j].call # m.call
  <2>1. /\ \A j \in Indices(toAsker, "return") : toAsker[j].id # m.id
        /\ ~Finished(m.id)
    BY <1>2 DEF ReturnsInv, FinishesInv, Finished
  <2>2. \A j \in Indices(toAnswerer, "call") : j # 1 => toAnswerer[j].id # m.id
    BY <1>2
  <2>3. m.call # NoCall
    BY <1>2, ConstantsAssumption
  <2>4. \A j \in Indices(toAnswerer, "call") : j # 1 => toAnswerer[j].call # m.call
    BY <1>2, <2>2, <2>3 DEF CallsInv, SlotsInv
  <2>. QED
    BY <2>1, <2>2, <2>4
<1>8. \A id : Finished(id)' <=> Finished(id)
  BY <1>2, <1>4 DEF Finished
<1>9. NoProtocolError' /\ FreeIdsAreNullSlots'
  BY <1>1 DEF NoProtocolError, FreeIdsAreNullSlots
<1>10. NoCrosstalk' /\ SlotsInv'
  <2>1. settled[m.call] = NoOutcome /\ m.call \in asked
    BY <1>2, ConstantsAssumption DEF SlotsInv
  <2>. QED
    BY <1>1, <1>2, <1>6, <2>1 DEF NoCrosstalk, SlotsInv
<1>11. CallsInv'
  <2> SUFFICES ASSUME NEW j \in Indices(toAnswerer', "call")
               PROVE  LET e == toAnswerer'[j] IN
                      /\ e.id \in DOMAIN questions /\ questions[e.id] = e.call
                      /\ outcome'[e.call] = NoOutcome
                      /\ \A k \in Indices(toAnswerer', "call") : toAnswerer'[k].id = e.id => k = j
                      /\ e.id \in DOMAIN answers' =>
                           \E i \in Indices(toAnswerer', "finish") : i < j /\ toAnswerer'[i].id = e.id
    BY <1>1 DEF CallsInv
  <2> DEFINE e == toAnswerer'[j]
  <2>1. /\ j \in Nat \ {0} /\ j + 1 \in Indices(toAnswerer, "call") /\ e = toAnswerer[j + 1]
        /\ e.call \in Call
    <3>1. toAnswerer \in Seq(ToAnswerer)
      BY DEF TypeOK
    <3>. QED
      BY <1>4, <3>1, IndexFacts, MessageFacts
  <2>2. /\ e.id \in DOMAIN questions /\ questions[e.id] = e.call
        /\ outcome[e.call] = NoOutcome
        /\ \A k \in Indices(toAnswerer, "call") : toAnswerer[k].id = e.id => k = j + 1
        /\ e.id \in DOMAIN answers =>
             \E i \in Indices(toAnswerer, "finish") : i < j + 1 /\ toAnswerer[i].id = e.id
    BY <2>1 DEF CallsInv
  <2>3. e.id # m.id /\ e.call # m.call
    BY <1>7, <2>1
  <2>4. \A k \in Indices(toAnswerer', "call") : toAnswerer'[k].id = e.id => k = j
    BY <1>4, <2>1, <2>2
  <2>5. ASSUME e.id \in DOMAIN answers'
        PROVE  \E i \in Indices(toAnswerer', "finish") : i < j /\ toAnswerer'[i].id = e.id
    <3>1. PICK i \in Indices(toAnswerer, "finish") : i < j + 1 /\ toAnswerer[i].id = e.id
      BY <1>3, <2>2, <2>3, <2>5
    <3>2. PICK k \in Indices(toAnswerer', "finish") : i = k + 1
      BY <1>2, <1>4, <3>1
    <3>. QED
      BY <1>4, <2>1, <3>1, <3>2
  <2>. QED
    BY <1>6, <2>1, <2>2, <2>3, <2>4, <2>5
<1>12. EntriesInv'
  <2> SUFFICES ASSUME NEW id \in DOMAIN answers'
               PROVE  IF answers'[id].state = "done"
                      THEN Returned(id)' \/ Finished(id)'
                      ELSE /\ id \in DOMAIN questions /\ questions[id] = answers'[id].call
                           /\ outcome'[answers'[id].call] = NoOutcome
    BY <1>1 DEF EntriesInv
  <2>1. CASE id = m.id
    BY <1>2, <1>3, <1>5, <1>6, <2>1 DEF Returned
  <2>2. CASE id # m.id
    <3>1. id \in DOMAIN answers /\ answers'[id] = answers[id] /\ answers[id].call \in Call
      BY <1>3, <2>2 DEF TypeOK, Entry
    <3>2. Returned(id) => Returned(id)'
      BY <1>5 DEF Returned
    <3>3. answers[id].state # "done" => answers[id].call # m.call
      BY <1>2, <2>2, <3>1, ConstantsAssumption DEF EntriesInv, SlotsInv
    <3>. QED
      BY <1>6, <1>8, <3>1, <3>2, <3>3 DEF EntriesInv
  <2>. QED
    BY <2>1, <2>2
<1>13. ReturnsInv'
  <2> SUFFICES ASSUME NEW j \in Indices(toAsker', "return")
               PROVE  LET e == toAsker'[j] IN
                      /\ e.id \in DOMAIN answers' /\ answers'[e.id].state = "done"
                      /\ e.id \in DOMAIN questions /\ questions[e.id] = answers'[e.id].call
                      /\ outcome'[answers'[e.id].call] = e.outcome
                      /\ \A k \in Indices(toAsker', "return") : toAsker'[k].id = e.id => k = j
                      /\ ~Finished(e.id)
    BY <1>1, <1>8 DEF ReturnsInv
  <2>1. CASE j \in Indices(toAsker, "return")
    <3> DEFINE e == toAsker[j]
    <3>1. /\ e.id \in DOMAIN answers /\ answers[e.id].state = "done"
          /\ e.id \in DOMAIN questions /\ questions[e.id] = answers[e.id].call
          /\ outcome[answers[e.id].call] = e.outcome
          /\ \A k \in Indices(toAsker, "return") : toAsker[k].id = e.id => k = j
          /\ ~Finished(e.id)
      BY <2>1 DEF ReturnsInv
    <3>2. toAsker'[j] = e /\ e.id # m.id
      BY <1>5, <1>7, <2>1
    <3>3. answers'[e.id] = answers[e.id] /\ answers[e.id].call \in Call /\ answers[e.id].call # m.call
      <4>1. answers'[e.id] = answers[e.id] /\ answers[e.id].call \in Call
        BY <1>3, <3>1 DEF TypeOK, Entry
      <4>2. questions[e.id] # questions[m.id]
        BY <1>2, <3>1, <3>2, <4>1, ConstantsAssumption DEF SlotsInv
      <4>. QED
        BY <1>2, <3>1, <4>1, <4>2
    <3>4. \A k \in Indices(toAsker', "return") : toAsker'[k].id = e.id => k = j
      BY <1>5, <3>1, <3>2
    <3>. QED
      BY <1>3, <1>6, <3>1, <3>2, <3>3, <3>4
  <2>2. CASE j = n /\ state = "done"
    <3>1. toAsker'[j].id = m.id /\ toAsker'[j].outcome = o
      BY <1>5, <2>2
    <3>2. \A k \in Indices(toAsker', "return") : toAsker'[k].id = m.id => k = j
      BY <1>5, <1>7, <2>2
    <3>. QED
      BY <1>2, <1>3, <1>6, <1>7, <2>2, <3>1, <3>2
  <2>. QED
    BY <1>5, <2>1, <2>2
<1>14. FinishesInv'
  <2> SUFFICES ASSUME NEW j \in Indices(toAnswerer', "finish")
               PROVE  LET e == toAnswerer'[j] IN
                      /\ e.id \in DOMAIN answers' /\ answers'[e.id].state = "done"
                      /\ settled'[answers'[e.id].call] # NoOutcome
                      /\ \A k \in Indices(toAnswerer', "finish") : toAnswerer'[k].id = e.id => k = j
    BY DEF FinishesInv
  <2>1. j \in Nat /\ j + 1 \in Indices(toAnswerer, "finish") /\ toAnswerer'[j] = toAnswerer[j + 1]
    BY <1>4
  <2>2. \A k \in Indices(toAnswerer', "finish") :
          k \in Nat /\ k + 1 \in Indices(toAnswerer, "finish") /\ toAnswerer'[k] = toAnswerer[k + 1]
    BY <1>4
  <2> DEFINE e == toAnswerer[j + 1]
  <2>3. /\ e.id \in DOMAIN answers /\ answers[e.id].state = "done"
        /\ settled[answers[e.id].call] # NoOutcome
        /\ \A k \in Indices(toAnswerer, "finish") : toAnswerer[k].id = e.id => k = j + 1
    BY <2>1 DEF FinishesInv
  <2>4. /\ e.id \in DOMAIN answers' /\ answers'[e.id].state = "done"
        /\ settled'[answers'[e.id].call] # NoOutcome
    BY <1>1, <1>3, <2>3
  <2>5. \A k \in Indices(toAnswerer', "finish") : toAnswerer'[k].id = e.id => k = j
    BY <2>1, <2>2, <2>3
  <2>. QED
    BY <2>1, <2>4, <2>5
<1>. QED
  BY <1>1, <1>9, <1>10, <1>11, <1>12, <1>13, <1>14

LEMMA HandleCallInv ==
  ASSUME IInv, HandleCall
  PROVE  IInv'
<1>1. TypeOK'
  BY TypeNext DEF Next, IInv
<1>2. ASSUME HandleCallPending PROVE IInv'
  <2>1. PICK state \in {"running", "waiting"} : Accept(state)
    BY <1>2 DEF HandleCallPending
  <2>2. toAsker' = toAsker /\ outcome' = outcome
    BY <1>2 DEF HandleCallPending
  <2>. QED
    BY <1>1, <2>1, <2>2, AcceptInv
<1>3. ASSUME HandleCallRefused PROVE IInv'
  <2>1. Head(toAnswerer).id \notin DOMAIN answers
    BY <1>3, IncomingFacts DEF HandleCallRefused
  <2>2. /\ Accept("unimplemented") /\ outcome' = outcome
        /\ toAsker' = Append(toAsker, UnimplementedMessage(Head(toAnswerer).id))
    BY <1>3, <2>1 DEF HandleCallRefused
  <2>. QED
    BY <1>1, <2>2, AcceptInv
<1>4. ASSUME NEW o \in Outcome, HandleCallSettled(o) PROVE IInv'
  <2>1. /\ Accept("done")
        /\ outcome' = [outcome EXCEPT ![Head(toAnswerer).call] = o]
        /\ toAsker' = Append(toAsker, ReturnMessage(Head(toAnswerer).id, o))
    BY <1>4 DEF HandleCallSettled
  <2>. QED
    BY <1>1, <2>1, AcceptInv
<1>. QED
  BY <1>2, <1>3, <1>4 DEF HandleCall

\* An answer is settled while no message about it is on the way.
LEMMA AnswerInv ==
  ASSUME IInv, NEW id \in DOMAIN answers, NEW o \in Outcome, Answer(id, o)
  PROVE  IInv'
<1> DEFINE c == answers[id].call
           r == ReturnMessage(id, o)
           n == Len(toAsker) + 1
<1> USE DEF IInv
<1>1. TypeOK'
  BY TypeNext DEF Next
<1>2. /\ Settleable(answers[id]) /\ answers[id].state # "done"
      /\ id \in Nat /\ c \in Call /\ c # NoCall
      /\ id \in DOMAIN questions /\ questions[id] = c
      /\ outcome[c] = NoOutcome
      /\ settled[c] = NoOutcome /\ c \in asked
  <2>1. Settleable(answers[id]) /\ answers[id].state # "done" /\ id \in Nat /\ c \in Call /\ c # NoCall
    BY ConstantsAssumption DEF Answer, Settleable, TypeOK, Entry
  <2>2. id \in DOMAIN questions /\ questions[id] = c /\ outcome[c] = NoOutcome
    BY <2>1 DEF EntriesInv
  <2>. QED
    BY <2>1, <2>2 DEF SlotsInv
<1>3. /\ toAsker' = Append(toAsker, r)
      /\ outcome' = [outcome EXCEPT ![c] = o]
      /\ answers' = [answers EXCEPT ![id].state = "done"]
      /\ questionID' = questionID /\ questions' = questions /\ toAnswerer' = toAnswerer
      /\ asked' = asked /\ settled' = settled
      /\ askerWorking' = askerWorking /\ answererWorking' = answererWorking
  BY DEF Answer
<1>4. /\ DOMAIN answers' = DOMAIN answers
      /\ answers'[id].state = "done" /\ answers'[id].call = c
      /\ \A x \in DOMAIN answers : x # id => answers'[x] = answers[x]
      /\ outcome'[c] = o
      /\ \A x \in Call : x # c => outcome'[x] = outcome[x]
  BY <1>2, <1>3 DEF TypeOK, Entry
<1>5. /\ \A j \in Indices(toAsker, "return") :
           j \in Indices(toAsker', "return") /\ toAsker'[j] = toAsker[j]
      /\ \A j \in Indices(toAsker', "return") : j \in Indices(toAsker, "return") \/ j = n
      /\ n \in Indices(toAsker', "return") /\ toAsker'[n] = r
      /\ r.id = id /\ r.outcome = o
  <2>1. r \in ToAsker /\ r.k = "return" /\ r.id = id /\ r.outcome = o
    BY <1>2, MessageFacts DEF ReturnMessage
  <2>2. toAsker \in Seq(ToAsker)
    BY DEF TypeOK
  <2>. QED
    BY <1>3, <2>1, <2>2, SendFacts
<1> HIDE DEF n, r
<1>6. /\ \A j \in Indices(toAsker, "return") : toAsker[j].id # id
      /\ ~Finished(id)
      /\ \A j \in Indices(toAnswerer, "call") : toAnswerer[j].id # id /\ toAnswerer[j].call # c
  <2>1. /\ \A j \in Indices(toAsker, "return") : toAsker[j].id # id
        /\ \A j \in Indices(toAnswerer, "finish") : toAnswerer[j].id # id
    BY <1>2 DEF ReturnsInv, FinishesInv
  <2>2. \A j \in Indices(toAnswerer, "call") : toAnswerer[j].id # id
    BY <2>1 DEF CallsInv
  <2>3. \A j \in Indices(toAnswerer, "call") : toAnswerer[j].call # c
    BY <1>2, <2>2 DEF CallsInv, SlotsInv
  <2>. QED
    BY <2>1, <2>2, <2>3 DEF Finished
<1>7. /\ NoProtocolError' /\ FreeIdsAreNullSlots'
      /\ \A x : Finished(x)' <=> Finished(x)
  BY <1>3 DEF NoProtocolError, FreeIdsAreNullSlots, Finished
<1>8. NoCrosstalk' /\ SlotsInv'
  BY <1>2, <1>3, <1>4 DEF NoCrosstalk, SlotsInv
<1>9. CallsInv'
  <2>1. \A j \in Indices(toAnswerer, "call") : toAnswerer[j].call \in Call
    <3>1. toAnswerer \in Seq(ToAnswerer)
      BY DEF TypeOK
    <3>. QED
      BY <3>1, IndexFacts, MessageFacts
  <2>. QED
    BY <1>3, <1>4, <1>6, <2>1 DEF CallsInv
<1>10. EntriesInv'
  <2> SUFFICES ASSUME NEW x \in DOMAIN answers
               PROVE  IF answers'[x].state = "done"
                      THEN Returned(x)' \/ Finished(x)'
                      ELSE /\ x \in DOMAIN questions /\ questions[x] = answers'[x].call
                           /\ outcome'[answers'[x].call] = NoOutcome
    BY <1>3, <1>4 DEF EntriesInv
  <2>1. CASE x = id
    BY <1>4, <1>5, <2>1 DEF Returned
  <2>2. CASE x # id
    <3>1. answers'[x] = answers[x] /\ answers[x].call \in Call
      BY <1>4, <2>2 DEF TypeOK, Entry
    <3>2. Returned(x) => Returned(x)'
      BY <1>5 DEF Returned
    <3>3. answers[x].state # "done" => answers[x].call # c
      BY <1>2, <2>2 DEF EntriesInv, SlotsInv
    <3>. QED
      BY <1>4, <1>7, <3>1, <3>2, <3>3 DEF EntriesInv
  <2>. QED
    BY <2>1, <2>2
<1>11. ReturnsInv'
  <2> SUFFICES ASSUME NEW j \in Indices(toAsker', "return")
               PROVE  LET e == toAsker'[j] IN
                      /\ e.id \in DOMAIN answers' /\ answers'[e.id].state = "done"
                      /\ e.id \in DOMAIN questions /\ questions[e.id] = answers'[e.id].call
                      /\ outcome'[answers'[e.id].call] = e.outcome
                      /\ \A k \in Indices(toAsker', "return") : toAsker'[k].id = e.id => k = j
                      /\ ~Finished(e.id)
    BY <1>3, <1>7 DEF ReturnsInv
  <2>1. CASE j \in Indices(toAsker, "return")
    <3> DEFINE e == toAsker[j]
    <3>1. /\ e.id \in DOMAIN answers /\ answers[e.id].state = "done"
          /\ e.id \in DOMAIN questions /\ questions[e.id] = answers[e.id].call
          /\ outcome[answers[e.id].call] = e.outcome
          /\ \A k \in Indices(toAsker, "return") : toAsker[k].id = e.id => k = j
          /\ ~Finished(e.id)
      BY <2>1 DEF ReturnsInv
    <3>2. toAsker'[j] = e /\ e.id # id
      BY <1>5, <1>6, <2>1
    <3>3. answers'[e.id] = answers[e.id] /\ answers[e.id].call \in Call
      BY <1>4, <3>1, <3>2 DEF TypeOK, Entry
    <3>4. answers[e.id].call # c
      BY <1>2, <3>1, <3>2 DEF SlotsInv
    <3>5. \A k \in Indices(toAsker', "return") : toAsker'[k].id = e.id => k = j
      BY <1>5, <3>1, <3>2
    <3>. QED
      BY <1>4, <3>1, <3>2, <3>3, <3>4, <3>5
  <2>2. CASE j = n
    <3>1. \A k \in Indices(toAsker', "return") : toAsker'[k].id = id => k = j
      BY <1>5, <1>6, <2>2
    <3>. QED
      BY <1>2, <1>4, <1>5, <1>6, <2>2, <3>1
  <2>. QED
    BY <1>5, <2>1, <2>2
<1>12. FinishesInv'
  BY <1>3, <1>4 DEF FinishesInv
<1>. QED
  BY <1>1, <1>7, <1>8, <1>9, <1>10, <1>11, <1>12

\* A Finish finds its entry, and no other message needs that entry any more.
LEMMA HandleFinishInv ==
  ASSUME IInv, HandleFinish
  PROVE  IInv'
<1> DEFINE m == Head(toAnswerer)
<1> USE DEF IInv
<1>1. TypeOK'
  BY TypeNext DEF Next
<1>2. /\ toAnswerer # <<>> /\ m.k = "finish" /\ toAnswerer' = Tail(toAnswerer)
      /\ answers' = PopAnswer(m.id)
      /\ answererWorking' = (m.id \in DOMAIN answers \/ ~m.releaseResultCaps)
      /\ questionID' = questionID /\ questions' = questions /\ toAsker' = toAsker
      /\ asked' = asked /\ outcome' = outcome /\ settled' = settled
      /\ askerWorking' = askerWorking
  BY DEF HandleFinish
<1>3. m = toAnswerer[1] /\ 1 \in Indices(toAnswerer, "finish")
  BY <1>2, AnswererReceives
<1>4. /\ m.id \in DOMAIN answers /\ answers[m.id].state = "done"
      /\ \A k \in Indices(toAnswerer, "finish") : toAnswerer[k].id = m.id => k = 1
      /\ \A j \in Indices(toAsker, "return") : toAsker[j].id # m.id
  BY <1>3 DEF FinishesInv, ReturnsInv, Finished
<1>5. /\ DOMAIN answers' = DOMAIN answers \ {m.id}
      /\ \A x \in DOMAIN answers' : answers'[x] = answers[x]
  BY <1>2 DEF PopAnswer
<1>6. /\ \A k : \A j \in Indices(toAnswerer', k) :
           /\ j \in Nat \ {0}
           /\ j + 1 \in Indices(toAnswerer, k) /\ toAnswerer'[j] = toAnswerer[j + 1]
      /\ \A k : \A j \in Indices(toAnswerer, k) :
           j # 1 => \E i \in Indices(toAnswerer', k) : j = i + 1
  BY <1>2, AnswererReceives
<1>7. \A id : id # m.id => (Finished(id)' <=> Finished(id))
  <2> SUFFICES ASSUME NEW id, id # m.id PROVE Finished(id)' <=> Finished(id)
    OBVIOUS
  <2>1. ASSUME Finished(id) PROVE Finished(id)'
    <3>1. PICK j \in Indices(toAnswerer, "finish") : toAnswerer[j].id = id
      BY <2>1 DEF Finished
    <3>2. PICK i \in Indices(toAnswerer', "finish") : j = i + 1
      BY <1>3, <1>6, <3>1
    <3>. QED
      BY <1>6, <3>1, <3>2 DEF Finished
  <2>2. ASSUME Finished(id)' PROVE Finished(id)
    BY <1>6, <2>2 DEF Finished
  <2>. QED
    BY <2>1, <2>2
<1>8. NoProtocolError'
  BY <1>2, <1>4 DEF NoProtocolError
<1>9. NoCrosstalk' /\ FreeIdsAreNullSlots' /\ SlotsInv'
  BY <1>2 DEF NoCrosstalk, FreeIdsAreNullSlots, SlotsInv
<1>10. CallsInv'
  <2> SUFFICES ASSUME NEW j \in Indices(toAnswerer', "call")
               PROVE  LET e == toAnswerer'[j] IN
                      /\ e.id \in DOMAIN questions /\ questions[e.id] = e.call
                      /\ outcome[e.call] = NoOutcome
                      /\ \A k \in Indices(toAnswerer', "call") : toAnswerer'[k].id = e.id => k = j
                      /\ e.id \in DOMAIN answers' =>
                           \E i \in Indices(toAnswerer', "finish") : i < j /\ toAnswerer'[i].id = e.id
    BY <1>2 DEF CallsInv
  <2> DEFINE e == toAnswerer'[j]
  <2>1. j \in Nat \ {0} /\ j + 1 \in Indices(toAnswerer, "call") /\ e = toAnswerer[j + 1]
    BY <1>6
  <2>2. /\ e.id \in DOMAIN questions /\ questions[e.id] = e.call
        /\ outcome[e.call] = NoOutcome
        /\ \A k \in Indices(toAnswerer, "call") : toAnswerer[k].id = e.id => k = j + 1
        /\ e.id \in DOMAIN answers =>
             \E i \in Indices(toAnswerer, "finish") : i < j + 1 /\ toAnswerer[i].id = e.id
    BY <2>1 DEF CallsInv
  <2>3. \A k \in Indices(toAnswerer', "call") : toAnswerer'[k].id = e.id => k = j
    BY <1>6, <2>1, <2>2
  <2>4. ASSUME e.id \in DOMAIN answers'
        PROVE  \E i \in Indices(toAnswerer', "finish") : i < j /\ toAnswerer'[i].id = e.id
    <3>1. PICK i \in Indices(toAnswerer, "finish") : i < j + 1 /\ toAnswerer[i].id = e.id
      BY <1>5, <2>2, <2>4
    <3>2. i # 1
      BY <1>3, <1>5, <2>4, <3>1
    <3>3. PICK k \in Indices(toAnswerer', "finish") : i = k + 1
      BY <1>6, <3>1, <3>2
    <3>. QED
      BY <1>6, <2>1, <3>1, <3>3
  <2>. QED
    BY <2>2, <2>3, <2>4
<1>11. EntriesInv'
  <2>1. \A x \in DOMAIN answers' : x \in DOMAIN answers /\ x # m.id /\ answers'[x] = answers[x]
    BY <1>5
  <2>2. \A x : Returned(x)' <=> Returned(x)
    BY <1>2 DEF Returned
  <2>. QED
    BY <1>2, <1>7, <2>1, <2>2 DEF EntriesInv
<1>12. ReturnsInv'
  <2>1. \A j \in Indices(toAsker, "return") :
          toAsker[j].id \in DOMAIN answers' /\ answers'[toAsker[j].id] = answers[toAsker[j].id]
    BY <1>4, <1>5 DEF ReturnsInv
  <2>. QED
    BY <1>2, <1>4, <1>7, <2>1 DEF ReturnsInv
<1>13. FinishesInv'
  <2> SUFFICES ASSUME NEW j \in Indices(toAnswerer', "finish")
               PROVE  LET e == toAnswerer'[j] IN
                      /\ e.id \in DOMAIN answers' /\ answers'[e.id].state = "done"
                      /\ settled'[answers'[e.id].call] # NoOutcome
                      /\ \A k \in Indices(toAnswerer', "finish") : toAnswerer'[k].id = e.id => k = j
    BY DEF FinishesInv
  <2> DEFINE e == toAnswerer[j + 1]
  <2>1. j \in Nat \ {0} /\ j + 1 \in Indices(toAnswerer, "finish") /\ toAnswerer'[j] = e
    BY <1>6
  <2>2. /\ e.id \in DOMAIN answers /\ answers[e.id].state = "done"
        /\ settled[answers[e.id].call] # NoOutcome
        /\ \A k \in Indices(toAnswerer, "finish") : toAnswerer[k].id = e.id => k = j + 1
    BY <2>1 DEF FinishesInv
  <2>3. e.id # m.id
    BY <1>4, <2>1
  <2>4. /\ e.id \in DOMAIN answers' /\ answers'[e.id].state = "done"
        /\ settled'[answers'[e.id].call] # NoOutcome
    BY <1>2, <1>5, <2>2, <2>3
  <2>5. \A k \in Indices(toAnswerer', "finish") : toAnswerer'[k].id = e.id => k = j
    BY <1>6, <2>1, <2>2
  <2>. QED
    BY <2>1, <2>4, <2>5
<1>. QED
  BY <1>1, <1>8, <1>9, <1>10, <1>11, <1>12, <1>13

-----------------------------------------------------------------------------
(* The theorems *)

LEMMA InvNext == IInv /\ [Next]_vars => IInv'
<1> SUFFICES ASSUME IInv, [Next]_vars PROVE IInv'
  OBVIOUS
<1>1. CASE UNCHANGED vars
  BY <1>1 DEF vars, IInv, TypeOK, NoProtocolError, NoCrosstalk, FreeIdsAreNullSlots,
     SlotsInv, CallsInv, EntriesInv, ReturnsInv, FinishesInv, Returned, Finished
<1>. QED
  BY <1>1, AskInv, HandleReturnInv, HandleUnimplementedInv, HandleCallInv, AnswerInv,
     HandleFinishInv DEF Next

\* The invariant of the id protocol holds whatever calls are made, however
\* they end and however the two ends interleave.
THEOREM Invariant == Spec => []IInv
  BY InvInit, InvNext, PTL DEF Spec

\* The tables, the channels and the IDGen of a connection keep their types
\* (newQuestion, popQuestion, insertAnswer, popAnswer).
THEOREM TypeCorrect == Spec => []TypeOK
<1>1. IInv => TypeOK
  BY DEF IInv
<1>. QED
  BY <1>1, Invariant, PTL

\* No handler throws: no id is reused while the other end still knows it, every
\* Return finds its question and every Finish its answer.
THEOREM Protocol == Spec => []NoProtocolError
<1>1. IInv => NoProtocolError
  BY DEF IInv
<1>. QED
  BY <1>1, Invariant, PTL

\* A promise is only ever settled with the outcome of its own call.
THEOREM Crosstalk == Spec => []NoCrosstalk
<1>1. IInv => NoCrosstalk
  BY DEF IInv
<1>. QED
  BY <1>1, Invariant, PTL

\* IDGen never loses an id and never hands one out twice.
THEOREM FreeIds == Spec => []FreeIdsAreNullSlots
<1>1. IInv => FreeIdsAreNullSlots
  BY DEF IInv
<1>. QED
  BY <1>1, Invariant, PTL

-----------------------------------------------------------------------------
(* What is left in the tables *)

\* A step keeps every used slot accounted for: by a Call on its way, or by an
\* entry that no Finish is about to drop.
LEMMA UsedNext ==
  ASSUME IInv, UsedInv, [Next]_vars
  PROVE  UsedInv'
<1> USE DEF IInv
<1>1. ASSUME NEW c \in Call, Ask(c) PROVE UsedInv'
  <2>0. PICK id : id = IdNext(questionID)
    OBVIOUS
  <2>a. PICK m : m = CallMessage(id, c)
    OBVIOUS
  <2>1. /\ id \in Nat /\ m \in ToAnswerer /\ m.k = "call" /\ m.id = id
        /\ DOMAIN questions' = DOMAIN questions \cup {id}
        /\ \A x \in DOMAIN questions : x # id => questions'[x] = questions[x]
        /\ toAnswerer' = Append(toAnswerer, m) /\ answers' = answers
    BY <1>1, <2>0, <2>a, AskFacts, MessageFacts DEF CallMessage, Ask
  <2>2. toAnswerer \in Seq(ToAnswerer)
    BY DEF TypeOK
  <2>3. /\ \A k : \A j \in Indices(toAnswerer, k) :
             j \in Indices(toAnswerer', k) /\ toAnswerer'[j] = toAnswerer[j]
        /\ Len(toAnswerer) + 1 \in Indices(toAnswerer', "call")
        /\ toAnswerer'[Len(toAnswerer) + 1] = m
        /\ \A j \in Indices(toAnswerer', "finish") : j \in Indices(toAnswerer, "finish")
    BY <2>1, <2>2, SendFacts
  <2>4. \A x : Finished(x)' => Finished(x)
    BY <2>3 DEF Finished
  <2>5. \A x : Calling(x) => Calling(x)'
    BY <2>3 DEF Calling
  <2>6. Calling(id)'
    BY <2>1, <2>3 DEF Calling
  <2>. QED
    BY <2>1, <2>4, <2>5, <2>6 DEF UsedInv
<1>2. ASSUME HandleReturn PROVE UsedInv'
  <2> DEFINE m == Head(toAsker)
             f == FinishMessage(m.id, m.outcome \in Exception)
  <2>1. /\ toAsker # <<>> /\ m.k = "return" /\ m \in ToAsker /\ m.id \in Nat
        /\ 1 \in Indices(toAsker, "return") /\ toAsker[1] = m
    BY <1>2, AskerReceives, MessageFacts DEF HandleReturn, TypeOK
  <2>2. m.id \in DOMAIN questions /\ questions[m.id] \in Call
    BY <2>1 DEF ReturnsInv, TypeOK, Entry
  <2>3. /\ questions' = [questions EXCEPT ![m.id] = NoCall] /\ answers' = answers
        /\ toAnswerer' = Append(toAnswerer, f)
    BY <1>2, <2>2, ConstantsAssumption DEF HandleReturn, FindQuestion, PopQuestion
  <2>b. (m.outcome \in Exception) \in BOOLEAN
    OBVIOUS
  <2>c. f \in ToAnswerer
    BY <2>1, <2>b, MessageFacts
  <2>4. f \in ToAnswerer /\ f.k = "finish" /\ f.id = m.id
    BY <2>c DEF FinishMessage
  <2> HIDE DEF m, f
  <2>5. /\ DOMAIN questions' = DOMAIN questions /\ questions'[m.id] = NoCall
        /\ \A x \in DOMAIN questions : x # m.id => questions'[x] = questions[x]
    BY <2>2, <2>3
  <2>6. toAnswerer \in Seq(ToAnswerer)
    BY DEF TypeOK
  <2>7. /\ \A k : \A j \in Indices(toAnswerer, k) :
             j \in Indices(toAnswerer', k) /\ toAnswerer'[j] = toAnswerer[j]
        /\ \A j \in Indices(toAnswerer', "finish") :
             j \in Indices(toAnswerer, "finish") \/ toAnswerer'[j] = f
    BY <2>3, <2>4, <2>6, SendFacts
  <2>8. \A x : x # m.id /\ Finished(x)' => Finished(x)
    BY <2>4, <2>7 DEF Finished
  <2>9. \A x : Calling(x) => Calling(x)'
    BY <2>7 DEF Calling
  <2>. QED
    BY <2>3, <2>5, <2>8, <2>9 DEF UsedInv
<1>3. ASSUME HandleUnimplemented PROVE UsedInv'
  BY <1>3 DEF HandleUnimplemented, UsedInv, Calling, Finished
<1>4. ASSUME NEW state, Accept(state) PROVE UsedInv'
  <2> DEFINE m == Head(toAnswerer)
  <2>1. /\ Incoming /\ toAnswerer # <<>> /\ toAnswerer' = Tail(toAnswerer)
        /\ questions' = questions
        /\ answers' = InsertAnswer(m.id, [call |-> m.call, state |-> state])
    BY <1>4 DEF Accept, Incoming
  <2>2. m = toAnswerer[1] /\ m.id \notin DOMAIN answers
    BY <2>1, IncomingFacts
  <2>3. DOMAIN answers' = DOMAIN answers \cup {m.id}
    BY <2>1 DEF InsertAnswer
  <2>4. /\ \A k : \A j \in Indices(toAnswerer', k) :
             /\ j + 1 \in Indices(toAnswerer, k) /\ toAnswerer'[j] = toAnswerer[j + 1]
        /\ \A k : \A j \in Indices(toAnswerer, k) :
             j # 1 => \E i \in Indices(toAnswerer', k) : j = i + 1
    BY <2>1, AnswererReceives
  <2>5. \A x : Finished(x)' => Finished(x)
    BY <2>4 DEF Finished
  <2>6. \A x : x # m.id /\ Calling(x) => Calling(x)'
    <3> SUFFICES ASSUME NEW x, x # m.id, Calling(x) PROVE Calling(x)'
      OBVIOUS
    <3>1. PICK j \in Indices(toAnswerer, "call") : toAnswerer[j].id = x
      BY DEF Calling
    <3>2. PICK i \in Indices(toAnswerer', "call") : j = i + 1
      BY <2>2, <2>4, <3>1
    <3>. QED
      BY <2>4, <3>1, <3>2 DEF Calling
  <2>7. ~Finished(m.id)
    BY <2>2 DEF FinishesInv, Finished
  <2> HIDE DEF m
  <2>. QED
    BY <2>1, <2>3, <2>5, <2>6, <2>7 DEF UsedInv
<1>5. ASSUME HandleCall PROVE UsedInv'
  <2>1. ASSUME HandleCallRefused PROVE UsedInv'
    <3>1. Incoming /\ Head(toAnswerer).id \notin DOMAIN answers
      BY <2>1, IncomingFacts DEF HandleCallRefused
    <3>. QED
      BY <1>4, <2>1, <3>1 DEF HandleCallRefused
  <2>. QED
    BY <1>4, <1>5, <2>1 DEF HandleCall, HandleCallPending, HandleCallSettled
<1>6. ASSUME NEW id \in DOMAIN answers, NEW o \in Outcome, Answer(id, o) PROVE UsedInv'
  <2>1. /\ questions' = questions /\ toAnswerer' = toAnswerer
        /\ answers' = [answers EXCEPT ![id].state = "done"]
    BY <1>6 DEF Answer
  <2>2. DOMAIN answers' = DOMAIN answers
    BY <2>1
  <2>. QED
    BY <2>1, <2>2 DEF UsedInv, Calling, Finished
<1>7. ASSUME HandleFinish PROVE UsedInv'
  <2> DEFINE m == Head(toAnswerer)
  <2>1. /\ toAnswerer # <<>> /\ m.k = "finish" /\ toAnswerer' = Tail(toAnswerer)
        /\ answers' = PopAnswer(m.id) /\ questions' = questions
    BY <1>7 DEF HandleFinish
  <2>2. m = toAnswerer[1] /\ 1 \in Indices(toAnswerer, "finish") /\ 1 \notin Indices(toAnswerer, "call")
    BY <2>1, AnswererReceives DEF Indices
  <2>3. DOMAIN answers' = DOMAIN answers \ {m.id}
    BY <2>1 DEF PopAnswer
  <2>4. /\ \A k : \A j \in Indices(toAnswerer', k) :
             /\ j + 1 \in Indices(toAnswerer, k) /\ toAnswerer'[j] = toAnswerer[j + 1]
        /\ \A k : \A j \in Indices(toAnswerer, k) :
             j # 1 => \E i \in Indices(toAnswerer', k) : j = i + 1
    BY <2>1, AnswererReceives
  <2>5. \A x : Finished(x)' => Finished(x)
    BY <2>4 DEF Finished
  <2>6. \A x : Calling(x) => Calling(x)'
    <3> SUFFICES ASSUME NEW x, Calling(x) PROVE Calling(x)'
      OBVIOUS
    <3>1. PICK j \in Indices(toAnswerer, "call") : toAnswerer[j].id = x
      BY DEF Calling
    <3>2. PICK i \in Indices(toAnswerer', "call") : j = i + 1
      BY <2>2, <2>4, <3>1
    <3>. QED
      BY <2>4, <3>1, <3>2 DEF Calling
  <2>7. Finished(m.id)
    BY <2>2 DEF Finished
  <2> HIDE DEF m
  <2>. QED
    BY <2>1, <2>3, <2>5, <2>6, <2>7 DEF UsedInv
<1>8. CASE UNCHANGED vars
  BY <1>8 DEF vars, UsedInv, Calling, Finished
<1>. QED
  BY <1>1, <1>2, <1>3, <1>5, <1>6, <1>7, <1>8 DEF Next

\* Nothing stays behind in either table once the connection is quiet: an id is in
\* use at both ends or at none, and no entry is left that was settled.
THEOREM NothingLeft == Spec => []NothingLeftBehind
<1>1. Init => UsedInv
  BY DEF Init, UsedInv
<1>2. IInv /\ UsedInv /\ [Next]_vars => UsedInv'
  BY UsedNext
<1>3. IInv /\ UsedInv => NothingLeftBehind
  <2> SUFFICES ASSUME IInv, UsedInv, Quiescent
               PROVE  /\ DOMAIN answers = {id \in DOMAIN questions : questions[id] # NoCall}
                      /\ \A id \in DOMAIN answers : answers[id].state # "done"
    BY DEF NothingLeftBehind
  <2>1. toAnswerer = <<>> /\ toAsker = <<>>
    BY DEF Quiescent
  <2>2. Indices(toAnswerer, "call") = {} /\ Indices(toAnswerer, "finish") = {}
        /\ Indices(toAsker, "return") = {}
    BY <2>1 DEF Indices
  <2>3. ASSUME NEW id \in DOMAIN answers
        PROVE  id \in DOMAIN questions /\ questions[id] # NoCall /\ answers[id].state # "done"
    <3>1. answers[id].state # "done"
      BY <2>2 DEF IInv, EntriesInv, Returned, Finished
    <3>. QED
      BY <3>1, ConstantsAssumption DEF IInv, EntriesInv, TypeOK, Entry
  <2>4. ASSUME NEW id \in DOMAIN questions, questions[id] # NoCall PROVE id \in DOMAIN answers
    BY <2>2, <2>4 DEF UsedInv, Calling
  <2>. QED
    BY <2>3, <2>4
<1>. QED
  BY <1>1, <1>2, <1>3, Invariant, PTL DEF Spec

\* Each step is a step in the life of one call, or invisible to the caller: a
\* call is asked, decided once, then settled once with what was decided.
LEMMA LifecycleStep ==
  ASSUME IInv, IInv', [Next]_vars
  PROVE  [CL!Next]_(CL!cvars)
<1> USE DEF CL!cvars
<1>1. ASSUME NEW c \in Call, Ask(c) PROVE [CL!Next]_(CL!cvars)
  <2>1. CL!Make(c)
    BY <1>1 DEF Ask, CL!Make
  <2>. QED
    BY <2>1 DEF CL!Next
<1>2. ASSUME HandleReturn PROVE [CL!Next]_(CL!cvars)
  <2> DEFINE m == Head(toAsker)
             c == FindQuestion(m.id)
  <2>1. /\ toAsker # <<>> /\ m = toAsker[1] /\ 1 \in Indices(toAsker, "return")
        /\ m.outcome \in Outcome
    BY <1>2, AskerReceives, MessageFacts DEF HandleReturn, IInv
  <2>2. m.id \in DOMAIN questions /\ m.id \in DOMAIN answers
        /\ questions[m.id] = answers[m.id].call /\ outcome[answers[m.id].call] = m.outcome
    BY <2>1 DEF IInv, ReturnsInv
  <2>3. c \in Call /\ c = questions[m.id] /\ c # NoCall /\ outcome[c] = m.outcome
    BY <2>2, ConstantsAssumption DEF IInv, TypeOK, Entry, FindQuestion
  <2>4. settled[c] = NoOutcome /\ outcome[c] # NoOutcome
    BY <2>1, <2>2, <2>3, ConstantsAssumption DEF IInv, SlotsInv
  <2>5. CL!Settle(c)
    BY <1>2, <2>3, <2>4 DEF HandleReturn, CL!Settle
  <2>. QED
    BY <2>3, <2>5 DEF CL!Next
<1>3. ASSUME HandleUnimplemented PROVE UNCHANGED CL!cvars
  BY <1>3 DEF HandleUnimplemented
<1>4. ASSUME HandleCall PROVE [CL!Next]_(CL!cvars)
  <2>1. CASE HandleCallPending
    BY <2>1 DEF HandleCallPending, Accept
  <2>2. CASE HandleCallRefused
    BY <2>2 DEF HandleCallRefused, Accept
  <2>3. ASSUME NEW o \in Outcome, HandleCallSettled(o) PROVE [CL!Next]_(CL!cvars)
    <3> DEFINE c == Head(toAnswerer).call
    <3>1. Incoming /\ outcome' = [outcome EXCEPT ![c] = o] /\ asked' = asked /\ settled' = settled
      BY <2>3 DEF HandleCallSettled, Accept
    <3>2. c \in Call /\ outcome[c] = NoOutcome /\ \E id \in DOMAIN questions : questions[id] = c
      BY <3>1, IncomingFacts
    <3>3. c \in asked
      BY <3>2, ConstantsAssumption DEF IInv, SlotsInv
    <3>4. CL!Decide(c, o)
      BY <3>1, <3>2, <3>3 DEF CL!Decide
    <3>. QED
      BY <3>2, <3>4 DEF CL!Next
  <2>. QED
    BY <1>4, <2>1, <2>2, <2>3 DEF HandleCall
<1>5. ASSUME NEW id \in DOMAIN answers, NEW o \in Outcome, Answer(id, o)
      PROVE  [CL!Next]_(CL!cvars)
  <2> DEFINE c == answers[id].call
  <2>1. /\ answers[id].state # "done" /\ outcome' = [outcome EXCEPT ![c] = o]
        /\ asked' = asked /\ settled' = settled
    BY <1>5 DEF Answer, Settleable
  <2>2. c \in Call
    BY DEF IInv, TypeOK, Entry
  <2>3. id \in DOMAIN questions /\ questions[id] = c /\ outcome[c] = NoOutcome
    BY <2>1 DEF IInv, EntriesInv
  <2>4. c \in asked
    BY <2>2, <2>3, ConstantsAssumption DEF IInv, SlotsInv
  <2>5. CL!Decide(c, o)
    BY <2>1, <2>3, <2>4 DEF CL!Decide
  <2>. QED
    BY <2>2, <2>5 DEF CL!Next
<1>6. ASSUME HandleFinish PROVE UNCHANGED CL!cvars
  BY <1>6 DEF HandleFinish
<1>7. CASE UNCHANGED vars
  BY <1>7 DEF vars
<1>. QED
  BY <1>1, <1>2, <1>3, <1>4, <1>5, <1>6, <1>7 DEF Next

\* The id protocol implements what a connection promises its caller
\* (CallLifecycle): no call is settled twice, or with another call's outcome.
THEOREM Lifecycle == Spec => LifecycleImplemented
<1>1. Init => CL!Init
  BY DEF Init, CL!Init
<1>2. IInv /\ IInv' /\ [Next]_vars => [CL!Next]_(CL!cvars)
  BY LifecycleStep
<1>. QED
  BY <1>1, <1>2, Invariant, PTL DEF Spec, CL!Spec, LifecycleImplemented
=============================================================================
