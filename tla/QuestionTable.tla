---------------------------- MODULE QuestionTable ----------------------------
(***************************************************************************)
(* One direction of a connection: how the vat that asks and the vat that   *)
(* answers keep a question id in step between Conn.questions, Conn.answers *)
(* and the two FIFO directions of the transport (src/rpc/conn.ts).  A      *)
(* question id is taken from an IDGen, travels with the Call, names the    *)
(* AnswerEntry, comes back with the Return, is free for the next call as   *)
(* soon as the Return is handled, and only after that is the entry dropped *)
(* by the Finish: id reuse races with that Finish.  Capabilities, targets  *)
(* and pipelining are in RpcConn, which refines this module.               *)
(***************************************************************************)
EXTENDS Integers, Sequences

CONSTANTS Call,       \* the calls the asking vat may make, each at most once
          Result,     \* what a method may return
          Exception,  \* what it may throw
          NoCall, NoOutcome

Outcome == Result \cup Exception

ASSUME ConstantsAssumption == /\ NoCall \notin Call
                              /\ NoOutcome \notin Outcome
                              /\ Result \cap Exception = {}

VARIABLES questionID,      \* IDGen: the next fresh id and the stack of freed ids
          questions,       \* id -> the call it stands for, or NoCall (null)
          answers,         \* id -> AnswerEntry, at the answering vat
          toAnswerer,      \* messages to the answering vat, oldest first
          toAsker,         \* messages to the asking vat, oldest first
          asked,           \* the calls made so far
          outcome,         \* what the answering vat decided for a call
          settled,         \* what the promise of the call was settled with
          askerWorking,    \* work() loop of the asking vat has not thrown
          answererWorking  \* work() loop of the answering vat has not thrown

vars == <<questionID, questions, answers, toAnswerer, toAsker, asked, outcome,
          settled, askerWorking, answererWorking>>

CallMessage(id, c) == [k |-> "call", id |-> id, call |-> c]
FinishMessage(id, release) == [k |-> "finish", id |-> id, releaseResultCaps |-> release]
ReturnMessage(id, o) == [k |-> "return", id |-> id, outcome |-> o]
UnimplementedMessage(id) == [k |-> "unimplemented", id |-> id]

ToAnswerer == [k : {"call"}, id : Nat, call : Call]
              \cup [k : {"finish"}, id : Nat, releaseResultCaps : BOOLEAN]
ToAsker == [k : {"return"}, id : Nat, outcome : Outcome]
           \cup [k : {"unimplemented"}, id : Nat]

\* AnswerEntry, by what is to settle it: a method of this vat that runs, another call
\* that this one is queued on or was forwarded as, or nothing at all, for the entry of a
\* call to an unknown interface or method is left in the table.
Entry == [call : Call, state : {"running", "waiting", "unimplemented", "done"}]

TypeOK == /\ questionID \in [i : Nat, free : Seq(Nat)]
          /\ questions \in [0 .. questionID.i - 1 -> Call \cup {NoCall}]
          /\ DOMAIN answers \subseteq Nat
          /\ \A id \in DOMAIN answers : answers[id] \in Entry
          /\ toAnswerer \in Seq(ToAnswerer)
          /\ toAsker \in Seq(ToAsker)
          /\ asked \subseteq Call
          /\ outcome \in [Call -> Outcome \cup {NoOutcome}]
          /\ settled \in [Call -> Outcome \cup {NoOutcome}]
          /\ askerWorking \in BOOLEAN
          /\ answererWorking \in BOOLEAN

Init == /\ questionID = [i |-> 0, free |-> <<>>]
        /\ questions = [id \in {} |-> NoCall]
        /\ answers = [id \in {} |-> NoCall]
        /\ toAnswerer = <<>>
        /\ toAsker = <<>>
        /\ asked = {}
        /\ outcome = [c \in Call |-> NoOutcome]
        /\ settled = [c \in Call |-> NoOutcome]
        /\ askerWorking = TRUE
        /\ answererWorking = TRUE

-----------------------------------------------------------------------------
(* Broken forms of some of the definitions below, for the mutant runs. *)

\* remove() that frees the id below.
IdRemoveOffByOne(g, id) == [g EXCEPT !.free = Append(@, id - 1)]

\* remove() called twice for one id.
IdRemoveTwice(g, id) == [g EXCEPT !.free = @ \o <<id, id>>]

\* popQuestion() that does not clear the slot.
PopQuestionKeeps(id) == questions

\* fulfill() and reject() without the test of done.
SettleableTwice(e) == e.state # "unimplemented"

\* popAnswer() of the next id.
PopAnswerOffByOne(id) == [x \in DOMAIN answers \ {id + 1} |-> answers[x]]

-----------------------------------------------------------------------------
(* IDGen *)

IdNext(g) == IF g.free = <<>> THEN g.i ELSE g.free[Len(g.free)]
IdTake(g) == IF g.free = <<>>
             THEN [g EXCEPT !.i = @ + 1]
             ELSE [g EXCEPT !.free = SubSeq(@, 1, Len(@) - 1)]
IdRemove(g, id) == [g EXCEPT !.free = Append(@, id)]

(* The asking vat *)

\* newQuestion() and the Call message that goes out with the id.
Ask(c) ==
  LET id == IdNext(questionID) IN
  /\ c \notin asked
  /\ asked' = asked \cup {c}
  /\ questionID' = IdTake(questionID)
  /\ questions' = [x \in DOMAIN questions \cup {id} |-> IF x = id THEN c ELSE questions[x]]
  /\ toAnswerer' = Append(toAnswerer, CallMessage(id, c))
  /\ UNCHANGED <<answers, toAsker, outcome, settled, askerWorking, answererWorking>>

FindQuestion(id) == IF id \in DOMAIN questions THEN questions[id] ELSE NoCall

PopQuestion(id) == [questions EXCEPT ![id] = NoCall]

\* handleReturnMessage(): the question is popped, settled, and finished.
HandleReturn ==
  LET m == Head(toAsker)
      c == FindQuestion(m.id)
  IN
  /\ askerWorking /\ toAsker # <<>> /\ m.k = "return"
  /\ toAsker' = Tail(toAsker)
  /\ IF c = NoCall
     THEN /\ askerWorking' = FALSE
          /\ UNCHANGED <<questionID, questions, settled, toAnswerer>>
     ELSE /\ questions' = PopQuestion(m.id)
          /\ questionID' = IdRemove(questionID, m.id)
          /\ settled' = [settled EXCEPT ![c] = m.outcome]
          /\ toAnswerer' = Append(toAnswerer, FinishMessage(m.id, m.outcome \in Exception))
          /\ UNCHANGED askerWorking
  /\ UNCHANGED <<answers, asked, outcome, answererWorking>>

\* An Unimplemented message is dropped "to avoid feedback loop".
HandleUnimplemented ==
  /\ askerWorking /\ toAsker # <<>> /\ Head(toAsker).k = "unimplemented"
  /\ toAsker' = Tail(toAsker)
  /\ UNCHANGED <<questionID, questions, answers, toAnswerer, asked, outcome,
                 settled, askerWorking, answererWorking>>

(* The answering vat *)

InsertAnswer(id, e) == [x \in DOMAIN answers \cup {id} |-> IF x = id THEN e ELSE answers[x]]

PopAnswer(id) == [x \in DOMAIN answers \ {id} |-> answers[x]]

Incoming == answererWorking /\ toAnswerer # <<>> /\ Head(toAnswerer).k = "call"

Accept(state) ==
  LET m == Head(toAnswerer) IN
  /\ Incoming /\ m.id \notin DOMAIN answers
  /\ toAnswerer' = Tail(toAnswerer)
  /\ answers' = InsertAnswer(m.id, [call |-> m.call, state |-> state])
  /\ UNCHANGED <<questionID, questions, asked, settled, askerWorking, answererWorking>>

\* A method was started, or the call was queued on another answer or forwarded: it is
\* answered later, if at all.
HandleCallPending == /\ \E state \in {"running", "waiting"} : Accept(state)
                     /\ UNCHANGED <<toAsker, outcome>>

\* insertAnswer() gives null for an id in use, and handleCallMessage() throws;
\* otherwise the entry is in the table before the Registry is asked for the
\* method, and stays there when the method is unknown.
HandleCallRefused ==
  /\ Incoming
  /\ IF Head(toAnswerer).id \in DOMAIN answers
     THEN /\ toAnswerer' = Tail(toAnswerer)
          /\ answererWorking' = FALSE
          /\ UNCHANGED <<questionID, questions, answers, toAsker, asked, settled, askerWorking>>
     ELSE /\ Accept("unimplemented")
          /\ toAsker' = Append(toAsker, UnimplementedMessage(Head(toAnswerer).id))
  /\ UNCHANGED outcome

\* A Bootstrap, or a Call that cannot be routed, is settled by its handler.
HandleCallSettled(o) ==
  /\ Accept("done")
  /\ toAsker' = Append(toAsker, ReturnMessage(Head(toAnswerer).id, o))
  /\ outcome' = [outcome EXCEPT ![Head(toAnswerer).call] = o]

Settleable(e) == e.state \in {"running", "waiting"}

\* AnswerEntry.fulfill() or reject(): at most once, and one Return.
Answer(id, o) ==
  /\ Settleable(answers[id])
  /\ answers' = [answers EXCEPT ![id].state = "done"]
  /\ outcome' = [outcome EXCEPT ![answers[id].call] = o]
  /\ toAsker' = Append(toAsker, ReturnMessage(id, o))
  /\ UNCHANGED <<questionID, questions, toAnswerer, asked, settled, askerWorking, answererWorking>>

\* handleFinishMessage(): popAnswer() gives undefined, never null, for an id it
\* does not know, so the guard never throws; the access to resultCaps does.
HandleFinish ==
  LET m == Head(toAnswerer) IN
  /\ answererWorking /\ toAnswerer # <<>> /\ m.k = "finish"
  /\ toAnswerer' = Tail(toAnswerer)
  /\ answers' = PopAnswer(m.id)
  /\ answererWorking' = (m.id \in DOMAIN answers \/ ~m.releaseResultCaps)
  /\ UNCHANGED <<questionID, questions, toAsker, asked, outcome, settled, askerWorking>>

HandleCall == \/ HandleCallPending
              \/ HandleCallRefused
              \/ \E o \in Outcome : HandleCallSettled(o)

Next == \/ \E c \in Call : Ask(c)
        \/ HandleReturn
        \/ HandleUnimplemented
        \/ HandleCall
        \/ \E id \in DOMAIN answers, o \in Outcome : Answer(id, o)
        \/ HandleFinish

Spec == Init /\ [][Next]_vars

\* A message that was sent is handled, and a method that was started ends.  Nothing is
\* assumed of an entry that waits for another call: AnswerEntry.fulfill() may leave it
\* in a QueueClient that is never flushed, and the other call may be unimplemented.
MethodEnds(c) == \E id \in DOMAIN answers, o \in Outcome :
                   answers[id] = [call |-> c, state |-> "running"] /\ Answer(id, o)
Fairness == /\ WF_vars(HandleReturn)
            /\ WF_vars(HandleUnimplemented)
            /\ WF_vars(HandleCall)
            /\ WF_vars(HandleFinish)
            /\ \A c \in Call : WF_vars(MethodEnds(c))

FairSpec == Spec /\ Fairness

-----------------------------------------------------------------------------
(* Properties *)

Indices(s, k) == {j \in DOMAIN s : s[j].k = k}

\* No message in either direction ever meets a table that does not expect it:
\* a reused id never collides with the entry of the earlier call, and every
\* Return finds its question (the throws of handleReturnMessage,
\* handleCallMessage and handleFinishMessage).
NoProtocolError == askerWorking /\ answererWorking

\* The promise of a call is settled with what the method of that same call
\* decided, although its id may have been used by other calls before.
NoCrosstalk == \A c \in Call : settled[c] # NoOutcome => settled[c] = outcome[c]

\* IDGen and the table agree: the freed ids are exactly the null slots, each
\* freed once, so that no id is lost and none is handed out twice.
FreeIdsAreNullSlots ==
  /\ \A j, k \in DOMAIN questionID.free :
       j # k => questionID.free[j] # questionID.free[k]
  /\ {questionID.free[j] : j \in DOMAIN questionID.free}
       = {id \in DOMAIN questions : questions[id] = NoCall}

\* Nothing stays behind in either table: once every message was handled, an id is in
\* use at one end exactly if it is at the other, so that only the calls that the answering
\* vat has not settled (yet) keep a slot and an entry.
Quiescent == toAnswerer = <<>> /\ toAsker = <<>>
NothingLeftBehind ==
  Quiescent => /\ DOMAIN answers = {id \in DOMAIN questions : questions[id] # NoCall}
               /\ \A id \in DOMAIN answers : answers[id].state # "done"

\* Every call is settled in the end and stays so, but for those whose entry waits for
\* another call, or was refused: also a call that waited and then was answered.
Left(c) == \E id \in DOMAIN answers :
             answers[id].call = c /\ answers[id].state \in {"waiting", "unimplemented"}
SettledUnlessLeft == \A c \in Call : (c \in asked) ~> [](settled[c] # NoOutcome \/ Left(c))

-----------------------------------------------------------------------------
(* The inductive invariant behind NoProtocolError and NoCrosstalk *)

Returned(id) == \E j \in Indices(toAsker, "return") : toAsker[j].id = id
Finished(id) == \E j \in Indices(toAnswerer, "finish") : toAnswerer[j].id = id

\* A call waits in at most one slot, and only while its promise is unsettled.
SlotsInv ==
  /\ \A x, y \in DOMAIN questions : questions[x] = questions[y] /\ questions[x] # NoCall => x = y
  /\ \A x \in DOMAIN questions : questions[x] # NoCall =>
       questions[x] \in asked /\ settled[questions[x]] = NoOutcome
  /\ \A c \in Call : outcome[c] # NoOutcome => c \in asked

\* A Call in flight owns its slot; if its id still has an entry at the other
\* end, the Finish that drops the entry is ahead of it.
CallsInv ==
  \A j \in Indices(toAnswerer, "call") :
    LET m == toAnswerer[j] IN
    /\ m.id \in DOMAIN questions /\ questions[m.id] = m.call
    /\ outcome[m.call] = NoOutcome
    /\ \A k \in Indices(toAnswerer, "call") : toAnswerer[k].id = m.id => k = j
    /\ m.id \in DOMAIN answers =>
         \E i \in Indices(toAnswerer, "finish") : i < j /\ toAnswerer[i].id = m.id

\* An entry is either still waited for, or about to be dropped.
EntriesInv ==
  \A id \in DOMAIN answers :
    IF answers[id].state = "done"
    THEN Returned(id) \/ Finished(id)
    ELSE /\ id \in DOMAIN questions /\ questions[id] = answers[id].call
         /\ outcome[answers[id].call] = NoOutcome

\* A Return in flight carries what was decided for the call that waits for it.
ReturnsInv ==
  \A j \in Indices(toAsker, "return") :
    LET m == toAsker[j] IN
    /\ m.id \in DOMAIN answers /\ answers[m.id].state = "done"
    /\ m.id \in DOMAIN questions /\ questions[m.id] = answers[m.id].call
    /\ outcome[answers[m.id].call] = m.outcome
    /\ \A k \in Indices(toAsker, "return") : toAsker[k].id = m.id => k = j
    /\ ~Finished(m.id)

\* A Finish in flight names a settled entry, and is the only one to do so.
FinishesInv ==
  \A j \in Indices(toAnswerer, "finish") :
    LET m == toAnswerer[j] IN
    /\ m.id \in DOMAIN answers /\ answers[m.id].state = "done"
    /\ settled[answers[m.id].call] # NoOutcome
    /\ \A k \in Indices(toAnswerer, "finish") : toAnswerer[k].id = m.id => k = j

IInv == /\ TypeOK
        /\ NoProtocolError
        /\ NoCrosstalk
        /\ FreeIdsAreNullSlots
        /\ SlotsInv
        /\ CallsInv
        /\ EntriesInv
        /\ ReturnsInv
        /\ FinishesInv

\* What NothingLeftBehind rests on: a slot is in use for a Call on its way, or for an
\* entry that no Finish is about to drop.
Calling(id) == \E j \in Indices(toAnswerer, "call") : toAnswerer[j].id = id
UsedInv == \A id \in DOMAIN questions :
             questions[id] # NoCall => Calling(id) \/ (id \in DOMAIN answers /\ ~Finished(id))

-----------------------------------------------------------------------------
CL == INSTANCE CallLifecycle

\* The id protocol implements the life of a call.
LifecycleImplemented == CL!Spec
=============================================================================
