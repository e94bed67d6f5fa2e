------------------------------ MODULE RpcConn ------------------------------
(***************************************************************************)
(* The two ends of one RPC connection (src/rpc/conn.ts and the clients and *)
(* answers it creates).  Both vats run the same code: each has a table of  *)
(* the questions it asked, of the answers it owes, of the capabilities it  *)
(* exports and of those it imports, and talks to its peer over a transport *)
(* that keeps messages in order.  Applications make calls on the promise   *)
(* of an earlier call (a Pipeline) or on a capability they were passed,    *)
(* and server methods end at any time, in any order.                       *)
(*                                                                         *)
(* A handler of the code is one action here; only AnswerEntry.reject, that *)
(* rejects the calls queued on an answer recursively, is run step by step  *)
(* (RejectNext) while its vat does nothing else.                           *)
(***************************************************************************)
EXTENDS Integers, Sequences, FiniteSets

CONSTANTS Vat,            \* the two ends
          Host,           \* the vats whose application calls initMain()
          MaxCalls,       \* bound: calls the application of a vat makes
          CallQueueSize,  \* callQueueSize: calls one answer can queue
          Passing,        \* what a call may pass: "nothing", "object", "held"
          Returning,      \* what a method may end with: "nothing", "object", "param", "exception"
          Method,         \* "known" to the callee's Registry, or "unknown"
          Dropping        \* the vats whose garbage collector finalizes references

ASSUME VatAssumption == /\ IsFiniteSet(Vat) /\ Cardinality(Vat) = 2
                        /\ Host \subseteq Vat /\ Dropping \subseteq Vat
ASSUME BoundsAssumption == /\ MaxCalls \in [Vat -> Nat]
                           /\ CallQueueSize \in Nat
ASSUME InputAssumption == /\ Passing \subseteq {"nothing", "object", "held"}
                          /\ Returning \subseteq {"nothing", "object", "param", "exception"}
                          /\ Method \subseteq {"known", "unknown"}

Peer(v) == CHOOSE w \in Vat : w # v

VARIABLES
  questionID,  \* questionID[v]: IDGen of the questions of v
  questions,   \* questions[v]: id -> which of calls[v] waits there, or 0 (null)
  calls,       \* calls[v]: the Answers v's application and v's answers hold, in the order made
  answers,     \* answers[v]: id -> AnswerEntry
  exports,     \* exports[v]: id -> Export
  imports,     \* imports[v]: id -> ImportEntry
  main,        \* main[v]: initMain() was called
  working,     \* working[v]: the work() loop of v has not thrown
  rejecting,   \* rejecting[v]: answers whose reject() is still to run, innermost first
  net,         \* net[v]: messages on their way to v, oldest first
  delivered    \* every method started, in order (history)

tables == <<questionID, questions, answers, exports, imports>>
vars == <<questionID, questions, calls, answers, exports, imports, main, working,
          rejecting, net, delivered>>

-----------------------------------------------------------------------------
(* Capabilities.  A client is what a capTable holds: nothing, an           *)
(* ErrorClient, a Server of this vat, a Ref to an import, or a Ref to one  *)
(* of this vat's own exports that came back (each Ref is a new object:     *)
(* `ref' tells them apart).                                                *)

Main == 0        \* the server given to initMain()
Object == 0 .. 1 \* the servers of a vat

NullClient == [k |-> "null", id |-> 0, ref |-> 0]
ErrorClient(r) == [k |-> "error", id |-> 0, ref |-> r]
Server(o) == [k |-> "server", id |-> o, ref |-> 0]
Import(id) == [k |-> "import", id |-> id, ref |-> 0]
OwnRef(id, r) == [k |-> "ownRef", id |-> id, ref |-> r]
QueueClient == [k |-> "queue", id |-> 0, ref |-> 0]   \* stands for queueCall()

Client == [k : {"null", "error", "server", "import", "ownRef"}, id : Nat, ref : Int]
Descriptor == [k : {"none", "senderHosted", "receiverHosted"}, id : Nat]
Target == [k : {"importedCap", "promisedAnswer"}, id : Nat]

Message == [k : {"bootstrap"}, id : Nat, n : Nat]
           \cup [k : {"call"}, id : Nat, n : Nat, target : Target, cap : Descriptor, method : Method]
           \cup [k : {"return"}, id : Nat, n : Nat, ok : BOOLEAN, cap : Descriptor]
           \cup [k : {"finish"}, id : Nat, releaseResultCaps : BOOLEAN]
           \cup [k : {"unimplemented"}, id : Nat, n : Nat]

NoId == -1
Origin == [k : {"none", "call", "param", "answer"}, n : Nat]
NoOrigin == [k |-> "none", n |-> 0]
Callee == [k : {"none", "server", "question", "answer"}, id : Nat]
NoCallee == [k |-> "none", id |-> 0]

\* What a vat holds for a call it made: its question id (NoId if the call never
\* left the vat), the reference it was made on, the way it took, and the result.
CallRecord == [id : Nat \cup {NoId}, on : Origin,
               route : {"bootstrap", "promised", "imported", "local", "error", "forward"},
               state : {"waiting", "results", "exception", "dropped"}, cap : Client]

\* AnswerEntry, with the call it answers (n), the queue that fulfill() left in a
\* QueueClient (stuck), what it waits for (callee: a method, the question it was forwarded as,
\* or the call whose answer it is queued on) and the capability passed.
AnswerRecord == [n : Nat, done : BOOLEAN, ok : BOOLEAN, cap : Client, queue : Seq(Nat),
                 stuck : Seq(Nat), callee : Callee, param : Client]

Export == [client : Client, object : Object \cup {NoId}, wireRefs : Nat]
ImportEntry == [refs : Nat, live : Nat]   \* live: RefCount.refs

TypeOK ==
  /\ questionID \in [Vat -> [i : Nat, free : Seq(Nat)]]
  /\ \A v \in Vat :
       /\ questions[v] \in [0 .. questionID[v].i - 1 -> Nat]
       /\ calls[v] \in Seq(CallRecord)
       /\ DOMAIN answers[v] \subseteq Nat
       /\ \A id \in DOMAIN answers[v] : answers[v][id] \in AnswerRecord
       /\ DOMAIN exports[v] \subseteq Nat
       /\ \A id \in DOMAIN exports[v] : exports[v][id] \in Export
       /\ DOMAIN imports[v] \subseteq Nat
       /\ \A id \in DOMAIN imports[v] : imports[v][id] \in ImportEntry
       /\ rejecting[v] \in Seq(Nat)
       /\ net[v] \in Seq(Message)
  /\ main \in [Vat -> BOOLEAN]
  /\ working \in [Vat -> BOOLEAN]
  /\ delivered \in Seq([at : Vat, object : Object, from : Vat, n : Nat])

Empty == [id \in {} |-> 0]

Init == /\ questionID = [v \in Vat |-> [i |-> 0, free |-> <<>>]]
        /\ questions = [v \in Vat |-> Empty]
        /\ calls = [v \in Vat |-> <<>>]
        /\ answers = [v \in Vat |-> Empty]
        /\ exports = [v \in Vat |-> Empty]
        /\ imports = [v \in Vat |-> Empty]
        /\ main = [v \in Vat |-> FALSE]
        /\ working = [v \in Vat |-> TRUE]
        /\ rejecting = [v \in Vat |-> <<>>]
        /\ net = [v \in Vat |-> <<>>]
        /\ delivered = <<>>

Put(f, id, x) == [y \in DOMAIN f \cup {id} |-> IF y = id THEN x ELSE f[y]]
Remove(f, id) == [y \in DOMAIN f \ {id} |-> f[y]]

-----------------------------------------------------------------------------
(* Broken forms of some of the definitions below, for the mutant runs. *)

\* IDGen.remove() of the id below, or twice.
IdRemoveOffByOne(g, id) == [g EXCEPT !.free = Append(@, id - 1)]
IdRemoveTwice(g, id) == [g EXCEPT !.free = @ \o <<id, id>>]

\* popQuestion() that does not clear the slot.
PopQuestionKeeps(v, id) == questions

\* isSameClient() that takes every client for the same one.
ExportIdsAny(v, c) == DOMAIN exports[v]

\* addImport() that forgets to count the second receipt, or its Ref.
AddImportOnce(v, id) ==
  IF id \in DOMAIN imports[v] THEN imports[v] ELSE Put(imports[v], id, [refs |-> 1, live |-> 1])
AddImportUncounted(v, id) ==
  IF id \in DOMAIN imports[v] THEN [imports[v] EXCEPT ![id].refs = @ + 1]
  ELSE Put(imports[v], id, [refs |-> 1, live |-> 1])

\* An exception that is returned as results.
ReturnMessageOk(id, n, ok, d) == [k |-> "return", id |-> id, n |-> n, ok |-> TRUE, cap |-> d]

\* A transport that overtakes.
SendFirst(v, ms) == net' = [net EXCEPT ![Peer(v)] = ms \o @]

\* emptyQueue() that leaves the queue as it was.
FulfilledKeepsQueue(a, c) ==
  [a EXCEPT !.done = TRUE, !.ok = TRUE, !.cap = c,
            !.stuck = IF c.k = "null" THEN <<>> ELSE a.queue]

\* reject() that does not reach the calls queued on a queued call.
RejectShallow(v, a) == Tail(rejecting[v])

\* joinAnswer() without its catch.
JoinableOk(q) == q.state = "results"

-----------------------------------------------------------------------------
(* Exports and imports *)

\* The server of v that calls on a client of v end up at, NoId if none.
ObjectOf(v, c) == CASE c.k = "server" -> c.id
                    [] c.k = "ownRef" -> exports[v][c.id].object
                    [] OTHER -> NoId

\* addExport(): an export of the very same client gets one more wire reference.
ExportIds(v, c) == {id \in DOMAIN exports[v] : exports[v][id].client = c}
ExportId(v, c) == IF ExportIds(v, c) = {} THEN Cardinality(DOMAIN exports[v])
                  ELSE CHOOSE id \in ExportIds(v, c) : \A x \in ExportIds(v, c) : id <= x
AddExport(v, c) ==
  LET id == ExportId(v, c) IN
  IF id \in DOMAIN exports[v]
  THEN [exports[v] EXCEPT ![id].wireRefs = @ + 1]
  ELSE Put(exports[v], id, [client |-> c, object |-> ObjectOf(v, c), wireRefs |-> 1])

\* descriptorForClient() and what it leaves in the export table.
DescriptorFor(v, c) == CASE c.k = "null" -> [k |-> "none", id |-> 0]
                         [] c.k = "import" -> [k |-> "receiverHosted", id |-> c.id]
                         [] OTHER -> [k |-> "senderHosted", id |-> ExportId(v, c)]
Described(v, c) == IF c.k \in {"null", "import"} THEN exports[v] ELSE AddExport(v, c)

\* addImport(): an entry whose last Ref was finalized stays, with no reference
\* that could be counted up.
AddImport(v, id) ==
  IF id \in DOMAIN imports[v]
  THEN [imports[v] EXCEPT ![id] = [refs |-> @.refs + 1,
                                   live |-> IF @.live > 0 THEN @.live + 1 ELSE 0]]
  ELSE Put(imports[v], id, [refs |-> 1, live |-> 1])

\* populateMessageCapTable() on the one descriptor of a message; r names the
\* Refs it creates.
Populated(v, d) == IF d.k = "senderHosted" THEN AddImport(v, d.id) ELSE imports[v]
Populates(v, d) == d.k = "receiverHosted" => d.id \in DOMAIN exports[v]
ClientFor(v, d, r) ==
  CASE d.k = "none" -> NullClient
    [] d.k = "receiverHosted" -> OwnRef(d.id, r)
    [] d.k = "senderHosted" -> IF d.id \in DOMAIN imports[v] /\ imports[v][d.id].live = 0
                               THEN ErrorClient(r) ELSE Import(d.id)

-----------------------------------------------------------------------------
(* Questions *)

IdNext(g) == IF g.free = <<>> THEN g.i ELSE g.free[Len(g.free)]
IdTake(g) == IF g.free = <<>> THEN [g EXCEPT !.i = @ + 1]
                              ELSE [g EXCEPT !.free = SubSeq(@, 1, Len(@) - 1)]
IdRemove(g, id) == [g EXCEPT !.free = Append(@, id)]

\* newQuestion() for a call made on `on' by way of `route'.
NewQuestion(v, on, route) ==
  LET id == IdNext(questionID[v]) IN
  /\ questionID' = [questionID EXCEPT ![v] = IdTake(@)]
  /\ questions' = [questions EXCEPT ![v] = Put(@, id, Len(calls[v]) + 1)]
  /\ calls' = [calls EXCEPT ![v] = Append(@, [id |-> id, on |-> on, route |-> route,
                                             state |-> "waiting", cap |-> NullClient])]

CallMessage(v, target, method, c) ==
  [k |-> "call", id |-> IdNext(questionID[v]), n |-> Len(calls[v]) + 1,
   target |-> target, cap |-> DescriptorFor(v, c), method |-> method]

FindQuestion(v, id) == IF id \in DOMAIN questions[v] THEN questions[v][id] ELSE 0
PopQuestion(v, id) == [questions EXCEPT ![v][id] = 0]

Send(v, ms) == net' = [net EXCEPT ![Peer(v)] = @ \o ms]
Reply(v, ms) == net' = [net EXCEPT ![v] = Tail(@), ![Peer(v)] = @ \o ms]
Handles(v, k) == /\ working[v] /\ rejecting[v] = <<>>
                 /\ net[v] # <<>> /\ Head(net[v]).k = k

ReturnMessage(id, n, ok, d) == [k |-> "return", id |-> id, n |-> n, ok |-> ok, cap |-> d]
NoDescriptor == [k |-> "none", id |-> 0]

-----------------------------------------------------------------------------
(* The application *)

Idle(v) == rejecting[v] = <<>>

InitMain(v) ==
  /\ Idle(v) /\ v \in Host /\ ~main[v]
  /\ main' = [main EXCEPT ![v] = TRUE]
  /\ exports' = [exports EXCEPT ![v] = AddExport(v, Server(Main))]
  /\ UNCHANGED <<questionID, questions, calls, answers, imports, working, rejecting, net, delivered>>

MadeByApp(v) == Cardinality({n \in DOMAIN calls[v] : calls[v][n].route # "forward"})
MayCall(v) == Idle(v) /\ MadeByApp(v) < MaxCalls[v]

Bootstrap(v) ==
  /\ MayCall(v)
  /\ NewQuestion(v, NoOrigin, "bootstrap")
  /\ Send(v, <<[k |-> "bootstrap", id |-> IdNext(questionID[v]), n |-> Len(calls[v]) + 1]>>)
  /\ UNCHANGED <<answers, exports, imports, main, working, rejecting, delivered>>

\* What an application may put in the parameters: a server of its own, or a
\* capability it got as a result.
HeldByApp(v) == {calls[v][n].cap : n \in {m \in DOMAIN calls[v] :
                   calls[v][m].state = "results" /\ calls[v][m].cap.k # "null"}}
Args(v) == (IF "nothing" \in Passing THEN {NullClient} ELSE {})
           \cup (IF "object" \in Passing THEN {Server(1)} ELSE {})
           \cup (IF "held" \in Passing THEN HeldByApp(v) ELSE {})

\* Broken: the Call is sent once more, under the id that follows.
AskTwice(v, on, route, target, method, arg) ==
  LET m == CallMessage(v, target, method, arg) IN
  /\ NewQuestion(v, on, route)
  /\ Send(v, <<m, [m EXCEPT !.id = @ + 1]>>)
  /\ exports' = [exports EXCEPT ![v] = Described(v, arg)]
  /\ UNCHANGED <<answers, imports, main, working, rejecting, delivered>>

\* A call over the wire: ImportClient.call(), or Question.pipelineCall() on a
\* question that is still in the table.
Ask(v, on, route, target, method, arg) ==
  /\ NewQuestion(v, on, route)
  /\ Send(v, <<CallMessage(v, target, method, arg)>>)
  /\ exports' = [exports EXCEPT ![v] = Described(v, arg)]
  /\ UNCHANGED <<answers, imports, main, working, rejecting, delivered>>

\* A call that stays in the vat: Server.call() on a server of its own, or an
\* ErrorAnswer from a client that has nothing to call.
CallHere(v, on, c) ==
  LET o == ObjectOf(v, c)
      here(route, state) == [id |-> NoId, on |-> on, route |-> route,
                             state |-> state, cap |-> NullClient]
  IN
  /\ calls' = [calls EXCEPT ![v] = Append(@, IF o = NoId THEN here("error", "exception")
                                                         ELSE here("local", "waiting"))]
  /\ delivered' = IF o = NoId THEN delivered
                  ELSE Append(delivered, [at |-> v, object |-> o, from |-> v, n |-> Len(calls[v]) + 1])
  /\ UNCHANGED <<tables, main, working, rejecting, net>>

CallOn(v, on, c, method, arg) ==
  IF c.k = "import"
  THEN Ask(v, on, "imported", [k |-> "importedCap", id |-> c.id], method, arg)
  ELSE CallHere(v, on, c)

\* A call on the promise of the m-th call: over the wire while that question is
\* in the table, on what it resolved to afterwards.
PipelineCall(v, m, method, arg) ==
  LET q == calls[v][m]
      on == [k |-> "call", n |-> m]
  IN
  /\ MayCall(v)
  /\ q.id # NoId /\ q.route # "forward" /\ q.state # "dropped"
  /\ IF FindQuestion(v, q.id) = m
     THEN Ask(v, on, "promised", [k |-> "promisedAnswer", id |-> q.id], method, arg)
     ELSE /\ q.state # "waiting"   \* throws "question popped but not done"
          /\ CallOn(v, on, IF q.state = "exception" THEN ErrorClient(0) ELSE q.cap, method, arg)

\* A server method calls the capability it was passed.
CallParam(v, id, method, arg) ==
  LET a == answers[v][id] IN
  /\ MayCall(v)
  /\ a.callee.k = "server" /\ ~a.done /\ a.param.k # "null"
  /\ CallOn(v, [k |-> "param", n |-> a.n], a.param, method, arg)

\* A method of this vat that its own application called ends.
LocalFinish(v, n, ok) ==
  /\ Idle(v)
  /\ calls[v][n].route = "local" /\ calls[v][n].state = "waiting"
  /\ calls' = [calls EXCEPT ![v][n].state = IF ok THEN "results" ELSE "exception"]
  /\ UNCHANGED <<tables, main, working, rejecting, net, delivered>>

\* The last message that held the capability table of a result is collected:
\* the Ref in it is finalized, the import entry is not removed.
Drop(v, n) ==
  LET c == calls[v][n] IN
  /\ Idle(v) /\ v \in Dropping
  /\ c.state = "results" /\ c.route # "forward" /\ c.cap.k = "import"
  /\ calls' = [calls EXCEPT ![v][n].state = "dropped", ![v][n].cap = NullClient]
  /\ imports' = [imports EXCEPT ![v][c.cap.id].live = @ - 1]
  /\ UNCHANGED <<questionID, questions, answers, exports, main, working, rejecting, net, delivered>>

-----------------------------------------------------------------------------
(* Answers *)

\* emptyQueue(), and the QueueClient made of what it returns.
Fulfilled(a, c) == [a EXCEPT !.done = TRUE, !.ok = TRUE, !.cap = c, !.queue = <<>>,
                             !.stuck = IF c.k = "null" THEN <<>> ELSE a.queue]

\* AnswerEntry.fulfill() with a result that holds capability c: the Return goes
\* out, then the queued calls are moved to a QueueClient in the result, or
\* rejected one by one if the result has no capability to call.
Fulfill(v, id, c) ==
  LET a == answers[v][id] IN
  /\ answers' = [answers EXCEPT ![v][id] = Fulfilled(a, c)]
  /\ rejecting' = [rejecting EXCEPT ![v] = IF c.k = "null" THEN a.queue ELSE <<>>]
  /\ exports' = [exports EXCEPT ![v] = Described(v, c)]
  /\ Send(v, <<ReturnMessage(id, a.n, TRUE, DescriptorFor(v, c))>>)

\* AnswerEntry.reject(): the Return goes out, then the queued calls are rejected.
Reject(v, id) ==
  LET a == answers[v][id] IN
  /\ answers' = [answers EXCEPT ![v][id] = [a EXCEPT !.done = TRUE, !.queue = <<>>]]
  /\ Send(v, <<ReturnMessage(id, a.n, FALSE, NoDescriptor)>>)

\* The implementation of a method settles its promise; joinAnswer() passes it on.
Results(a) == (IF "nothing" \in Returning THEN {NullClient} ELSE {})
              \cup (IF "object" \in Returning THEN {Server(1)} ELSE {})
              \cup (IF "param" \in Returning THEN {a.param} ELSE {})

Serving(v, id) == Idle(v) /\ answers[v][id].callee.k = "server" /\ ~answers[v][id].done

ServerReturns(v, id) ==
  /\ Serving(v, id)
  /\ \E c \in Results(answers[v][id]) : Fulfill(v, id, c)
  /\ UNCHANGED <<questionID, questions, calls, imports, main, working, delivered>>

ServerThrows(v, id) ==
  /\ Serving(v, id) /\ "exception" \in Returning
  /\ Reject(v, id)
  /\ rejecting' = [rejecting EXCEPT ![v] = answers[v][id].queue]
  /\ UNCHANGED <<questionID, questions, calls, exports, imports, main, working, delivered>>

Joinable(q) == q.state \in {"results", "exception"}

\* joinAnswer() on a call this vat forwarded: the answer is settled as the
\* question was.
JoinSettles(v, id) ==
  LET a == answers[v][id]
      q == calls[v][a.callee.id]
  IN
  /\ Idle(v) /\ ~a.done
  /\ a.callee.k = "question" /\ Joinable(q)
  /\ IF q.state = "results"
     THEN Fulfill(v, id, q.cap)
     ELSE /\ Reject(v, id)
          /\ rejecting' = [rejecting EXCEPT ![v] = a.queue]
          /\ UNCHANGED exports
  /\ UNCHANGED <<questionID, questions, calls, imports, main, working, delivered>>

RejectBelow(v, a) == a.queue \o Tail(rejecting[v])

\* The recursion of reject() over the queued calls, depth first; an answer that
\* is settled already only raises an error that is kept for the end.
RejectNext(v) ==
  LET id == Head(rejecting[v])
      a == answers[v][id]
  IN
  /\ rejecting[v] # <<>>
  /\ IF a.done
     THEN rejecting' = [rejecting EXCEPT ![v] = Tail(@)] /\ UNCHANGED <<answers, net>>
     ELSE Reject(v, id) /\ rejecting' = [rejecting EXCEPT ![v] = RejectBelow(v, a)]
  /\ UNCHANGED <<questionID, questions, calls, exports, imports, main, working, delivered>>

-----------------------------------------------------------------------------
(* Message handlers *)

NewAnswer(m, callee, param) ==
  [n |-> m.n, done |-> FALSE, ok |-> FALSE, cap |-> NullClient, queue |-> <<>>,
   stuck |-> <<>>, callee |-> callee, param |-> param]
DoneAnswer(a, ok, c) == [a EXCEPT !.done = TRUE, !.ok = ok, !.cap = c]

\* handleBootstrapMessage(): the result is an interface pointer that was never
\* written, so that the message it is copied into gets no capability.  An id in
\* use is answered with an exception, an entry of its own is not made.
HandleBootstrap(v) ==
  LET m == Head(net[v])
      a == NewAnswer(m, NoCallee, NullClient)
  IN
  /\ Handles(v, "bootstrap")
  /\ answers' = IF m.id \in DOMAIN answers[v] THEN answers
                ELSE [answers EXCEPT ![v] = Put(@, m.id,
                        DoneAnswer(a, main[v], IF main[v] THEN Server(Main) ELSE NullClient))]
  /\ Reply(v, <<ReturnMessage(m.id, m.n, main[v] /\ m.id \notin DOMAIN answers[v], NoDescriptor)>>)
  /\ UNCHANGED <<questionID, questions, calls, exports, imports, main, working, rejecting, delivered>>

\* clientFromResolution() on an answer that is done.  Its result holds a
\* QueueClient if calls were queued when it was fulfilled: that client's Queue
\* is full from the start, so it answers every call with an ErrorAnswer.
Resolution(a) == IF ~a.ok \/ a.stuck # <<>> THEN ErrorClient(0) ELSE a.cap

\* routeCallMessage(): the client a Call goes to.  An ErrorClient stands for
\* each way the Call can fail there: routeCallMessage throws, or joinAnswer
\* throws on an ErrorAnswer; the new answer is rejected in both.
Route(v, m) ==
  LET t == m.target IN
  IF t.k = "importedCap"
  THEN IF t.id \in DOMAIN exports[v] THEN exports[v][t.id].client ELSE ErrorClient(0)
  ELSE IF t.id = m.id \/ t.id \notin DOMAIN answers[v] THEN ErrorClient(0)
  ELSE IF answers[v][t.id].done THEN Resolution(answers[v][t.id])
  ELSE IF Len(answers[v][t.id].queue) < CallQueueSize THEN QueueClient ELSE ErrorClient(0)

\* A Ref to an export of an ErrorClient fails like the ErrorClient itself.
Kind(v, c) == IF c.k = "ownRef" /\ ObjectOf(v, c) = NoId THEN "error" ELSE c.k

\* The conditions under which handleCallMessage gets as far as the Registry.
Accepts(v, m) == Populates(v, m.cap) /\ m.id \notin DOMAIN answers[v]
Param(v, m) == ClientFor(v, m.cap, m.n)

\* The Call gets no further than the answer table.  A capability that cannot be
\* found is noticed before the entry is made; an id in use makes the handler
\* throw; a method the Registry does not know leaves the entry behind.
HandleCallRefused(v) ==
  LET m == Head(net[v])
      unimplemented == <<[k |-> "unimplemented", id |-> m.id, n |-> m.n]>>
  IN
  /\ Handles(v, "call") /\ ~(Accepts(v, m) /\ m.method = "known")
  /\ imports' = [imports EXCEPT ![v] = Populated(v, m.cap)]
  /\ IF ~Populates(v, m.cap)
     THEN Reply(v, unimplemented) /\ UNCHANGED <<answers, working>>
     ELSE IF m.id \in DOMAIN answers[v]
     THEN Reply(v, <<>>) /\ working' = [working EXCEPT ![v] = FALSE] /\ UNCHANGED answers
     ELSE /\ Reply(v, unimplemented)
          /\ answers' = [answers EXCEPT ![v] = Put(@, m.id, NewAnswer(m, NoCallee, Param(v, m)))]
          /\ UNCHANGED working
  /\ UNCHANGED <<questionID, questions, calls, exports, main, rejecting, delivered>>

\* A Call that was routed to a client of the given kinds.
Routed(v, m, kinds) == /\ Handles(v, "call") /\ Accepts(v, m) /\ m.method = "known"
                       /\ Kind(v, Route(v, m)) \in kinds
                       /\ imports' = [imports EXCEPT ![v] = Populated(v, m.cap)]

\* The Call fails at once.
HandleCallRejected(v) ==
  LET m == Head(net[v]) IN
  /\ Routed(v, m, {"null", "error"})
  /\ answers' = [answers EXCEPT ![v] = Put(@, m.id,
                   DoneAnswer(NewAnswer(m, NoCallee, Param(v, m)), FALSE, NullClient))]
  /\ Reply(v, <<ReturnMessage(m.id, m.n, FALSE, NoDescriptor)>>)
  /\ UNCHANGED <<questionID, questions, calls, exports, main, working, rejecting, delivered>>

\* The Call reaches a server of this vat: Server.call() starts the method.
HandleCallDelivered(v) ==
  LET m == Head(net[v])
      o == ObjectOf(v, Route(v, m))
  IN
  /\ Routed(v, m, {"server", "ownRef"})
  /\ answers' = [answers EXCEPT ![v] = Put(@, m.id,
                   NewAnswer(m, [k |-> "server", id |-> o], Param(v, m)))]
  /\ delivered' = Append(delivered, [at |-> v, object |-> o, from |-> Peer(v), n |-> m.n])
  /\ Reply(v, <<>>)
  /\ UNCHANGED <<questionID, questions, calls, exports, main, working, rejecting>>

\* The Call is on a capability that the peer hosts: it goes back over the wire
\* as a question of this vat, and the answer is joined to that question.
HandleCallForwarded(v) ==
  LET m == Head(net[v])
      c == Route(v, m)
  IN
  /\ Routed(v, m, {"import"})
  /\ answers' = [answers EXCEPT ![v] = Put(@, m.id,
                   NewAnswer(m, [k |-> "question", id |-> Len(calls[v]) + 1], Param(v, m)))]
  /\ NewQuestion(v, [k |-> "answer", n |-> m.n], "forward")
  /\ exports' = [exports EXCEPT ![v] = Described(v, Param(v, m))]
  /\ Reply(v, <<CallMessage(v, [k |-> "importedCap", id |-> c.id], m.method, Param(v, m))>>)
  /\ UNCHANGED <<main, working, rejecting, delivered>>

\* AnswerEntry.queueCall(): the Call waits in the queue of an answer that is not done.
QueueCall(A, t, id) == [A EXCEPT ![t].queue = Append(@, id)]
HandleCallQueued(v) ==
  LET m == Head(net[v]) IN
  /\ Routed(v, m, {"queue"})
  /\ answers' = [answers EXCEPT ![v] =
                   Put(QueueCall(@, m.target.id, m.id),
                       m.id, NewAnswer(m, [k |-> "answer", id |-> answers[v][m.target.id].n], Param(v, m)))]
  /\ Reply(v, <<>>)
  /\ UNCHANGED <<questionID, questions, calls, exports, main, working, rejecting, delivered>>

\* handleReturnMessage(): the question is popped before the results are read,
\* and the Finish is the last thing the handler does.
HandleReturn(v) ==
  LET m == Head(net[v])
      n == FindQuestion(v, m.id)
      release == ~m.ok
  IN
  /\ Handles(v, "return")
  /\ IF n = 0
     THEN /\ working' = [working EXCEPT ![v] = FALSE]
          /\ Reply(v, <<>>)
          /\ UNCHANGED <<questionID, questions, calls, imports>>
     ELSE /\ questions' = PopQuestion(v, m.id)
          /\ questionID' = [questionID EXCEPT ![v] = IdRemove(@, m.id)]
          /\ imports' = [imports EXCEPT ![v] = Populated(v, m.cap)]
          /\ working' = [working EXCEPT ![v] = Populates(v, m.cap)]
          /\ IF Populates(v, m.cap)
             THEN /\ calls' = [calls EXCEPT ![v][n].state = IF m.ok THEN "results" ELSE "exception",
                                            ![v][n].cap = ClientFor(v, m.cap, -n)]
                  /\ Reply(v, <<[k |-> "finish", id |-> m.id, releaseResultCaps |-> release]>>)
             ELSE Reply(v, <<>>) /\ UNCHANGED calls
  /\ UNCHANGED <<answers, exports, main, rejecting, delivered>>

\* handleFinishMessage(): resultCaps is never filled, so no export is released.
HandleFinish(v) ==
  LET m == Head(net[v]) IN
  /\ Handles(v, "finish")
  /\ answers' = [answers EXCEPT ![v] = Remove(@, m.id)]
  /\ working' = [working EXCEPT ![v] = m.id \in DOMAIN answers[v] \/ ~m.releaseResultCaps]
  /\ Reply(v, <<>>)
  /\ UNCHANGED <<questionID, questions, calls, exports, imports, main, rejecting, delivered>>

HandleUnimplemented(v) ==
  /\ Handles(v, "unimplemented")
  /\ Reply(v, <<>>)
  /\ UNCHANGED <<tables, calls, main, working, rejecting, delivered>>

HandleMessage(v) == \/ HandleBootstrap(v)
                    \/ HandleCallRefused(v)
                    \/ HandleCallRejected(v)
                    \/ HandleCallDelivered(v)
                    \/ HandleCallForwarded(v)
                    \/ HandleCallQueued(v)
                    \/ HandleReturn(v)
                    \/ HandleFinish(v)
                    \/ HandleUnimplemented(v)

AppCall(v) == \/ Bootstrap(v)
              \/ \E method \in Method, arg \in Args(v) :
                   \/ \E m \in DOMAIN calls[v] : PipelineCall(v, m, method, arg)
                   \/ \E id \in DOMAIN answers[v] : CallParam(v, id, method, arg)

ServerEnds(v, id) == id \in DOMAIN answers[v] /\ (ServerReturns(v, id) \/ ServerThrows(v, id))
JoinEnds(v, id) == id \in DOMAIN answers[v] /\ JoinSettles(v, id)
LocalEnds(v, n) == n \in DOMAIN calls[v] /\ \E ok \in BOOLEAN : LocalFinish(v, n, ok)

\* An upper bound of all ids and of all calls a vat can make within the bounds.
CallBound == LET w == CHOOSE w \in Vat : TRUE IN MaxCalls[w] + MaxCalls[Peer(w)]
Ids == 0 .. CallBound

Next == \E v \in Vat : \/ InitMain(v)
                       \/ AppCall(v)
                       \/ \E n \in DOMAIN calls[v] : Drop(v, n)
                       \/ RejectNext(v)
                       \/ \E id \in Ids : ServerEnds(v, id) \/ JoinEnds(v, id)
                       \/ \E n \in Ids : LocalEnds(v, n)
                       \/ HandleMessage(v)

Spec == Init /\ [][Next]_vars

\* Messages are handled in turn, server methods end, promise callbacks run.
\* Nothing obliges an application to make a call.
Fairness == \A v \in Vat : /\ WF_vars(HandleMessage(v))
                           /\ WF_vars(RejectNext(v))
                           /\ \A id \in Ids : /\ WF_vars(ServerEnds(v, id))
                                              /\ WF_vars(JoinEnds(v, id))
                           /\ \A n \in Ids : WF_vars(LocalEnds(v, n))

FairSpec == Spec /\ Fairness

-----------------------------------------------------------------------------
(* Properties *)

\* No handler throws: each Return finds its question, each Call a free answer
\* id, each Finish its answer, each descriptor its table entry.
NoProtocolError == \A v \in Vat : working[v]

\* The methods started for call n of vat v: by the Call itself, or by the Call
\* that the peer forwarded it as.
RunsOf(v, n) ==
  {i \in DOMAIN delivered :
     LET d == delivered[i] IN
     \/ d.from = v /\ d.n = n
     \/ d.from = Peer(v) /\ calls[d.from][d.n].on = [k |-> "answer", n |-> n]}

\* However a call travels (over the wire, queued, forwarded back or inside the
\* vat), its method is started at most once, and was started if the caller got
\* results.
RunOnce ==
  \A v \in Vat : \A n \in DOMAIN calls[v] :
    /\ Cardinality(RunsOf(v, n)) <= 1
    /\ calls[v][n].state = "results" /\ calls[v][n].route # "bootstrap"
         => RunsOf(v, n) # {}

\* What a client designates: a server at one of the two vats.
Designated(v, c) ==
  IF c.k = "import" THEN <<Peer(v), exports[Peer(v)][c.id].object>>
                    ELSE <<v, ObjectOf(v, c)>>

\* A call on the promise of an earlier call reaches the server that the
\* capability in the result of that call designates, whether it was sent before
\* or after the result was known, and whichever vat hosts the server.  The
\* ErrorClient that a dropped import comes back as designates none
\* (ReceivedIsUsable).
ReachesDesignated ==
  \A v \in Vat : \A n \in DOMAIN calls[v] :
    LET q == calls[v][calls[v][n].on.n] IN
    /\ calls[v][n].on.k = "call" /\ q.route # "bootstrap"
    /\ q.state = "results" /\ q.cap.k # "error"
    => \A i \in RunsOf(v, n) :
         <<delivered[i].at, delivered[i].object>> = Designated(v, q.cap)

\* Two calls made on one reference that took the same way are started in the
\* order they were made.
Started(v, n) == CHOOSE i \in RunsOf(v, n) : TRUE
OrderedOnOneRoute ==
  \A v \in Vat : \A n1, n2 \in DOMAIN calls[v] :
    /\ n1 < n2 /\ calls[v][n1].on = calls[v][n2].on /\ calls[v][n1].on # NoOrigin
    /\ calls[v][n1].route = calls[v][n2].route
    /\ RunsOf(v, n1) # {} /\ RunsOf(v, n2) # {}
    => Started(v, n1) < Started(v, n2)

\* The exporter's count of wire references is what the importer counted plus
\* what is still on its way; initMain() holds one more.  Nothing is released.
InFlight(v, id) == {j \in DOMAIN net[Peer(v)] :
                      /\ net[Peer(v)][j].k \in {"call", "return"}
                      /\ net[Peer(v)][j].cap = [k |-> "senderHosted", id |-> id]}
Accounted(v) ==
  \A id \in DOMAIN exports[v] :
    exports[v][id].wireRefs =
      (IF main[v] /\ exports[v][id].client = Server(Main) THEN 1 ELSE 0)
      + (IF id \in DOMAIN imports[Peer(v)] THEN imports[Peer(v)][id].refs ELSE 0)
      + Cardinality(InFlight(v, id))
ExportAccounting ==
  \A v \in Vat : DOMAIN imports[Peer(v)] \subseteq DOMAIN exports[v] /\ Accounted(v)

\* A reference to an import that the application holds is counted: the import
\* client is not closed under it.
HeldImports(v, id) == {n \in DOMAIN calls[v] : calls[v][n].cap = Import(id)}
Held(v) ==
  \A id \in DOMAIN imports[v] : imports[v][id].live >= Cardinality(HeldImports(v, id))
HeldIsCounted == \A v \in Vat : Held(v)

\* What the counts rest on: the exports of a vat are numbered from 0 in the order
\* they were made, each with a client of its own; its imports are exports of the
\* peer, and so is every capability that is on its way to it; a reference to an
\* import that its application holds is in the table.
ExportTable(E) ==
  /\ IsFiniteSet(DOMAIN E) /\ DOMAIN E = 0 .. Cardinality(DOMAIN E) - 1
  /\ \A id \in DOMAIN E :
       /\ E[id] = [client |-> E[id].client, object |-> E[id].object, wireRefs |-> E[id].wireRefs]
       /\ E[id].wireRefs \in Nat
  /\ \A i, j \in DOMAIN E : E[i].client = E[j].client => i = j
ImportTable(I) == \A id \in DOMAIN I : I[id] \in ImportEntry
IsSeq(s) == s \in Seq({s[j] : j \in DOMAIN s})
Carried(d, E) ==
  \/ d = NoDescriptor
  \/ d = [k |-> "receiverHosted", id |-> d.id]
  \/ d = [k |-> "senderHosted", id |-> d.id] /\ d.id \in DOMAIN E
Channel(s, E) ==
  IsSeq(s) /\ \A j \in DOMAIN s : s[j].k \in {"call", "return"} => Carried(s[j].cap, E)
CallTable(C, I) ==
  /\ IsSeq(C)
  /\ \A n \in DOMAIN C :
       /\ {"state", "cap"} \subseteq DOMAIN C[n]
       /\ C[n].cap.k = "import" => C[n].cap = Import(C[n].cap.id) /\ C[n].cap.id \in DOMAIN I

\* The inductive invariant of the counts (RpcTableProofs).  A Return that finds no
\* question is not read: what it carries is not counted, and its vat stops.
CountsInv ==
  /\ DOMAIN exports = Vat /\ DOMAIN imports = Vat /\ DOMAIN net = Vat /\ DOMAIN calls = Vat
  /\ main \in [Vat -> BOOLEAN] /\ working \in [Vat -> BOOLEAN]
  /\ \A v \in Vat :
       /\ ExportTable(exports[v]) /\ ImportTable(imports[v])
       /\ DOMAIN imports[v] \subseteq DOMAIN exports[Peer(v)]
       /\ main[v] => ExportIds(v, Server(Main)) # {}
       /\ Channel(net[v], exports[Peer(v)])
       /\ CallTable(calls[v], imports[v])
       /\ Held(v)
       /\ working[Peer(v)] => Accounted(v)

\* A call queued on an answer that is not done is in the queue of that answer,
\* once; afterwards it is in the QueueClient of the result or being rejected,
\* never in both, and a call that is not queued is in no queue.
Places(v, id) == {p \in (DOMAIN answers[v]) \X (1 .. CallQueueSize) :
                    LET q == answers[v][p[1]].queue \o answers[v][p[1]].stuck
                    IN p[2] \in DOMAIN q /\ q[p[2]] = id}
Waited(v, a) == {t \in DOMAIN answers[v] : answers[v][t].n = a.callee.id /\ ~answers[v][t].done}
QueuedInOnePlace ==
  \A v \in Vat : \A id \in DOMAIN answers[v] :
    LET a == answers[v][id]
        copies == Cardinality(Places(v, id))
                  + Cardinality({j \in DOMAIN rejecting[v] : rejecting[v][j] = id})
    IN IF a.callee.k = "answer" /\ ~a.done
       THEN /\ copies <= 1
            /\ \A t \in Waited(v, a) : \E j \in 1 .. CallQueueSize : Places(v, id) = {<<t, j>>}
       ELSE copies = 0

\* What the tables of a vat say of each other: a capability that is held is nothing,
\* a server of the vat, or a reference to an entry of one of its tables.
Known(c, E, I) == /\ c.k = "server" => c.id \in Object
                  /\ c.k = "import" => c.id \in DOMAIN I
                  /\ c.k = "ownRef" => c.id \in DOMAIN E
CallsOK(C, E, I) ==
  /\ C \in Seq(CallRecord)
  /\ \A n \in DOMAIN C : /\ Known(C[n].cap, E, I)
                         /\ C[n].id = NoId <=> C[n].route \in {"local", "error"}
EntryOK(a, C, E, I) ==
  /\ a \in AnswerRecord /\ Known(a.cap, E, I) /\ Known(a.param, E, I)
  /\ a.ok => a.done
  /\ a.callee.k = "question" => a.callee.id \in DOMAIN C /\ C[a.callee.id].route = "forward"
AnswersOK(A, C, E, I) == DOMAIN A \subseteq Nat /\ \A id \in DOMAIN A : EntryOK(A[id], C, E, I)
ExportsOK(E, I) ==
  /\ DOMAIN E \subseteq Nat
  /\ \A id \in DOMAIN E : /\ E[id] \in Export /\ Known(E[id].client, E, I)
                          /\ E[id].client.k \notin {"null", "import"}
ImportsOK(I) == DOMAIN I \subseteq Nat /\ \A id \in DOMAIN I : I[id] \in ImportEntry
ChannelOK(s, E) ==
  /\ s \in Seq(Message)
  /\ \A j \in DOMAIN s :
       s[j].k \in {"call", "return"} /\ s[j].cap.k = "receiverHosted" => s[j].cap.id \in DOMAIN E
QuestionsOK(g, Q, C) ==
  /\ g \in [i : Nat, free : Seq(Nat)] /\ Q \in [0 .. g.i - 1 -> Nat]
  /\ \A id \in DOMAIN Q : Q[id] # 0 => Q[id] \in DOMAIN C /\ C[Q[id]].id = id

\* A queued call is on an answer that is not done, and waits in one place.
QueueOf(a) == a.queue \o a.stuck
AwaitedCall(A, q, n) == q \in DOMAIN A /\ ~A[q].done /\ A[q].callee = [k |-> "answer", id |-> n]
QueuesOK(A, R) ==
  /\ \A t \in DOMAIN A :
       /\ Len(A[t].queue) <= CallQueueSize /\ Len(A[t].stuck) <= CallQueueSize
       /\ A[t].done => A[t].queue = <<>>
       /\ ~A[t].done => A[t].stuck = <<>>
       /\ \A j \in DOMAIN QueueOf(A[t]) : AwaitedCall(A, QueueOf(A[t])[j], A[t].n)
  /\ R \in Seq(Nat)
  /\ \A j \in DOMAIN R : R[j] \in DOMAIN A /\ ~A[R[j]].done /\ A[R[j]].callee.k = "answer"
  /\ \A t, u \in DOMAIN A : \A j \in DOMAIN QueueOf(A[t]), k \in DOMAIN QueueOf(A[u]) :
       QueueOf(A[t])[j] = QueueOf(A[u])[k] => t = u /\ j = k
  /\ \A j, k \in DOMAIN R : R[j] = R[k] => j = k
  /\ \A t \in DOMAIN A : \A j \in DOMAIN QueueOf(A[t]), k \in DOMAIN R : QueueOf(A[t])[j] # R[k]
  /\ \A q, t \in DOMAIN A : /\ ~A[q].done /\ ~A[t].done
                           /\ A[q].callee = [k |-> "answer", id |-> A[t].n]
                          => \E j \in DOMAIN A[t].queue : A[t].queue[j] = q

TablesInv ==
  /\ DOMAIN questionID = Vat /\ DOMAIN questions = Vat /\ DOMAIN calls = Vat
  /\ DOMAIN answers = Vat /\ DOMAIN exports = Vat /\ DOMAIN imports = Vat
  /\ DOMAIN rejecting = Vat /\ DOMAIN net = Vat
  /\ main \in [Vat -> BOOLEAN] /\ working \in [Vat -> BOOLEAN]
  /\ delivered \in Seq([at : Vat, object : Object, from : Vat, n : Nat])
  /\ \A v \in Vat :
       /\ QuestionsOK(questionID[v], questions[v], calls[v])
       /\ CallsOK(calls[v], exports[v], imports[v])
       /\ AnswersOK(answers[v], calls[v], exports[v], imports[v])
       /\ ExportsOK(exports[v], imports[v])
       /\ ImportsOK(imports[v])
       /\ ChannelOK(net[v], exports[v])
       /\ QueuesOK(answers[v], rejecting[v])

\* What a vat asks runs at most once.  T is the log of the methods started, C the calls
\* of v and K those of its peer: a run of call n is one that the peer started for the
\* Call, or one that v started for the Call it was forwarded as.
Forwarding(r, n) == r.on = [k |-> "answer", n |-> n]
RunHere(T, v, n) == \E i \in DOMAIN T : T[i].from = v /\ T[i].n = n
Ran(T, K, v, n) == \/ RunHere(T, v, n)
                   \/ \E f \in DOMAIN K : Forwarding(K[f], n) /\ RunHere(T, Peer(v), f)
Unrun(T, K, v, n) == ~RunHere(T, v, n) /\ \A f \in DOMAIN K : ~Forwarding(K[f], n)

LogOnce(T) == \A i, j \in DOMAIN T : T[i].from = T[j].from /\ T[i].n = T[j].n => i = j
Logged(T, v, C) == \A i \in DOMAIN T : T[i].from = v => T[i].n \in DOMAIN C

\* A Call that is on its way has not run.  A call that is forwarded is on a
\* capability that the peer hosts, and is not forwarded again.
MessageRun(m, T, C, K, v) ==
  m.k \in {"bootstrap", "call"} =>
    /\ m.n \in DOMAIN C
    /\ m.k = "bootstrap" => C[m.n].route = "bootstrap"
    /\ m.k = "call" => /\ Unrun(T, K, v, m.n)
                       /\ C[m.n].route = "forward" => m.target.k = "importedCap"
ChannelRuns(s, T, C, K, v) ==
  /\ \A j \in DOMAIN s : MessageRun(s[j], T, C, K, v)
  /\ \A i, j \in DOMAIN s : s[i].k = "call" /\ s[j].k = "call" /\ s[i].n = s[j].n => i = j

\* An entry that waits for a method is one whose call runs, and results come from a run.
EntryRun(a, T, C, K, v) ==
  /\ a.n \in DOMAIN C
  /\ a.callee.k = "server" => Ran(T, K, v, a.n)
  /\ a.callee.k = "question" => Forwarding(K[a.callee.id], a.n)
  /\ a.ok /\ C[a.n].route # "bootstrap" => Ran(T, K, v, a.n)
EntryRuns(A, T, C, K, v) == \A id \in DOMAIN A : EntryRun(A[id], T, C, K, v)

CallRun(r, n, T, K, v) ==
  /\ r.state \in {"results", "dropped"} /\ r.route # "bootstrap" => Ran(T, K, v, n)
  /\ r.route = "local" => Ran(T, K, v, n)
  /\ r.on.k = "answer" => /\ r.route = "forward"
                          /\ r.on.n \in DOMAIN K /\ K[r.on.n].route # "forward"
                          /\ ~RunHere(T, Peer(v), r.on.n)
CallRuns(T, C, K, v) ==
  /\ \A n \in DOMAIN C : CallRun(C[n], n, T, K, v)
  /\ \A n, f \in DOMAIN C : C[n].on = C[f].on /\ C[n].on.k = "answer" => n = f

\* The inductive invariant of RunOnce (RpcRunProofs).
RunsInv ==
  /\ LogOnce(delivered)
  /\ \A v \in Vat : LET w == Peer(v) IN
       /\ Logged(delivered, v, calls[v])
       /\ ChannelRuns(net[w], delivered, calls[v], calls[w], v)
       /\ EntryRuns(answers[w], delivered, calls[v], calls[w], v)
       /\ CallRuns(delivered, calls[v], calls[w], v)

Settled(v, n) == n \in DOMAIN calls[v] /\ calls[v][n].state # "waiting"

\* Every call is settled in the end: by its Return, or with the calls it was
\* queued behind.
EventuallySettled ==
  \A v \in Vat : \A n \in Ids : (n \in DOMAIN calls[v]) ~> Settled(v, n)

\* The calls that fulfill() left in a QueueClient, which is never flushed, and
\* those queued on them: the call they wait for ended with a capability.
Kept(v, n) ==
  \/ \E id \in DOMAIN answers[Peer(v)] :
       LET a == answers[Peer(v)][id] IN a.n = n /\ a.done /\ a.ok /\ a.cap.k # "null"
  \/ /\ n \in DOMAIN calls[v]
     /\ calls[v][n].state = "results" => calls[v][n].cap.k # "null"
     /\ calls[v][n].state \in {"results", "dropped"}
QueuedOn(v, n) == {a.callee.id : a \in {b \in {answers[Peer(v)][id] : id \in DOMAIN answers[Peer(v)]} :
                                          b.n = n /\ ~b.done /\ b.callee.k = "answer"}}
Parked(v, n) ==
  LET parked[m \in Ids] == \E t \in QueuedOn(v, m) : Kept(v, t) \/ parked[t]
  IN parked[n]

\* Every other call is settled in the end: by its Return, or with the call it
\* was queued behind.
SettledUnlessParked ==
  \A v \in Vat : \A n \in Ids : (n \in DOMAIN calls[v]) ~> (Settled(v, n) \/ Parked(v, n))

-----------------------------------------------------------------------------
(* What the comments of the code and of rpc.zap promise *)

\* rpc.zap, Bootstrap: get the bootstrap interface exported by the remote vat.
BootstrapGivesMain ==
  \A v \in Vat : \A n \in DOMAIN calls[v] :
    calls[v][n].route = "bootstrap" /\ calls[v][n].state = "results"
      => calls[v][n].cap.k # "null"

\* client.ts: calls are delivered to the capability in the order they are made.
DeliveredInOrder ==
  \A v \in Vat : \A n1, n2 \in DOMAIN calls[v] :
    /\ n1 < n2 /\ calls[v][n1].on = calls[v][n2].on /\ calls[v][n1].on # NoOrigin
    /\ RunsOf(v, n1) # {} /\ RunsOf(v, n2) # {}
    => Started(v, n1) < Started(v, n2)

\* rpc.zap: a vat that sends a capability again makes it usable again; the
\* importer never turns a senderHosted capability into an ErrorClient.
ReceivedIsUsable ==
  \A v \in Vat : \A n \in DOMAIN calls[v] : calls[v][n].cap.k # "error"

-----------------------------------------------------------------------------
(* Refinement: each direction of the connection is a QuestionTable. *)

Word(ok) == IF ok THEN "results" ELSE "exception"
AskMessage(m) == IF m.k = "finish" THEN m ELSE [k |-> "call", id |-> m.id, call |-> m.n]
AnswerMessage(m) == IF m.k = "return"
                    THEN [k |-> "return", id |-> m.id, outcome |-> Word(m.ok)]
                    ELSE [k |-> "unimplemented", id |-> m.id]
OfKinds(s, K) ==
  LET of[j \in 0 .. Len(s)] ==
        IF j = 0 THEN <<>>
        ELSE IF s[j].k \in K THEN Append(of[j - 1], s[j]) ELSE of[j - 1]
  IN of[Len(s)]
Asks(s) == LET t == OfKinds(s, {"bootstrap", "call", "finish"})
           IN [j \in DOMAIN t |-> AskMessage(t[j])]
Replies(s) == LET t == OfKinds(s, {"return", "unimplemented"})
              IN [j \in DOMAIN t |-> AnswerMessage(t[j])]
EntryState(a) == IF a.done THEN "done"
                 ELSE CASE a.callee.k = "none" -> "unimplemented"
                        [] a.callee.k = "server" -> "running"
                        [] OTHER -> "waiting"
AskedBy(v) == {n \in DOMAIN calls[v] : calls[v][n].id # NoId}
SettledWith(v, n) ==
  IF n \notin AskedBy(v) \/ ~Settled(v, n) THEN "none"
  ELSE IF calls[v][n].state = "exception" THEN "exception" ELSE "results"
Entries(v) == [id \in DOMAIN answers[Peer(v)] |->
                [call |-> answers[Peer(v)][id].n, state |-> EntryState(answers[Peer(v)][id])]]
Answered(v, n, ok) == \E id \in DOMAIN answers[Peer(v)] :
                        LET a == answers[Peer(v)][id] IN a.n = n /\ a.done /\ a.ok = ok
DecidedFor(v, n) ==
  IF SettledWith(v, n) # "none" THEN SettledWith(v, n)
  ELSE IF Answered(v, n, TRUE) THEN "results"
  ELSE IF Answered(v, n, FALSE) THEN "exception" ELSE "none"

Direction(v) == INSTANCE QuestionTable WITH
  Call <- Ids \ {0}, Result <- {"results"}, Exception <- {"exception"},
  NoCall <- 0, NoOutcome <- "none",
  questionID <- questionID[v],
  questions <- questions[v],
  answers <- Entries(v),
  toAnswerer <- Asks(net[Peer(v)]),
  toAsker <- Replies(net[v]),
  asked <- AskedBy(v),
  outcome <- [n \in Ids \ {0} |-> DecidedFor(v, n)],
  settled <- [n \in Ids \ {0} |-> SettledWith(v, n)],
  askerWorking <- working[v],
  answererWorking <- working[Peer(v)]

\* Both directions keep the question id protocol, whatever is piggybacked on it.
IdProtocolImplemented ==
  /\ \A v \in Vat : Direction(v)!Init
  /\ [][\A v \in Vat : UNCHANGED Direction(v)!vars \/ Direction(v)!Next]_vars

\* A queued call waits for one that is decided, or that is not done either.
Awaited(v) == {answers[v][q].callee.id : q \in {x \in DOMAIN answers[v] :
                 ~answers[v][x].done /\ answers[v][x].callee.k = "answer"}}
AwaitedOK(v) ==
  \A n \in Awaited(v) : \/ DecidedFor(Peer(v), n) # "none"
                        \/ \E t \in DOMAIN answers[v] : answers[v][t].n = n /\ ~answers[v][t].done

\* Where calls end up: each export leads to the server its client leads to; Place is the
\* server a capability leads to, if any, Destination and Shipped that of a client
\* that vat v holds, and of a descriptor that it sent, Hosted that of an export.
ExportObjects(v) ==
  \A id \in DOMAIN exports[v] : exports[v][id].object = ObjectOf(v, exports[v][id].client)
Nowhere == <<>>
Place(v, o) == IF o = NoId THEN Nowhere ELSE <<v, o>>
Hosted(v, id) == Place(v, exports[v][id].object)
Destination(v, c) == IF c.k = "import" THEN Hosted(Peer(v), c.id) ELSE Place(v, ObjectOf(v, c))
Shipped(v, d) == CASE d.k = "senderHosted" -> Hosted(v, d.id)
                   [] d.k = "receiverHosted" -> Hosted(Peer(v), d.id)
                   [] OTHER -> Nowhere

\* Where the calls of a vat come from.  C are its calls, K those of its peer, A the
\* answers and E the exports of the peer, s what is on its way there and r what
\* comes back.
CallOrigin(r, C) ==
  /\ r.on.k = "call" => r.on.n \in DOMAIN C /\ C[r.on.n].id # NoId
  /\ r.route = "promised" => r.on.k = "call"
  /\ r.route = "bootstrap" => r.cap.k = "null"
MessageOrigin(m, C, E) ==
  m.k = "call" =>
    /\ C[m.n].route \in {"promised", "imported", "forward"}
    /\ m.target.k = "importedCap" => m.target.id \in DOMAIN E
    /\ m.target.k = "promisedAnswer" => C[m.n].route = "promised"
ReplyOrigin(m, C) ==
  m.k = "return" => m.n \in DOMAIN C /\ (C[m.n].route = "bootstrap" => m.cap.k = "none")
OriginsOK(C, K, A, E, s, r) ==
  /\ \A n \in DOMAIN C : CallOrigin(C[n], C)
  /\ \A f \in DOMAIN K : K[f].on.k = "answer" => C[K[f].on.n].route = "promised"
  /\ \A id \in DOMAIN A : A[id].callee.k # "none" => C[A[id].n].route # "bootstrap"
  /\ \A j \in DOMAIN s : MessageOrigin(s[j], C, E)
  /\ \A j \in DOMAIN r : ReplyOrigin(r[j], C)

\* An id stands for the call that waits in its slot (Q) until its Finish is sent: that
\* call is the one the peer answers, or will answer, under that id.
Finished(s, id, i, j) == \E l \in DOMAIN s : i < l /\ l < j /\ s[l].k = "finish" /\ s[l].id = id
Waits(Q, id, n) == id \in DOMAIN Q /\ Q[id] = n
SlotsOK(Q, A, s) ==
  /\ \A id \in DOMAIN A : Finished(s, id, 0, Len(s) + 1) \/ Waits(Q, id, A[id].n)
  /\ \A k \in DOMAIN s : s[k].k \in {"bootstrap", "call"} =>
       Finished(s, s[k].id, k, Len(s) + 1) \/ Waits(Q, s[k].id, s[k].n)

\* A Return finds the call it answers in the slot of its id.
RepliesOK(Q, r) == \A j \in DOMAIN r : r[j].k = "return" => Waits(Q, r[j].id, r[j].n)

\* A Call on a promise finds the answer of the call it was made on, or none.
Aims(A, s, j, t, m) ==
  /\ t \in DOMAIN A => Finished(s, t, 0, j) \/ A[t].n = m
  /\ \A k \in DOMAIN s : k < j /\ s[k].k \in {"bootstrap", "call"} /\ s[k].id = t
       => Finished(s, t, k, j) \/ s[k].n = m
AimsOK(C, A, s) ==
  \A j \in DOMAIN s : s[j].k = "call" /\ s[j].target.k = "promisedAnswer"
    => Aims(A, s, j, s[j].target.id, C[s[j].n].on.n)

\* Calls are on their way, and were started or forwarded, in the order they were made:
\* T is the log of the methods started, w the peer of v.
CallsInOrder(s) ==
  \A i, j \in DOMAIN s : i < j /\ s[i].k = "call" /\ s[j].k = "call" => s[i].n < s[j].n
RunsBefore(T, s, v, w) ==
  \A i \in DOMAIN T, j \in DOMAIN s :
    T[i].from = v /\ T[i].at = w /\ s[j].k = "call" => T[i].n < s[j].n
ForwardsBefore(K, s) ==
  \A f \in DOMAIN K, j \in DOMAIN s :
    K[f].on.k = "answer" /\ s[j].k = "call" => K[f].on.n < s[j].n
RunsInOrder(T, v) ==
  \A i, j \in DOMAIN T :
    i < j /\ T[i].from = v /\ T[j].from = v /\ T[i].at = T[j].at => T[i].n < T[j].n
ForwardsInOrder(K) ==
  \A f, g \in DOMAIN K :
    f < g /\ K[f].on.k = "answer" /\ K[g].on.k = "answer" => K[f].on.n < K[g].on.n
RunsWhere(T, C, v, w) ==
  \A i \in DOMAIN T : T[i].from = v => T[i].at = IF C[T[i].n].route = "local" THEN v ELSE w
OrderOK(T, C, K, s, v, w) ==
  /\ CallsInOrder(s) /\ RunsBefore(T, s, v, w) /\ ForwardsBefore(K, s)
  /\ RunsInOrder(T, v) /\ ForwardsInOrder(K) /\ RunsWhere(T, C, v, w)

\* All that says where calls on the m-th call of v end up: what the peer answered,
\* the Return on its way, the result, and the calls made on it (by v, or by the peer that
\* forwards one of them) that were started or are on their way to an export.  C are the
\* calls of v and K those of its peer.
MadeOn(C, K, v, m, u, n) ==
  LET on == [k |-> "call", n |-> m] IN
  \/ u = v /\ C[n].on = on
  \/ u = Peer(v) /\ K[n].on.k = "answer" /\ C[K[n].on.n].on = on
AnswerCaps(A, m) == {A[id].cap : id \in {x \in DOMAIN A : A[x].n = m /\ A[x].done /\ A[x].ok}}
ReturnCaps(C, r, m) ==
  {r[j].cap : j \in {x \in DOMAIN r :
     r[x].k = "return" /\ r[x].ok /\ r[x].n = m /\ C[m].route # "bootstrap"}}
ResultCaps(C, m) ==
  {q.cap : q \in {x \in {C[m]} : x.state = "results" /\ x.route # "bootstrap" /\ x.cap.k # "error"}}
RunPlaces(T, C, K, v, m) ==
  {<<T[i].at, T[i].object>> : i \in {x \in DOMAIN T : MadeOn(C, K, v, m, T[x].from, T[x].n)}}
CallTargets(s, u, C, K, v, m) ==
  {s[j].target.id : j \in {x \in DOMAIN s :
     s[x].k = "call" /\ s[x].target.k = "importedCap" /\ MadeOn(C, K, v, m, u, s[x].n)}}
Claims(v, m) ==
  LET w == Peer(v)
      C == calls[v]
      K == calls[w]
  IN {Destination(w, c) : c \in AnswerCaps(answers[w], m)}
     \cup {Shipped(w, d) : d \in ReturnCaps(C, net[v], m)}
     \cup {Destination(v, c) : c \in ResultCaps(C, m)}
     \cup RunPlaces(delivered, C, K, v, m)
     \cup {Hosted(v, id) : id \in CallTargets(net[v], w, C, K, v, m)}
     \cup {Hosted(w, id) : id \in CallTargets(net[w], v, C, K, v, m)}
ClaimsAgree(v) ==
  \A m \in AskedBy(v) :
    LET S == Claims(v, m) IN /\ \A p, q \in S : p = q
                             /\ S # {} => DecidedFor(v, m) # "none"

\* The inductive invariant of ReachesDesignated and OrderedOnOneRoute (RpcPathProofs).
PathsInv ==
  \A v \in Vat : LET w == Peer(v) IN
    /\ ExportObjects(v)
    /\ OriginsOK(calls[v], calls[w], answers[w], exports[w], net[w], net[v])
    /\ SlotsOK(questions[v], answers[w], net[w]) /\ RepliesOK(questions[v], net[v])
    /\ AimsOK(calls[v], answers[w], net[w])
    /\ OrderOK(delivered, calls[v], calls[w], net[w], v, w)
    /\ ClaimsAgree(v)

\* What holds of the tables, the messages on their way and the methods started.  Each
\* part is inductive given that each direction is a QuestionTable.
ConnInv == CountsInv /\ TablesInv /\ RunsInv /\ PathsInv /\ \A v \in Vat : AwaitedOK(v)
=============================================================================
