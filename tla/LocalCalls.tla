----------------------------- MODULE LocalCalls -----------------------------
(***************************************************************************)
(* Promise pipelining inside one vat (src/rpc/fulfiller/, server.ts): the  *)
(* answer of a call on a local Server is a Fulfiller, on which more calls  *)
(* can be made before the method has ended.  They are queued, and flushed  *)
(* through an EmbargoClient when the Fulfiller is fulfilled.  The result   *)
(* of a method may again be a promise, the one that was passed to it, so   *)
(* that flushed calls are queued a second time.                            *)
(*                                                                         *)
(* A call that was queued has a Fulfiller for each time it was; the inner  *)
(* ones pass their outcome on one by one in callbacks of their own (hops). *)
(***************************************************************************)
EXTENDS Integers, FiniteSets, SequencesExt

CONSTANTS MaxCalls,       \* bound: calls made in the vat
          CallQueueSize,  \* callQueueSize: calls one Fulfiller can queue
          Eager           \* may a method call its parameter as it starts?

ASSUME BoundsAssumption == MaxCalls \in Nat \ {0} /\ CallQueueSize \in Nat \ {0}
ASSUME EagerAssumption == Eager \subseteq BOOLEAN

VARIABLES calls,     \* the calls in the order they were made
          delivered  \* the methods started, in order (history)

vars == <<calls, delivered>>

Call == 1 .. MaxCalls
Object == 0 .. 1   \* the servers of the vat

NullClient == [k |-> "null", i |-> 0]
Server(o) == [k |-> "server", i |-> o]
Promise(m) == [k |-> "promise", i |-> m]   \* PipelineClient of the answer of call m
NoAnswer == [k |-> "none", i |-> 0]        \* Fulfiller.answer is undefined

Client == {NullClient} \cup {Server(o) : o \in Object} \cup {Promise(m) : m \in Call}

\* place: where the call is now: in the queue of the Fulfiller of call `at', at a
\* method of server `at', on its way back with a result or an exception, or over.
CallRecord == [on : Client, arg : Client, eager : BOOLEAN, during : Call \cup {0},
               place : {"queued", "running", "returned", "threw", "over"}, at : Nat,
               hops : Nat, res : Client, answer : Client \cup {NoAnswer},
               out : {"pending", "fulfilled", "rejected"}, queue : Seq(Call)]

TypeOK == /\ calls \in Seq(CallRecord) /\ Len(calls) <= MaxCalls
          /\ delivered \in Seq([n : Call, object : Object])
          /\ \A n \in DOMAIN calls : Len(calls[n].queue) <= CallQueueSize

Init == calls = <<>> /\ delivered = <<>>

-----------------------------------------------------------------------------
(* Broken forms of some of the definitions below, for the mutant runs. *)

\* pipelineCall() on a promise that takes the parameter for the result.
TargetOfArg(cs, c) == IF c.k = "promise" /\ cs[c.i].answer # NoAnswer THEN cs[c.i].arg ELSE c

\* pipelineCall() that does not look at queueCap.
QueueFullNever(q) == FALSE

\* emptyQueue() that leaves the first call in the queue.
EmptyQueueButOne(q) == IF q = <<>> THEN q ELSE <<Head(q)>>

\* flushQueue() that starts at the other end.
FlushOrderReversed(q) == Reverse(q)

\* flushQueue() that does not pass the outcome on to the Fulfiller.
JoinStepForgets(c) == [c EXCEPT !.place = "over"]

\* ErrorAnswer.pipelineCall() that queues the call as a Fulfiller does.
RefusedQueues(c) == [c EXCEPT !.place = "over", !.out = "rejected"]

\* A call that is queued and started as well.
EnqueuedTwice(q, n) == q \o <<n, n>>

-----------------------------------------------------------------------------
(* The steps run inside one synchronous piece of code; s is the whole state *)

\* The Server or the Fulfiller without an answer that a client passes a call on to, or
\* NullClient: pipelineCall() of the answers, down to the last, which may be an ErrorAnswer.
Target(cs, c) ==
  LET target[m \in DOMAIN cs] ==   \* of the promise of call m
        LET a == cs[m].answer IN
        IF a = NoAnswer THEN Promise(m)
        ELSE IF a.k = "promise" THEN target[a.i] ELSE a
  IN IF c.k = "promise" THEN target[c.i] ELSE c

QueueFull(q) == Len(q) = CallQueueSize
Enqueued(q, n) == Append(q, n)

\* Fulfiller.reject() of the innermost Fulfiller of a call: nothing else but its
\* promise is told.  It has no answer, so that calls on its promise are still queued.
Rejected(c) == IF c.hops = 0 THEN [c EXCEPT !.place = "over", !.out = "rejected"]
               ELSE [c EXCEPT !.place = "threw"]

\* The caller has no Fulfiller but an ErrorAnswer: its pipelineCall() returns the same
\* ErrorAnswer, so that a call on its promise is settled when it is made.
Refused(c) == [Rejected(c) EXCEPT !.answer = NullClient]

\* A call that is made waits until it is placed, in the same step.
NewCall(on, arg, eager, during) ==
  [on |-> on, arg |-> arg, eager |-> eager, during |-> during, place |-> "queued", at |-> 0,
   hops |-> 0, res |-> NullClient, answer |-> NoAnswer, out |-> "pending", queue |-> <<>>]

\* `hop' is 1 if the Fulfiller of a call has to be joined to its new answer.
Put(c, place, at, hop) == [c EXCEPT !.place = place, !.at = at, !.hops = @ + hop]

\* client.call() for call n: it is started, queued, or an ErrorAnswer.  The caller of a
\* new call is given that; of a flushed call it has the Fulfiller, which is rejected.
Placed(s, n, client, hop) ==
  LET t == Target(s.calls, client) IN
  CASE t.k = "server" ->
         [calls |-> [s.calls EXCEPT ![n] = Put(@, "running", t.i, hop)],
          delivered |-> Append(s.delivered, [n |-> n, object |-> t.i])]
    [] t.k = "promise" /\ ~QueueFull(s.calls[t.i].queue) ->
         [s EXCEPT !.calls = [s.calls EXCEPT ![n] = Put(@, "queued", t.i, hop),
                                             ![t.i].queue = Enqueued(@, n)]]
    [] OTHER -> [s EXCEPT !.calls[n] = IF hop = 0 THEN Refused(@) ELSE Rejected(@)]

\* A method that calls its parameter as it starts does so before the call that
\* started it has returned.
Dispatched(s, n, client, hop, during) ==
  LET s1 == Placed(s, n, client, hop)
      c == s1.calls[n]
      m == Len(s1.calls) + 1
  IN IF c.place = "running" /\ c.eager /\ m <= MaxCalls
     THEN Placed([s1 EXCEPT !.calls = Append(@, NewCall(c.arg, NullClient, FALSE, during))], m, c.arg, 0)
     ELSE s1

EmptyQueue(q) == <<>>
FlushOrder(q) == q

\* flushQueue(): one after the other, the calls that waited for call n are made on
\* the client r that it resolved to.
Released(s, q, r, n) == IF r = NullClient THEN [s EXCEPT !.calls[q] = Rejected(@)]
                        ELSE Dispatched(s, q, r, 1, n)

Flush(s, queue, r, n) ==
  LET flushed[j \in 0 .. Len(queue)] ==
        IF j = 0 THEN s ELSE Released(flushed[j - 1], queue[j], r, n)
  IN flushed[Len(queue)]

\* Fulfiller.fulfill() with a result that holds client r: the answer is set, the
\* queue is emptied, and flushed by the constructor of an EmbargoClient.
Resolved(c, r) == [c EXCEPT !.answer = r, !.out = "fulfilled", !.place = "over",
                            !.queue = EmptyQueue(@)]
Fulfilled(s, n, r) ==
  Flush([s EXCEPT !.calls[n] = Resolved(@, r)], FlushOrder(s.calls[n].queue), r, n)

Run(s) == calls' = s.calls /\ delivered' = s.delivered

-----------------------------------------------------------------------------
(* The actions *)

\* A call on a server of the vat, or on the promise of an earlier call; the
\* parameter holds nothing or the promise of an earlier call.  A method calls its
\* parameter as it starts only if that is the promise it was called on itself.
Made == {Promise(m) : m \in DOMAIN calls}

CallClient(c, arg, eager) ==
  /\ Len(calls) < MaxCalls
  /\ eager => arg.k = "promise" /\ arg = c
  /\ Run(Dispatched([calls |-> Append(calls, NewCall(c, arg, eager, 0)), delivered |-> delivered],
                    Len(calls) + 1, c, 0, 0))

\* The implementation of a method ends: startCall() settles its Fulfiller.
Returns(n, r) ==
  /\ calls[n].place = "running"
  /\ LET s == [calls |-> calls, delivered |-> delivered] IN
     Run(IF calls[n].hops = 0 THEN Fulfilled(s, n, r)
         ELSE [s EXCEPT !.calls[n].place = "returned", !.calls[n].res = r])

Throws(n) ==
  /\ calls[n].place = "running"
  /\ calls' = [calls EXCEPT ![n] = Rejected(@)]
  /\ UNCHANGED delivered

JoinStep(c) == [c EXCEPT !.hops = @ - 1]

\* The callback that flushQueue() put on the answer of a queued call: fulfill or
\* reject the Fulfiller one further out.
Joins(n) ==
  LET s == [calls |-> [calls EXCEPT ![n] = JoinStep(@)], delivered |-> delivered] IN
  /\ calls[n].place \in {"returned", "threw"}
  /\ Run(IF calls[n].place = "threw" THEN [s EXCEPT !.calls[n] = Rejected(@)]
         ELSE IF s.calls[n].hops = 0 THEN Fulfilled(s, n, calls[n].res)
         ELSE s)

Results(n) == {NullClient, Server(1), calls[n].arg}
Ends(n) == n \in DOMAIN calls /\ (Throws(n) \/ \E r \in Results(n) : Returns(n, r))
Callback(n) == n \in DOMAIN calls /\ Joins(n)

Next == \/ \E c \in {Server(0)} \cup Made, arg \in {NullClient} \cup Made, eager \in Eager :
             CallClient(c, arg, eager)
        \/ \E n \in Call : Ends(n) \/ Callback(n)

Spec == Init /\ [][Next]_vars

\* Methods end, and callbacks of settled promises are run.
Fairness == \A n \in Call : WF_vars(Ends(n)) /\ WF_vars(Callback(n))

FairSpec == Spec /\ Fairness

-----------------------------------------------------------------------------
(* Properties *)

Starts(n) == {i \in DOMAIN delivered : delivered[i].n = n}

\* However often a call is queued again, its method is started at most once, and
\* it was started if the caller got results.
RunOnce == \A n \in DOMAIN calls :
             /\ Cardinality(Starts(n)) <= 1
             /\ calls[n].out = "fulfilled" => Starts(n) # {}

\* A call on a promise is started at the server that the promise resolved to, be
\* it by way of other promises, and whenever it was made.
ResolvesTo(c) ==
  LET server[m \in DOMAIN calls] ==
        LET a == calls[m].answer IN IF a.k = "promise" THEN server[a.i] ELSE a
  IN IF c.k = "promise" THEN server[c.i] ELSE c
ReachesResolved ==
  \A n \in DOMAIN calls : \A i \in Starts(n) :
    ResolvesTo(calls[n].on) = Server(delivered[i].object)

\* Calls made on one promise are started in the order they were made, but for a
\* call that a method makes on that promise while its queue is being flushed:
\* the EmbargoClient is put in the result only after its queue was flushed.
Started(n) == CHOOSE i \in Starts(n) : TRUE
OrderedUnlessReentrant ==
  \A n1, n2 \in DOMAIN calls :
    /\ n1 < n2 /\ calls[n1].on = calls[n2].on /\ calls[n1].on.k = "promise"
    /\ Starts(n1) # {} /\ Starts(n2) # {} /\ calls[n2].during = 0
    => Started(n1) < Started(n2)

\* A call is in a queue exactly while it waits there, once and in no other, and
\* that queue belongs to a promise that has no answer yet.
QueuedInOnePlace ==
  \A n \in DOMAIN calls :
    LET places == {p \in Call \X (1 .. CallQueueSize) :
                     /\ p[1] \in DOMAIN calls /\ p[2] \in DOMAIN calls[p[1]].queue
                     /\ calls[p[1]].queue[p[2]] = n}
    IN IF calls[n].place = "queued"
       THEN /\ \E j \in 1 .. CallQueueSize : places = {<<calls[n].at, j>>}
            /\ calls[calls[n].at].answer = NoAnswer
       ELSE places = {}

Settled(n) == n \in DOMAIN calls /\ calls[n].out # "pending"

\* A promise was rejected that its caller was given unsettled: the call had waited in
\* a queue, or its method was started.
RejectedLater(n) == calls[n].out = "rejected" /\ (calls[n].at # 0 \/ Starts(n) # {})

Orphaned(n) ==
  LET orphaned[m \in 0 .. MaxCalls] ==
        /\ m \in DOMAIN calls /\ calls[m].place = "queued"
        /\ RejectedLater(calls[m].at) \/ orphaned[calls[m].at]
  IN orphaned[n]

\* Every call is settled in the end, but for the calls queued on a promise that was
\* rejected after it was given out, which reject() forgets, and those queued on them.
\* A call on a promise that was refused when it was made has to be settled.
SettledUnlessOrphaned == \A n \in Call : (n \in DOMAIN calls) ~> (Settled(n) \/ Orphaned(n))
=============================================================================
