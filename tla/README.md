# Verification of zap-es

TLA+ models of zap-es, the TypeScript implementation of the ZAP serialization
format and RPC protocol, with model-checking runs for TLC and proofs for TLAPS.
Paths below are relative to the repository (`src/rpc/conn.ts` is the connection).

Contents: [Inventory](#inventory) · [Modules](#modules) · [Runs](#runs) ·
[Bounds](#bounds) · [Fairness](#fairness) · [Proofs](#proofs) ·
[Where code and documentation disagree](#where-code-and-documentation-disagree) ·
[What is not modelled](#what-is-not-modelled) · [Plan](#plan)

## Inventory

The program is single-threaded JavaScript.  Everything that happens
"concurrently" is an interleaving of event-loop tasks: a received message, the
end of a server method (an `async` function of the application), a promise
callback, a finalizer, a call the application makes.  One task runs to its end
before the next starts, which is why most actions of the models are whole
handlers.

### RPC

| Component | State | Operations | Talks to |
| --- | --- | --- | --- |
| Connection (`conn.ts`, `idgen.ts`, `registry.ts`, `capability.ts`) | `questions`, `answers`, `exports`, `imports`, the `IDGen` of questions, `main` | `bootstrap`, `initMain`, `handleMessage` and one handler for each kind of message, `newQuestion`/`popQuestion`, `insertAnswer`/`popAnswer`, `addExport`, `addImport`, `makeCapTable`, `populateMessageCapTable` | its peer, through a `Transport`; answers, questions, clients |
| Questions (`question.ts`) | id, state, the promise | `fulfill`, `reject`, `pipelineCall` | the connection's tables |
| Answers (`answer.ts`, `join.ts`, `fixed-answer.ts` and its kinds) | done, result, queue of calls that target the result | `fulfill`, `reject` (recursive over the queue), `queueCall`, `emptyQueue`, `joinAnswer` | the peer (Return), queue clients, other answers |
| Clients (`import-client.ts`, `ref.ts`, `refcount.ts`, `pipeline-client.ts`, `error-client.ts`, `local-answer-client.ts`) | reference counts | `call`, `close`, finalization | the connection, servers |
| Queue clients (`queue-client.ts`, `qcalls.ts`, `queue.ts`) | a ring buffer of calls | `pushCall`, `flushQueue` | the resolved client |
| Local servers (`server.ts`, `call.ts`) | none of their own | `call`, `startCall` | the application's methods, Fulfillers |
| Fulfillers (`fulfiller/`) | answer, queue of calls | `fulfill`, `reject`, `pipelineCall`, `emptyQueue`; `EmbargoClient.flushQueue` | clients in the result |
| Transport (`transport/`) | one `Deferred` for the next message | `sendMessage`, `recvMessage`, `close` | the peer |

How they interact: `Question.pipelineCall` and `ImportClient.call` take a
question id, put the parameters' capabilities in the export table and send a
Call.  The peer's `handleCallMessage` fills the import table, inserts an
`AnswerEntry`, and routes the call: to a local `Server`, back over the wire, or
onto the queue of an answer that is not done.  The method's Fulfiller is joined
to the entry, which sends the Return; the caller pops the question, settles the
promise and sends the Finish that drops the entry.

Hard behaviours, and the properties that make them correct:

- *A question id is reused before the peer has dropped the old entry.*
  `popQuestion` frees the id while the Finish is still to be sent and handled.
  No message may meet a table that does not expect it, and no promise may get
  the outcome of another call (`NoProtocolError`, `NoCrosstalk`,
  `FreeIdsAreNullSlots`, `NothingLeftBehind`).
- *A call on a promise takes a different way depending on when it is made*:
  pipelined over the wire, queued, sent to the resolved capability, forwarded
  back to the vat it came from, or run in the vat itself.  It must run at most
  once, at the server the promise resolves to, and not before an earlier one
  (`RunOnce`, `ReachesDesignated`, `OrderedOnOneRoute`, and `DeliveredInOrder`,
  which fails).
- *Both ends count references* for messages that are sent at one time and
  received at another, while finalizers run (`ExportAccounting`,
  `HeldIsCounted`, and `ReceivedIsUsable`, which fails).
- *Queues move*: from an answer to a queue client, from a Fulfiller to an embargo
  client, from a promise to another promise.  A call may be in one place only
  (`QueuedInOnePlace`) and is settled in the end (`EventuallySettled`, which fails,
  and what does hold: `SettledUnlessLeft`, `SettledUnlessParked`, `SettledUnlessOrphaned`).
- *Code is re-entered*: a method that is started while a queue is flushed may call
  the promise that is being flushed (`OrderedUnlessReentrant`).

### Serialization

| Component | State | Operations | Talks to |
| --- | --- | --- | --- |
| Arenas and segments (`message.ts`, `segment.ts`, `arena/`) | segments of words, how much of each is allocated | `allocate`, `getSegment`, `toArrayBuffer`, `getFramedSegments`, `copy` | the pointers that ask for room |
| Pointers, structs, lists (`pointers/`) | words in segments: struct, list, far and capability pointers | `initPointer`, `followFars`, `copyFrom`, `erase`, `getStruct`, `getList`, `resize` | segments; the capability table of the message |
| Orphans (`orphan.ts`) | what a pointer said of an object that was taken out | `disown`, `adopt`, `dispose` | segments |
| Packing (`packing.ts`) | none | `pack`, `unpack`, `getUnpackedByteLength` | `message.ts` |
| Typed accessors (`struct.utils.ts`, `mask.ts`, `text.ts`) | none | get and set one field, with its default | words of a struct |
| Generated classes (`src/zap/`) | none of their own: fields of a struct | a getter, setter, `_init`, `_disown`, `_adopt` for each field | typed accessors, with the offsets of the schema |

Hard behaviours, and the properties that make them correct:

- *An object need not be where its pointer is.*  A pointer to another segment goes
  through a landing pad there, or, if that segment is full, through a pad of two
  words in a third place.  Whoever reads, copies, moves or erases has to follow
  all three (`BuildsTheTree`, `NeverThrows`).
- *Memory is handed out once and never again*, so a program that keeps an orphan, or
  a struct that was moved by `resize`, writes next to other objects
  (`ObjectsDisjoint`, `EraseStaysInside`).
- *Objects are moved under the reader*: `getStruct` and `getList` move an object that
  was written by an older schema, pointer by pointer (`BuildsTheTree`).
- *A received message is full*: each segment is as long as what it holds, so that
  the next allocation adds a segment.
- *Offsets are spread over some sixty generated classes*, and arms of unions share
  bits with each other, with discriminants and with groups
  (`OthersKeepTheirValues`, `OtherUnionsStay`, `ReadsWhatWasWritten`).
- *Runs in a packed stream are counted in one byte*, a frame is padded to a word
  and counts segments from zero (`UnpackInvertsPack`, `FrameIsParsed`).

### The rest

The schema compiler (`src/compiler/`) is a batch translation to source text;
`util.ts`, `errors.ts`, `debug/` format and name things.  They hold no state that
a model could tell apart.

## Modules

```
CallLifecycle   what the caller of a method is promised         (abstract)
   ^ implemented by, proved in QuestionTableProofs
QuestionTable   ids of one direction: questions, answers, two channels
   ^ implemented by both directions of, proved in RpcInvProofs
RpcConn         two vats: calls, pipelining, capabilities, reference counts
   ^ extended by
RpcTableProofs  theorems about reference counts; every step of a vat, as
                QuestionTable sees it: lemmas
RpcInvProofs    theorems: the invariant of the connection and what follows
RpcRunProofs    theorems about the methods started
RpcPathProofs   theorems about where calls go and in which order

MCRpcConn       the instances of RpcConn that TLC checks

LocalCalls      promise pipelining inside one vat: Fulfiller, EmbargoClient
                (theorems in LocalCallsProofs)

Fifo            a bounded queue                                  (abstract)
   ^ implemented by, proved in RingQueueProofs
RingQueue       the ring buffer of queue.ts

Trees           what a message promises the one who builds it    (abstract)
   ^ implemented by
Heap            calls on a message: init, copy, erase, move, disown, send
   extends Objects   what is under a pointer; operations on it
   extends Segments  words, allocation, near and far pointers
                     (theorems in SegmentsProofs)
MCHeap          the instance of Heap that TLC checks

Wire            a struct of each generated class, written, read and sent
   extends Objects, Stream          bytes of words, framing, packing
   extends RpcLayouts, SchemaLayouts   the classes
           extends Layouts             what their accessors stand for
MCWire          the instance of Wire that TLC checks
```

### CallLifecycle and QuestionTable

`QuestionTable` is the life of a question id in one direction of a connection.

| Code | Model |
| --- | --- |
| `Conn.questionID` (`IDGen`: next fresh id, stack of freed ones) | `questionID` |
| `Conn.questions` (sparse, popped slots are null) | `questions`, with `NoCall` for null |
| `Conn.answers` | `answers`: which call, and whether its method is running, it waits for another call, it is done, or it was left by a refused call |
| the two directions of the transport | `toAnswerer`, `toAsker` |
| `work()` ended with an error | `askerWorking`, `answererWorking` |
| `newQuestion` + the Call | `Ask` |
| `handleCallMessage`, `handleBootstrapMessage` | `HandleCallPending`, `HandleCallRefused`, `HandleCallSettled` |
| `AnswerEntry.fulfill`, `.reject` | `Answer` |
| `handleReturnMessage` (pop, settle, Finish) | `HandleReturn` |
| `handleFinishMessage` | `HandleFinish` |
| Unimplemented is ignored | `HandleUnimplemented` |

`handleCallMessage` inserts the entry *before* it asks the Registry for the
method, so an unknown method leaves an entry behind that nothing settles; the
model keeps it (`"unimplemented"`).  An entry whose call was queued on another answer
or forwarded is `"waiting"`: `QuestionTable` does not have what it waits for, and so
assumes nothing about when, or whether, it is settled.  `popAnswer` returns `undefined` for an
unknown id while the handler compares with `null`: the handler goes on and
throws only if it reads `resultCaps`; `HandleFinish` has that.

`CallLifecycle` has no ids and no messages: a call is made once, decided at most
once, and settled at most once, with what was decided for it.

### RpcConn

Both ends of a connection, the same code at each, with a reliable FIFO in each
direction.  State, for each vat: the tables as above (`questionID`, `questions`,
`answers`, `exports`, `imports`), `main` (whether `initMain` was called),
`calls` (what `Question` objects and the application hold for every call made),
`rejecting` (the recursion of `AnswerEntry.reject`), `working`, the messages on
their way (`net`), and the history `delivered` of methods started.

A client is a record: nothing, an `ErrorClient`, a `Server` of the vat, a `Ref` to
an import, or a `Ref` to one of the vat's own exports that came back (each such
`Ref` is a new object, so that `isSameClient` gives it an export of its own).  A
message carries at most one capability descriptor.

| Code | Model |
| --- | --- |
| `bootstrap`, `initMain` | `Bootstrap`, `InitMain` |
| `Question.pipelineCall`, `ImportClient.call`, `Server.call` on a result | `PipelineCall`, `CallOn`, `Ask`, `CallHere` |
| a method that calls what it was passed | `CallParam` |
| `startCall`: the method ends | `ServerReturns`, `ServerThrows`, `LocalFinish` |
| `AnswerEntry.fulfill`, `emptyQueue` | `Fulfill`, `Fulfilled` |
| `AnswerEntry.reject` and its recursion | `Reject`, `RejectNext` |
| `joinAnswer` on a forwarded call | `JoinSettles` |
| `handleBootstrapMessage` | `HandleBootstrap` |
| `handleCallMessage`, `routeCallMessage` | `HandleCallRefused`, `...Rejected`, `...Delivered`, `...Forwarded`, `...Queued` |
| `handleReturnMessage`, `handleFinishMessage` | `HandleReturn`, `HandleFinish` |
| `makeCapTable`, `descriptorForClient`, `addExport` | `DescriptorFor`, `Described`, `AddExport` |
| `populateMessageCapTable`, `addImport`, `RefCount` | `Populated`, `ClientFor`, `AddImport` |
| finalization of a `Ref` in a result | `Drop` |

Points where the code does what a reader may not expect, and the model follows it:

- `reject` runs recursively through the queued calls and the calls queued on
  them.  Nothing else can run meanwhile, so the other actions of the vat wait for
  `rejecting[v] = <<>>`; the recursion is spelled out because each level sends a
  Return and may meet an answer that is settled already.
- The queue of an answer that is fulfilled goes into a `QueueClient` that nothing
  flushes; its calls (`stuck`) are never delivered, and vanish with the entry.
  Its ring buffer is constructed full, so a later call through it fails.
- The result of a Bootstrap is an interface pointer that was never written, and
  the Return carries no capability.
- `releaseExport` runs only for `paramCaps` and `resultCaps`, which are never
  filled: nothing is ever released, and no `Release` is sent.
- Server, Fulfiller and `joinAnswer` are a chain of promise callbacks; the model
  folds the chain into the step in which the answer is settled.

Inputs: methods pass and return at most one capability: nothing, a server of the
vat, one they hold or were passed.  Applications do not pass a promise that is
not resolved (that would need `RECEIVER_ANSWER` descriptors), a method run for
the vat itself returns no capability, and calls are not pipelined on it:
`LocalCalls` is about those.

### LocalCalls

One vat: `calls` has for each call the client it was made on, its parameter,
where it is (in a queue, running, on its way back, over), what its Fulfiller's
answer is and what is queued on it.  A call that is flushed to a promise which is
itself unresolved is queued again and gets one more Fulfiller; `hops` counts the
`async` callbacks of `EmbargoClient.flushQueue` between the innermost and the one
the caller holds.

| Code | Model |
| --- | --- |
| `PipelineClient.call`, `Fulfiller.pipelineCall`, `ImmediateAnswer.pipelineCall` | `CallClient`, `Placed`, `Put`, `Target` |
| `Server.call`, `startCall` | `Dispatched`, `Returns`, `Throws` |
| `Fulfiller.fulfill`, `emptyQueue` | `Fulfilled`, `Resolved` |
| the constructor of `EmbargoClient`, `flushQueue` | `Flush`, `Released` |
| `Fulfiller.reject` | `Rejected` |
| `ErrorAnswer` | `Refused` |
| the `async` function in `flushQueue` | `Joins`, `JoinStep` |

A call that is refused as it is made, because there is no client to call or the queue is
full, has no Fulfiller: its caller is given an `ErrorAnswer`, whose `pipelineCall` returns
that same answer, so that every call on its promise is settled at once (`Refused`).  A
call that is refused later, when it is flushed, or whose method throws, has a Fulfiller
that was handed out; its `reject` leaves the queue as it is (`Rejected`).

A method runs synchronously up to its first `await`; `eager` methods use that to
call their parameter as they start, also while the queue that holds them is being
flushed.  At that moment the `EmbargoClient` is not in the capability table yet
(its constructor flushes), so the call goes to the client itself, ahead of the
calls that wait: `during` marks those calls and `OrderedUnlessReentrant` excepts
them, and no others.

### RingQueue and Fifo

`Queue` keeps a start and a count over a storage it does not own.  `Push` is
`push()` and the store at the index it returns, as `pushCall` does; `Pop` is the
element read at `front()` and `pop()`, as `flushQueue` does.  `Fifo` is the bounded
queue it implements.  The constructor is told how many elements the storage holds:
up to `Cap` in the model.  `QueueClient` tells it `callQueueSize`, more than there are, and
the only effect the program reaches is that every `push()` is refused; `RpcConn` has that
(`Resolution`).

### Segments, Objects, Heap and Trees

A message is a sequence of segments, each a sequence of allocated words and the
length of its buffer.  A word is zero, a pointer or data; what a data word holds
is one of a few values in `Heap` and eight bytes in `Wire`.  Addresses are pairs of
a segment and a word.

| Code | Model |
| --- | --- |
| `Segment.byteLength` and `buffer`, the arena | `m.segs[s].words`, `.cap`, `m.single` |
| `Segment.allocate`, `allocateSegment`, both arenas | `Allocate` |
| `followFars`, `getContent` | `Target`, `Start`, `Content` |
| `initPointer` and the setters of pointers | `InitPointer`, `Link` |
| `getTargetPointerType` and what follows it | `ObjectAt` |
| `erase`, `erasePointer` | `Erase`, `ErasePointer` |
| `copyFrom`, `copyFromStruct`, `copyFromList`, `copyFromInterface` | `CopyFrom`, `CopyInterface` |
| `resize`, the upgrade in `getList` | `Resize`, `ResizeElements` |
| `initStruct`, `initList`, `Orphan._moveTo` | `NewStruct`, `NewList`, `Adopted` |
| a call of the API on the pointer at `p` | `Heap`: `InitStruct(p)`, `Copy(p)`, `GetStruct(p)`, ... |
| an `Orphan` | `orphan`: what the pointer said, as `ObjectAt` |
| sending, `Message.copy` | `Transmit`, `CopyMessage` |

An access past the end of a buffer throws in the code; in the model `ok` becomes
false, and what was written before stays.  `Trees` has no segments and no
addresses: a tree, and operations that replace a subtree.  `Heap` implements it
under the mapping that reads the tree back (`read`, a history of `TreeOf`).

Seven kinds of calls do not do what they should, and each would make every
property of `Heap` fail.  They are named in `Objects.Faults`, a run names those it
leaves out in `Avoided`, and the guards that leave them out say exactly when the
code goes wrong:

| Fault | What the code does |
| --- | --- |
| `replaceData` | `erase` and `dispose` take the bytes of a list for words (`pointer.utils.ts:289`, `orphan.ts:176`); the run `heap_erase` lets it happen |
| `replaceStructs` | `erase` looks for the pointers of a list of structs at the start of each element, not after its data, and wipes as many words as there are elements (`pointer.utils.ts:270-285`) |
| `copyStructs` | `copyFromList` copies the words of the elements, pointers included, then copies over the stale pointers, which erases what they happen to lead to (`pointer.utils.ts:935`) |
| `copyFromInside` | `copyFrom` erases the destination first, with the source in it (`pointer.utils.ts:181`) |
| `moveStructs` | the offset in the second word of a double far pad is one off when a list of structs is adopted (`orphan.ts:115`) |
| `upgradePointers` | an upgraded element keeps its old words where the larger data section is (`struct.utils.ts:507`) |
| `moveCap` | a capability pointer is moved with an offset or through a landing pad, and is not recognised there (`interface.ts:74`) |

### Layouts, RpcLayouts, SchemaLayouts, Stream and Wire

`RpcLayouts` and `SchemaLayouts` have one definition for each class under `src/zap/`: its
size, its fields with the accessor and the offset each passes to it, its union
with the value of the discriminant for each arm, its groups.  `Layouts` says what
the accessors stand for: where in the struct, how many bytes, with which mask.

`Wire` is a struct of any of these classes at the root of a message.  A call is one
of the methods of a field: the setter of a number, a boolean, a void or a text, an
`_init`, a setter that copies another field, a getter (which makes empty structs
and lists, moves a struct or a list of structs that is too small, and refuses an object of
another kind), `_disown`, `_adopt`.  Each writes the discriminants on its path first.
`Transmit` is `toArrayBuffer` or `toPackedArrayBuffer` and `new Message` on the result,
and the struct is used on.

| Code | Model |
| --- | --- |
| `getUint8` to `setFloat64`, with a default mask | `GetNumber`, `SetNumberAt` |
| `getBit`, `setBit` | `GetBit`, `SetBitAt` |
| `testWhich`, `which()` | `Selected`, `Which` |
| `checkDataBounds`, `checkPointerBounds` | `InBounds`, `Checked` |
| the bits of a pointer | `BytesOf`, `PointerOfBytes` |
| `pack`, `unpack`, `getUnpackedByteLength` | `Pack`, `UnpackFrom`, `UnpackedLength` |
| `getStreamFrame`, `getFramedSegments` | `StreamFrame`, `FramedSegments` |

What is read out of a stream is bytes; `Decoded` takes for pointers the words that
are found from the root, and the rest for data, as the accessors do.  A wrong frame,
a packed word too many or an offset that overlaps shows as a value that differs.

## Runs

Each can be repeated with `tlc -config <cfg> <module>`.

| Run | Module, cfg | What it shows |
| --- | --- | --- |
| `question_table` | QuestionTable, `QuestionTable.cfg` | four calls that reuse ids: no table meets an unexpected message, no outcome is mixed up, free ids are exactly the null slots, tables drain, every call is settled for good unless its entry waits for another call or was refused; `CallLifecycle` is implemented; the invariant of the proof holds |
| `connection` | MCRpcConn, `MCRpcConn.cfg` | two vats with main interfaces, capabilities passed and forwarded both ways, unknown methods, finalizers: calls run once, where they should and in order on one route, export and import counts agree, both directions implement `QuestionTable`; the invariant of the proof holds |
| `connection_live` | MCRpcConn, `MCRpcConnLive.cfg` | queues of two calls, methods that return nothing, give back what they were passed, or throw: a queued call is in exactly one queue; every call is settled but those left in a `QueueClient` |
| `local_calls` | LocalCalls, `LocalCalls.cfg` | four calls on servers, promises and promises that resolve to promises: each is started at most once, where its promise resolves to, in order, and is settled unless it waits on a promise that was rejected after it was given out; one on a promise that was refused at once is settled |
| `ring_queue` | RingQueue, `RingQueue.cfg` | four slots, any number of them used at the start: the used slots are the right ones, and the ring is a FIFO queue |
| `heap` | MCHeap, `MCHeap.cfg` | five calls on a message with segments of two words: no call throws, objects, orphans and landing pads are disjoint, erasing stays inside the object, and what is read back is the tree that was built (`Trees`) |
| `wire` | MCWire, `MCWire.cfg` | two calls on a struct of each generated class: what was written is read, other fields and unions are as before, streams are read as they were written |
| `heap_erase` | MCHeap, `MCHeapErase.cfg` | **violated**: erasing a list of words wipes what follows it, or throws |
| `bootstrap_result` | MCRpcConn, `MCRpcConnBootstrap.cfg` | **violated**: the bootstrap interface arrives as null |
| `order_across_routes` | MCRpcConn, `MCRpcConnOrder.cfg` | **violated**: a direct call overtakes a pipelined one |
| `import_received_again` | MCRpcConn, `MCRpcConnDropped.cfg` | **violated**: a capability sent again is an `ErrorClient` |
| `queued_call_hangs` | MCRpcConn, `MCRpcConnQueued.cfg` | **violated**: a call queued on an answer that is fulfilled with a capability is never settled |

Runs switch deadlock checking off where the system may really stop: once the
bounded number of calls has been made and settled, nothing is left to do; in
`heap` and `wire`, once the bounded number of calls on the message has been made.
`ring_queue` keeps it on.

Every property of a passing run has been seen to fail on a broken variant of the
code.  The variants are the operators marked as broken in each module, most of them
next to the operator they stand for: a tag that is not counted, a mask that is
left out, a run one word too long, an id freed twice or off by one, a slot that is not cleared, a queue that is not
emptied, a call overtaken on the wire, a reference not counted, and so on.

## Bounds

| Bound | Where | Why it is enough |
| --- | --- | --- |
| `Call` of 4 | `question_table` | an id is reused with one or two others in flight, and the free stack holds three ids at most between; the proofs remove the bound |
| `MaxCalls` 3 and 1 | `connection` | bootstrap or first call, a call pipelined on it, a call on the result before or after the Return, and one call of the other vat on what it was passed: that is a call forwarded back, a capability received twice, and both directions busy |
| `CallQueueSize` 1 and 2 for 64 | `connection`, `connection_live`, `local_calls` | the queue is met empty, filled and full; order in a queue needs two |
| `MaxCalls` 4 and 0 | `connection_live` | a call, two queued on it, one queued on a queued one |
| `MaxCalls` 4, two servers | `local_calls` | a promise that resolves to a promise, with a call on each, and two on one |
| `Cap` 4, three items | `ring_queue` | start passes the end of the storage with elements on both sides; the proofs remove the bound |
| `SegWords` 2 for 512 | `heap` | a struct with a word and a pointer fills a segment, so that near, far and double far pointers all come up within three calls; so does a single segment that grows |
| `MaxCalls` 5, `MaxWords` 10, `Depth` 3 | `heap` | build two objects, take one out or copy it, send or replace something, put it back; ten words are five segments |
| one word of data, one client, structs of up to two words | `heap` | a place is either as it was or not; more values tell nothing more apart |
| `MaxCalls` 2 | `wire` | one call for each pair of fields of a class: the first selects an arm or writes a value, the second must leave it alone; reading back is part of the properties.  A third call would reach what is said under [What is not modelled](#what-is-not-modelled) |
| `Fill` 0 and 255 | `wire` | all bits of a field set, or none: an overlap of a single bit shows |
| `MaxRun` 2 for 255 | `wire` | texts of five words have runs one shorter, as long as, and one longer than what a count can hold |
| `SegWords` 4 | `wire` | the larger classes fill a segment at once, the smaller leave room; a second segment makes the header even and odd |

`connection` has no methods that return or are passed nothing (a null client comes from
`bootstrap` there), and `connection_live` no vat that is called back: each run leaves out
what the other has, to keep both under a few minutes.  No symmetry is used: the vats differ in their bounds and the
servers in what they are for.

## Fairness

Weak fairness, on what the runtime does without anybody's help:

- each message that was delivered is handled (`HandleMessage`, `HandleReturn`, ...):
  `work()` awaits the next message in a loop, and the transport is reliable;
- server methods end.  This is an assumption about the application; without it no
  call has to be settled.  It is on each method that was started.  In `QuestionTable`
  these are the entries that are `"running"`; nothing is assumed about an entry that
  waits for another call, since `fulfill` may have moved that call to a `QueueClient`, or
  the call it waits for may be unimplemented;
- promise callbacks of settled promises run (`JoinSettles`, `Joins`), and a
  recursion that began goes on (`RejectNext`).

There is none on calls: no application has to make any.  There is none on
finalizers either.

## Proofs

`QuestionTableProofs`, `RpcTableProofs`, `RpcInvProofs`, `RpcRunProofs`, `RpcPathProofs`,
`LocalCallsProofs`, `RingQueueProofs` and `SegmentsProofs`, checked by tlapm with Z3, Zenon and LS4.

**QuestionTable.**  For every set of calls and outcomes (assumption
`ConstantsAssumption`: the two null values are not calls or outcomes, results are
not exceptions):

- `Invariant`: `IInv` is inductive.  `NoProtocolError` alone is not: it says nothing
  about where ids are.  `IInv` follows an id on its way.  A waiting call is in one
  slot (`SlotsInv`); a Call in flight owns its slot, and if its id still has an
  entry at the other end, the Finish of that entry is *ahead of it* in the same
  channel (`CallsInv`); an entry is waited for, or there is a Return or Finish in
  flight that will drop it (`EntriesInv`); a Return carries what was decided for
  the call in the slot, and excludes a Finish for that id (`ReturnsInv`); a Finish
  names a settled entry and is the only one (`FinishesInv`).  The position
  argument in `CallsInv` is where FIFO order is needed: with a transport that
  reorders, the reused id would meet the old entry.
- `TypeCorrect`, `Protocol`, `Crosstalk`, `FreeIds` follow from it.
- `Lifecycle`: the protocol implements `CallLifecycle`, by step simulation under
  `IInv` (`Answer` and `HandleCallSettled` are `Decide`, `HandleReturn` is `Settle`).

- `NothingLeft`: when both channels are empty, the ids of the slots in use are exactly those of
  the entries, and no entry is done: only calls that the answering vat has not
  settled keep anything.  It rests on `UsedInv` (a slot in use has its Call in flight, or an entry
  that no Finish in flight is about to drop) and on the part of `FinishesInv` that says
  that the call whose entry a Finish drops is settled.

**RpcConn.**  For two vats and any `MaxCalls`, `CallQueueSize`, `Passing`, `Returning`, `Method`,
`Host` and `Dropping`; so for every number of calls, although the runs need a bound.

Its reference counts (`RpcTableProofs`, first part):

- `CountsInvariant`: `CountsInv` is inductive.  The counts alone are not.  A count is
  found by comparing clients, so every export must have a client of its own, and
  no gap may make `addExport` reuse an id (`ExportTable`); a new export starts at one
  reference only because nothing in flight and nothing imported has that id yet
  (`Channel`, and the imports being exports of the peer); `initMain()` must not be
  forgotten when its server is exported again.  For what is held, a reference that
  is dropped must have been counted (`CallTable`).
- `Held_IsCounted`: `HeldIsCounted` follows.

Its tables (`RpcTableProofs`, second part, and `RpcInvProofs`):

- `Everything`: `Inv` is inductive.  It has four parts, and none is inductive without
  the others.  `CountsInv` is above.  Each direction, read as a `QuestionTable`, keeps
  the invariant `IInv` of `QuestionTable`: without it a Return could meet a slot of
  another call.  `TablesInv` says that what a `QuestionTable` does not have agrees with what
  it has: an entry and the call it is for, a Call in flight and the record its
  sender keeps, the queue of an entry and the entries that wait in it, a forwarded
  call and the question it was forwarded with.  `AwaitedOK` says that a queued call waits
  for one that is decided or that an entry still waits for.
- `Directions`: both directions implement `QuestionTable`, its calls being the positive
  numbers.  This is how `Everything` is proved: every action is shown to be, in each
  direction, one step of `QuestionTable` or none, from which `IInv` is inherited.
  `RpcTableProofs` has what that needs of the mapping: what sending and receiving do
  to a channel of which only some kinds of messages are seen, what a new or settled
  entry does to the mapped table, and that a call is decided once.
  `IdProtocolImplemented`, which the run checks, is the same statement with the numbers
  cut at the bound of the run.
- `TypeCorrect`, `Protocol` (no handler throws) and `QueuedOncePlaced` follow, and
  `Accounting`: `ExportAccounting` holds in every state.  A handler that throws on a Return
  it has no question for does not read the descriptor, and that reference would be
  counted nowhere; `Exports_AreAccounted` in `RpcTableProofs` therefore has the condition that no
  handler has thrown, and `Protocol` removes it.

Its methods (`RpcRunProofs`):

- `RunsOnce`: a method is started at most once per call, and was started if the
  caller got results.  The invariant is `RunsInv`: a Call in flight has not run, and
  there is one of it; an entry that waits for a method, and one that has results,
  belong to a call that ran; a queued call has not run.  A call that is forwarded
  goes back to the vat it came from under a second number.  Then the first number
  must not run in that vat either, the second must not be forwarded again (it is on
  an import of its sender, hence an export of its receiver), and a call may be
  forwarded once; this is what `CallRun` has of calls that are on an answer.

Its paths (`RpcPathProofs`):

- `DesignatedReached` and `OneRouteOrdered`: `ReachesDesignated` and `OrderedOnOneRoute` hold for
  every number of calls.  Both follow from `PathsInv`, which `PathsAgree` proves inductive
  together with `Inv` and `RunsInv`.
- `ReachesDesignated` speaks of a call that has run and a result that has arrived, and
  between the two the server that is meant is said in several ways: by the client in the
  answer of the peer, by the descriptor in the Return, by the client of the result, by
  the log of the methods started, and by the export that a Call in flight names.  `Claims(v, m)` is
  the set of the servers that are said for the call m, and `ClaimsAgree` that there is at most one of
  them, and none before the call is decided.  A step may add a claim, and then it
  must be an old one or the first: a client that is turned into a descriptor, or back, leads
  where it led (`Destination`, `Shipped`; `ExportObjects` ties an export to the server of its
  client, and an export that is named is not closed, by the reference counts).  That a
  Call on an answer finds the answer of the call it was made on, although ids are reused, is
  `AimsOK` with `SlotsOK`: the Finish that frees an id lies between the two in the channel.
- `OrderedOnOneRoute` needs that the log, the Calls in flight and the calls that were forwarded are
  each in the order in which their calls were made, and lie one behind the other (`OrderOK`).  Calls
  that are started at one vat are then in order.  Two calls on one reference that took one
  route might still be started at different vats, one of them forwarded; both would then be calls
  on a promise (`OriginsOK`), and their claims would differ.
- The results of `bootstrap` are left out of the claims (they are null, see finding 1), and
  so is the `ErrorClient` that a dropped import comes back as, which designates nothing.
- `Agreement`: `ConnInv`, the part of the whole invariant that the run checks.

`PathsInv` relates the two tables, the two channels and the log, and a step changes few
of them.  `PathOK` has all of it but the claims as a predicate on any tables and
channels; lemmas say what reading a message, sending one, making a call and settling
one do to it (`AskerSays`, `AskerFinishes`, `AnswererStep`), and others which claims they
can add (`QuietClaims`, `EntriesBack`, `ReturnsBack`, `RunsBack`, `TargetsBack`).  For each action one
lemma puts them together, for the vat that acts as the asker of one direction and the
answerer of the other.

A step of a vat touches the two halves of a count at different times, and the proof
is cut there: what it *emits* (its exports, and the messages to its peer), what it
*reads* (its imports, and the messages to it) and what it *keeps* (its calls against
its imports) are separate lemmas about tables, `StepKeeps` puts them together, and
each action is shown to be one of few kinds of each.

**LocalCalls.**  For every `MaxCalls`, every `CallQueueSize` and with or without eager methods:

- `Invariant`: `LocalInv` is inductive.  The properties alone are not: none says what
  may be in a queue that is about to be flushed, nor what holds *during* a flush,
  when some of its calls have been started, others queued elsewhere, and an eager
  method has called the very promise that is being resolved.  `LocalInv` is
  `Sound(calls, delivered, <<>>)`, whose third argument is the calls *in the air*: taken
  from a queue and not placed yet.  `CallsOK`: a call refers to promises of earlier calls only, and a
  promise with an answer has an empty queue.  `RunsOK`: the log has a call once, and none that
  waits.  `QueuesOK`: a waiting call is in one queue or in the air, once.
  `AimOK`: it waits where the promise it was made on leads to, and was started there.
  `OrderOK`: of two calls on one promise the later is not ahead of the earlier,
  in the log, in a queue or in the air, and none is in a queue while an earlier one
  is in the air.
- The argument along a step: resolving a promise puts its queue in the air
  (`Resolves`); the first call in the air is placed, which may start it and with it one call that it
  makes (`Places`, `Dispatches`), or is refused; the newest call, which nothing refers to yet, may be
  refused with an answer that leads nowhere (`RefusesCall`); at the end nothing is in the air
  (`FlushKeeps`, by the least number of calls after which `Sound` would fail).  What a
  client leads to (`Target`) is a recursive function, so that first its equation
  is proved (`TargetIs`), then that it ends at a server, nothing, or a promise without an answer
  (`TargetEnds`), and that resolving a promise moves just what led to it
  (`TargetResolved`).
- `TypeCorrect`, `StartedOnce`, `QueuedOnce`, `StartedInOrder` and `StartedAtResolved` follow: all the
  invariants that the run `local_calls` checks.

The recursive functions of the models (`OfKinds`, the part of a channel that
`QuestionTable` sees; `Target` and `Flush` of `LocalCalls`) have no definition that the provers can unfold.  That there is such
a function is proved by a least counterexample, with `LeastNatural`, instead of an
induction over an operator.  A step of the model binds many values at once; the
proofs name them with PICK and give each fact that a lemma needs a step of its own,
in these names, before they use the lemma.  The models these proofs are about do not
nest one `@` in another (`[s EXCEPT !.f = [@ EXCEPT ![n] = g(@)]]`), which tlapm expands to
something else than TLC does.

**RingQueue.**  For every `Cap` in `Nat` (also 0) and every initial fill up to `Cap`:

- `Invariant`: type correctness and `SlotsMatch` are inductive together.  The lemma
  `Places` says that places less than `Cap` apart are different slots.
- `TypeCorrect`: `TypeOK`, with the index in the storage.
- `Slots`: no slot is kept alive after `pop()`, and `push()` overwrites none that waits.
- `Implements`: the ring refines `Fifo`, with the items from `start` on as the queue.

**Segments.**  For every message, every segment length (assumption `SegWordsAssumption`:
at least one word) and every set of data:

- `AllocateIsFresh`: what `Allocate` hands out is zero, lies in one segment, was not
  allocated before, and no other word changes.  Three cases: there is room, the
  buffer of the single segment grows, a segment is added; in the last two the
  point is that what was asked for fits (`LargerIsEnough`).
- `LinkLeads`: after `Link` the pointer leads to the content, and nothing changes but
  its own word and fresh ones.  Again three cases, near, far and double far; for
  the far ones `AllocateIsFresh` says that the landing pad is nobody else's, so that
  writing it destroys neither the pointer nor the content.

These are lemmas about the operators, for every state: `ObjectsDisjoint` rests on the
first and `BuildsTheTree` on the second, but neither is proved as an invariant,
since `Objects` walks pointers with recursive operators.

Only model-checked:

- all liveness (`SettledUnlessOrphaned` is all that is left of `LocalCalls`): fairness
  and ENABLED are beyond the prover;
- all of `Heap` and `Wire`, which walk pointers with recursive operators.

## Where code and documentation disagree

1. **Bootstrap gives nothing** (`conn.ts:152`, run `bootstrap_result`).
   `handleBootstrapMessage` fulfills the answer with an `Interface` whose pointer
   was never written.  The capability table of the Return is empty, and the
   promise resolves to a null client.  Calls pipelined before the Return work,
   because the answer at the callee has the client.
2. **Order is not kept across routes** (`question.ts:98`, run `order_across_routes`).
   `client.ts:17` promises delivery in the order of the calls.  When a promise
   resolves to a capability of the caller itself, calls pipelined earlier are
   still on their way to the peer and back; there is no embargo.
   `OrderedOnOneRoute` is what does hold.
3. **A dropped import cannot be received again** (`refcount.ts:47`, run
   `import_received_again`).  The entry stays in `imports` with a count of zero, and
   `addImport` turns the next descriptor with that id into an `ErrorClient`.
4. **Queued calls are lost** (`answer.ts:90`, run `queued_call_hangs`).  Nothing calls
   `QueueClient.flushQueue`.  `SettledUnlessParked` is what does hold.
5. **Erasing a list wipes its neighbours** (`pointer.utils.ts:289`, run `heap_erase`).
   `erase` is said to erase a pointer and the content it points to; for a list of
   bytes or words it takes a number of bytes for a number of words.

Four that no run here shows as a disagreement:

- A rejected Fulfiller keeps its queue (`fulfiller.ts:55`).  `reject` is said to resolve
  the Fulfiller, and does not: calls pipelined on a local call that throws are never
  settled.  Those on an `ErrorAnswer` are.  `SettledUnlessOrphaned` is what does hold.
- The `Queue` of a `QueueClient` is full from the start (`queue-client.ts:38`): it is told
  that it holds `callQueueSize` elements, whatever the number of calls it was made with.
  `queue-client.ts:23` calls that the maximum number of calls that can be queued; the
  first call that comes after those it was made with is refused.  `RpcConn.Resolution`
  has this; a refused call is a settled one, so that no property fails.
- `getInt32` reads two bytes of a default mask that `setInt32` writes with four
  (`struct.utils.ts:376`).  No class under `src/zap/` has such a default.
- `toArrayBuffer` computes the frame before the first segment of an untouched message
  exists (`message.ts:442`), so that the header says length 0.

A call to an unknown interface or method is another that never settles
(`conn.ts:173`): the caller ignores Unimplemented.  `rpc.zap` only says that a
caller *may* treat it as an exception, so it is no disagreement;
`SettledUnlessLeft` of `QuestionTable` excepts those calls.

## What is not modelled

- `shutdown()` on Abort: a stub that closes the transport.  No code sends Abort,
  Resolve, Disembargo, Release, Provide, Accept or Join, and `handleMessage` ignores
  all of them but Abort.
- `RECEIVER_ANSWER` descriptors and `LocalAnswerClient`: a promise passed as a
  parameter.
- A transport that fails or throws.  `DeferredTransport.recvMessage` holds a single
  `Deferred`; that it never gets a second message before the loop asks again rests
  on each message being an event-loop task of its own.
- Closing of clients by the application: only finalization closes a `Ref` in
  these models.  `EmbargoClient.close`, `Fulfiller.pipelineClose`,
  `QueueClient.close` and `pushEmbargo` have no caller on the modelled paths.
- Data: parameters and results are reduced to the one capability they hold,
  transforms to its place.
- In messages: lists of bits, bytes and half words (an element is a word, a pointer or
  a struct), text that is not whole words, traversal and depth limits, reading a
  malformed stream, `relocateTo` and `readRawPointer`, which nothing calls, and the Array
  methods of `List`.  The calls named in `Objects.Faults` are left out of the passing
  runs, for the reasons given there.
- A getter of an arm that was selected without being written.  A setter of another field of
  the arm, or the `_init` of its group, writes the discriminant and leaves the pointers of the arm
  before; a getter then refuses what it finds (`validate` in `getStruct`, `struct.utils.ts:622`).
  `Wire.Got` has this, but it takes three calls, and `NeverThrows` does not hold of three.
  `getList` looks at no kind; where it would take the word before another object
  for the tag of a list of structs, `Got` leaves the object as it is.
- The compiler, debug output, errors and utilities, for good: text in, text out.

## Plan

Done: `CallLifecycle`, `QuestionTable` with its proofs, `RpcConn` with the proofs of
its counts, its tables, its methods and the paths of its calls, `LocalCalls` with its proofs,
`Fifo`, `RingQueue` with its proofs, `Segments` with its proofs, `Objects`, `Heap`, `Trees`,
`Layouts` and the classes, `Stream`, `Wire`.

What would come next, in this order:

1. **DeferredTransport**: the one `Deferred`, messages and `close` in every order,
   and that it implements the FIFO `RpcConn` assumes when each message is a task.
2. **Lists of smaller elements** in `Objects`: the padding of bytes and bits to words.
3. **Proofs**: no overlap in the heap.
