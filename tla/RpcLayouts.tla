----------------------------- MODULE RpcLayouts ------------------------------
(***************************************************************************)
(* The classes of the RPC protocol: src/zap/rpc.ts, rpc-twoparty.ts,       *)
(* persistent.ts.                                                          *)
(***************************************************************************)
EXTENDS Layouts

(* The arms of a message, by the levels of the protocol. *)
Message_Level0 ==
  [unimplemented |-> Arm(0, StructAt(0, "Message")),
   abort |-> Arm(1, StructAt(0, "Exception")),
   bootstrap |-> Arm(8, StructAt(0, "Bootstrap")),
   call |-> Arm(2, StructAt(0, "Call")),
   return |-> Arm(3, StructAt(0, "Return")),
   finish |-> Arm(4, StructAt(0, "Finish"))]

Message_Level1 ==
  [resolve |-> Arm(5, StructAt(0, "Resolve")),
   release |-> Arm(6, StructAt(0, "Release")),
   disembargo |-> Arm(13, StructAt(0, "Disembargo")),
   obsoleteSave |-> Arm(7, PointerAt(0)),
   obsoleteDelete |-> Arm(9, PointerAt(0))]

Message_Level3 ==
  [provide |-> Arm(10, StructAt(0, "Provide")),
   accept |-> Arm(11, StructAt(0, "Accept")),
   join |-> Arm(12, StructAt(0, "Join"))]

Message == Union(<<1, 1>>, 0, None, Message_Level0 @@ Message_Level1 @@ Message_Level3)

Bootstrap ==
  Record(<<1, 1>>,
    [questionId |-> Uint32(0), deprecatedObjectId |-> PointerAt(0)])

Call_SendResultsTo ==
  Union(<<3, 3>>, 6,
    None,
    [caller |-> Arm(0, Void), yourself |-> Arm(1, Void),
     thirdParty |-> Arm(2, PointerAt(2))])

Call ==
  Record(<<3, 3>>,
    [questionId |-> Uint32(0), target |-> StructAt(0, "MessageTarget"),
     interfaceId |-> Uint64(8), methodId |-> Uint16(4),
     allowThirdPartyTailCall |-> Bit(128, FALSE),
     noPromisePipelining |-> Bit(129, FALSE),
     onlyPromisePipeline |-> Bit(130, FALSE), params |-> StructAt(1, "Payload"),
     sendResultsTo |-> Group("Call_SendResultsTo")])

Return ==
  Union(<<2, 1>>, 6,
    [answerId |-> Uint32(0), releaseParamCaps |-> Bit(32, TRUE),
     noFinishNeeded |-> Bit(33, FALSE)],
    [results |-> Arm(0, StructAt(0, "Payload")),
     exception |-> Arm(1, StructAt(0, "Exception")), canceled |-> Arm(2, Void),
     resultsSentElsewhere |-> Arm(3, Void),
     takeFromOtherQuestion |-> Arm(4, Uint32(8)),
     acceptFromThirdParty |-> Arm(5, PointerAt(0))])

Finish ==
  Record(<<1, 0>>,
    [questionId |-> Uint32(0), releaseResultCaps |-> Bit(32, TRUE),
     requireEarlyCancellationWorkaround |-> Bit(33, TRUE)])

Resolve ==
  Union(<<1, 1>>, 4,
    [promiseId |-> Uint32(0)],
    [cap |-> Arm(0, StructAt(0, "CapDescriptor")),
     exception |-> Arm(1, StructAt(0, "Exception"))])

Release ==
  Record(<<1, 0>>,
    [id |-> Uint32(0), referenceCount |-> Uint32(4)])

Disembargo_Context ==
  Union(<<1, 1>>, 4,
    None,
    [senderLoopback |-> Arm(0, Uint32(0)),
     receiverLoopback |-> Arm(1, Uint32(0)), accept |-> Arm(2, Void),
     provide |-> Arm(3, Uint32(0))])

Disembargo ==
  Record(<<1, 1>>,
    [target |-> StructAt(0, "MessageTarget"),
     context |-> Group("Disembargo_Context")])

Provide ==
  Record(<<1, 2>>,
    [questionId |-> Uint32(0), target |-> StructAt(0, "MessageTarget"),
     recipient |-> PointerAt(1)])

Accept ==
  Record(<<1, 1>>,
    [questionId |-> Uint32(0), provision |-> PointerAt(0),
     embargo |-> Bit(32, FALSE)])

Join ==
  Record(<<1, 2>>,
    [questionId |-> Uint32(0), target |-> StructAt(0, "MessageTarget"),
     keyPart |-> PointerAt(1)])

MessageTarget ==
  Union(<<1, 1>>, 4,
    None,
    [importedCap |-> Arm(0, Uint32(0)),
     promisedAnswer |-> Arm(1, StructAt(0, "PromisedAnswer"))])

Payload ==
  Record(<<0, 2>>,
    [content |-> PointerAt(0), capTable |-> ListAt(1, "CapDescriptor")])

CapDescriptor ==
  Union(<<1, 1>>, 0,
    [attachedFd |-> WithDefault(Uint8(2), 255)],
    [none |-> Arm(0, Void), senderHosted |-> Arm(1, Uint32(4)),
     senderPromise |-> Arm(2, Uint32(4)), receiverHosted |-> Arm(3, Uint32(4)),
     receiverAnswer |-> Arm(4, StructAt(0, "PromisedAnswer")),
     thirdPartyHosted |-> Arm(5, StructAt(0, "ThirdPartyCapDescriptor"))])

PromisedAnswer_Op ==
  Union(<<1, 0>>, 0,
    None,
    [noop |-> Arm(0, Void), getPointerField |-> Arm(1, Uint16(2))])

PromisedAnswer ==
  Record(<<1, 1>>,
    [questionId |-> Uint32(0), transform |-> ListAt(0, "PromisedAnswer_Op")])

ThirdPartyCapDescriptor ==
  Record(<<1, 1>>,
    [id |-> PointerAt(0), vineId |-> Uint32(0)])

Exception ==
  Record(<<1, 2>>,
    [reason |-> TextAt(0), type |-> Uint16(4),
     obsoleteIsCallersFault |-> Bit(0, FALSE), obsoleteDurability |-> Uint16(2),
     trace |-> TextAt(1)])

VatId ==
  Record(<<1, 0>>,
    [side |-> Uint16(0)])

ProvisionId ==
  Record(<<1, 0>>,
    [joinId |-> Uint32(0)])

JoinKeyPart ==
  Record(<<1, 0>>,
    [joinId |-> Uint32(0), partCount |-> Uint16(4), partNum |-> Uint16(6)])

JoinResult ==
  Record(<<1, 1>>,
    [joinId |-> Uint32(0), succeeded |-> Bit(32, FALSE), cap |-> PointerAt(0)])

Persistent_SaveParams ==
  Record(<<0, 1>>,
    [sealFor |-> PointerAt(0)])

Persistent_SaveResults ==
  Record(<<0, 1>>,
    [sturdyRef |-> PointerAt(0)])

(* All of them, by name. *)
RpcClasses ==
  [Message |-> Message, Bootstrap |-> Bootstrap,
   Call_SendResultsTo |-> Call_SendResultsTo, Call |-> Call, Return |-> Return,
   Finish |-> Finish, Resolve |-> Resolve, Release |-> Release,
   Disembargo_Context |-> Disembargo_Context, Disembargo |-> Disembargo,
   Provide |-> Provide, Accept |-> Accept, Join |-> Join,
   MessageTarget |-> MessageTarget, Payload |-> Payload,
   CapDescriptor |-> CapDescriptor, PromisedAnswer_Op |-> PromisedAnswer_Op,
   PromisedAnswer |-> PromisedAnswer,
   ThirdPartyCapDescriptor |-> ThirdPartyCapDescriptor, Exception |-> Exception,
   VatId |-> VatId, ProvisionId |-> ProvisionId, JoinKeyPart |-> JoinKeyPart,
   JoinResult |-> JoinResult, Persistent_SaveParams |-> Persistent_SaveParams,
   Persistent_SaveResults |-> Persistent_SaveResults]
=============================================================================
