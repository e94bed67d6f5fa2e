CONSTANTS
  alice = alice
  bob = bob
  Vat <- Vats
  Host <- OnlyBob
  MaxCalls <- Calls40
  CallQueueSize = 1
  Passing = {"object"}
  Returning = {"param"}
  Method = {"known"}
  Dropping <- Nobody
SPECIFICATION Spec
INVARIANTS DeliveredInOrder
CHECK_DEADLOCK FALSE
