CONSTANTS
  alice = alice
  bob = bob
  Vat <- Vats
  Host <- OnlyBob
  MaxCalls <- Calls30
  CallQueueSize = 1
  Passing = {"nothing"}
  Returning = {"object"}
  Method = {"known"}
  Dropping <- Vats
SPECIFICATION Spec
INVARIANTS ReceivedIsUsable
CHECK_DEADLOCK FALSE
