CONSTANTS
  alice = alice
  bob = bob
  Vat <- Vats
  Host <- OnlyBob
  MaxCalls <- Calls30
  CallQueueSize = 1
  Passing = {"nothing"}
  Returning = {"nothing"}
  Method = {"known"}
  Dropping <- Nobody
SPECIFICATION Spec
INVARIANTS BootstrapGivesMain
CHECK_DEADLOCK FALSE
