CONSTANTS
  alice = alice
  bob = bob
  Vat <- Vats
  Host <- OnlyBob
  MaxCalls <- Calls40
  CallQueueSize = 2
  Passing = {"nothing", "object"}
  Returning = {"nothing", "param", "exception"}
  Method = {"known"}
  Dropping <- Nobody
SPECIFICATION FairSpec
INVARIANTS QueuedInOnePlace
PROPERTIES SettledUnlessParked
CHECK_DEADLOCK FALSE
