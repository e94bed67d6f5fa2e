CONSTANTS
  alice = alice
  bob = bob
  Vat <- Vats
  Host <- Vats
  MaxCalls <- Calls31
  CallQueueSize = 1
  Passing = {"object", "held"}
  Returning = {"object", "param", "exception"}
  Method = {"known", "unknown"}
  Dropping <- Vats
SPECIFICATION Spec
INVARIANTS TypeOK NoProtocolError RunOnce ReachesDesignated OrderedOnOneRoute ExportAccounting HeldIsCounted ConnInv
PROPERTIES IdProtocolImplemented
CHECK_DEADLOCK FALSE
