CONSTANTS
  MaxCalls = 4
  CallQueueSize = 2
  Eager = {TRUE, FALSE}
SPECIFICATION FairSpec
INVARIANTS TypeOK RunOnce ReachesResolved OrderedUnlessReentrant QueuedInOnePlace
PROPERTIES SettledUnlessOrphaned
CHECK_DEADLOCK FALSE
