CONSTANTS
  Call = {c1, c2, c3, c4}
  Result = {r}
  Exception = {x}
  NoCall = NoCall
  NoOutcome = NoOutcome
SPECIFICATION FairSpec
INVARIANTS TypeOK NoProtocolError NoCrosstalk IInv NothingLeftBehind FreeIdsAreNullSlots
PROPERTIES LifecycleImplemented SettledUnlessLeft
CHECK_DEADLOCK FALSE
