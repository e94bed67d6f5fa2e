SPECIFICATION Spec
CONSTANTS
  Data = {1}
  Zero = 0
  SegWords = 2
  Sizes <- HeapSizes
  Lists <- HeapLists
  Clients = {"c"}
  MaxWords = 10
  MaxCaps = 1
  MaxCalls = 5
  Depth = 3
  Avoided = {"replaceStructs", "copyStructs", "copyFromInside", "moveStructs", "upgradePointers", "moveCap"}
INVARIANT EraseStaysInside
CHECK_DEADLOCK FALSE
