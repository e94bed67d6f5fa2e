SPECIFICATION Spec
CONSTANTS
  Data = {}
  Zero <- WireZero
  SegWords = 4
  Clients = {}
  Avoided = {"replaceData", "replaceStructs", "copyStructs", "copyFromInside", "moveStructs", "upgradePointers", "moveCap"}
  MaxRun = 2
  Fill = {0, 255}
  Contents <- WireContents
  MaxCalls = 2
INVARIANTS TypeOK NeverThrows ReadsWhatWasWritten UnpackInvertsPack FrameIsParsed
PROPERTIES OthersKeepTheirValues OtherUnionsStay
CHECK_DEADLOCK FALSE
