SPECIFICATION FairSpec
CONSTANTS
  Calls = {c1, c2}
  Tools = {"upload", "fetch", "download"}
  MaxPieces = 3
  Cap = 2
  FailPoints = {"put", "piece", "close", "stat", "delete", "rename"}
  StrayFaults = TRUE
  Outside = Outside
  Absent = Absent
INVARIANTS
  NeverPartial
  AbortTouchesNothing
  OnlySwapsLose
PROPERTIES
  TransferEnds
CHECK_DEADLOCK FALSE
