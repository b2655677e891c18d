SPECIFICATION Spec
CONSTANTS
  Calls = {c1, c2}
  Tools = {"download"}
  MaxPieces = 3
  Cap = 2
  FailPoints = {"rename"}
  StrayFaults = FALSE
  Outside = Outside
  Absent = Absent
SYMMETRY CallSymmetry
INVARIANTS
  FileSurvives
CHECK_DEADLOCK FALSE
