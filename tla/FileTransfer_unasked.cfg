SPECIFICATION Spec
CONSTANTS
  Calls = {c1, c2}
  Tools = {"upload"}
  MaxPieces = 3
  Cap = 2
  FailPoints = {}
  StrayFaults = FALSE
  Outside = Outside
  Absent = Absent
SYMMETRY CallSymmetry
PROPERTIES
  NoOverwriteUnasked
CHECK_DEADLOCK FALSE
