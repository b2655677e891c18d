SPECIFICATION Spec
CONSTANTS
  Versions = {1, 2}
  Others = {other}
  MaxMade = 2
  Crowded = FALSE
  Attaches = TRUE
INVARIANTS
  OneOfEach
  CompletedMeansReconciled
PROPERTIES
  GateBeforeDoor
  TheRestIsKept
CHECK_DEADLOCK FALSE
