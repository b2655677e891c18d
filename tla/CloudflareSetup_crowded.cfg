SPECIFICATION Spec
CONSTANTS
  Versions = {1, 2}
  Others = {other}
  MaxMade = 2
  Crowded = TRUE
  Attaches = TRUE
INVARIANT
  OneOfEach
CHECK_DEADLOCK FALSE
