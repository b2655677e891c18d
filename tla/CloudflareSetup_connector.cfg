SPECIFICATION Spec
CONSTANTS
  Versions = {1, 2}
  Others = {other}
  MaxMade = 2
  Crowded = FALSE
  Attaches = TRUE
INVARIANT
  ConnectorServesDoor
CHECK_DEADLOCK FALSE
