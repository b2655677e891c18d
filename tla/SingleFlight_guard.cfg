SPECIFICATION Spec
CONSTANTS
  Kernels = {k1}
  Calls = {c1, c2, c3}
  Idents = {i1, i2}
  Pollers = {}
  NoCall = NoCall
  Faults = {}
SYMMETRY CallSymmetry
INVARIANTS
  ClaimCoversExecution
  ReplayIsOneShot
PROPERTIES
  BlindResendRunsNothing
CHECK_DEADLOCK FALSE
