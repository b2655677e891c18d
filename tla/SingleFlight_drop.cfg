SPECIFICATION Spec
CONSTANTS
  Kernels = {k1}
  Calls = {c1, c2}
  Idents = {i1, i2}
  Pollers = {}
  NoCall = NoCall
  Faults = {}
SYMMETRY CallSymmetry
INVARIANTS
  OneExecutionPerKernel
CHECK_DEADLOCK FALSE
