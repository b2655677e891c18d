SPECIFICATION Spec
CONSTANTS
  Kernels = {k1, k2}
  Execs = {e1, e2}
  Workers = 1
  Human = Human
  MaxHuman = 1
  Faults = {"lookup_fails"}
SYMMETRY ExecKernelSymmetry
INVARIANTS
  ReturnedMeansOver
  NothingIsWrittenOff
  PoolAccounts
PROPERTIES
  InterruptsNoOtherCall
CHECK_DEADLOCK FALSE
