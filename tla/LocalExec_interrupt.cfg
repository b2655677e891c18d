SPECIFICATION Spec
CONSTANTS
  Kernels = {k1}
  Execs = {e1}
  Workers = 2
  Human = Human
  MaxHuman = 0
  Faults = {"interrupt_fails"}
SYMMETRY ExecSymmetry
INVARIANTS
  ReturnedMeansOver
CHECK_DEADLOCK FALSE
