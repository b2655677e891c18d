SPECIFICATION FairSpec
CONSTANTS
  Kernels = {k1}
  Execs = {e1, e2}
  Workers = 1
  Human = Human
  MaxHuman = 1
  Faults = {"interrupt_fails", "restart_fails", "delete_fails"}
PROPERTIES
  ExecEnds
CHECK_DEADLOCK FALSE
