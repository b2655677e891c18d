SPECIFICATION Spec
CONSTANTS
  Kernels = {k1, k2}
  Tasks = {t1, t2}
  Reaper = Reaper
  Nothing = Nothing
  MaxKernels = 1
  Tools = {"start"}
  Undeletable = {}
  MaxStarts = 2
  Outside = {}
INVARIANTS
  AtMostMaxKernels
CHECK_DEADLOCK FALSE
