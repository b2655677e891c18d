SPECIFICATION Spec
CONSTANTS
  Kernels = {k1, k2}
  Tasks = {t1}
  Reaper = Reaper
  Nothing = Nothing
  MaxKernels = 2
  Tools = {"exec"}
  Undeletable = {}
  MaxStarts = 1
  Outside = {k1, k2}
PROPERTIES
  BusyIsSpared
CHECK_DEADLOCK FALSE
