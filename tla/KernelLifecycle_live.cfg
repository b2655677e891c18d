SPECIFICATION FairSpec
CONSTANTS
  Kernels = {k1, k2}
  Tasks = {t1, t2}
  Reaper = Reaper
  Nothing = Nothing
  MaxKernels = 1
  Tools = {"start", "exec", "stop", "list", "pin"}
  Undeletable = {k1}
  MaxStarts = 2
  Outside = {k2}
PROPERTIES
  StartKeepsCap
  OnlyTheDeadAreForgotten
  TurnsOff
CHECK_DEADLOCK FALSE
