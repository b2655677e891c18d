SPECIFICATION FairSpec
CONSTANTS
  Kernels = {k1, k2}
  Tasks = {t1}
  Reaper = Reaper
  Nothing = Nothing
  MaxKernels = 2
  Tools = {"start"}
  Undeletable = {k1}
  MaxStarts = 1
  Outside = {k1, k2}
PROPERTIES
  NothingLivesOn
CHECK_DEADLOCK FALSE
