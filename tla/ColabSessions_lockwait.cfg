SPECIFICATION Spec
CONSTANTS
  Sessions = {s1}
  Tasks = {t1, t2}
  Reaper = Reaper
  Nobody = Nobody
  Tools = {"exec"}
  Faults = {}
INVARIANTS
  ReaperNeverWaits
CHECK_DEADLOCK FALSE
