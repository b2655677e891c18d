SPECIFICATION Spec
CONSTANTS
  Sessions = {s1}
  Tasks = {t1, t2}
  Reaper = Reaper
  Nobody = Nobody
  Tools = {"start", "list"}
  Faults = {}
PROPERTIES
  OnlyTheGoneAreDropped
CHECK_DEADLOCK FALSE
