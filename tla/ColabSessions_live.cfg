SPECIFICATION FairSpec
CONSTANTS
  Sessions = {s1, s2}
  Tasks = {t1}
  Reaper = Reaper
  Nobody = Nobody
  Tools = {"exec", "list", "stop", "pin"}
  Faults = {}
PROPERTIES
  ReaperCleansUp
CHECK_DEADLOCK FALSE
