SPECIFICATION FairSpec
CONSTANTS
  Sessions = {s1}
  Tasks = {t1, t2}
  Reaper = Reaper
  Nobody = Nobody
  Tools = {"start", "exec", "list", "restart", "stop", "stop_unknown", "pin"}
  Faults = {}
PROPERTIES
  ReaperCleansUp
CHECK_DEADLOCK FALSE
