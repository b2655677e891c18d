SPECIFICATION FairSpec
CONSTANTS
  Sessions = {s1}
  Tasks = {t1}
  Reaper = Reaper
  Nobody = Nobody
  Tools = {"pin"}
  Faults = {}
PROPERTIES
  NothingLivesPastMaxAge
CHECK_DEADLOCK FALSE
