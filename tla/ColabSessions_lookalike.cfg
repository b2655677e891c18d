SPECIFICATION Spec
CONSTANTS
  Sessions = {s1}
  Tasks = {t1}
  Reaper = Reaper
  Nobody = Nobody
  Tools = {"exec"}
  Faults = {"lookalike"}
INVARIANTS
  ReportedLostIsGone
CHECK_DEADLOCK FALSE
