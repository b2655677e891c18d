SPECIFICATION Spec
CONSTANTS
  Sessions = {s1}
  Tasks = {t1, t2, t3}
  Reaper = Reaper
  Nobody = Nobody
  Tools = {"start", "exec", "list", "restart", "stop", "stop_unknown", "pin"}
  Faults = {"stop_fails", "crash"}
SYMMETRY ColabSymmetry
INVARIANTS
  ReportedLostIsGone
  HeartbeatNeverRaces
PROPERTIES
  TerminalNeverRoutes
  OnlyTheDeadAreDropped
CHECK_DEADLOCK FALSE
