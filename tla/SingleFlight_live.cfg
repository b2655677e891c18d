SPECIFICATION FairSpec
CONSTANTS
  Kernels = {k1}
  Calls = {c1, c2}
  Idents = {i1}
  Pollers = {p1}
  NoCall = NoCall
  Faults = {"stop_fails", "mcp_restart", "early_return"}
INVARIANTS
  AbandonmentIsRecorded
PROPERTIES
  PollIsCurrent
  AdmissionSpec
  ClaimIsReleased
CHECK_DEADLOCK FALSE
