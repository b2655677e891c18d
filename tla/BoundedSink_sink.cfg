SPECIFICATION Spec
CONSTANTS
  Budget = 4
  MaxOutputs = 4
  MaxChars = 6
  Partial = 4
  Streams = {stdout, stderr}
  Spots = {1}
  MaxChunk = 5
  MaxPrinted = 6
  MaxEntries = 6
SYMMETRY Symmetry
INVARIANTS
  Bounds
  StreamingIsFolding
  EndIsShown
  LossIsMarked
CHECK_DEADLOCK FALSE
