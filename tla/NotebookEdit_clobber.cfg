SPECIFICATION Spec
CONSTANTS
  Calls = {c1, c2}
  Tools = {"read", "edit"}
  Human = Human
  a = a
  b = b
  Books <- FullBooks
  Fragments = {a}
  Rewritten = {b}
  MaxSaves = 1
  None = None
SYMMETRY CallSymmetry
PROPERTIES
  GuardedWriteNeverClobbers
CHECK_DEADLOCK FALSE
