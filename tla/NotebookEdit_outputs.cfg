SPECIFICATION Spec
CONSTANTS
  Calls = {c1, c2}
  Tools = {"patch", "execute"}
  Human = Human
  a = a
  b = b
  Books <- FullBooks
  Fragments = {a}
  Rewritten = {b}
  MaxSaves = 0
  None = None
SYMMETRY CallSymmetry
PROPERTIES
  EditNeverTouchesOutputs
CHECK_DEADLOCK FALSE
