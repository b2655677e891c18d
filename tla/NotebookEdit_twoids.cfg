SPECIFICATION Spec
CONSTANTS
  Calls = {c1, c2}
  Tools = {"read"}
  Human = Human
  a = a
  b = b
  Books <- IdlessBooks
  Fragments = {a}
  Rewritten = {b}
  MaxSaves = 0
  None = None
SYMMETRY CallSymmetry
INVARIANTS
  HandedOutIdsStay
CHECK_DEADLOCK FALSE
