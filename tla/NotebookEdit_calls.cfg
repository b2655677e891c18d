SPECIFICATION Spec
CONSTANTS
  Calls = {c1, c2, c3}
  Tools = {"read", "insert", "patch", "edit", "delete", "move", "execute", "append", "create"}
  Human = Human
  a = a
  b = b
  Books <- SmallBooks
  Fragments = {a}
  Rewritten = {b}
  MaxSaves = 1
  None = None
SYMMETRY CallSymmetry
INVARIANTS
  OutputsLandInTheirCell
  IssuedRevDescribesFile
PROPERTIES
  GuardedWriteOverwritesItsRev
  WriteKeepsTheRest
CHECK_DEADLOCK FALSE
