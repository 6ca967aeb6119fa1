SPECIFICATION Spec
CONSTANTS
  Device = {d1, d2}
  Doc = {a, b, c}
  None = None
  Acts = {"drop", "edit"}
  MaxItem = 2
  MaxOps = 3
  MaxFails = 0
SYMMETRY Symmetry
INVARIANT NothingIsLost
CHECK_DEADLOCK FALSE
