SPECIFICATION FairSpec
CONSTANTS
  Device = {d1, d2}
  Doc = {a, b}
  None = None
  Acts = {"drop", "edit"}
  MaxItem = 2
  MaxOps = 3
  MaxFails = 0
PROPERTY NamesConverge
CHECK_DEADLOCK FALSE
