SPECIFICATION Spec
CONSTANTS
  Device = {d1, d2}
  Doc = {a, b}
  None = None
  Acts = {"drop", "edit", "share", "delete", "restore", "resolve", "crash"}
  MaxItem = 2
  MaxOps = 3
  MaxFails = 1
SYMMETRY Symmetry
INVARIANTS TypeOK NamesAreUnique MappedItemsStayListed
CHECK_DEADLOCK FALSE
