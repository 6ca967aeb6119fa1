SPECIFICATION Spec
CONSTANTS
  Item = {f, g}
  Block = {a, b}
  Transfer = {t, u}
  None = None
  Acts = {"index", "drop", "purge", "learn", "push", "pull", "abandon", "crash"}
  MaxOps = 4
SYMMETRY Symmetry
INVARIANT TypeOK
INVARIANT StoredIsKept
CHECK_DEADLOCK FALSE
