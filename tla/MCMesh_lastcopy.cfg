SPECIFICATION Spec
CONSTANTS
  Device = {d1, d2}
  Item = {f1}
  Handler = {h1, h2}
  MaxOps = 4
  MaxSyncs = 2
SYMMETRY Symmetry
INVARIANT SomeoneKeepsIt
