SPECIFICATION FairSpec
CONSTANTS
  Device = {d1, d2}
  Item = {f1}
  Handler = {h1}
  MaxOps = 3
  MaxSyncs = 2
INVARIANTS TypeOK NoOrphanRows NoPhantomHolders DeletesWereAsked
PROPERTIES NoResurrection CopiesAreKept TombstonesSpread DeletesArrive RowsSettle
