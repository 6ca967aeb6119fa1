SPECIFICATION Spec
CONSTANTS
  Device = {d1, d2, d3}
  Code = {c1, c2}
  None = None
  Task = {t1, t2}
  CodeTTL = 1
  OfferTTL = 1
  MaxAttempts = 1
  MaxActs = 3
  MaxFaults = 1
SYMMETRY Symmetry
INVARIANTS TypeOK TrustIsProven AttemptsAreBounded OffersOutliveCodes OneTruthUnlessTorn MutualUnlessTroubled
CHECK_DEADLOCK FALSE
