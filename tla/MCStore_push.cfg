SPECIFICATION FairSpec
CONSTANTS
  Item = {f, g}
  Block = {a, b}
  Transfer = {t, u}
  None = None
  Acts = {"push", "abandon"}
  MaxOps = 4
PROPERTY PushIsDelivered
CHECK_DEADLOCK FALSE
