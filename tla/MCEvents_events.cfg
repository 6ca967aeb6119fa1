SPECIFICATION FairSpec
CONSTANTS
  Listener = {l1, l2}
  None = None
  Backlog = 2
  MaxEvents = 5
INVARIANT TypeOK
PROPERTIES InOrder HeardInTheEnd
CHECK_DEADLOCK FALSE
