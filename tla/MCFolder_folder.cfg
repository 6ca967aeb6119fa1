SPECIFICATION FairSpec
CONSTANTS
  Wait = 1
  Debounce = 2
  Grace = 3
  Late = 1
  MaxActs = 3
  MaxOwn = 2
INVARIANTS TypeOK  NoEcho
PROPERTIES IgnoringEnds UnreadIsKept
CHECK_DEADLOCK FALSE
