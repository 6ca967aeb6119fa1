SPECIFICATION FairSpec
CONSTANTS
  File = {f}
  Folder = {home, a}
  Home = home
  Request = {r, s}
  Tab = {t}
  Capacity = 1
  None = None
  MaxActs = 3
  MaxNotices = 1
INVARIANTS TypeOK OneEngineRuns HeldIsInFolder
PROPERTIES EngineComesBack PageIsTrue
CHECK_DEADLOCK FALSE
