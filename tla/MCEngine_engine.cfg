SPECIFICATION FairSpec
CONSTANTS
  Peer = {p}
  MaxRun = 2
  MaxChanges = 3
INVARIANTS TypeOK OneSyncTask StopReachesAll NudgeIsHeeded
PROPERTY PeersAreSynced
CHECK_DEADLOCK FALSE
