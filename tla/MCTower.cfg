SPECIFICATION Spec
CONSTANTS
  MAX_LOCKOUT_HISTORY = 2
  Pow2 <- MCPow2
  Parent <- MCParent
  ClusterChain <- MCClusterChain
  THRESHOLD_DEPTH = 1
  MAX_ENTRIES = 20
  MaxQueue = 2
  MaxLosses = 1
  Failures = {"os_crash", "old_snapshot", "hard_fork"}
INVARIANTS
  TypeOK
  RestartSucceeds
  LockedOutNeverAsserts
  LastVoteHasBank
  
  TowerStoredBeforeVote
PROPERTIES
  
  SentVotesKeepLockouts
