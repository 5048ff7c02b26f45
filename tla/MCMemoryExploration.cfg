SPECIFICATION Spec
CONSTANTS
  Latency = 2
  PerWordLatency = 1
  DRAMRefreshLatency = 2
  RefreshesSplit = TRUE
  MaxBlockingPerAccess = 2
  BlockingSplits = TRUE
  AccessLatency = 2
  NumWords = 1
  MaxTime = 20
INVARIANTS MayForward EveryAccessCovered NoImpossibleTime
PROPERTY Terminates
CHECK_DEADLOCK FALSE
