SPECIFICATION Spec
CONSTANTS
  Latency = 1
  PerWordLatency = 1
  DRAMRefreshLatency = 1
  RefreshesSplit = FALSE
  MaxBlockingPerAccess = 0
  BlockingSplits = FALSE
  StallOnLocalWorstType = {}
  InstrLines = {1, 2}
  DataLines = {3, 4, 5}
  InstrAssoc = 1
  DataAssoc = 1
  L2Assoc = 4
  AccessesAhead = 2
  OverlapLines = {1, 2, 3, 4}
  L1Latency = 1
  L2Latency = 2
  LineWords = 2
  UnblockStores = FALSE
  ExploredModes = {"all", "worst", "best"}
  Stores <- OneLineStored
  ExploredPolicies = {"noWriteAllocate", "writeAllocate"}
  Contents <- SomeContents
INVARIANTS CasesCovered ClassifiedRightly CaseIsABound ForwardSkipsOnlyWaiting
CHECK_DEADLOCK FALSE
