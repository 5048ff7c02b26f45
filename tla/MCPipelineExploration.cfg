SPECIFICATION Spec
CONSTANTS
  Latency = 1
  PerWordLatency = 0
  DRAMRefreshLatency = 2
  RefreshesSplit = TRUE
  MaxBlockingPerAccess = 1
  BlockingSplits = TRUE
  StallOnLocalWorstType = {}
  Program <- Programs
  InitialLinkRegister <- LinkRegister
  IdBase = 5
  Cores <- AllCores
  Entry <- Entries
  QueueSize = 4
  RobSize = 8
  OneByOne = {"PRET"}
  MuJoinEnabled = TRUE
  BlockStarts <- Blocks
  MaxTime = 50
INVARIANTS HardwareCovered JoinableBehaveAlike ConvergedUntilNonBusy AssertionsHold OperandsComputed EveryInstructionFinishes
