SPECIFICATION Spec
CONSTANTS
  Instr <- CallInstrs
  Block <- CallBlocks
  Loop <- CallLoops
  Entry <- CallEntry
  Unlimited <- All
  Durations <- Slow
  ExtFuncStart <- ExtStart
  InitialLinkRegister = 50
  ExtFuncBound <- ExtBound
  UpperLoopBound <- Bound
  LowerLoopBound <- LowBound
  MaxCount = 3
  Options <- SomeOptions
INVARIANTS GraphBuilt ExecutionsBounded RunsFulfilConstraints PathsFulfilConstraints
