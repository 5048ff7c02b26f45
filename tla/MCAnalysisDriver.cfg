SPECIFICATION Spec
CONSTANTS
  Instr <- CallInstrs
  Block <- CallBlocks
  Loop <- CallLoops
  Entry <- CallEntry
  Unlimited <- All
  HalfWord = 16
  Global <- CallGlobals
  StaticValue <- CallStatic
  InitialSp = 248
  Options <- SomeOptions
  Registers = {0, 1, 2, 3, 4, 5, 13, 14, 15}
  Memory <- CallMemory
  Inputs = {0, 4}
  MaxCount = 3
INVARIANTS Covered FixpointReached LookupsDefined
PROPERTIES Terminates
