SPECIFICATION Spec
CONSTANTS
  Cores = {1, 2, 3}
  Program <- MCProgram
  Options <- MCOptions
  BusLatency = 2
  BlockingJoinablePartitionSize = 1
  MaxWindow = 26
INVARIANTS BoundsHold FixedPointReached NeverRetreats
PROPERTY Terminates
