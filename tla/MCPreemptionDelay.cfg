SPECIFICATION Spec
CONSTANTS
  Tags = {0, 1, 2}
  Assoc = 2
  MaxWorthwhileTags = 4
  N_SETS = 2
  Graphs <- Programs
  UCBClever = FALSE
  Foreign = 100
INVARIANTS AdditionalMissesBounded EvictingBlocksBoundAging FixpointReached
PROPERTY TerminatesWithoutCyclesOfJoins
CHECK_DEADLOCK FALSE
