SPECIFICATION Spec
CONSTANTS
  Tags = {0, 1, 2}
  Assoc = 2
  MaxWorthwhileTags = 4
  N_SETS = 2
  Graphs <- SplitPrograms
  UCBClever = FALSE
  Foreign = 100
PROPERTY Terminates
CHECK_DEADLOCK FALSE
