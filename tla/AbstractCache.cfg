SPECIFICATION Spec
CONSTANTS
  Tags = {0, 1}
  Paths = {p1, p2}
  Assoc = 1
  MaxWorthwhileTags = 2
  N_SETS = 2
  LINE_SIZE = 4
  Intervals <- LineEnds
INVARIANTS ClassificationSound
