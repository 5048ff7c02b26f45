\* A line that another core uses too is among those of the program.
SPECIFICATION Spec
CONSTANTS
  Tags = {1, 2, 3}
  Paths = {p1, p2}
  Foreign = {3}
  Assoc = 2
  MaxWorthwhileTags = 2
SYMMETRY Symmetry
INVARIANTS ClassificationSound JoinIsLeastUpperBound UpdateIsMonotone
PROPERTY BoundsSpec
