SPECIFICATION Spec
CONSTANTS
  Tags = {a, b, c}
  Paths = {p1, p2}
  Assoc = 2
INVARIANTS Sound
