SPECIFICATION Spec
CONSTANTS
  Tags = {1, 2, 3}
  Arrays <- MCArrays
  Assoc = 2
  MaxWorthwhileTags = 2
  Foreign = {9}
  Scopes = {1}
  Configs <- MCConfigs
INVARIANTS OneMissPerEntry ConflictsCounted WritebacksForeseen DirtinessSound
