SPECIFICATION Spec
CONSTANTS
  Views = {v1, v2}
  Branches = {a, b, c}
  Texts <- MCTexts
  Limit = 2
  Sessions <- MCSessions
SYMMETRY Alike
INVARIANTS
  Converged
CHECK_DEADLOCK FALSE
