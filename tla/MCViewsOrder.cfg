SPECIFICATION Spec
CONSTANTS
  MaxBranch = 4
  ViewIds = {v1}
  Positions = {0, 4}
  MaxEndpoints = 1
  Habits = {}
INVARIANTS
  InOrder
