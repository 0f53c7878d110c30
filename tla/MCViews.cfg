SPECIFICATION Spec
CONSTANTS
  MaxBranch = 5
  ViewIds = {v1}
  Positions = {0, 5}
  MaxEndpoints = 2
  Habits = {}
INVARIANTS
  TypeOK
  OneVbranch
  Overlay
  BrowserCopiesView
  CountsExact
