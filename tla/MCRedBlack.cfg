SPECIFICATION Spec
CONSTANTS
  Keys = {1, 2, 3, 4, 5, 6, 7, 8, 9, 10}
  Items = {"a", "b"}
  Choice <- MCChoice
  Wrap = 1
INVARIANTS
  Balanced
PROPERTIES
  DictImplemented
