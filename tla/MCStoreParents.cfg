SPECIFICATION Spec
CONSTANTS
  MaxBranch = 4
  ClientIds = {2, 3, 4}
  GenBase = 2
  Texts = {"a"}
  fold <- MCfold1
  NoData = NoData
  MaxDeleteChildren = 2
  MaxNames = 0
INVARIANTS
  NoAbnormality
