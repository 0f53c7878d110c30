SPECIFICATION FairSpec
CONSTANTS
  MaxBranch = 4
  ClientIds = {2, 3}
  GenBase = 2
  Texts = {"a"}
  fold <- MCfold1
  NoData = NoData
  MaxDeleteChildren = 2
  MaxNames = 2
PROPERTIES
  OperationsEnd
