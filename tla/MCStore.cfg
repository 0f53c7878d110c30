SPECIFICATION Spec
CONSTANTS
  MaxBranch = 4
  ClientIds = {2, 3}
  GenBase = 2
  Texts <- MCTexts
  fold <- MCfold
  NoData = NoData
  MaxDeleteChildren = 1
  MaxNames = 1
INVARIANTS
  TypeOK
  TreeConsistent
  AllReachable
  IndexExact
  ReloadRestores
  EdgesCurrent
  NoAbnormality
  DatalessAreLeaves
  TotalsCount
PROPERTIES
  RecordsNeverReused
  DurableTreeImplemented
