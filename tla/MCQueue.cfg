SPECIFICATION FairSpec
CONSTANTS
  MaxPush = 3
  gc_threshold = 6
  Earlier = 5
  Empty = Empty
  Idle = Idle
  Undecided = Undecided
INVARIANTS
  TypeOK
  NoUseAfterFree
  NoRetryBack
  RefsBalanced
  CountsExplained
PROPERTIES
  FifoImplemented
  CallsEnd
