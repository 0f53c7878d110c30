SPECIFICATION FairSpec
CONSTANTS
  Maps = {m1, m2}
  Loaded = {m1}
  MaxRequests <- MCRequests
INVARIANTS
  TypeOK
  NoLostRequest
  NoLostReply
  AcksInOrder
PROPERTIES
  Answered
CHECK_DEADLOCK FALSE
