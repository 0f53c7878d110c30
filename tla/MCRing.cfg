SPECIFICATION Spec
CONSTANTS
  Threads = {t1, t2}
  RQUEUE_MAX_RETRIES = 1000
  Rings <- MCRings
SYMMETRY Sym
INVARIANTS
  ReadOnce
  RingIntact
  ReadInOrder
  NothingDropped
CHECK_DEADLOCK FALSE
