SPECIFICATION FairSpec
CONSTANTS
  w1 = w1
  w2 = w2
  rx = rx
  dbg = dbg
  p1 = p1
  p2 = p2
  a1 = a1
  a2 = a2
  NULL = NULL
  Workers = {w1, w2}
  Receiver = rx
  Debugger = dbg
  Pids = {p1, p2}
  Addr = {a1, a2}
  Timeouts <- MCTimeouts
INVARIANTS
  TypeOK
  PointersAreSockets
  RefCountsHolders
  TableLinksLiveSockets
  AmountDriftsByFailures
  SkFreedOnce
PROPERTIES
  ImplementsService
  CallsReturn
CHECK_DEADLOCK FALSE
