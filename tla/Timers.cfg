\* Two clients, three blocks of memory, one sweeping thread.
SPECIFICATION FairSpec
CONSTANTS
  Clients = {c1, c2}
  Addr = {a1, a2, a3}
  NULL = NULL
  HEAD = HEAD
INVARIANTS
  TypeOK
  TimerLockExclusive
  PointersAreLive
  SweepStaysOnQueue
PROPERTIES
  ImplementsService
  CancelledTimersLeave
