\* A queued out-of-order buffer is freed by the handler that queued it.
SPECIFICATION Spec
CONSTANTS
  NULL = NULL
  UNINIT = UNINIT
  U32 = 8
  U8 = 4
  Uninit32 = {0, 1}
  Uninit8 = {0, 3}
  RcvWnd = 4
  HdrLen = 1
  FullSize = 2
  ConnRetries = 1
  Mss = 2
  Iss <- MCIss
  Segments <- MCSegments
  Writes = {0, 3}
  MaxSkb = 3
  MaxText = 2
  MaxTimers = 1
\* The process may die, and then nothing happens any more.
CHECK_DEADLOCK FALSE
INVARIANTS
  QueuedSkbStaysAllocated
