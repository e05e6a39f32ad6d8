\* One client that makes every kind of call, and writes of up to three pieces.
SPECIFICATION FairSpec

CONSTANTS
  Clients = {c1}
  Fds = {f1, f2}
  Made <- MCCalls
  MaxRest = 2
  Capacity = 2
  NULL = NULL

INVARIANTS
  AnswersMatchCalls

PROPERTIES
  CallsAnswered
  DescriptorsReturn

\* The server stops when an exception ends the process, or the client is gone.
CHECK_DEADLOCK FALSE
