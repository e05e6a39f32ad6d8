\* Three clients, one after another or at once, and two descriptors, so that
\* descriptors are given again and accept runs out of them.
SPECIFICATION Spec

CONSTANTS
  Clients = {c1, c2, c3}
  Fds = {f1, f2}
  Made <- MCBriefCalls
  MaxRest = 0
  Capacity = 1
  NULL = NULL

INVARIANTS
  TypeOK
  ChannelsStayConnected
  EntriesOutliveThreads
  ListGrowsByFailures

SYMMETRY Symmetry

\* The server stops when an exception ends the process, or no client is left.
CHECK_DEADLOCK FALSE
