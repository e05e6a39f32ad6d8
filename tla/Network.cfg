\* Both byte orders, every frame of MCFrames in every block, up to four of them.
CONSTANTS
  ByteOrders = {"little", "big"}
  Frames <- MCFrames
  Blocks <- MCBlocks
  Links <- MCLinks
  RouteAt <- MCRouteAt
  Elsewhere <- MCElsewhere
  Destinations <- MCDestinations
  Hwaddr <- MCHwaddr
  MaxFrames = 4

SPECIFICATION Spec

INVARIANTS
  TypeOK
  ArpCacheStaysEmpty
  OnlyUnreadableArpLeaves
  NoDatagramIsHeard

\* The process may end in ip_output.
CHECK_DEADLOCK FALSE
