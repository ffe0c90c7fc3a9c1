SPECIFICATION FairSpec
CONSTANTS
  Datagrams <- ClockDatagrams
  Queries <- ClockQueries
  Ttl <- CoreTtl
  DebugLevel = 3
  MaxClock = 2
  MaxStepBack = 0
  MaxPosts = 1
  MaxQueries = 0
  SockCap = 1
PROPERTIES
  MutexReleased
CHECK_DEADLOCK FALSE
