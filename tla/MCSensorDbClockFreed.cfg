SPECIFICATION Spec
CONSTANTS
  Datagrams <- ClockDatagrams
  Queries <- ClockQueries
  Ttl <- CoreTtl
  DebugLevel = 0
  MaxClock = 4
  MaxStepBack = 2
  MaxPosts = 2
  MaxQueries = 0
  SockCap = 1
PROPERTIES
  OnlyExpiredFreed
