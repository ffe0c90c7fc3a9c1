SPECIFICATION Spec
CONSTANTS
  Datagrams <- ClockDatagrams
  Queries <- ClockQueries
  Ttl <- CoreTtl
  DebugLevel = 0
  MaxClock = 1
  MaxStepBack = 0
  MaxPosts = 21
  MaxQueries = 1
  SockCap = 1
INVARIANTS
  RowsFit
