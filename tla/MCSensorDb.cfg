SPECIFICATION Spec
CONSTANTS
  Datagrams <- CoreDatagrams
  Queries <- CoreQueries
  Ttl <- CoreTtl
  DebugLevel = 0
  MaxClock = 4
  MaxStepBack = 1
  MaxPosts = 2
  MaxQueries = 1
  SockCap = 2
INVARIANTS
  TypeOK
  MutualExclusion
  WalkersSeeWholeRecords
  RowsAlive
  NewestFirst
  HeadersConsistent
PROPERTIES
  ForwardOnlyExpiredFreed
  HeadersStay
  PruneThorough
