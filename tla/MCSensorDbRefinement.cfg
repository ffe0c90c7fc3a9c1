SPECIFICATION FairSpec
CONSTANTS
  Datagrams <- MCDatagrams
  Queries <- MCQueries
  Ttl <- MCTtl
  DebugLevel = 0
  MaxClock = 3
  MaxStepBack = 0
  MaxPosts = 2
  MaxQueries = 1
  SockCap = 1
INVARIANTS
  EachOnce
PROPERTIES
  PostsProcessed
  QueriesAnswered
  ExpiredFreed
  ImplementsCache
  ImplementsStore
