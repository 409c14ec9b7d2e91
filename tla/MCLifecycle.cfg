SPECIFICATION FairSpec
CONSTANTS
  Workers = {w1, w2}
  Clients = {c1}
  SpawnChunks = 1
  MaxRequests = 2
  MaxSpurious = 1
INVARIANT TypeOK
INVARIANT NoSleepOnWork
INVARIANT NothingOutlivesServer
PROPERTY QueueServed
 
CHECK_DEADLOCK FALSE
