SPECIFICATION FairSpec
CONSTANTS
  Grid <- Quad
  Clients = {c1}
  Workers = {w1}
  ChunkDistance = 1
  CoordRange = 16
  MaxAttempts = 2
  Spawn <- BesideCorner
  MaxObjects = 2
  MaxMoves = 1
  MaxSaves = 1
  MaxLeaves = 0
INVARIANT PopulatedUnlessSavedBefore
PROPERTY NeverReplaced
PROPERTY NeverRegenerated
PROPERTY SentUnlessFreed
PROPERTY QueueDrains
PROPERTY RequestSettled
 
CHECK_DEADLOCK FALSE
