SPECIFICATION Spec
CONSTANTS
  Grid <- Corner
  Clients = {c1, c2}
  Workers = {w1, w2}
  ChunkDistance = 2
  CoordRange = 16
  MaxAttempts = 2
  Spawn <- NoSpawn
  MaxObjects = 3
  MaxMoves = 3
  MaxSaves = 1
  MaxLeaves = 1
INVARIANT TypeOK
 
INVARIANT RequestAccounted
INVARIANT CleanHasFile
CHECK_DEADLOCK FALSE
