SPECIFICATION Spec
CONSTANTS
  Blocks = {b1, b2}
  Signs = {}
  Chests = {k1}
  OldBlocks = {o1}
  Players = {p1, p2}
  Savers = {main}
  MaxObjects = 2
  MaxCrashes = 1
INVARIANT TypeOK
INVARIANT CleanIsOnDisk
 
 
CHECK_DEADLOCK FALSE
