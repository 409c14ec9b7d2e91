SPECIFICATION Spec
CONSTANTS
  Players = {p1, p2}
  Requests <- MCRequests
  Worlds <- MCWorlds
  doTileDrops = TRUE
  MaxHandlers = 3
INVARIANTS
  
  ShownIsTheBlock
  DroppedOnce
SYMMETRY Interchangeable
CHECK_DEADLOCK FALSE
