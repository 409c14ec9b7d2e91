SPECIFICATION Spec
CONSTANTS
  Blocks = {b1}
  Signs = {s1}
  Chests = {}
  OldBlocks = {o1}
  Players = {p1}
  Savers = {main}
  MaxObjects = 2
  MaxCrashes = 0
INVARIANT OldFormatConverted
CHECK_DEADLOCK FALSE
