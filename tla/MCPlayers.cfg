SPECIFICATION Spec
CONSTANTS
  Names = {"a"}
  Others = {"b"}
  COLS = 2
  ROWS = 1
  Clicked = {0}
  Dug <- MCDug
  Placeable <- MCPlaceable
  HealthArgs <- MCHealthArgs
  OldFiles <- MCOldFiles
  OldLists <- MCOldLists
  MaxOps = 3
  MaxSaves = 1
  MaxCrashes = 1
INVARIANTS
  TypeOK
  Conserved
  RightsKept
PROPERTY
  ComesBackWithAll
CHECK_DEADLOCK FALSE
