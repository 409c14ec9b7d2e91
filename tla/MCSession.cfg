SPECIFICATION FairSpec
CONSTANTS
  Clients = {c1, c2, c3}
  Names = {n1, n2}
  Whitelist = {n1}
  MaxPlayers = 2
  MaxLogins = 3
INVARIANT TypeOK
INVARIANT ConnectedHasPlayer
INVARIANT OnlyWhitelisted
 
 
CHECK_DEADLOCK FALSE
