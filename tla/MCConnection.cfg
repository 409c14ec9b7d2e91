SPECIFICATION Spec
CONSTANTS
  Clients = {a, b}
  Present = {a}
  Leavers = {b}
  First = {"Handshake", "LegacyPing", "LoginRequest"}
  Kinds = {"pose", "Player", "Kick", "Disconnect", "Unknown"}
  MaxEvents = 2
INVARIANTS
  SameOrder
  
CHECK_DEADLOCK FALSE
