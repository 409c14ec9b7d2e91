SPECIFICATION Spec
CONSTANTS
  Clients = {a, b}
  Present = {a}
  Leavers = {a, b}
  First = {"Handshake", "LegacyPing", "LoginRequest"}
  Kinds = {"pose", "Player", "Kick", "Disconnect", "Unknown"}
  MaxEvents = 1
PROPERTY
  Delivered
CHECK_DEADLOCK FALSE
