SPECIFICATION Spec

CONSTANTS
  Conns = {k1, k2}
  NoConn = NoConn
  c1 = c1
  c2 = c2
  c3 = c3
  c4 = c4
  Calls = {c1, c2, c3}
  NoCall = NoCall
  Kind <- TwoCommands
  MaxRetries = 1
  ConnectRetries = 0
  MaxActive = 1
  MaxFaults = 0
  NoItem = NoItem
  IdleShutdown = FALSE
  Encodable = TRUE
  MaxRestarts = 0

PROPERTIES
  ExecutedInOrder
