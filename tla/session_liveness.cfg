SPECIFICATION FairSpec

CONSTANTS
  Conns = {k1, k2}
  NoConn = NoConn
  c1 = c1
  c2 = c2
  c3 = c3
  c4 = c4
  Calls = {c1, c2, c3}
  NoCall = NoCall
  Kind <- PingAndStop
  MaxRetries = 1
  ConnectRetries = 0
  MaxActive = 2
  MaxFaults = 0
  NoItem = NoItem
  IdleShutdown = FALSE
  Encodable = FALSE
  MaxRestarts = 0

INVARIANTS
  HandedOverOnce

PROPERTIES
  ImplementsAtLeastOnce
  CallsReturn
  StopEndsTheRun
  QueuedAreExecuted
