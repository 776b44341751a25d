SPECIFICATION Spec

CONSTANTS
  Conns = {k1, k2}
  NoConn = NoConn
  c1 = c1
  c2 = c2
  c3 = c3
  c4 = c4
  Calls = {c1, c2, c3, c4}
  NoCall = NoCall
  Kind <- OddCalls
  MaxRetries = 1
  ConnectRetries = 0
  MaxActive = 1
  MaxFaults = 2
  NoItem = NoItem
  IdleShutdown = TRUE
  Encodable = TRUE
  MaxRestarts = 1

SYMMETRY SlotSymmetry

INVARIANTS
  HandshakeIsCurrent
  AnswersAreOwn
  XCUITestExclusive

PROPERTIES
  ImplementsAtLeastOnce
  CallsRunDown
