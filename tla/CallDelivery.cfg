CONSTANTS
  a = a
  b = b
  m1 = m1
  m2 = m2
  m3 = m3
  m4 = m4
  m5 = m5
  Peer <- MCPeer
  Msg <- MCMsg
  From <- MCFrom
  To <- MCTo
  Accepts <- MixedAccepts
  OneAtATime = {b}
  MaxRestarts = 1
SPECIFICATION Spec
SYMMETRY Symmetry
CHECK_DEADLOCK FALSE
INVARIANTS
  TypeOK
  EntriesCoverWaiting
  ReportsCount
  OneAtATimeExact
