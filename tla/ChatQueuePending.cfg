CONSTANTS
  a = a
  b = b
  m1 = m1
  m2 = m2
  m3 = m3
  m4 = m4
  Peer <- MCPeer
  Msg <- MCMsg
  From <- MCFrom
  To <- MCTo
  Size <- MCSize
  MaxChatBytes <- MCMaxChatBytes
  None = None
  MaxRestarts = 0
SPECIFICATION Spec
CHECK_DEADLOCK FALSE
INVARIANTS
  QueueHoldsPending
