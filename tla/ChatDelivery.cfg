CONSTANTS
  a = a
  b = b
  m1 = m1
  m2 = m2
  m3 = m3
  m4 = m4
  Peer <- MCPeer
  Msg <- MCMsg
  From <- MCFrom
  To <- MCTo
  Size <- MixedSize
  MaxChatBytes <- MixedMaxChatBytes
  None = None
  MaxRestarts = 2
SPECIFICATION FairSpec
CHECK_DEADLOCK FALSE
INVARIANTS
  TypeOK
  QueueCoversWaiting
  DeliveryReports
  FailureReports
PROPERTIES
  ServiceSpec
  EventuallyReported
