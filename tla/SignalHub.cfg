CONSTANTS
  a = a
  b = b
  b2 = b2
  id1 = id1
  id2 = id2
  Client <- MCClient
  Id <- MCId
  IdOf <- MCIdOf
  MaxSockets <- MCMaxSockets
  MaxRenames = 1
  MaxBreaks = 1
SPECIFICATION FairSpec
CHECK_DEADLOCK FALSE
INVARIANTS
  TypeOK
  OpenSocketIsRegistered
  PresenceWhenQuiet
PROPERTIES
  ClientComesBack
