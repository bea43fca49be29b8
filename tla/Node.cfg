CONSTANTS
  p = p
  q = q
  r = r
  s = s
  r1 = r1
  s1 = s1
  Process <- MCProcess
  Self = p
  Key = {k1, k2}
  Remote <- MCRemote
  Addr <- MCAddr
  Owner <- MCOwner
  BootstrapPeers = {r1}
  RelayServers = {s1}
  MaxConn <- MCMaxConn
  Query = {"bootstrap", "get", "put", "providers"}
SPECIFICATION Spec
SYMMETRY MCSymmetry
CHECK_DEADLOCK FALSE
INVARIANTS
  TypeOK
  IdentitySurvives
  UnreadableOnlyIfCut
  TableInDirectory
  ConnectedView
  AddressesCurrent
  GetsAreAnswered
