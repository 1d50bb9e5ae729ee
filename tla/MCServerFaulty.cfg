\* Redis may reject any command: what holds all the same.
SPECIFICATION Spec
CONSTANTS
  User = {u1, u2}
  Conn = {c1, c2, c3, c4}
  NoUser = NoUser
  MaxConnectionsPerUser = 3
  SubscribeMayFail = TRUE
  UnsubscribeMayFail = TRUE
SYMMETRY UserConnSymmetry
INVARIANTS
  TypeOK
  RefCountsMatchHolders
  RegistryIsLive
  TallyMatchesRegistry
  ClosedLeavesNothing
PROPERTY NoLateTransportUse
CHECK_DEADLOCK FALSE
