\* Redis rejects nothing; messages of one user among overlapping connections.
SPECIFICATION DeliverySpec
CONSTANTS
  User = {u1}
  Conn = {c1, c2, c3}
  NoUser = NoUser
  MaxConnectionsPerUser = 3
  SubscribeMayFail = FALSE
  UnsubscribeMayFail = FALSE
  MaxMessages = 3
SYMMETRY ConnSymmetry
INVARIANTS
  DeliveryTypeOK
  DeliveryIsFaithful
CHECK_DEADLOCK FALSE
