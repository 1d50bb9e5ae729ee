\* A rejected SUBSCRIBE with an overlapping subscriber.
SPECIFICATION Spec
CONSTANTS
  User = {u1}
  Conn = {c1, c2}
  NoUser = NoUser
  MaxConnectionsPerUser = 2
  SubscribeMayFail = TRUE
  UnsubscribeMayFail = FALSE
INVARIANT CountedIsSubscribed
CHECK_DEADLOCK FALSE
