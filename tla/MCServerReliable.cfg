\* Redis rejects nothing while the transport is open; no symmetry, for the
\* temporal properties.
SPECIFICATION FairSpec
CONSTANTS
  User = {u1}
  Conn = {c1, c2, c3}
  NoUser = NoUser
  MaxConnectionsPerUser = 3
  SubscribeMayFail = FALSE
  UnsubscribeMayFail = FALSE
INVARIANTS
  CountedIsSubscribed
  RegisteredStaysSubscribed
  PresenceAtRest
PROPERTIES
  CloseCompletes
  PresenceConverges
  ImplementsSharedSubscription
CHECK_DEADLOCK FALSE
