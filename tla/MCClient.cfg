\* With and without getToken, handlers that close and restart the client.
SPECIFICATION FairSpec
CONSTANTS
  MayThrow = TRUE
  MaxReconnectAttempts = 2
  Reentries <- Harmless
  MaxReentries = 2
  MaxGeneration = 4
INVARIANTS
  TypeOK
  NothingOrphaned
  ClosedForGood
  StateTellsTruth
PROPERTIES
  ConnectingEnds
  ReconnectHappens
CHECK_DEADLOCK FALSE
