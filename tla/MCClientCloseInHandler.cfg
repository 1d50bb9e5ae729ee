\* close() in a handler of 'connecting' or 'reconnecting'.
SPECIFICATION Spec
CONSTANTS
  MayThrow = FALSE
  MaxReconnectAttempts = 1
  Reentries <- Harmful
  MaxReentries = 1
  MaxGeneration = 3
INVARIANT ClosedForGood
CHECK_DEADLOCK FALSE
