\* One tab, mounted once; lost frames, lost connections, other devices.
SPECIFICATION Spec
CONSTANTS
  question = question
  news = news
  ExpiresAt = 2
  LaterOn = 9
  Id <- JustAQuestion
  Expiry <- Expiries
  Actionable <- Questions
  Action = {yes, no}
  TimeoutMax = 5
  Remounts = FALSE
  MaxCalls = 2
  MaxConns = 2
  MaxTime = 3
  MaxResends = 1
INVARIANTS
  TypeOK
  ExpiredIsPast
  PromiseTellsTruth
  NoneForgotten
  ShownIfDelivered
  ExpiryArmed
PROPERTY
  StatusOnlyAdvances
SYMMETRY ActionSymmetry
CHECK_DEADLOCK FALSE
