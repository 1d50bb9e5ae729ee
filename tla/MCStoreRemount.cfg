\* The provider's effect runs, is cleaned up and runs again, as under StrictMode.
SPECIFICATION Spec
CONSTANTS
  question = question
  news = news
  ExpiresAt = 2
  LaterOn = 9
  Id <- QuestionAndNews
  Expiry <- Expiries
  Actionable <- Questions
  Action = {yes, no}
  TimeoutMax = 5
  Remounts = TRUE
  MaxCalls = 1
  MaxConns = 2
  MaxTime = 3
  MaxResends = 1
INVARIANT ShownIfDelivered
CHECK_DEADLOCK FALSE
