\* Two instances, slow and failing Redis, crashes.
SPECIFICATION FairSpec
CONSTANTS
  Frame = {f1, f2}
  Instance = {i1, i2}
  Second = 2
  Exp = 4
  MaxTime = 7
  MaxDelay = 3
  RedisFails = TRUE
  MayCrash = TRUE
INVARIANTS
  TypeOK
  OnceBeforeExpiry
PROPERTY EveryFrameAnswered
CHECK_DEADLOCK FALSE
