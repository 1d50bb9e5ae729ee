\* A reply to SET NX is lost and the command is sent again.
SPECIFICATION Spec
CONSTANTS
  Frame = {f1, f2}
  Instance = {i1, i2}
  Second = 2
  Exp = 3
  MaxTime = 4
  MaxDelay = 1
  RedisFails = TRUE
  MayCrash = FALSE
INVARIANT AlreadyAnsweredIsAnswered
CHECK_DEADLOCK FALSE
