CONSTANTS
  c1 = c1
  c2 = c2
  Conn = {c1, c2}
  Talker = {c1}
  Interval = 2
  MaxRtt = 1
  Rate = 2
  Second = 2
  Setback = 2
  MaxTime = 5
SPECIFICATION Spec
INVARIANTS
  TypeOK
  OnlySilentPeersTerminated
  SilentPeersReaped
  BurstBound
  WithinRateNeverRefused
CHECK_DEADLOCK FALSE
