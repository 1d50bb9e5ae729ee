CONSTANTS
  i1 = i1
  i2 = i2
  p = p
  Instance = {i1, i2}
  Publisher = p
  Sender = {i1, p}
  MaxMessages = 2
  MaxCloses = 1
  MaxBreaks = 1
SPECIFICATION Spec
INVARIANTS
  TypeOK
  HealthyTabMissesNothing
  OfflineMeansUnheard
PROPERTIES
  CallsSettle
  PresenceHeals
CHECK_DEADLOCK FALSE
