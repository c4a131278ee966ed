SPECIFICATION MCSpec
CONSTANTS
  Cap = 4
  Chunk = 2
  Ticks = {t1, t2}
  Persistent = FALSE
  Stamp <- RepeatedStamp
  Corrupt = Corrupt
  MaxHead = 6
  MaxRestarts = 2
INVARIANTS
  NothingPassedOver
  ReuploadsCoincide
PROPERTIES
  CatchesUp
CHECK_DEADLOCK FALSE
