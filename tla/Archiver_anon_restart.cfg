SPECIFICATION Spec
CONSTANTS
  Cap = 4
  Chunk = 2
  Ticks = {t1}
  Persistent = FALSE
  Stamp <- IncreasingStamp
  Corrupt = Corrupt
  MaxHead = 8
  MaxRestarts = 2
CHECK_DEADLOCK FALSE
INVARIANT NothingSkipped
