SPECIFICATION Spec
CONSTANTS
  Cap = 3
  Events <- MCEvents
  MaxBatch = 2
  MaxHead = 7
  MaxKills = 1
INVARIANT NeverCorrupted
CHECK_DEADLOCK FALSE
