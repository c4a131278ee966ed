SPECIFICATION Spec
CONSTANTS
  Cap = 3
  Events <- MCEvents
  MaxBatch = 2
  MaxHead = 7
  MaxKills = 2
INVARIANTS
  DamageConfined
  CountNeverAhead
PROPERTIES
  InsertionHealsHeader
CHECK_DEADLOCK FALSE
