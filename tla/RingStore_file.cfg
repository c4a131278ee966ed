SPECIFICATION Spec
CONSTANTS
  Cap = 3
  Events <- MCEvents
  RuleLists <- MCRuleLists
  Persistent = TRUE
  MaxBatch = 3
  MaxHead = 8
  MaxDropped = 2
INVARIANTS
  HeaderAgrees
  RingHoldsNewest
  ScanFaithful
  ExtractFaithful
  AggregatesFaithful
PROPERTIES
  LoadedRulesHold
  ImplementsEventLog
