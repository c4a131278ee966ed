SPECIFICATION MCSpec
CONSTANTS
  Services = {s1, s2}
  Rules <- EveryRule
  Rates = {0, 3}
  GoneAfter = 2
  Global = Global
  None = None
INVARIANTS
  StatusFollowsStreak
  NewServiceOnce
PROPERTIES
  FiresAfterStreak
  ResolvesAfterStreak
  LastingHealthSettles
  LastingBreachFires
SYMMETRY ServiceSymmetry
