SPECIFICATION FairSpec
CONSTANTS
  n1 = n1
  n2 = n2
  Nodes <- MCNodes
  Lives <- MCLives
  Down = Down
  Interval = 1
  InFlight = 2
  Stale = 3
  Skew <- MCSkew
  Reported <- MCReported
  MaxAge = 4
  NoContainer = NoContainer
  ZeroIp = ZeroIp
  PortNames <- MCPortNames
INVARIANTS
  MergeKeepsTotals
PROPERTIES
  NothingStaleAfterPush
  PushAdmitted
  ViewSettles
