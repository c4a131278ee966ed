SPECIFICATION Spec
CONSTANTS
  Calls <- MCCalls
  Unspecified <- MCUnspecified
  Container <- MCContainer
  None = None
  Unbound = Unbound
  StdCap = 2
  CritCap = 1
  MaxEdges = 2
  MaxServices = 1
  MaxSpans = 2
  MaxEmitted = 6
INVARIANTS
  NoTwinEdges
  EventsAccounted
  HitsAreConnects
PROPERTIES
  StableResolution
  DrainIndexesRing
