SPECIFICATION DashboardSpec
CONSTANTS
  NoName = NoName
  NoContainer = NoContainer
  ZeroIp = ZeroIp
  web = web
  WEB = WEB
  webPod1 = webPod1
  webPod2 = webPod2
  dbPod = dbPod
  postgres = postgres
  Clusters <- MCClusters
  Lower <- MCLower
  Begins <- MCBegins
  Hosts <- MCHosts
  DemoDashboard <- MCDemo
  PortNames <- MCPortNames
  ServiceFilter = WEB
  MaxFlights = 2
  MaxChanges = 1
INVARIANT
  GraphIsDrawn
