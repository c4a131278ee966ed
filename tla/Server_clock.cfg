SPECIFICATION MCSpec
CONSTANTS
  NoIp = NoIp
  Unknown = Unknown
  ip1 = ip1
  ip2 = ip2
  Requests <- MCRequests
  ExemptPaths = {"/health", "/v1/metrics"}
  WINDOW_MS = 1
  MAX_REQUESTS = 2
  MaxCount = 3
  RateHorizon = 4
  Slos <- MCSlos
  SloSets <- MCSloSets
  AnyService = AnyService
  Samples <- MCSamples
  Hour = 3
  SixHours = 6
  BucketCount = 2
  CriticalRate = 10
  WarningRate = 5
  MaxTotal = 3
  SloHorizon = 8
  Environments = {{"datadog", "otlp"}, {"splunk", "otlp"}, {}}
  Bodies = {0, 1}
  DatadogChunk = 2
  SplunkChunk = 1
  SeriesPerMetric = 3
  MinInterval = 1
  MaxBatches = 2
  NoName = NoName
  NoContainer = NoContainer
  ZeroIp = ZeroIp
  web = web
  WEB = WEB
  webPod1 = webPod1
  webPod2 = webPod2
  dbPod = dbPod
  postgres = postgres
  Clusters <- MCClusters
  Lower <- MCLower
  Begins <- MCBegins
  Hosts <- MCHosts
  DemoDashboard <- MCDemo
  PortNames <- MCPortNames
  ServiceFilter = WEB
  MaxFlights = 2
  MaxChanges = 1
INVARIANTS
  LabelsAreOfLastList
  QuotaHolds
  BurnCountsRecentBad
  ResultsTell
PROPERTIES
  PacedPerSend
  EveryBatchSettles
  DashboardCatchesUp
CHECK_DEADLOCK FALSE
