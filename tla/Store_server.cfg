SPECIFICATION ServerSpec
CONSTANTS
  Cap = 2
  Events <- MCEvents
  RuleLists = {}
  Persistent = FALSE
  MaxBatch = 2
  MaxHead = 4
  MaxDropped = 1
  NoSpan = NoSpan
  MaxDepth = 2
  MaxCompiled = 2
  NanosPerMilli = 1
  MaxTag = 2
  t1 = t1
  t2 = t2
  k1 = k1
  k2 = k2
  Traces = {t1, t2}
  Bodies <- MCBodies
  EventBodies <- MCEventBodies
  OtlpRequests <- MCOtlpRequests
  BinaryBatches <- MCBinaryBatches
  ProbeEvents <- MCProbeEvents
  KernelSpans <- MCKernelSpans
  ConfigFiles <- MCConfigFiles
  SpanRing = 2
  MaxSpans = 3
  MaxIndexed = 4
INVARIANTS
  IndexCoversStore
  CountsAgree
  TreeShowsEverySpan
  OnlyProbesOutrunRules
PROPERTIES
  ImplementsEventLog
