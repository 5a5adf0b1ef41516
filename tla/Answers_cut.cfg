\* Two threads that search, a clock that passes the TTL, one change of the
\* datasets; every query against every listing; results beyond every limit.
SPECIFICATION Spec
CONSTANTS
  Threads = {c1, c2}
  Datasets = {1, 2}
  PageSize = 1
  MaxPages = 3
  Ttl = 1
  Globs = {"all", "some"}
  Selects <- MCSelects
  Limits = {0, 2}
  MaxLimit = 2
  MaxWorkers = 2
  Hits <- MCHits
  RagHorizon = 1
  MaxChanges = 1
  NodeLists <- MCNodeLists
  PodLists <- MCPodLists
  EventLists <- MCEventLists
  MetricLists <- MCMetricLists
  SampleLists <- MCSampleLists
  Ks <- MCKs
  MaxUnhealthy = 1
  CpuUnit = 10
  MemoryUnit = 2
  HalvesUp = {3}
  MaxTableRows = 2
  MaxChartPoints = 4
  WidgetMap <- MCWidgetMap
  ChartRole <- MCChartRole
  Motor = "mot"
  Lower <- MCLower
  Strip <- MCStrip
  Bpms = {"BPM1"}
  Missing = ""
  DeviceLists <- MCDeviceLists
  IocLists <- MCIocLists
  ChannelLists <- MCChannelLists
  SampleHistories <- MCSampleHistories
SYMMETRY Symmetry
INVARIANT SearchIsComplete
INVARIANT NothingSkipped
INVARIANT DeletedIsForgotten
INVARIANT WorstFirst
INVARIANT BusiestFirst
INVARIANT ToolsDifferOnCompleted
INVARIANT SilentMeansComplete
INVARIANT TrendIsCovered
INVARIANT WidgetsAgree
