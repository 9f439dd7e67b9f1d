SPECIFICATION Spec
CONSTANTS
  Descriptions <- MCDescriptions
  Requests = {r1, r2}
  RefreshIntervals = {"negative", "positive"}
  CacheTTLs = {"negative", "positive"}
  SessionStores = {"filesystem", "cookie", "redis", "memory"}
  MetricsEnabled = {TRUE}
INVARIANTS
  TypeOK
  AcceptedConfigWorks
  RequestsAreDrained
  SpansAreFlushed
PROPERTIES
  DescriptionIsSettled
  ShutdownEnds
CHECK_DEADLOCK FALSE
