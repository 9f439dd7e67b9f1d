SPECIFICATION Spec
CONSTANTS
  Descriptions <- MCNoDescription
  Requests = {r1}
  RefreshIntervals = {"zero", "positive"}
  CacheTTLs = {"zero", "positive"}
  SessionStores = {"filesystem", "cookie"}
  MetricsEnabled = {TRUE}
INVARIANTS
  AcceptedConfigWorks
CHECK_DEADLOCK FALSE
