SPECIFICATION FairSpec
CONSTANTS
  Cli = {cli}
  Mcp = {mcp}
  Counts = {0, 2}
  CallCounts = {2, 3}
  Probes = {"playlist", "uncapped", "illegible"}
  Timeouts = {0}
  None = None
  DefaultCount = 1
  DefaultTimeout = 1
  VecCapacity = 2
  Memory = 1
  ResolveMax = 1
  Lag = 1
  LastCall = 0
INVARIANTS
  ElapsedBounded
  TotalWithinWall
  ReportInTime
PROPERTIES
  EverySessionReports
