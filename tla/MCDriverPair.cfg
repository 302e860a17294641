SPECIFICATION Spec
CONSTANTS
  Cli = {cli}
  Mcp = {mcp}
  Counts = {0, 2}
  CallCounts = {2, 3, 4}
  Probes = {"playlist", "illegible"}
  Timeouts = {}
  None = None
  DefaultCount = 1
  DefaultTimeout = 1
  VecCapacity = 3
  Memory = 2
  ResolveMax = 0
  Lag = 1
  LastCall = 0
INVARIANTS
  TypeOK
  Ledger
  AnswerInTimeCounts
  TotalIsSum
  ReportHonest
PROPERTIES
  RefinesTally
