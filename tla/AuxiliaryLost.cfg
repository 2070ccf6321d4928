\* A compaction whose view still overflows.
CONSTANTS
  Policies = {"compaction"}
  MaxSteps = 4
  MaxModelRequests = 5
  MaxToolCalls = 4
  MaxGeneratedTokens = 4
  ResponseTokens = {1}
  ContentTokens = {1, 4}
  Tools = {"read_file"}
  f1 = f1
  f2 = f2
  none = none
  Paths <- MCPaths
  NoPath = none
  Compactor = "auxiliary"
  SummaryTokens = {1, 9}
  RecentMessages = 2
  UsablePromptTokens = 45
  UtilizationPercent = 80
  EverySteps = 3
  ToolOutputTokens = 8
SPECIFICATION CompactionSpec
INVARIANT
  AuxiliaryWorkInTotals
