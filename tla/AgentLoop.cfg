\* Every policy, limits that can each be the one that ends the run.
CONSTANTS
  Policies = {"retrieval", "compaction"}
  MaxSteps = 4
  MaxModelRequests = 3
  MaxToolCalls = 2
  MaxGeneratedTokens = 4
  ResponseTokens = {1, 2}
  ContentTokens = {1}
  Tools <- MCTools
  f1 = f1
  none = none
  Paths <- MCPaths
  NoPath = none
SPECIFICATION WorkspaceFairSpec
INVARIANTS
  WorkloadAccounted
  OneVerdict
  ConversationMatchesTrace
  TraceOrdered
  EditsExplained
  MetricsAgreeWithRun
PROPERTIES
  AppendOnly
  Terminates
  KeepsContract
