\* Results that fit, are cut by line, by error or in the middle, or omitted;
\* more requests allowed than steps.
CONSTANTS
  Policies = {"full-history", "bounded-tool-output"}
  MaxSteps = 3
  MaxModelRequests = 4
  MaxToolCalls = 3
  MaxGeneratedTokens = 5
  ResponseTokens = {0, 2}
  ContentTokens = {1, 16}
  Tools <- MCTools
  f1 = f1
  none = none
  Paths <- MCPaths
  NoPath = none
  Queries <- MCQueries
  NoQuery = none
  Casefold <- MCCasefold
  Grains = {1, 4, 16}
  Widths = {1, 4}
  PerToolTokens = 3
  TotalToolTokens = 11
  PlaceholderBytes = 63
  UsablePromptTokens = 60
CONSTRAINT MCSizes
SPECIFICATION BoundedSpec
INVARIANTS
  TypeOK
  ToolBudgetKept
  PresentationStable
  LossNeverMissed
  BehaviorAgreesWithRun
