\* One process, killed or failing anywhere, invoked twice, and a report
\* made at any time.
CONSTANTS
  Runners = {r1}
  TaskIds <- MCTasks
  Trials = 2
  Budgets <- MCBudgets
  Policies <- MCPolicies
  Orders = {"fixed", "rotate"}
  ToolCalls = {1}
  DefaultToolCalls = 3
  TaskToolCalls <- MCTaskToolCalls
  MaxFailed = 1
  MaxStragglers = 0
  MaxAttempts = 2
  MaxReports = 1
  None = None
SPECIFICATION ReportFairSpec
INVARIANTS
  TypeOK
  ReportSound
  InterruptedLeavesPrefix
  OneInvocation
  MatrixComplete
PROPERTIES
  ArtifactsKept
  InvocationEnds
