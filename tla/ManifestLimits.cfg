\* An agent that calls as many tools as it is let.
CONSTANTS
  Runners = {r1}
  TaskIds <- MCTasks
  Trials = 1
  Budgets <- MCBudgets
  Policies <- MCOnePolicy
  Orders = {"fixed"}
  ToolCalls = {1, 2, 3}
  DefaultToolCalls = 3
  TaskToolCalls <- MCTaskToolCalls
  MaxReports = 0
  MaxFailed = 9
  MaxStragglers = 0
  MaxAttempts = 1
  None = None
SPECIFICATION ReportSpec
INVARIANT
  LimitsOfTheManifest
