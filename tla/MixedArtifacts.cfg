\* Two processes are given the same experiment id.
CONSTANTS
  Runners = {r1, r2}
  TaskIds <- MCTasks
  Trials = 1
  Budgets <- MCBudgets
  Policies <- MCOnePolicy
  Orders = {"fixed"}
  ToolCalls = {1}
  DefaultToolCalls = 3
  TaskToolCalls <- MCTaskToolCalls
  MaxReports = 0
  MaxFailed = 9
  MaxStragglers = 0
  MaxAttempts = 1
  None = None
SPECIFICATION ReportSpec
INVARIANT
  OneInvocation
