\* Two processes, and the third manifest repeats the first one's task id; a
\* process may outlive its command, in any run, and go on writing.
CONSTANTS
  Runners = {r1, r2}
  TaskIds <- MCRepeatedTasks
  Trials = 1
  Budgets <- MCTwoBudgets
  Policies <- MCOnePolicy
  Orders = {"randomize"}
  ToolCalls = {1}
  DefaultToolCalls = 3
  TaskToolCalls <- MCTaskToolCalls
  MaxReports = 0
  MaxFailed = 1
  MaxStragglers = 1
  MaxAttempts = 1
  None = None
SPECIFICATION ReportSpec
INVARIANTS
  InterruptedLeavesPrefix
  CleanStart
  ResultIsOfTheRun
