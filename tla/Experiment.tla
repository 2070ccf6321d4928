----------------------------- MODULE Experiment -----------------------------
(***************************************************************************)
(* ExperimentRunner.run: one invocation walks the matrix of tasks, trials, *)
(* budgets and policies, gives every condition a fresh clone of the task's *)
(* baseline, runs the agent, grades it, and writes a trace and then a      *)
(* record.  The output directory outlives the invocation: it may raise, be *)
(* killed between any two steps, and be invoked again with the same        *)
(* experiment id, in turn or at the same time as another process.          *)
(***************************************************************************)
EXTENDS Integers, Sequences, FiniteSets

CONSTANTS
  Runners,      \* processes that run the experiment
  TaskIds,      \* the sequence of task.id, one per task manifest
  Trials,       \* config.trials
  Budgets,      \* the sequence of budget names
  Policies,     \* the sequence of policies
  Orders,       \* values of config.order
  ToolCalls,    \* how many tools an agent may want to call
  DefaultToolCalls, \* ExecutionLimits.max_tool_calls where nothing sets it
  TaskToolCalls,    \* task.limits.tool_calls, by task id
  MaxAttempts,  \* bound: invocations per runner
  MaxFailed,    \* bound: records of runs that did not complete
  MaxStragglers, \* bound: runs with a process that outlived its command
  None          \* no workspace, no invocation

ASSUME ExperimentAssumption ==
  /\ \A list \in {TaskIds, Budgets, Policies} :
       list \in Seq({list[i] : i \in DOMAIN list}) /\ list # <<>>
  /\ Trials \in Nat \ {0}
  /\ MaxAttempts \in Nat /\ MaxFailed \in Nat /\ MaxStragglers \in Nat
  /\ Orders \subseteq {"fixed", "rotate", "randomize"}
  /\ \A i, j \in DOMAIN Policies : Policies[i] = Policies[j] => i = j
  /\ ToolCalls \subseteq Nat /\ DefaultToolCalls \in Nat
  /\ \A i \in DOMAIN TaskIds : TaskToolCalls[TaskIds[i]] \in Nat

VARIABLES
  order,      \* config.order
  shuffle,    \* what Random(seeds[trial]).shuffle makes of the policies
  config,     \* the invocation whose config.json is in the output directory
  traces,     \* traces/<run_id>.jsonl: "partial" or "complete"
  records,    \* runs/<run_id>.json, the whole file
  torn,       \* runs whose record file is open and not written
  at,         \* where each runner is
  attempt,    \* its invocation
  position,   \* conditions it has finished
  prepared,   \* task ids under its temporary baseline directory
  workspace,  \* its open clone: whose task, and which runs wrote in it
  returned,   \* the record _run_one returned
  outcome,    \* how the agent ended and the tools it called
  official,   \* the content the official evaluation was about
  stragglers  \* runs of whose commands a process is still there

artifacts == <<config, traces, records, torn>>
local == <<at, attempt, position, prepared, workspace, returned, outcome, official>>
vars == <<order, shuffle, artifacts, local, stragglers>>

Stopped == {"idle", "refused", "finished", "raised", "killed"}
Working == {"next", "clone", "agent", "evaluate", "trace", "tracing", "record",
            "recording"}

----------------------------------------------------------------------------
(* The matrix, in the order the four nested loops walk it.                 *)

PerTrial == Len(Budgets) * Len(Policies)
PerTask == Trials * PerTrial
Total == Len(TaskIds) * PerTask

TaskAt(n) == TaskIds[1 + (n \div PerTask)]
TrialAtZero(n) == 0  \* mutant: the loop variable is not handed on
TrialAt(n) == (n % PerTask) \div PerTrial
BudgetAt(n) == Budgets[1 + ((n % PerTrial) \div Len(Policies))]
IndexAt(n) == n % Len(Policies)

OrderedPoliciesStuck(trial) == Policies  \* mutant: the rotation is forgotten
OrderedPolicies(trial) ==
  CASE order = "rotate" ->
         [i \in DOMAIN Policies |->
            Policies[1 + ((i - 1 + (trial % Len(Policies))) % Len(Policies))]]
    [] order = "randomize" -> shuffle[trial]
    [] OTHER -> Policies
PolicyAt(n) == OrderedPolicies(TrialAt(n))[1 + IndexAt(n)]

Invocation(r) == [runner |-> r, attempt |-> attempt[r]]
Run(r) == [by |-> Invocation(r), position |-> position[r]]

(* Every clone is made in a directory mkdtemp has just created, and the    *)
(* processes of a run know no other.                                       *)
DirectoryOfTask(run) == TaskAt(run.position)  \* mutant: one directory per task
Directory(run) == run

(* A clone is known by its task and by the runs whose processes may have   *)
(* written in it, whatever they did there: edit, stage, commit or remove.  *)
Written(content, run) == [content EXCEPT !.writers = @ \cup {run}]

RunRecord(r) ==
  [run |-> Run(r), task |-> TaskAt(position[r]), trial |-> TrialAt(position[r]),
   budget |-> BudgetAt(position[r]), policy |-> PolicyAt(position[r]),
   index |-> IndexAt(position[r]), completed |-> outcome[r].end = "completed",
   tool_calls |-> outcome[r].tool_calls,
   official |-> official[r], patch |-> workspace[r]]

----------------------------------------------------------------------------
Orderings == {p \in [DOMAIN Policies -> {Policies[i] : i \in DOMAIN Policies}] :
                \A i, j \in DOMAIN Policies : p[i] = p[j] => i = j}

NotRun == [end |-> "none", tool_calls |-> 0]

Init ==
  /\ order \in Orders
  /\ shuffle \in IF order = "randomize" THEN [0..(Trials - 1) -> Orderings]
                 ELSE {[t \in 0..(Trials - 1) |-> Policies]}
  /\ config = None /\ traces = <<>> /\ records = {} /\ torn = {}
  /\ at = [r \in Runners |-> "idle"]
  /\ attempt = [r \in Runners |-> 0]
  /\ position = [r \in Runners |-> 0]
  /\ prepared = [r \in Runners |-> {}]
  /\ workspace = [r \in Runners |-> None]
  /\ returned = [r \in Runners |-> None]
  /\ outcome = [r \in Runners |-> NotRun]
  /\ official = [r \in Runners |-> None]
  /\ stragglers = {}

Go(r, place) == at' = [at EXCEPT ![r] = place]

(* A command line with this experiment id.  What a killed process left in  *)
(* temporary directories is no concern of the next one.                    *)
Invoke(r) ==
  /\ at[r] \in Stopped /\ attempt[r] < MaxAttempts
  /\ Go(r, "check")
  /\ attempt' = [attempt EXCEPT ![r] = @ + 1]
  /\ position' = [position EXCEPT ![r] = 0]
  /\ prepared' = [prepared EXCEPT ![r] = {}]
  /\ workspace' = [workspace EXCEPT ![r] = None]
  /\ outcome' = [outcome EXCEPT ![r] = NotRun]
  /\ UNCHANGED <<order, shuffle, stragglers, artifacts, returned, official>>

OutputUnchecked == TRUE               \* mutant: any output directory will do
OutputEmptyOfRecords == records = {}  \* mutant: looks at the records only
OutputEmpty == config = None /\ DOMAIN traces = {} /\ records = {} /\ torn = {}

Check(r) ==
  /\ at[r] = "check"
  /\ Go(r, IF OutputEmpty THEN "configure" ELSE "refused")
  /\ UNCHANGED <<order, shuffle, stragglers, artifacts, attempt, position, prepared,
                 workspace, outcome, returned, official>>

(* mkdir(exist_ok=True) and config.json; an empty directory is as good as  *)
(* none to the next check.                                                 *)
Configure(r) ==
  /\ at[r] = "configure"
  /\ config' = Invocation(r)
  /\ Go(r, "next")
  /\ UNCHANGED <<order, shuffle, stragglers, traces, records, torn, attempt,
                 position, prepared, workspace, outcome, returned, official>>

(* The first condition of a task prepares its baseline; copytree raises    *)
(* when a task of the same id was prepared before.                         *)
NextCondition(r) ==
  /\ at[r] = "next"
  /\ IF position[r] % PerTask = 0
     THEN IF TaskAt(position[r]) \in prepared[r]
          THEN Go(r, "raised") /\ prepared' = [prepared EXCEPT ![r] = {}]
          ELSE /\ Go(r, "clone")
               /\ prepared' = [prepared EXCEPT ![r] = @ \cup {TaskAt(position[r])}]
     ELSE Go(r, "clone") /\ UNCHANGED prepared
  /\ UNCHANGED <<order, shuffle, stragglers, artifacts, attempt, position,
                 workspace, outcome, returned, official>>

Baseline(r) == [task |-> TaskAt(position[r]), writers |-> {}]

OpenWorkspace(r) ==
  /\ at[r] = "clone"
  /\ workspace' = [workspace EXCEPT ![r] = Baseline(r)]
  /\ Go(r, "agent")
  /\ outcome' = [outcome EXCEPT ![r] = NotRun]
  /\ UNCHANGED <<order, shuffle, stragglers, artifacts, attempt, position, prepared,
                 returned, official>>

(* AgentConfig is made of the experiment's model, budget and policy alone: *)
(* its limits are the defaults, and the agent keeps to them (RunContract). *)
AgentToolCalls(r) == DefaultToolCalls

RunAgent(r) ==
  /\ at[r] = "agent"
  /\ \E end \in {"completed", "failed"}, calls \in ToolCalls :
       /\ calls <= AgentToolCalls(r)
       /\ end = "failed" =>
            Cardinality({record \in records : ~record.completed}) < MaxFailed
       /\ outcome' = [outcome EXCEPT ![r] = [end |-> end, tool_calls |-> calls]]
  /\ workspace' = [workspace EXCEPT ![r] = Written(@, Run(r))]
  /\ Go(r, "evaluate")
  /\ UNCHANGED <<order, shuffle, stragglers, artifacts, attempt, position, prepared,
                 returned, official>>

(* Unwinding: the with blocks delete the clone and the baselines.          *)
UnwindRetries(r) ==  \* mutant: the condition is tried again
  Go(r, "clone") /\ workspace' = [workspace EXCEPT ![r] = None] /\ UNCHANGED prepared
UnwindBaselinesOnly(r) ==  \* mutant: the clone is left open
  Go(r, "raised") /\ prepared' = [prepared EXCEPT ![r] = {}] /\ UNCHANGED workspace
Unwind(r) ==
  /\ Go(r, "raised")
  /\ prepared' = [prepared EXCEPT ![r] = {}]
  /\ workspace' = [workspace EXCEPT ![r] = None]

(* InferenceError, or a tool error nobody turned into a result.            *)
AgentRaises(r) ==
  /\ at[r] = "agent"
  /\ outcome' = [outcome EXCEPT ![r].end = "raised"]
  /\ Unwind(r)
  /\ UNCHANGED <<order, shuffle, stragglers, artifacts, attempt, position, returned,
                 official>>

(* evaluate_task runs pytest in the clone, on the code the agent left, and *)
(* that code may write there too, before the patch is taken.  Which result *)
(* the tests give, a timeout included, changes nothing here.               *)
Evaluate(r) ==
  /\ at[r] = "evaluate"
  /\ LET content == Written(workspace[r], Run(r)) IN
       /\ official' = [official EXCEPT ![r] = content]
       /\ workspace' = [workspace EXCEPT ![r] = content]
  /\ Go(r, "trace")
  /\ UNCHANGED <<order, shuffle, stragglers, artifacts, attempt, position, prepared,
                 returned, outcome>>

(* EventLogger appends one event at a time.                                *)
TraceUnflushed(r, state) ==  \* mutant: the last events stay in a buffer
  traces' = [run \in DOMAIN traces \cup {Run(r)} |->
               IF run = Run(r) THEN "partial" ELSE traces[run]]
Trace(r, state) == traces' = [run \in DOMAIN traces \cup {Run(r)} |->
                                IF run = Run(r) THEN state ELSE traces[run]]

BeginTrace(r) ==
  /\ at[r] = "trace"
  /\ Trace(r, "partial")
  /\ Go(r, "tracing")
  /\ UNCHANGED <<order, shuffle, stragglers, config, records, torn, attempt,
                 position, prepared, workspace, outcome, returned, official>>

EndTrace(r) ==
  /\ at[r] = "tracing"
  /\ Trace(r, "complete")
  /\ Go(r, "record")
  /\ UNCHANGED <<order, shuffle, stragglers, config, records, torn, attempt,
                 position, prepared, workspace, outcome, returned, official>>

(* _run_one returns its record and the workspace closes; run() opens the   *)
(* record's file, then writes it.  The patch shows what git diff finds in  *)
(* the clone: some of it, or nothing if it is staged or git fails.         *)
OpenRecord(r) ==
  /\ at[r] = "record"
  /\ returned' = [returned EXCEPT ![r] = RunRecord(r)]
  /\ workspace' = [workspace EXCEPT ![r] = None]
  /\ torn' = torn \cup {Run(r)}
  /\ Go(r, "recording")
  /\ UNCHANGED <<order, shuffle, stragglers, config, traces, records, attempt,
                 position, prepared, outcome, official>>

RecordedWhenCompleted(r) ==  \* mutant: a failed run is not worth a record
  IF returned[r].completed THEN records \cup {returned[r]} ELSE records
Recorded(r) == records \cup {returned[r]}

LastConditionLate(r) == position[r] = Total  \* mutant: one condition too many
LastCondition(r) == position[r] + 1 = Total

WriteRecord(r) ==
  /\ at[r] = "recording"
  /\ records' = Recorded(r)
  /\ torn' = torn \ {Run(r)}
  /\ position' = [position EXCEPT ![r] = @ + 1]
  /\ IF LastCondition(r)
     THEN Go(r, "finished") /\ prepared' = [prepared EXCEPT ![r] = {}]
     ELSE Go(r, "next") /\ UNCHANGED prepared
  /\ UNCHANGED <<order, shuffle, stragglers, config, traces, attempt, workspace,
                 returned, outcome, official>>

(* git, the file system or the evaluation's report may fail anywhere else. *)
Raise(r) ==
  /\ at[r] \in Working \ {"agent"}
  /\ Unwind(r)
  /\ UNCHANGED <<order, shuffle, stragglers, artifacts, attempt, position, outcome,
                 returned, official>>

Kill(r) ==
  /\ at[r] \notin Stopped
  /\ Go(r, "killed")
  /\ UNCHANGED <<order, shuffle, stragglers, artifacts, attempt, position, prepared,
                 workspace, outcome, returned, official>>

(* A command's timeout kills the command alone: what it started goes on,   *)
(* whatever becomes of the run and of the runner, and so it is for pytest. *)
CommandOutlived(r) ==
  /\ at[r] \in {"agent", "evaluate"} /\ Cardinality(stragglers) < MaxStragglers
  /\ stragglers' = stragglers \cup {Run(r)}
  /\ UNCHANGED <<order, shuffle, artifacts, local>>

(* It writes in the directory it was started in, if that is there.         *)
StragglerWrites(run, r) ==
  /\ workspace[r] # None /\ Directory(Run(r)) = Directory(run)
  /\ workspace' = [workspace EXCEPT ![r] = Written(@, run)]
  /\ UNCHANGED <<order, shuffle, stragglers, artifacts, at, attempt, position,
                 prepared, returned, outcome, official>>

Straggle ==
  \E r \in Runners :
    CommandOutlived(r) \/ \E run \in stragglers : StragglerWrites(run, r)

Progress(r) ==
  \/ Check(r) \/ Configure(r) \/ NextCondition(r) \/ OpenWorkspace(r)
  \/ RunAgent(r) \/ AgentRaises(r) \/ Evaluate(r)
  \/ BeginTrace(r) \/ EndTrace(r) \/ OpenRecord(r) \/ WriteRecord(r) \/ Raise(r)

Terminated == (\A r \in Runners : at[r] \in Stopped) /\ UNCHANGED vars

Next ==
  (\E r \in Runners : Progress(r) \/ Invoke(r) \/ Kill(r)) \/ Straggle \/ Terminated

Spec == Init /\ [][Next]_vars

(* A process that is not killed keeps going: the agent ends (AgentLoop),   *)
(* the evaluation has a timeout, and the rest is local file work.          *)
FairSpec == Spec /\ \A r \in Runners : WF_vars(Progress(r))

----------------------------------------------------------------------------
(* Type invariant.                                                         *)
TypeOK ==
  /\ order \in Orders
  /\ config \in {None} \cup [runner : Runners, attempt : 1..MaxAttempts]
  /\ \A run \in DOMAIN traces :
       run.by \in [runner : Runners, attempt : 1..MaxAttempts]
         /\ run.position \in 0..(Total - 1) /\ traces[run] \in {"partial", "complete"}
  /\ at \in [Runners -> Stopped \cup Working \cup {"check", "configure"}]
  /\ attempt \in [Runners -> 0..MaxAttempts]
  /\ position \in [Runners -> 0..Total]
  /\ \A r \in Runners :
       /\ at[r] \in Working => position[r] < Total
       /\ prepared[r] \subseteq {TaskIds[i] : i \in DOMAIN TaskIds}
       /\ outcome[r].end \in {"none", "completed", "failed", "raised"}
       /\ outcome[r].tool_calls \in ToolCalls \cup {0}
  /\ \A run \in torn : run \in DOMAIN traces

(* Whatever a crash interrupts, a record is only ever there with the whole *)
(* trace it points to: an analysis that starts from the records never      *)
(* reads a trace that is missing or cut short.                             *)
RecordsHaveTraces ==
  \A record \in records :
    record.run \in DOMAIN traces /\ traces[record.run] = "complete"

(* Wherever an invocation stops, every condition before the last one it    *)
(* left anything of has its record, whatever became of that run.           *)
InterruptedLeavesPrefix ==
  \A run \in DOMAIN traces : \A earlier \in 0..(run.position - 1) :
    \E record \in records : record.run = [run EXCEPT !.position = earlier]

(* Artifacts of two invocations are never mixed: every trace and record in *)
(* the output directory is of the invocation whose config.json is there    *)
(* (tests/test_experiment_runner.py:50, "refuses to mix with existing      *)
(* artifacts"), however often the experiment was killed and started again. *)
OneInvocation ==
  /\ \A run \in DOMAIN traces : run.by = config
  /\ \A record \in records : record.run.by = config

(* Nothing from a prior run is reused: an agent starts on a clone of its   *)
(* own task that no other run wrote in, and an invocation that was not     *)
(* killed is done with its clone and its baselines when it ends.           *)
CleanStart ==
  \A r \in Runners :
    /\ at[r] = "agent" =>
         workspace[r].task = TaskAt(position[r]) /\ workspace[r].writers \subseteq {Run(r)}
    /\ at[r] \in {"refused", "finished", "raised"} =>
         workspace[r] = None /\ prepared[r] = {}

(* "no solution, state, index, or modified file is reused across           *)
(* comparisons" (README.md:158-159): what a record's official result was   *)
(* about, and what its patch is taken from, is a clone of the record's own *)
(* task in which its own run wrote and no other, though processes of other *)
(* runs are still there and writing.                                       *)
ResultIsOfTheRun ==
  \A record \in records : \A content \in {record.official, record.patch} :
    content.task = record.task /\ content.writers \subseteq {record.run}

(* Once written, config.json, a complete trace and a record stay as they   *)
(* are, whoever is invoked again.                                          *)
ArtifactsKept ==
  [][ /\ config # None => config' = config
      /\ records \subseteq records'
      /\ \A run \in DOMAIN traces :
           run \in DOMAIN traces'
             /\ (traces[run] = "complete" => traces'[run] = "complete")
    ]_vars

(* Every invocation comes to an end.                                       *)
InvocationEnds == \A r \in Runners : (at[r] = "check") ~> (at[r] \in Stopped)

(* docs/agent.md:15-17 - "Context overflow, inference errors, command      *)
(* failures, and timeouts remain visible in traces."                       *)
RaisedRunTraced ==
  \A r \in Runners :
    (at[r] = "raised" /\ outcome[r].end = "raised") => Run(r) \in DOMAIN traces

(* docs/benchmarks.md:3-5 - "A task YAML includes ... execution limits."   *)
(* No run of a task calls more tools than its manifest allows.             *)
LimitsOfTheManifest ==
  \A record \in records : record.tool_calls <= TaskToolCalls[record.task]
=============================================================================
