# ContextLab: a verification development

ContextLab runs a coding agent on benchmark tasks under four context policies and
compares what each run cost and whether it worked. Its conclusions are only as good as
its bookkeeping: which model calls are counted, which events a trace holds, what a
context policy hides from the model, and what is on disk when an experiment stops
half-way. That bookkeeping is what this directory models in TLA+, checks with TLC and
proves with TLAPS. Paths below are relative to `src/`.

## The system

| Component | State | Operations | Hard behaviour |
|---|---|---|---|
| Agent loop (`contextlab/agent/runtime.py`) | `canonical_messages`, `events`, `step`, `files_modified`, `completed`, `failure`, `tool_calls` | `run`, `_execute` | five places an exception or limit can leave one iteration |
| Limits (`agent/limits.py`) | three counters and a start time | `before_model`, `after_model`, `before_tool` | the deadline is looked at only before a request and before a tool |
| Accounting (`inference/accounting.py`) | one counter of requests, sums of tokens by request kind | `record` | work that was done and is not recorded |
| Compaction policy (`context/policies/compaction.py`) | `summary`, `compacted_until`, `records`, `_reported_records`, `precompaction_paths`, `revisits` | `prepare_context`, `observe`, `drain_new_records` | indices into a list another component appends to; overflow after the side effects |
| Retrieval policy (`context/policies/retrieval.py`, `context/recovery/history.py`) | observation store, query counts, a log of searches | `prepare_context`, `observe`, `recover` | a search is made before the overflow is found; repeated call ids |
| Other policies (`full_history.py`, `bounded.py`) | reductions of the latest view | `prepare_context` | one budget shared by all tool results, bytes against characters |
| Token budget (`context/budgeting/manager.py`) | the window | `count_messages`, `usable_prompt_tokens` | two different token estimates in use |
| Inference client (`inference/client.py`) | an HTTP client; the accumulators of a stream | `complete`, `stream` | retries, timeouts, truncated streams, work of the server nobody waits for |
| Mock inference (`inference/mock_server.py`, `mock.py`) | a script | two kinds of answer | none |
| Tools (`tools/`) | the files of the workspace | five tools, path resolution | partial writes, exceptions that are not results, processes that outlive a command |
| Experiment runner (`benchmarking/runner.py`) | the output directory, baselines, a clone | `run`, `_run_one` | failures and kills between any two writes; two processes |
| Evaluation (`evaluation/runner.py`) | none | `evaluate_task` | runs code the agent left, in the clone the patch is taken from |
| Trace (`instrumentation/events.py`, `metrics.py`) | an append-only file | `write_all`, `metrics_from_events` | reports rebuilt from the trace alone |
| Analysis (`analysis/`) | the files of a report | attribution, behaviour, grouping, report | depends on the order and completeness of traces; the directory is read twice and may be growing |

`ExperimentRunner.run` walks the matrix task x trial x budget x policy. For each
condition `_run_one` clones the baseline, builds a policy and a `CodingAgent`, awaits
`agent.run`, grades the clone, writes the trace and returns the record that `run`
writes. Inside `agent.run` every iteration calls the policy (`prepare_context`, then
`observe` with the prepared-context event), the inference client, at most one tool, and
the policy again (`observe` with the result). A `ModelCompactor` calls the same client
from inside `prepare_context`. The policy reads `canonical_messages` and `events`; only
the loop appends to them. Analysis reads records, and through them traces, later.

Everything in one process is sequential: the awaits are in one task. What runs
concurrently is time (the deadline), the server, what a command left running (during its
run, its evaluation and later runs), a kill, a report, and other processes given the same experiment id.

## Modules

| Module | Models | Extends |
|---|---|---|
| `RunContract` | abstract specification: what a call of `run` promises its caller | |
| `AgentLoop` | `CodingAgent.run`, `_execute`, `LimitTracker`, `InferenceTotals.record`, `AgentState.emit` | |
| `WorkspaceAgent` | the loop composed with `RepositoryTools`, `MutationTools` and the files | `AgentLoop` |
| `TraceMetrics` | `metrics_from_events` as a fold over the events | |
| `AgentDeadline` | the loop with a history of the work done by the deadline: what is still done after it | `AgentLoop` |
| `AgentReport` | the loop beside the metrics derived from its trace: their agreement | `AgentLoop`, `TraceMetrics` |
| `FoldTheorems` | what the folds of the models compute, step by step | |
| `AgentLoopProofs` | theorems about `AgentLoop` | `AgentLoop` |
| `WorkspaceProofs` | theorems about `WorkspaceAgent`, `AgentReport` and `AgentDeadline` | all three, `AgentLoopProofs`, `FoldTheorems` |
| `TraceAnalysis` | `analyze_repeated_access` and `analyze_context_behavior` as folds | |
| `BoundedAgent` | the loop composed with `FullHistoryPolicy` and `BoundedToolOutputPolicy`; what the analyses say of its traces | `AgentLoop`, `TraceAnalysis` |
| `BoundedProofs` | theorems about `BoundedAgent` | `BoundedAgent`, `AgentLoopProofs`, `FoldTheorems` |
| `CompactionAgent` | the loop composed with `CompactionPolicy`, both compactors and `TokenBudget` | `AgentLoop` |
| `CompactionProofs` | theorems about `CompactionAgent` | `CompactionAgent`, `AgentLoopProofs`, `FoldTheorems` |
| `RetrievalAgent` | the loop composed with `RetrievalContextPolicy` and `ObservationStore` | `AgentLoop`, `TraceAnalysis` |
| `RetrievalProofs` | theorems about `RetrievalAgent` | `RetrievalAgent`, `AgentLoopProofs`, `FoldTheorems` |
| `Experiment` | `ExperimentRunner.run`, `_run_one`, `EventLogger`, the clone, grading, several invocations | |
| `ExperimentReport` | `generate_report` beside the experiment: `aggregate_experiment`, `_detailed_runs` | `Experiment` |
| `ExperimentProofs` | theorems about both | `ExperimentReport`, `FoldTheorems` |
| `InferencePromise` | abstract specification: what a call of the client promises its caller | |
| `InferenceClient` | `OpenAIClient.complete` and `stream`, the connection, the mock server and any other | `InferencePromise` (by `INSTANCE`) |
| `InferenceProofs` | theorems about `InferenceClient` | `InferenceClient` |
| `MC...` | the constants of the runs that a configuration file cannot write | |

### AgentLoop

`pc` is the place in `run`: one action per stretch of code between two awaits or
raising calls, so that each exception leaves from a state of its own. `prepare` is the
call of `prepare_context`, `request` is `before_model`, `awaiting` is
`inference.complete`, `tool` is `before_tool`, `execute` is `_execute`, `exhausted` the
end of the `for`. `Raise` is an exception `run` does not catch; it goes to the caller.

The policy is abstract here: it may compact (with a model call or without) when it is
the compaction policy, it retrieves once when it is the retrieval policy, and the view
fits or overflows. A message is its role and its size; an event is its kind, its
step, the path of a tool result and a note (the tool, the reason of a failure, whether a
compaction used the model). `answered` is not a variable of the program: it counts the
responses the client returned, by kind, to be compared with what the program recorded in
`totals`: one counter of all requests and the tokens of each kind, which the model keeps as
the number of responses that went into the sum. `Raise` at `tool` is an exception of
`parse_decision`, after the response is recorded.
`observe` of a prepared-context event does nothing in any policy and is part of
`PrepareContext`.

### AgentDeadline

Time is an event of its own, `TimeExpires`, anywhere in a run. `onTime` is a history
variable that follows the work done (answers, compactions, tools) until the deadline and
then stays, so that what comes late is a difference. Nothing of the loop changes.

### WorkspaceAgent

`ExecuteTool` of the loop is split by tool. The three tools that read leave the files
alone; `write_file` opens the file, which empties it, and then writes: it succeeds, fails
as a result before or after the file was emptied, or raises (text without an encoding, a
path with a null byte); `run_command` may change every file, whether its result is ok, an
error or a timeout. `subprocess.run` kills only the process it started, so a command may
leave a `straggler` that goes on writing beside the loop and after it. A path outside
the workspace is an error result, except as the working directory of a command: that
`WorkspaceError` is not caught and ends the run (`Raise`).

### BoundedAgent

The loop with the two policies that present every message. They keep nothing between two
preparations, so the state added is payloads: `results`, of the tool results, and
`audits`, of the prepared contexts. The policy measures text in bytes and cuts it in
characters or lines: a text is its length, the width of its characters (1 to 4 bytes),
and the size of the lines a search returned or of a command's error lines. The cut texts
are computed to the byte, markers included, because what is left for the next result
depends on it. `Trace` joins events and payloads into what `trace summarize` reads, and
the two folds of `TraceAnalysis` are compared with the run itself.

### InferenceClient

One call at a time, as the loop and the compactor await them. `Post`, `ReceiveBody`,
`ReadLine`, `ReadEnd`, `Lose` and `Resume` are the client's steps between two awaits; the
server sees a request, generates, sends pieces and ends, refuses, or breaks off. `Lose`
is a timeout or a lost connection at any point, after which what the server has begun
goes on as `abandoned` work that may still be served. A server sends the usage after
the last piece of content, as the mock does, though the code takes one from any chunk; and each read takes less than the timeout
or runs into it, so that a server that sends for ever is not modelled. A token is one piece of a stream,
so that content, usage and intervals can be compared. Chunks tell apart what the code
does: `unreadable` is what its `except` clauses catch, `odd` what they do not (an empty
list of choices, which ends a call of either kind with a bare exception).

### CompactionAgent

Actions of the loop and of the policy are conjoined: `prepare_context` with its trigger,
its summary and its overflow decides which of `PrepareContext` and `ContextOverflow` the
loop takes, the drain is part of a preparation that returned, `observe` is part of
`ExecuteTool`. Content is measured in tokens of four bytes, so that the two estimates of
the code (rounding up for the prompt, down with a minimum of one for tool output) agree
except for empty content, where the model keeps both. `covered` is the set of message
indices whose content was given to the compactor, directly or in the summary before, for
the present summary: not in the program, and what "nothing is forgotten" is said with.
What a compactor keeps of what it is given, an excerpt or a paraphrase, is not modelled.

### RetrievalAgent

Built like `CompactionAgent`: `prepare_context` searches and then lets the loop prepare or
overflow, `observe` is part of `ExecuteTool`, an explicit `retrieve` searches in the same
step that answers it. A search (`BM25Index.search`) is any order of any documents within
the limit of each index: nothing checked depends on which scores win. A document is its
index, its source id and its size; the id of an observation is its call id and its
content, and contents are told apart by size. `results` and `traced` are the parts of the
trace's payloads that `AgentLoop` leaves out. `recovered` is the latest `RecoveryResult`,
with the candidates it was chosen from.

### Experiment

A condition is its position in the nested loops. A run is named by the invocation that
made it and that position, as `uuid4` makes its id unique. The output directory
(`config`, `traces`, `records`, `torn`) outlives invocations; the rest is local to a
process. A clone is known by its task and its `writers`, the runs whose processes may have
written in it: the agent's tools, the tests of the evaluation, which run the code the agent
left, and `stragglers`, processes that outlived a command. These go on after their run and
after a kill, in the directory they were started in (`StragglerWrites`). What they do
there, edit, stage, commit or remove, is not told apart: the patch, taken after the
evaluation by a `git diff` that may fail, shows some of it or nothing. `Raise` is any failure of git, of the file system or of
a report, `AgentRaises` an exception of `agent.run`; both unwind the `with` blocks.
`Kill` stops a process anywhere and unwinds nothing. A record keeps the number of tools its
run called; `AgentToolCalls` is the limit the run was given.

### ExperimentReport

A report is a command of its own and may be given as soon as the directory exists. It
lists `runs/`, reads what it listed, and writes the table; then lists and reads again for
the charts. Between any two of these the experiment goes on, raises or is killed. A file
that is open and not yet written is in a listing and cannot be read: the report raises.
Reading is one step, since only an experiment of another process writes there and it
never changes a written record. `Configure` is one step too, so a report on a directory
without `config.json`, or with part of it, is not modelled. Whether charts can be drawn
is left open.

## What the runs check

| Run | Question | States | Bounds |
|---|---|---|---|
| `agent_loop` | do accounting, verdict, trace, conversation, files and derived metrics agree, does every run end, does the loop implement `RunContract`? | 0.66 million | 4 steps, 3 requests, 2 tool calls, 4 generated tokens of responses of 1 or 2, one file |
| `deadline` | what is still done after the deadline? | 0.16 million | as `agent_loop`, without files, under three policies |
| `bounded` | is the tool budget kept, does the past stay as it was presented, are the analyses of the trace right? | 0.43 million | 3 steps, 4 requests, 3 tool calls, results of 1 or 16 tokens and other messages of 1 (a `CONSTRAINT`), a total of 11 tokens, 3 for each result |
| `compaction` | does the policy keep, hide, count and report what it should? | 1.6 million | 4 steps, a window of 2 messages, 2 files, content of 1 or 4 tokens, summaries of 1 or 9 |
| `retrieval` | is nothing observed lost, is every search traced, does a recovery fill its cap and a request fit? | 0.05 million | 3 steps, a window of 2 messages, tool results of 0, 1 or 3 tokens and other messages of 3 (a `CONSTRAINT`), 2 call ids, one document of each index per search |
| `inference` | does every call end, within its retries, and is a counted answer whole? | 0.02 million | 2 calls, 2 retries, generations of 1 to 3 tokens, both servers |
| `experiment` | what is on disk after failures, kills and a second invocation, and what does a report make of it? | 0.26 million | 2 tasks, 2 trials, 2 policies in fixed and rotated order, 2 invocations, 1 run that does not complete (`MaxFailed`), 1 report (`MaxReports`) |
| `repeated_task` | what does a repeated task id break, and is anything of another run in a clone, a result or a patch? | 1.2 million | 2 processes side by side, 3 manifests, 2 budgets, 1 run with a process left over (`MaxStragglers`), 1 run that does not complete |
| `auxiliary_lost`, `raised_untraced`, `mixed_artifacts`, `manifest_limits` | four statements of the documents and tests that the code does not keep | | |

Why the bounds are enough: in `agent_loop` each limit is the one that ends some
behaviour, except the number of steps, which the request limit hides; it ends behaviours
of `bounded`. In `bounded` the third preparation is the first with two results: one that
is reduced can leave the other nothing, a reduction of wide characters takes more than
its allowance, and a search repeated in another case is a repeated access. Two retries
are the least in which a retry follows a retry, and two calls the least in which work of
an abandoned request goes on beside the next call. Four iterations are the least in which a
window of two messages is compacted twice with a tool result before, between and after.
The sizes are chosen so that each trigger (utilisation, steps, tool output) is the first
to fire in some behaviour, and so that a compacted view can still overflow. Two trials
of two policies are one whole turn of the rotation. One process left over by a run of one
of two experiments meets every other clone: a later one of its own experiment, and one of
the other. In `retrieval` the
third preparation is the first with a result outside the window; one chunk of the
repository fits a recovery, one is larger than the cap, and the limit of one document per
index (12 in the code) is reached. Symmetry is used for the two files of `compaction`
and the two call ids of `retrieval`, which check no liveness.

Properties worth knowing first:

- `WorkloadAccounted`: totals and trace agree, and a response is lost in exactly two
  endings, one response each: the one that broke the generation limit, and the
  compaction whose view overflowed.
- `OneVerdict`, `TraceOrdered`, `ConversationMatchesTrace`: a trace can be read as a run.
  They are what `metrics_from_events` silently assumes; `MetricsAgreeWithRun` checks that
  with them its counts are the run's own: its requests are those of the totals less the
  auxiliary ones, which only the trace tells apart, and so on.
- `LateWorkBounded`: after the deadline a run finishes one answer or one tool, and may ask
  for one more compaction (`prepare_context` comes before the clock is looked at), no
  matter how many malformed answers or steps are left; an ending then names the clock,
  unless the late answer itself ended the run, or a view overflowed, or the steps ran out.
- `EditsExplained`: a file that is not as cloned is in `files_modified`, or a write of it
  failed visibly, or a command ran. After a command it says no more of the files, since a
  command and what it leaves running may change any.
- `ToolBudgetKept`: what `total_tool_tokens` means: the oldest results have the first
  claim, the omitted are the newest, and the overrun is that of one reduction, whose size
  is bounded by the width of a character. `PresentationStable`: a request never shows an
  earlier result differently from the request before.
- `LossNeverMissed`: the attribution of repeated accesses has no false negatives; it has
  false positives, by design. `BehaviorAgreesWithRun`: the sums of the context behaviour
  are those of the run.
- `SummaryCoversRemoved`: at any time the summary in use stands for exactly the messages
  that are no longer presented, across repeated compactions.
- `RevisitsExact`: the incremental bookkeeping of revisits equals its definition over the
  whole trace.
- `ObservationsComplete`: the retrieval policy's store is the set of non-empty tool results
  of the run, also when the model repeats a call id, so what leaves the window can be
  recovered; `RetrievalsTraced` says the same of its log of searches, the trace and the
  repeats the analysis counts.
- `ViewSound` (of compaction and of retrieval): the view is the instructions, what stands
  for the past, and a window that is whole and opens with a question; and it fits.
- `LostWorkBounded`, `CountedIsWhole`: what no usage shows is bounded by the attempts, and
  an answer cut short counts nothing rather than a part.
- `InterruptedLeavesPrefix`, `OneInvocation`: wherever an experiment stops, the directory
  holds a prefix of one invocation's matrix, and at most the last condition is damaged.
- `CleanStart`, `ResultIsOfTheRun`: an agent starts on, and a record's result and patch come
  from, a clone in which no other run wrote, although processes of earlier runs and of
  another experiment are alive. That result and patch are of one content is not claimed:
  evaluated code and left-over processes may write between the two.
- `ReportSound`, `MatrixComplete`: a report made at any moment is about runs that are over,
  each in one row, none missing from the charts; made after `run` has returned, its rows
  are the full matrix over all trials, with the rotation balanced.

Fairness: `WorkspaceFairSpec` is weak fairness of the loop's own steps as a whole. Requests
and commands have timeouts (`config.py`), so each await returns or raises; nothing assumes
that the model ever finishes, that a deadline passes, which outcome is taken, or that a
left-over process ends. `FairSpec` of the client is weak fairness of its steps: a request
has a timeout and a back-off ends; nothing is assumed of the server, which may stay silent
for ever. `ReportFairSpec` is weak fairness of each process's own steps: the agent ends
(`Terminates`), the evaluation has a timeout, the rest is local file work. Kills,
invocations and reports are not fair. The other runs check safety only.

Each property has a mutant, an operator marked `mutant` just before the definition it
stands for: a plausible slip in the code under which TLC finds that property violated.

### Where the documents say something else

- `auxiliary_lost`: work of a compaction whose view overflows is in no total (README
  53-54, `docs/agent.md` 21-22). `WorkloadAccounted` bounds the loss to one response.
- `raised_untraced`: an inference error leaves no trace (`docs/agent.md` 15-17).
- `mixed_artifacts`: two processes can mix artifacts in one directory
  (`tests/test_experiment_runner.py` 50). `experiment` checks that one process after
  another cannot.
- `manifest_limits`: the limits of a task manifest are never used; every run has the
  defaults (`docs/benchmarks.md` 3-5, README 119).

## What is proved

`AgentLoopProofs`, for every value of the constants that satisfies `LimitsAssumption` and
`DataAssumption` (positive limits, as `config.py` validates; finite or infinite sets of
sizes and files):

- `TypeCorrect`: `Spec => []TypeOK`.
- `ProgressInvariant`: `Spec => []Progress`. `KeepsContract` is not provable from types:
  that a tool call is never ahead of a request, and that running out of steps means
  `max_steps` requests were made, depends on where the iteration is. `Progress` states
  it place by place: one request per step started, at most one call per request, a
  verdict only at `done`. It is inductive together with `TypeOK`.
- `LoopKeepsContract`: `Spec => KeepsContract`, the refinement of `RunContract`: each
  action is a `Request`, a `Call`, an `End` with a justified verdict, or a stutter.
- `WorkloadIsAccounted`: `Spec => []WorkloadAccounted`. The counts are cardinalities of
  sets of positions; the lemmas `AppendIndices`, `CountAppend` and
  `AuxiliaryCountAppend` say how they grow when an event is appended.
- `NothingIsTakenBack`: `Spec => AppendOnly`. Every action leaves both sequences an
  extension of what they were (`ExtendsByOne`, `ExtendsByTwo`); `Start` writes the first
  two messages, which needs the invariant `Fresh`: before it both are empty.
- `RunsEndOnce`: `Spec => []OneVerdict`. While the loop runs the trace is open (no
  closing event in it); appending anything else keeps it open (`OpenAppend`), and the
  action that ends the run appends the one event that closes it (`CloseAppend`). That no
  verdict is set earlier comes from `Progress`.
- `ConversationIsTheTrace`: `Spec => []ConversationMatchesTrace`. That answers and results
  take turns depends on where the iteration is: `Turns` says of each place how long the
  conversation is (even, or odd between an answer and its result) and who spoke last.
  `Exchanged` is that with the counts; `InTurnAppend` and `CountAppend` are its two steps.
- `TraceCanBeReplayed`: `Spec => []TraceOrdered`. `Placed` gives for each place what the
  last event can be and of which step, `Follows` which event may come after which;
  `Replayable` is both.

`CompactionProofs`, with `CompactionAssumption` (the policy is compaction; any triggers,
window, budget and summary sizes) in addition:

- `CompactionImplementsLoop`: `CompactionSpec => Spec`. The policy only chooses among the
  outcomes `AgentLoop` leaves open, so each theorem above holds of the composition;
  `CompactionWorkload` states it for the accounting.
- `NothingIsForgotten`: `CompactionSpec => []SummaryCoversRemoved` when no summary is the
  empty string: an empty one is not put into the view or into the next compaction
  (`compaction.py` 199, 222), and nothing in the documents promises otherwise. That
  assumption is also in the sizes of the run. `SummaryCoversRemoved` says
  nothing of the time before the first compaction; the inductive `Summarised` adds that
  there is no summary then, and that the boundary never falls below 2.
- `CompactionIsTyped`: `CompactionSpec => []CompactionTypeOK`.
- `CompactionsAreTraced`: `CompactionSpec => []RecordsDrainedOnce`. `Drained` adds that no
  record is of a step later than the present one (`Numbered`), so that a new record
  differs from each earlier one, and that the overflow is the end.
- `RevisitsAreExact`: `CompactionSpec => []RevisitsExact`. The policy looks at the paths of
  the trace when it compacts and at one path when a result arrives; the definition looks
  at the whole trace. `Revisiting` says that `precompactionPaths` is what the trace named
  before the latest compaction (`NamedBefore`), and `Noted` that no event is of a later
  step: without it a result of the step of the compaction could change sides.
- `ViewsAreSound`: `CompactionSpec => []ViewSound`. What fits is decided on indices
  (`Estimate`), what is sent is a sequence: `ViewMeasured` shows that both measure the
  same, message by message. `Windowed` keeps the window whole and, for an even
  `RecentMessages`, opening with a question, which uses `ConversationIsTheTrace`.

`RetrievalProofs`, with `RetrievalAssumption` in addition:

- `RetrievalImplementsLoop`: `RetrievalSpec => Spec`.
- `NothingObservedIsLost`: `RetrievalSpec => []ObservationsComplete`. With its types it is
  inductive (`Remembered`); that each result is in the trace as well needs that no other
  action emits a tool result, which `ExecutedWithResult` and the three `...WithoutResult`
  lemmas show action by action.
- `PolicyIsTyped`: `RetrievalSpec => []RetrievalTypeOK`.
- `RecoveryFillsItsCap`: `RetrievalSpec => []RecoveryMaximal`. A candidate skipped early
  must still not fit at the end: along the ranking the room only shrinks
  (`Selected`, an induction on the prefixes of the ranking). The assumption that
  `RepositoryDocuments` is finite came in here; an index is built from a list of chunks.
- `SearchesAreTraced`: `RetrievalSpec => []RetrievalsTraced`, from `Noted`, which follows
  the log and its numbers (`Numbered`) beside the trace, and `RepeatsAnalysed`, which says
  what the fold of the analysis counts.
- `ViewsAreSound`: `RetrievalSpec => []ViewSound`, with the prompt of a view summed as for
  compaction.

`WorkspaceProofs`, with nothing more assumed than of the loop:

- `WorkspaceImplementsLoop`: `WorkspaceSpec => Spec`. The tools decide among the outcomes
  the loop leaves open; what a left-over process does is a stutter of the loop.
- `EveryEditExplained`: `WorkspaceSpec => []EditsExplained`. Beside its own parts the
  invariant needs that a run that raised stays so and that the trace keeps what it holds
  (`RaisedStays`, `TracedStays`), and how the paths a trace names change with one event
  (`NamedAppend`, and that only a result of `write_file` adds one).
- `LateWorkIsBounded`: `DeadlineSpec => []LateWorkBounded`. The bound is not inductive: at
  each place `Overtime` says what may have come late on the way there: nothing yet while a
  request or a tool is in flight, and no compaction before the next look at the clock.
  `LateOnce`: only the clock makes a run late, between two of its steps.
- `ReportIsTheRuns`: `WorkspaceSpec => []MetricsAgreeWithRun`. Prompt sizes are keyed by
  step, so the metrics count an answer per step: `Prompted` says that no two answers share
  one. `TraceTallied` gives the fold of any trace in counts of its events, and the
  invariants of the loop (`WorkloadAccounted`, `OneVerdict`, `ConversationMatchesTrace`)
  give the counts of the run.

`BoundedProofs`, from `BoundedAssumption`:

- `BoundedImplementsLoop`: `BoundedSpec => Spec`, whatever the budgets.
- `PresentationsAreStable` and `BudgetIsKept`: `BoundedSpec => []PresentationStable` and
  `BoundedSpec => []ToolBudgetKept`. The policy recomputes every reduction for each
  request. `Presented` says that what it computed is a cut (`IsCut`) of the results that
  were there, oldest first, each from what the ones before left; two cuts of the same
  results agree (`CutsAgree`), which is stability, and what is left is the total less the
  sum of what was shown, which is the budget.
- `BehaviorIsTheRuns`: `BoundedSpec => []BehaviorAgreesWithRun`. The analysis adds up
  `len(retained) + len(removed)` over the preparations. `Paced` says that the a-th
  preparation is of step a - 1 and divides the 2a messages there were, which needs the
  lengths of conversation, trace and audits at each place (`InPace`).
  `BehaviorAnalysed` follows the fold along the trace.
- `LossesAreFound`: `BoundedSpec => []LossNeverMissed`. The analysis compares steps, the
  claim is about places in the trace. `Timed` joins the two: a preparation and a result are
  of the step that counts the preparations before them, a preparation shows no more results
  than were there, and an audit that reduced something says it removed something (`Marked`).
  `AccessAnalysed` says what the fold knows after each entry of any trace whose
  preparations have steps of their own: the first access of each signature, the steps of
  all removals, and one piece of evidence for each repeat (`Known`).

`InferenceProofs`, from `ClientAssumption` (any retries, calls, lengths and servers):

- `TypeCorrect`: `Spec => []TypeOK`.
- `LostWorkIsBounded`: `Spec => []LostWorkBounded`. The bound is not inductive: the request
  in flight may still be served. `Accounts` adds it to the sum (`InFlight`), with what is
  known at each place: an attempt is left before another is made, and a whole body is on
  the wire only when the request was served.
- `ClientKeepsPromise`: `Spec => KeepsPromise`, the refinement of `InferencePromise`, from
  the same invariant.
- `CountedWholeOrNotAtAll`: `Spec => []CountedIsWhole`. What has been read is no proof of
  what will be: `Streamed` says that the wire holds, behind what was read, first pieces and
  then the rest (`Leading`), and a usage only behind a whole generation. A retry starts
  from nothing.

`ExperimentProofs`, from `ExperimentAssumption` and `ReportAssumption` (any matrix, any
number of processes with one experiment id and of their invocations):

- `RecordsAreReadable` and `PrefixIsRecorded`: `Spec => []RecordsHaveTraces` and
  `Spec => []InterruptedLeavesPrefix`, also for processes side by side, where
  `OneInvocation` fails. The inductive `OnDisk` says that records are of the past of
  their process (an earlier invocation, or an earlier position of this one), so that no
  step of anyone makes a trace of theirs partial again, and that an invocation has a
  record for each condition before its present one.
- `StartsAreClean` and `ResultsAreOfTheRun`: `Spec => []CleanStart` and
  `Spec => []ResultIsOfTheRun`, from `Grading`, which follows the clone of each process from
  place to place, through whatever the left-over processes of any run write in between
  (`StraggleKeepsClones`).
- `ReportImplementsExperiment`: `ReportSpec => Spec`, so all of these hold with reports.
- `ChartsLeaveOutNothing`: `ReportSpec => []ChartsCoverTable`, the part of `ReportSound`
  that depends on what is written between the two readings: records are only added
  (`RecordsGrow`).
- `ExperimentIsTyped`: `Spec => []TypeOK`.
- `FilesAreKept`: `Spec => [][FilesKept]_vars`: whole traces and records stay, also with
  processes side by side.
- `InvocationsAreNotMixed` and `ArtifactsAreKept`: `OneInvocation` always, and
  `ArtifactsKept` of each step, of a specification in which at every moment at most one
  process is between its start and its end (`OneAtATime`). `mixed_artifacts` shows that
  without it the first is false. `OneProcessMixesNothing` is the case the runs have: with
  one process the hypothesis holds. `Owned` adds to `OneInvocation` that the configuration
  on disk is of the process that works, and `Fresh` that what it is about to write is not
  there yet.
- `MatrixIsCompleted`: `MatrixComplete` always, again of processes that take turns. Two
  invariants stand behind it: `Labelled`, that a record carries the task, trial, budget,
  policy and place of its position and that no two are of one position of one invocation;
  and `Baselines`, that the tasks begun are exactly those with a baseline, so that an
  invocation that finishes had no two tasks of one id (`copytree` would have raised). The
  rest is about the matrix: a position and its four places determine each other
  (`PlaceDecoded`, `PlaceEncoded`), every trial has every policy once in whatever order
  (`EachPolicyOnce`), so a row has one record for each trial (`RowComplete`); and when the
  trials are whole turns, the record of a policy in one place answers to one in any other
  place, in another trial (`HeldAsOften`). It needs budgets of distinct names: the
  configuration rejects policies that are listed twice and not budgets
  (`src/contextlab/benchmarking/config.py:39-44`), and the rows of two budgets of one name
  are one.
- `ReportsAreSound`: `ReportSpec => []ReportSound`. A report lists the directory first and
  reads later; `Reading` says that what was listed are traces, that the table is of
  records and that the set of records is finite, without which counting its rows by
  configuration would say nothing.

Values of folds. The metrics, the analyses, the reductions, the selection of a recovery
and the prompt sizes are folds over sequences, and the provers instantiate no induction
theorem that takes a predicate. `FoldTheorems` states induction of a set instead: a set of
indices that holds 0 and, with each k, k + 1 holds all of them (`Induction`,
`PrefixInduction`); so it can be proved once and used with any set a proof defines.
`FoldExists` and `LeftFoldExists` construct the recursive function behind
`MapThenFoldSet`, whose `CHOOSE` is then known to have a witness, and `LeftFoldSteps`
turns a left fold into the sequence of its intermediate values, along which a proof can go
one entry at a time. `SumInAnyOrder` says that a sum does not depend on the order in which
`CHOOSE` takes the elements. `ToolIndices` of `BoundedAgent` is a fold for the same reason:
the sorting operator of the `TLC` module has no definition a prover could use.

Only model-checked: liveness (`Terminates`, `InvocationEnds`, `CallsEnd`), which is out of
the provers' reach with the `ENABLED` of its fairness.

## What is left out

Latencies, token volumes, texts, seeds and hardware fields: no control depends on them
beyond what the models keep. `token_threshold`, which `create_policy` never sets. Empty
lists of tasks, budgets or policies. Redaction of traces. Percentiles, success rates and
the drawing of charts: arithmetic on real numbers. BM25 scores, which are real numbers too.
The JUnit arithmetic of the evaluation and the chunk arithmetic of the indexer, local
computations with nothing around them that can interfere. `resolve`, but for its two
outcomes. `aclose`, which nothing calls. The inspection commands of the command line,
which change no state.

Assumed of what is outside: `mkdtemp` never gives a name again, a process left over by a
command writes only below the directory it was started in (were it to leave the clone, it
could write anywhere), and a server reports usage after the content it counts.

Three hazards of the list have no property, because no text of the repository promises
anything that could be violated: how often compaction repeats, the age of a recovered
chunk, and a patch that does not show the solution.
Connections that are never closed are not in the state of any model.

## What could come next

1. An abstract view that all four policies implement.
2. The chunks of the repository index: that every line of a file is in one.
