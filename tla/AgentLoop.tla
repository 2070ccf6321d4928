----------------------------- MODULE AgentLoop -----------------------------
(***************************************************************************)
(* CodingAgent.run with its LimitTracker, InferenceTotals and AgentState:  *)
(* prepare a context, ask the model, execute at most one tool, repeat.     *)
(* The context policy is abstracted to what the loop sees of it: whether   *)
(* it compacted, whether it retrieved, whether the prompt fits.  One       *)
(* action per stretch of code between two awaits, so that every place an   *)
(* exception can leave the loop is a state of its own.                     *)
(***************************************************************************)
EXTENDS Integers, Sequences, FiniteSets

CONSTANTS
  Policies,            \* the policies a run may be configured with
  MaxSteps,            \* ExecutionLimits.max_steps
  MaxModelRequests,    \* ExecutionLimits.max_model_requests
  MaxToolCalls,        \* ExecutionLimits.max_tool_calls
  MaxGeneratedTokens,  \* ExecutionLimits.max_generated_tokens
  ResponseTokens,      \* completion-token counts a server may report
  ContentTokens,       \* sizes a message's content may have
  Tools,               \* the tools the model uses
  Paths,               \* workspace files the model names
  NoPath               \* a tool result without metadata["path"]

PolicyNames == {"full-history", "bounded-tool-output", "retrieval", "compaction"}
ToolNames == {"list_files", "read_file", "search", "write_file", "run_command",
              "retrieve"}

ASSUME LimitsAssumption ==
  /\ MaxSteps \in Nat \ {0}
  /\ MaxModelRequests \in Nat \ {0}
  /\ MaxToolCalls \in Nat \ {0}
  /\ MaxGeneratedTokens \in Nat \ {0}

ASSUME DataAssumption ==
  /\ Policies \subseteq PolicyNames
  /\ ResponseTokens \subseteq Nat
  /\ ContentTokens \subseteq Nat
  /\ Tools \subseteq ToolNames
  /\ NoPath \notin Paths

VARIABLES
  policy,         \* config.policy.name
  pc,             \* where run() is
  step,           \* state.step
  history,        \* state.canonical_messages
  events,         \* state.events
  tracker,        \* the LimitTracker's counters
  totals,         \* InferenceTotals: the requests recorded, agent and auxiliary
                  \* together, and how many of them each token sum is of
  answered,       \* responses the inference client returned, by request kind
  toolCalls,      \* self.tool_calls
  filesModified,  \* state.files_modified
  completed,      \* state.completed
  failure,        \* state.failure, "none" for None
  expired         \* monotonic() - started > max_wall_seconds

work == <<tracker, totals, answered, toolCalls, filesModified>>
verdict == <<completed, failure>>
vars == <<policy, pc, step, history, events, work, verdict, expired>>

Terminal == {"done", "raised"}
Places == {"start", "prepare", "request", "awaiting", "tool", "execute",
           "exhausted"} \cup Terminal
Kinds == {"compaction", "retrieval", "context_prepared", "inference_response",
          "tool_result", "status", "context_failure"}
Roles == {"system", "user", "assistant", "tool"}
LimitReasons == {"wall_clock", "model_requests", "tool_calls", "generated_tokens",
                 "steps"}
Failures == {"none", "context_window"} \cup LimitReasons
Notes == {"none", "auxiliary", "deterministic", "automatic", "explicit", "completed"}
           \cup LimitReasons \cup ToolNames

Messages == [role : Roles, tokens : ContentTokens]
AgentEvents == [kind : Kinds, step : 0..(MaxSteps - 1), note : Notes,
                path : Paths \cup {NoPath}]
LimitTrackers == [model_requests : Nat, tool_calls : Nat, generated_tokens : Nat]
InferenceTotals == [requests : Nat, agent_tokens : Nat, auxiliary_tokens : Nat]
ByKind == [agent : Nat, auxiliary : Nat]  \* of answered, no variable of the program
Event(kind, note, path) ==
  [kind |-> kind, step |-> step, note |-> note, path |-> path]
Emit(kind, note, path) == events' = Append(events, Event(kind, note, path))
Say(role, tokens) == [role |-> role, tokens |-> tokens]

----------------------------------------------------------------------------
(* Leaving the loop.  Every handler of run() sets the failure and emits    *)
(* the one event that tells the reader of the trace how the run ended.     *)

FailLimitForgets(reason) ==  \* mutant: the verdict is traced, not stored
  UNCHANGED failure /\ Emit("status", reason, NoPath) /\ pc' = "done"
FailLimitWaits(reason) ==  \* mutant: wait for the limit instead of raising
  UNCHANGED <<failure, events, pc>>
FailLimit(reason) ==
  /\ failure' = reason
  /\ Emit("status", reason, NoPath)
  /\ pc' = "done"

AdvanceTooFar ==  \* mutant: one iteration too many
  IF step < MaxSteps
  THEN pc' = "prepare" /\ step' = step + 1
  ELSE pc' = "exhausted" /\ UNCHANGED step
Advance ==
  IF step + 1 < MaxSteps
  THEN pc' = "prepare" /\ step' = step + 1
  ELSE pc' = "exhausted" /\ UNCHANGED step

----------------------------------------------------------------------------
Init ==
  /\ policy \in Policies
  /\ pc = "start" /\ step = 0
  /\ history = <<>> /\ events = <<>>
  /\ tracker = [model_requests |-> 0, tool_calls |-> 0, generated_tokens |-> 0]
  /\ totals = [requests |-> 0, agent_tokens |-> 0, auxiliary_tokens |-> 0]
  /\ answered = [agent |-> 0, auxiliary |-> 0]
  /\ toolCalls = 0 /\ filesModified = {}
  /\ completed = FALSE /\ failure = "none" /\ expired = FALSE

Start ==
  /\ pc = "start"
  /\ \E s, t \in ContentTokens : history' = <<Say("system", s), Say("user", t)>>
  /\ pc' = "prepare"
  /\ UNCHANGED <<policy, step, events, work, verdict, expired>>

(* A compaction policy may summarise first, with or without the model.     *)
Compactions ==
  IF policy = "compaction" THEN {"none", "deterministic", "auxiliary"} ELSE {"none"}
AuxiliaryCalls(compaction) == IF compaction = "auxiliary" THEN 1 ELSE 0

RecordAuxiliaryNever(compaction) ==  \* mutant: traced but not in the totals
  UNCHANGED totals
RecordAuxiliary(compaction) ==
  totals' = [totals EXCEPT !.requests = @ + AuxiliaryCalls(compaction),
                           !.auxiliary_tokens = @ + AuxiliaryCalls(compaction)]

PreparedTraceLate(compaction) ==  \* mutant: records drained after the preparation
  LET prepared == Append(events, Event("context_prepared", "none", NoPath))
  IN  IF compaction = "none" THEN prepared
      ELSE Append(prepared, Event("compaction", compaction, NoPath))
PreparedTrace(compaction) ==
  LET compacted == IF compaction = "none" THEN events
                   ELSE Append(events, Event("compaction", compaction, NoPath))
      retrieved == IF policy # "retrieval" THEN compacted
                   ELSE Append(compacted, Event("retrieval", "automatic", NoPath))
  IN  Append(retrieved, Event("context_prepared", "none", NoPath))

(* The policy's view fits: drained compaction records reach the totals and *)
(* the trace, then automatic retrieval, then the prepared context.         *)
PrepareContext(compaction) ==
  /\ pc = "prepare"
  /\ RecordAuxiliary(compaction)
  /\ answered' = [answered EXCEPT !.auxiliary = @ + AuxiliaryCalls(compaction)]
  /\ events' = PreparedTrace(compaction)
  /\ pc' = "request"
  /\ UNCHANGED <<policy, step, history, tracker, toolCalls, filesModified,
                 verdict, expired>>

(* The view does not fit: ContextOverflow leaves before the drain, so what *)
(* a compactor asked of the server meanwhile is recorded nowhere.          *)
ContextOverflow(compaction) ==
  /\ pc = "prepare"
  /\ answered' = [answered EXCEPT !.auxiliary = @ + AuxiliaryCalls(compaction)]
  /\ failure' = "context_window"
  /\ Emit("context_failure", "none", NoPath)
  /\ pc' = "done"
  /\ UNCHANGED <<policy, step, history, tracker, totals, toolCalls,
                 filesModified, completed, expired>>

TimeIsUp == expired

BeforeModel ==
  /\ pc = "request"
  /\ \/ TimeIsUp /\ FailLimit("wall_clock") /\ UNCHANGED tracker
     \/ /\ ~TimeIsUp /\ tracker.model_requests >= MaxModelRequests
        /\ FailLimit("model_requests") /\ UNCHANGED tracker
     \/ /\ ~TimeIsUp /\ tracker.model_requests < MaxModelRequests
        /\ tracker' = [tracker EXCEPT !.model_requests = @ + 1]
        /\ pc' = "awaiting"
        /\ UNCHANGED <<events, failure>>
  /\ UNCHANGED <<policy, step, history, totals, answered, toolCalls,
                 filesModified, completed, expired>>

(* inference.complete returned: after_model counts the tokens, and raises  *)
(* before the response is recorded or traced when they are too many.       *)
Answer(tokens) ==
  /\ pc = "awaiting"
  /\ answered' = [answered EXCEPT !.agent = @ + 1]
  /\ tracker' = [tracker EXCEPT !.generated_tokens = @ + tokens]

AfterModelRaises ==
  /\ \E tokens \in ResponseTokens :
       /\ Answer(tokens)
       /\ tracker.generated_tokens + tokens > MaxGeneratedTokens
  /\ FailLimit("generated_tokens")
  /\ UNCHANGED <<policy, step, history, totals, toolCalls, filesModified,
                 completed, expired>>

Record ==
  /\ \E tokens \in ResponseTokens :
       /\ Answer(tokens)
       /\ tracker.generated_tokens + tokens <= MaxGeneratedTokens
  /\ totals' = [totals EXCEPT !.requests = @ + 1, !.agent_tokens = @ + 1]
  /\ UNCHANGED <<policy, toolCalls, filesModified, expired>>

CorrectionUnasked(a, u) ==  \* mutant: the model is not told what was wrong
  Append(history, Say("assistant", a))
CorrectionInPlace(a, u) ==  \* mutant: the question takes the malformed answer's place
  [history EXCEPT ![Len(history)] = Say("user", u)]
Correction(a, u) == Append(Append(history, Say("assistant", a)), Say("user", u))

MalformedDecision ==
  /\ Record
  /\ Emit("inference_response", "none", NoPath)
  /\ \E a, u \in ContentTokens : history' = Correction(a, u)
  /\ Advance
  /\ UNCHANGED verdict

Finish ==
  /\ Record
  /\ events' = Append(Append(events, Event("inference_response", "none", NoPath)),
                      Event("status", "completed", NoPath))
  /\ \E a \in ContentTokens : history' = Append(history, Say("assistant", a))
  /\ completed' = TRUE
  /\ pc' = "done"
  /\ UNCHANGED <<step, failure>>

ChooseTool ==
  /\ Record
  /\ Emit("inference_response", "none", NoPath)
  /\ \E a \in ContentTokens : history' = Append(history, Say("assistant", a))
  /\ pc' = "tool"
  /\ UNCHANGED <<step, verdict>>

MayCallTooOften == tracker.tool_calls <= MaxToolCalls  \* mutant: off by one
MayCall == tracker.tool_calls < MaxToolCalls

BeforeToolUntimed ==  \* mutant: the clock is not looked at before a tool
  /\ pc = "tool"
  /\ \/ ~MayCall /\ FailLimit("tool_calls") /\ UNCHANGED tracker
     \/ /\ MayCall
        /\ tracker' = [tracker EXCEPT !.tool_calls = @ + 1]
        /\ pc' = "execute"
        /\ UNCHANGED <<events, failure>>
  /\ UNCHANGED <<policy, step, history, totals, answered, toolCalls,
                 filesModified, completed, expired>>
BeforeTool ==
  /\ pc = "tool"
  /\ \/ TimeIsUp /\ FailLimit("wall_clock") /\ UNCHANGED tracker
     \/ /\ ~TimeIsUp /\ ~MayCall
        /\ FailLimit("tool_calls") /\ UNCHANGED tracker
     \/ /\ ~TimeIsUp /\ MayCall
        /\ tracker' = [tracker EXCEPT !.tool_calls = @ + 1]
        /\ pc' = "execute"
        /\ UNCHANGED <<events, failure>>
  /\ UNCHANGED <<policy, step, history, totals, answered, toolCalls,
                 filesModified, completed, expired>>

(* Only a read or a write that succeeded names its file in the metadata.   *)
PathsNamed(tool) ==
  IF tool \in {"read_file", "write_file"} THEN Paths \cup {NoPath} ELSE {NoPath}

ModifiedByAny(tool, path) ==  \* mutant: a file read counts as modified
  filesModified \cup ({path} \ {NoPath})
Modified(tool, path) ==
  IF tool = "write_file" /\ path # NoPath THEN filesModified \cup {path}
  ELSE filesModified

(* _execute returned a result.  A retrieve with a query has already traced *)
(* its recovery; a retrieve without one is answered with an error.         *)
ExecuteTool(tool, path) ==
  /\ pc = "execute"
  /\ \E searched \in (IF tool = "retrieve" THEN BOOLEAN ELSE {FALSE}) :
       LET recovered == IF ~searched THEN events
                        ELSE Append(events, Event("retrieval", "explicit", NoPath))
       IN  events' = Append(recovered, Event("tool_result", tool, path))
  /\ toolCalls' = toolCalls + 1
  /\ \E t \in ContentTokens : history' = Append(history, Say("tool", t))
  /\ filesModified' = Modified(tool, path)
  /\ Advance
  /\ UNCHANGED <<policy, tracker, totals, answered, verdict, expired>>

StepsExhausted ==
  /\ pc = "exhausted"
  /\ FailLimit("steps")
  /\ UNCHANGED <<policy, step, history, work, completed, expired>>

(* An exception run() does not catch: InferenceError out of a request or   *)
(* of a compaction, an error a tool handler does not turn into a result,   *)
(* or text on which parse_decision itself raises (RecursionError), when    *)
(* the answer is recorded, traced and in the conversation as at "tool".    *)
Raise ==
  /\ \/ pc = "awaiting"
     \/ pc = "prepare" /\ policy = "compaction"
     \/ pc = "tool"
     \/ pc = "execute"
  /\ pc' = "raised"
  /\ UNCHANGED <<policy, step, history, events, work, verdict, expired>>

TimeExpires ==
  /\ pc \notin Terminal \cup {"start"} /\ ~expired
  /\ expired' = TRUE
  /\ UNCHANGED <<policy, pc, step, history, events, work, verdict>>

Loop ==
  \/ Start
  \/ \E compaction \in Compactions : PrepareContext(compaction)
  \/ \E compaction \in Compactions : ContextOverflow(compaction)
  \/ BeforeModel
  \/ AfterModelRaises \/ MalformedDecision \/ Finish \/ ChooseTool
  \/ BeforeTool
  \/ \E tool \in Tools : \E path \in PathsNamed(tool) : ExecuteTool(tool, path)
  \/ StepsExhausted
  \/ Raise

Terminated == pc \in Terminal /\ UNCHANGED vars

Next == Loop \/ TimeExpires \/ Terminated

Spec == Init /\ [][Next]_vars

(* The model, the compactor and every command have a timeout, so each      *)
(* await returns or raises: the loop never stays at one for ever.          *)
FairSpec == Spec /\ WF_vars(Loop)

----------------------------------------------------------------------------
(* What the trace and the conversation say, as counts.                     *)

Count(trace, kind) == Cardinality({i \in DOMAIN trace : trace[i].kind = kind})
AuxiliaryCount(trace) ==
  Cardinality({i \in DOMAIN trace : trace[i].note = "auxiliary"})
RoleCount(conversation, role) ==
  Cardinality({i \in DOMAIN conversation : conversation[i].role = role})

(* The writes a trace says succeeded.                                      *)
WritesIn(trace) ==
  {i \in DOMAIN trace : trace[i].note = "write_file" /\ trace[i].path # NoPath}

(* Where in an iteration an event is emitted.                              *)
Stage(event) ==
  CASE event.kind = "compaction"         -> 0
    [] event.note = "automatic"          -> 1
    [] event.kind = "context_prepared"   -> 2
    [] event.kind = "inference_response" -> 3
    [] event.note = "explicit"           -> 4
    [] event.kind = "tool_result"        -> 5
    [] OTHER                             -> 6

----------------------------------------------------------------------------
(* Type invariant.                                                         *)
TypeOK ==
  /\ policy \in Policies
  /\ pc \in Places
  /\ step \in 0..(MaxSteps - 1)
  /\ history \in Seq(Messages)
  /\ events \in Seq(AgentEvents)
  /\ tracker \in LimitTrackers
  /\ totals \in InferenceTotals
  /\ answered \in ByKind
  /\ toolCalls \in Nat
  /\ filesModified \subseteq Paths
  /\ completed \in BOOLEAN
  /\ failure \in Failures
  /\ expired \in BOOLEAN

(* Every response the server produced is in the totals and in the trace,   *)
(* and the two agree, except the one response whose tokens broke the       *)
(* generation limit and the one compaction whose view still overflowed:    *)
(* those two endings are the only ones that lose work, one response each.  *)
WorkloadAccounted ==
  /\ totals.agent_tokens = Count(events, "inference_response")
  /\ totals.auxiliary_tokens = AuxiliaryCount(events)
  /\ totals.requests = totals.agent_tokens + totals.auxiliary_tokens
  /\ answered.agent - totals.agent_tokens =
       IF failure = "generated_tokens" THEN 1 ELSE 0
  /\ answered.auxiliary - totals.auxiliary_tokens
       \in IF failure = "context_window" THEN {0, 1} ELSE {0}

(* A run that returns has exactly one verdict: completed or one failure,   *)
(* never both, and the last event of the trace, and no other, states it.   *)
OneVerdict ==
  /\ pc = "done" <=> completed \/ failure # "none"
  /\ ~(completed /\ failure # "none")
  /\ \A i \in DOMAIN events :
       events[i].kind \in {"status", "context_failure"} =>
         i = Len(events) /\ pc = "done"
  /\ pc = "done" =>
       /\ events # <<>>
       /\ LET last == events[Len(events)] IN
            IF failure = "context_window" THEN last.kind = "context_failure"
            ELSE /\ last.kind = "status"
                 /\ last.note = IF completed THEN "completed" ELSE failure

(* The conversation the model sees and the trace the analysis sees tell    *)
(* the same story: one assistant message per response event, one tool      *)
(* message per tool event and per counted call, and after the two          *)
(* instructions a question is always followed by its one answer.           *)
ConversationMatchesTrace ==
  /\ RoleCount(history, "assistant") = Count(events, "inference_response")
  /\ RoleCount(history, "tool") = Count(events, "tool_result")
  /\ RoleCount(history, "tool") = toolCalls
  /\ \A i \in DOMAIN history :
       i > 2 => (history[i].role = "assistant" <=> i % 2 = 1)

(* The trace can be replayed in order: steps never go back, and inside a   *)
(* step compaction, retrieval, preparation, response, recovery, result and *)
(* verdict appear at most once and in that order; a response answers the   *)
(* context prepared just before it.                                        *)
TraceOrdered ==
  \A i \in 1..(Len(events) - 1) :
    /\ events[i].step <= events[i + 1].step
    /\ events[i].step = events[i + 1].step => Stage(events[i]) < Stage(events[i + 1])
    /\ events[i + 1].kind = "inference_response" =>
         events[i].kind = "context_prepared" /\ events[i].step = events[i + 1].step

(* files_modified is exactly what the write results of the trace name.     *)
FilesModifiedTraced ==
  filesModified = {events[i].path : i \in WritesIn(events)}

(* canonical_messages and events are append-only: no step rewrites or      *)
(* drops what an earlier step, or an index kept by a policy, refers to.    *)
AppendOnly ==
  [][ /\ Len(history') >= Len(history) /\ SubSeq(history', 1, Len(history)) = history
      /\ Len(events') >= Len(events) /\ SubSeq(events', 1, Len(events)) = events
    ]_vars

(* Every run ends: it returns a verdict or raises.                         *)
Terminates == <>(pc \in Terminal)

(* How far an iteration has come, in its counters: one request per step    *)
(* started, at most one tool call per request, a verdict only at the end.  *)
Progress ==
  LET requests == tracker.model_requests
      calls == tracker.tool_calls
  IN  /\ pc = "start" => step = 0
      /\ pc \in {"start", "prepare", "request"} => requests = step /\ calls <= step
      /\ pc \in {"awaiting", "tool"} => requests = step + 1 /\ calls <= step
      /\ pc = "execute" => requests = step + 1 /\ calls <= step + 1
      /\ pc = "exhausted" => requests = MaxSteps /\ calls <= MaxSteps
      /\ requests <= MaxModelRequests /\ calls <= MaxToolCalls
      /\ pc = "done" <=> completed \/ failure # "none"
      /\ ~(completed /\ failure # "none")

(* The loop keeps the contract its caller relies on.                       *)
Outcome == IF pc = "raised" THEN "raised"
           ELSE IF completed THEN "completed"
           ELSE IF failure # "none" THEN failure ELSE "running"
Contract == INSTANCE RunContract WITH
  outcome  <- Outcome,
  requests <- tracker.model_requests,
  calls    <- tracker.tool_calls
KeepsContract == Contract!Spec
=============================================================================
