---------------------------- MODULE TraceMetrics ----------------------------
(***************************************************************************)
(* metrics_from_events: the counters a report is built from, folded over   *)
(* the events of one trace.  Token volumes and latencies are left out;     *)
(* the counts, the failures and the steps a prompt was measured at stay.   *)
(***************************************************************************)
EXTENDS Integers, Sequences, SequencesExt

RunMetrics ==
  [inference_requests |-> 0, repository_tool_calls |-> 0,
   context_window_failures |-> 0, execution_failures |-> 0, timeouts |-> 0,
   prompt_growth_by_step |-> {}]

(* One event's contribution.  A status event carries "completed" or the    *)
(* reason of a failure in its note.                                        *)
TallyEveryStatus(m, event) ==  \* mutant: any status counts as a failure
  CASE event.kind = "inference_response" ->
         [m EXCEPT !.inference_requests = @ + 1,
                   !.prompt_growth_by_step = @ \cup {event.step}]
    [] event.kind = "tool_result" -> [m EXCEPT !.repository_tool_calls = @ + 1]
    [] event.kind = "status" -> [m EXCEPT !.execution_failures = @ + 1]
    [] OTHER -> m
Tally(m, event) ==
  CASE event.kind = "inference_response" ->
         [m EXCEPT !.inference_requests = @ + 1,
                   !.prompt_growth_by_step = @ \cup {event.step}]
    [] event.kind = "context_failure" -> [m EXCEPT !.context_window_failures = @ + 1]
    [] event.kind = "tool_result" -> [m EXCEPT !.repository_tool_calls = @ + 1]
    [] event.kind = "status" /\ event.note # "completed" ->
         [m EXCEPT !.execution_failures = @ + 1,
                   !.timeouts = IF event.note = "wall_clock" THEN @ + 1 ELSE @]
    [] OTHER -> m

MetricsFromEvents(events) == FoldLeft(Tally, RunMetrics, events)
=============================================================================
