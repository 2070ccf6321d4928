----------------------------- MODULE AgentReport -----------------------------
(***************************************************************************)
(* The metrics a report rebuilds from the trace of a run, which it joins   *)
(* to the result that holds the counters the run itself kept.              *)
(***************************************************************************)
EXTENDS AgentLoop, TraceMetrics

(* The metrics rebuilt from the trace alone against the result's own       *)
(* counters.  The result has one request counter, for the agent and the    *)
(* compactor together; the metric counts the agent's, and falls short of   *)
(* it by exactly the compactions the trace marks as auxiliary inference.   *)
(* Tool calls agree, each answer gives one prompt size, a run that failed  *)
(* is one failure, and a timeout only when the clock ended it.             *)
MetricsAgreeWithRun ==
  LET m == MetricsFromEvents(events)
      failures == m.context_window_failures + m.execution_failures
  IN  /\ m.inference_requests + AuxiliaryCount(events) = totals.requests
      /\ m.repository_tool_calls = toolCalls
      /\ Cardinality(m.prompt_growth_by_step) = m.inference_requests
      /\ failures = IF failure = "none" THEN 0 ELSE 1
      /\ m.timeouts = IF failure = "wall_clock" THEN 1 ELSE 0
=============================================================================
