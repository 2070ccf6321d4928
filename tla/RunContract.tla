---------------------------- MODULE RunContract ----------------------------
(***************************************************************************)
(* What one call of CodingAgent.run promises the experiment around it,     *)
(* whatever the context policy, the model and the tools do: it spends at   *)
(* most its limits, never acts more often than the model answered, and     *)
(* ends once, with a verdict its own counters justify.  AgentLoop is shown *)
(* to implement this module.                                               *)
(***************************************************************************)
EXTENDS Naturals

CONSTANTS MaxSteps,          \* agent.limits.max_steps
          MaxModelRequests,  \* agent.limits.max_model_requests
          MaxToolCalls       \* agent.limits.max_tool_calls

VARIABLES outcome,   \* "running", "completed", a failure reason, or "raised"
          requests,  \* primary model requests issued
          calls      \* tool calls started

vars == <<outcome, requests, calls>>

Reasons == {"context_window", "wall_clock", "model_requests", "tool_calls",
            "generated_tokens", "steps"}
Outcomes == {"running", "completed", "raised"} \cup Reasons

(* The counters that justify each verdict. *)
Justified(verdict) ==
  CASE verdict = "completed"        -> calls < requests
    [] verdict = "generated_tokens" -> calls < requests
    [] verdict = "model_requests"   -> requests = MaxModelRequests
    [] verdict = "tool_calls"       -> calls = MaxToolCalls /\ calls < requests
    [] verdict = "steps"            -> requests = MaxSteps
    [] OTHER                        -> TRUE

Init == outcome = "running" /\ requests = 0 /\ calls = 0

Request ==
  /\ outcome = "running"
  /\ requests < MaxSteps /\ requests < MaxModelRequests
  /\ requests' = requests + 1
  /\ UNCHANGED <<outcome, calls>>

Call ==
  /\ outcome = "running"
  /\ calls < requests /\ calls < MaxToolCalls
  /\ calls' = calls + 1
  /\ UNCHANGED <<outcome, requests>>

End ==
  /\ outcome = "running"
  /\ \E verdict \in Outcomes \ {"running"} :
       Justified(verdict) /\ outcome' = verdict
  /\ UNCHANGED <<requests, calls>>

Next == Request \/ Call \/ End

Spec == Init /\ [][Next]_vars
============================================================================
