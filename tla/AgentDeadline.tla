---------------------------- MODULE AgentDeadline ----------------------------
(***************************************************************************)
(* What a run still does after its wall-clock deadline.  LimitTracker      *)
(* looks at the clock before a request and before a tool only: whatever is *)
(* in flight then is finished, and an iteration that follows may compact   *)
(* before it comes to its request.                                         *)
(***************************************************************************)
EXTENDS AgentLoop

VARIABLE onTime  \* a history variable: the work done until the deadline

Done == [agent |-> answered.agent, auxiliary |-> answered.auxiliary,
         results |-> toolCalls]

(* It follows the work while there is time, and stays as it is afterwards. *)
Watch == onTime' = IF expired' THEN onTime ELSE Done'

DeadlineInit == Init /\ onTime = Done
DeadlineNext == Next /\ Watch
DeadlineSpec == DeadlineInit /\ [][DeadlineNext]_<<vars, onTime>>

LateAnswers == answered.agent - onTime.agent
LateResults == toolCalls - onTime.results
LateCompactions == answered.auxiliary - onTime.auxiliary

(* Past the deadline a run finishes what is in flight, one answer or one   *)
(* tool, and asks the compactor once more at most (prepare_context comes   *)
(* before the clock is looked at); an iteration that began so late ends    *)
(* with the clock, or the window if its view overflows.  Otherwise only    *)
(* the late answer itself completes the run or breaks the generation       *)
(* limit, and neither the request limit nor the tool limit takes the       *)
(* blame: the clock is tested first.                                       *)
LateWorkBounded ==
  expired =>
    /\ LateAnswers + LateResults <= 1 /\ LateCompactions <= 1
    /\ (pc = "done" /\ LateCompactions = 1) => failure \in {"wall_clock", "context_window"}
    /\ (completed \/ failure = "generated_tokens") => LateAnswers = 1
    /\ failure \notin {"model_requests", "tool_calls"}
=============================================================================
