-------------------------- MODULE InferencePromise --------------------------
(***************************************************************************)
(* What one call of an inference client promises the agent and the         *)
(* compactor that await it: it asks the server a bounded number of times,  *)
(* gives up with InferenceError only when it has used them all ("an        *)
(* inference request failed after bounded retries"), and asks nothing more *)
(* once it has answered.  InferenceClient is shown to implement this.      *)
(***************************************************************************)
EXTENDS Naturals

CONSTANT Attempts  \* requests a call that retries may make

VARIABLES
  phase,    \* "idle", "asking", "answered", "failed" or "raised"
  asked,    \* requests this call has made
  allowed   \* requests it may make

vars == <<phase, asked, allowed>>

Init == phase = "idle" /\ asked = 0 /\ allowed = 1

Begin ==
  /\ phase # "asking"
  /\ phase' = "asking" /\ asked' = 0 /\ allowed' \in {1, Attempts}

Ask ==
  /\ phase = "asking" /\ asked < allowed
  /\ asked' = asked + 1
  /\ UNCHANGED <<phase, allowed>>

Answer ==
  /\ phase = "asking" /\ asked > 0
  /\ phase' \in {"answered", "raised"}
  /\ UNCHANGED <<asked, allowed>>

GiveUp ==
  /\ phase = "asking" /\ asked = allowed
  /\ phase' = "failed"
  /\ UNCHANGED <<asked, allowed>>

Next == Begin \/ Ask \/ Answer \/ GiveUp

Spec == Init /\ [][Next]_vars
============================================================================
