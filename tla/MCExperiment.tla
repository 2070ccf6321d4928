---------------------------- MODULE MCExperiment ----------------------------
(* Two trials of two policies, so that the rotation makes a whole turn;    *)
(* two tasks, and a list of manifests that repeats a task id.              *)
EXTENDS ExperimentReport

MCTasks == <<"bug", "feature">>
MCRepeatedTasks == <<"bug", "feature", "bug">>
MCTaskToolCalls == [bug |-> 2, feature |-> 3]
MCBudgets == <<"short">>
MCTwoBudgets == <<"short", "medium">>
MCPolicies == <<"full-history", "retrieval">>
MCOnePolicy == <<"full-history">>
============================================================================
