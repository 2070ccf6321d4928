---------------------------- MODULE MCAgentLoop ----------------------------
(* A run of at most three iterations: enough for a tool call, a malformed  *)
(* answer and an ending to meet in every order, with each limit reachable. *)
EXTENDS WorkspaceAgent, AgentReport

CONSTANTS f1, none

MCPaths == {f1}
MCTools == {"read_file", "write_file", "run_command", "retrieve"}
============================================================================
