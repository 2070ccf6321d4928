------------------------- MODULE MCCompactionAgent -------------------------
(* Four iterations with a recent window of two messages: compaction can    *)
(* happen at the third and again at the fourth.                            *)
EXTENDS CompactionAgent, TLC

CONSTANTS f1, f2, none

MCPaths == {f1, f2}
MCSymmetry == Permutations(MCPaths)
============================================================================
