--------------------------- MODULE MCBoundedAgent ---------------------------
(* Three iterations: at the third, two results share a total that one      *)
(* reduced result can use up.  Sizes are chosen so that a result fits, is  *)
(* cut, is made longer by its marker, or is omitted.                       *)
EXTENDS BoundedAgent

CONSTANTS f1, none

MCPaths == {f1}
MCTools == {"read_file", "search", "run_command"}
MCQueries == {"Word", "word"}
MCCasefold == [query \in MCQueries |-> "word"]

(* Only tool results differ in size: they are what is bounded.             *)
MCSizes == \A i \in DOMAIN history : history[i].role # "tool" => history[i].tokens = 1
============================================================================
