-------------------------- MODULE MCRetrievalAgent --------------------------
(* Three iterations with a window of two messages: at the third the first  *)
(* result has left the window and is only in the store.  One chunk of the  *)
(* repository fits a recovery, one never does.                             *)
EXTENDS RetrievalAgent

CONSTANTS c1, c2, none

MCCallIds == {c1, c2}
MCSymmetry == Permutations(MCCallIds)
MCRepository == {Document("repository", "short", 2), Document("repository", "long", 6)}

(* Only tool results differ in size: they are what the store is made of.   *)
MCSizes == \A i \in DOMAIN history : history[i].role # "tool" => history[i].tokens = 3
============================================================================
