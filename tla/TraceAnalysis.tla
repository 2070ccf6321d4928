---------------------------- MODULE TraceAnalysis ----------------------------
(***************************************************************************)
(* analyze_repeated_access and analyze_context_behavior: what the analysis *)
(* of one trace concludes about a context policy, folded over the events   *)
(* in the order they were written.  An event is seen with the payload the  *)
(* two read: the audit of a preparation, the signature of a tool result,   *)
(* the query of a retrieval.                                               *)
(***************************************************************************)
EXTENDS Integers, Sequences, SequencesExt

(* What a result accessed: a file read by its path, a search by its query  *)
(* without regard to case; <<>> when the call failed or is of another tool.*)
Signature(tool, key, casefold) ==
  CASE tool = "read_file" -> <<"file_read", key>>
    [] tool = "search"    -> <<"search", casefold[key]>>
    [] OTHER              -> <<>>

(* Audits of preparations that removed something, and accesses, so far.    *)
RepeatedAccess == [seen |-> <<>>, removedAt |-> {}, evidence |-> <<>>]

SupportedBeforeRepeat(found, first, repeated) ==  \* mutant: range(first + 1, step)
  \E s \in found.removedAt : first < s /\ s < repeated
Supported(found, first, repeated) ==
  \E s \in found.removedAt : first < s /\ s <= repeated

Prepared(found, entry) ==
  [found EXCEPT !.removedAt = IF entry.audit.removed = {} THEN @ \ {entry.step}
                              ELSE @ \cup {entry.step}]
Accessed(found, entry) ==
  IF entry.signature \notin DOMAIN found.seen
  THEN [found EXCEPT !.seen = [s \in DOMAIN @ \cup {entry.signature} |->
                                 IF s = entry.signature THEN entry.step ELSE @[s]]]
  ELSE LET first == found.seen[entry.signature]
       IN  [found EXCEPT !.evidence = Append(@,
              [signature |-> entry.signature, first |-> first, repeated |-> entry.step,
               supported |-> Supported(found, first, entry.step)])]

AnalyzeRepeatedAccess(trace) ==
  FoldLeft(LAMBDA found, entry :
             CASE entry.kind = "context_prepared" -> Prepared(found, entry)
               [] entry.kind = "tool_result" /\ entry.signature # <<>> ->
                    Accessed(found, entry)
               [] OTHER -> found,
           RepeatedAccess, trace)

----------------------------------------------------------------------------
ContextBehavior ==
  [preparations |-> 0, retained |-> 0, removed |-> 0, original_tokens |-> 0,
   retained_tokens |-> 0, discarded_tokens |-> 0, retrieval_queries |-> 0,
   repeated_retrievals |-> 0, compactions |-> 0, queries |-> {}]

SumOver(reductions, tokens(_)) ==
  FoldLeft(LAMBDA n, reduction : n + tokens(reduction), 0, reductions)

Preparation(b, audit) ==
  [b EXCEPT
     !.preparations = @ + 1,
     !.retained = @ + Cardinality(audit.retained),
     !.removed = @ + Cardinality(audit.removed),
     !.original_tokens = @ + SumOver(audit.reductions, LAMBDA r : r.original_tokens),
     !.retained_tokens = @ + SumOver(audit.reductions, LAMBDA r : r.retained_tokens),
     !.discarded_tokens = @ + SumOver(audit.reductions, LAMBDA r : r.discarded_tokens)]
Retrieval(b, query) ==
  [b EXCEPT !.retrieval_queries = @ + 1,
            !.repeated_retrievals = IF query \in b.queries THEN @ + 1 ELSE @,
            !.queries = @ \cup {query}]

AnalyzeContextBehavior(trace) ==
  FoldLeft(LAMBDA b, entry :
             CASE entry.kind = "context_prepared" -> Preparation(b, entry.audit)
               [] entry.kind = "retrieval"        -> Retrieval(b, entry.query)
               [] entry.kind = "compaction"       -> [b EXCEPT !.compactions = @ + 1]
               [] OTHER -> b,
           ContextBehavior, trace)
=============================================================================
