---------------------------- MODULE BoundedAgent ----------------------------
(***************************************************************************)
(* The agent loop run with the two policies that present every message:    *)
(* FullHistoryPolicy unchanged, BoundedToolOutputPolicy with the text of   *)
(* tool results cut to a budget.  Neither keeps state between two          *)
(* preparations.  The policy measures text in bytes and cuts it in         *)
(* characters or lines, so sizes here are in bytes, four to a token.       *)
(***************************************************************************)
EXTENDS AgentLoop, TraceAnalysis

CONSTANTS
  Queries,             \* the queries the model searches for
  NoQuery,             \* a search that failed
  Casefold,            \* str.casefold on Queries
  Grains,              \* tokens of a search's lines, or of a command's error lines
  Widths,              \* bytes in a character
  PerToolTokens,       \* per_tool_tokens
  TotalToolTokens,     \* total_tool_tokens
  PlaceholderBytes,    \* length of "[tool output omitted; call_id=...]"
  UsablePromptTokens   \* budget.usable_prompt_tokens

ASSUME BoundedAssumption ==
  /\ Policies \subseteq {"full-history", "bounded-tool-output"}
  /\ Casefold \in [Queries -> Queries] /\ NoQuery \notin Queries
  /\ Grains \subseteq Nat \ {0} /\ Widths \subseteq 1..4
  /\ PerToolTokens \in Nat \ {0} /\ TotalToolTokens \in Nat \ {0}
  /\ PlaceholderBytes \in Nat /\ UsablePromptTokens \in Nat \ {0}

VARIABLES
  results,  \* the payloads of the trace's tool results
  audits    \* the audits in the payloads of its prepared contexts

allVars == <<vars, results, audits>>

----------------------------------------------------------------------------
(* A text by its size, the width of its characters, and the size of the    *)
(* lines a search returned or of the error lines of a command (0: none).   *)
Texts(tool, tokens) ==
  CASE tool = "search" ->
         [grain : {grain \in Grains : tokens % grain = 0}, width : {1}]
    [] tool = "run_command" ->
         [grain : {0} \cup {grain \in Grains : grain <= tokens}, width : {1}]
    [] OTHER -> [grain : {0}, width : Widths]

(* The policy's own estimate, and the budget's.                            *)
Estimated(bytes) == Max({1, bytes \div 4})
Counted(bytes) == (bytes + 3) \div 4

(* _head_tail: at least 40 characters, 29 of them the marker; the rest of  *)
(* the room is shared, and a short text fills it twice.                    *)
HeadTail(bytes, width, allowance) ==
  LET characters == bytes \div width
      room == Max({40, 4 * allowance}) - 29
      head == room \div 2
  IN  width * (Min({head, characters}) + Min({room - head, characters})) + 29

(* Joined lines, without the newline after the last.                       *)
Joined(tokens) == IF tokens = 0 THEN 0 ELSE 4 * tokens - 1

(* _reduce: whole lines of a search, the error lines of a command when     *)
(* they fit, or head and tail; each with a marker of its own length.       *)
Reduce(result, allowance) ==
  LET lines == Min({result.tokens, allowance + 1}) \div result.grain
  IN  CASE result.tool = "search" ->
             [bytes |-> Joined(lines * result.grain) + 28, method |-> "bounded-search-results"]
        [] /\ result.tool = "run_command" /\ result.grain > 0
           /\ Joined(result.grain) \div 4 <= allowance ->
             [bytes |-> Joined(result.grain) + 35, method |-> "error-focused"]
        [] OTHER ->
             [bytes |-> HeadTail(4 * result.tokens, result.width, allowance),
              method |-> "head-tail"]

Present(result, allowance) ==
  CASE Estimated(4 * result.tokens) <= allowance ->
         [bytes |-> 4 * result.tokens, method |-> "none"]
    [] allowance > 0 /\ Estimated(4 * result.tokens) > allowance ->
         Reduce(result, allowance)
    [] OTHER -> [bytes |-> PlaceholderBytes, method |-> "omitted-global-budget"]

Reduction(result, shown) ==
  LET original == Estimated(4 * result.tokens)
      retained == Estimated(shown.bytes)
  IN  [original_tokens |-> original, retained_tokens |-> retained,
       discarded_tokens |-> Max({0, original - retained}),
       bytes |-> shown.bytes, method |-> shown.method]

(* The tool results in the order of the conversation, each taking from     *)
(* what is left of the total.                                              *)
RemainingOfOriginal(remaining, reduction) ==  \* mutant: what came in is charged
  Max({0, remaining - reduction.original_tokens})
Remaining(remaining, reduction) == Max({0, remaining - reduction.retained_tokens})

ReductionsNewestFirst(tools) ==  \* mutant: the newest result has the first claim
  LET bounded == FoldRight(LAMBDA result, done :
                   LET reduction == Reduction(result,
                         Present(result, Min({PerToolTokens, done.remaining})))
                   IN  [remaining |-> Remaining(done.remaining, reduction),
                        reductions |-> <<reduction>> \o done.reductions],
                 tools, [remaining |-> TotalToolTokens, reductions |-> <<>>])
  IN  bounded.reductions
Reductions(tools) ==
  LET bounded == FoldLeft(LAMBDA done, result :
                   LET reduction == Reduction(result,
                         Present(result, Min({PerToolTokens, done.remaining})))
                   IN  [remaining |-> Remaining(done.remaining, reduction),
                        reductions |-> Append(done.reductions, reduction)],
                 [remaining |-> TotalToolTokens, reductions |-> <<>>], tools)
  IN  bounded.reductions

----------------------------------------------------------------------------
(* The numbers of a set up to the last, each met once, in order.           *)
Ascending(S, last) ==
  FoldLeft(LAMBDA met, i : IF i \in S THEN Append(met, i) ELSE met,
           <<>>, [i \in 1..last |-> i])

(* Where the tool results are in the conversation (from 0, as the code     *)
(* counts), in order.                                                      *)
ToolPlaces == Ascending({i \in DOMAIN history : history[i].role = "tool"}, Len(history))
ToolIndices == [k \in DOMAIN ToolPlaces |-> ToolPlaces[k] - 1]

CutIndicesOfReduced(reductions) ==  \* mutant: an omitted result is in neither list
  {ToolIndices[k] : k \in {j \in DOMAIN reductions :
     reductions[j].method \notin {"none", "omitted-global-budget"}}}
CutIndices(reductions) ==
  {ToolIndices[k] : k \in {j \in DOMAIN reductions : reductions[j].method # "none"}}

(* The audit of a preparation: full history reduces nothing and says so.   *)
Audit ==
  IF policy = "full-history"
  THEN [step |-> step, retained |-> 0..(Len(history) - 1), removed |-> {},
        reductions |-> <<>>]
  ELSE LET reductions == Reductions(results)
           kept == {ToolIndices[k] : k \in {j \in DOMAIN reductions :
                                              reductions[j].method = "none"}}
       IN  [step |-> step,
            retained |-> {i \in 0..(Len(history) - 1) :
                            history[i + 1].role # "tool" \/ i \in kept},
            removed |-> CutIndices(reductions),
            reductions |-> reductions]

(* TokenBudget.count_messages of what is presented.                        *)
EstimateOf(audit) ==
  LET others == FoldLeft(LAMBDA n, message :
                   IF message.role = "tool" /\ policy # "full-history" THEN n
                   ELSE n + 4 + message.tokens, 3, history)
  IN  others + SumOver(audit.reductions, LAMBDA r : 4 + Counted(r.bytes))

Prepare ==
  /\ pc = "prepare"
  /\ IF EstimateOf(Audit) > UsablePromptTokens
     THEN ContextOverflow("none") /\ UNCHANGED audits
     ELSE PrepareContext("none") /\ audits' = Append(audits, Audit)
  /\ UNCHANGED results

(* The tool's result with the payload the loop leaves out.                 *)
ExecuteWithResult ==
  /\ \E tool \in Tools : \E path \in PathsNamed(tool) :
       /\ ExecuteTool(tool, path)
       /\ LET tokens == history'[Len(history')].tokens
              keys == IF tool = "search" THEN Queries \cup {NoQuery} ELSE {path}
          IN  \E text \in Texts(tool, tokens), key \in keys :
                results' = Append(results,
                  [tool |-> tool, key |-> key, tokens |-> tokens,
                   grain |-> text.grain, width |-> text.width])
  /\ UNCHANGED audits

(* The steps of the loop that do not reach the policy.                     *)
Unobserved ==
  /\ \/ Start \/ BeforeModel
     \/ AfterModelRaises \/ MalformedDecision \/ Finish \/ ChooseTool
     \/ BeforeTool \/ StepsExhausted \/ Raise
     \/ TimeExpires \/ Terminated
  /\ UNCHANGED <<results, audits>>

BoundedInit == Init /\ results = <<>> /\ audits = <<>>

BoundedNext == Prepare \/ ExecuteWithResult \/ Unobserved

BoundedSpec == BoundedInit /\ [][BoundedNext]_allVars

----------------------------------------------------------------------------
(* The trace as the analysis reads it.                                     *)
Nth(kind, i) == Cardinality({j \in 1..i : events[j].kind = kind})
NothingAudited == [retained |-> {}, removed |-> {}, reductions |-> <<>>]
SignatureOf(result) ==
  IF result.key \in {NoPath, NoQuery} THEN <<>>
  ELSE Signature(result.tool, result.key, Casefold)
Trace ==
  [i \in DOMAIN events |->
     LET kind == events[i].kind
     IN  [kind |-> kind, step |-> events[i].step, query |-> NoQuery,
          audit |-> IF kind = "context_prepared" THEN audits[Nth(kind, i)]
                    ELSE NothingAudited,
          signature |-> IF kind = "tool_result" THEN SignatureOf(results[Nth(kind, i)])
                        ELSE <<>>]]

----------------------------------------------------------------------------
(* The global budget is spent oldest first and overrun at most once: a     *)
(* result is omitted exactly when those before it used the budget up, so   *)
(* the omitted are always the newest, and what any other takes beyond its  *)
(* allowance is its marker and the least a reduction keeps, nine tokens    *)
(* for each byte of a character ("applies per-tool and global budgets").   *)
ToolBudgetKept ==
  \A a \in DOMAIN audits : \A k \in DOMAIN audits[a].reductions :
    LET reductions == audits[a].reductions
        spent == SumOver(SubSeq(reductions, 1, k - 1), LAMBDA r : r.retained_tokens)
        allowance == Min({PerToolTokens, TotalToolTokens - spent})
        shown == reductions[k]
    IN  /\ shown.method = "omitted-global-budget" <=> spent >= TotalToolTokens
        /\ spent < TotalToolTokens =>
             shown.retained_tokens <= results[k].width * (allowance + 9)

(* What one request showed of a tool result every later request shows the  *)
(* same, whatever was added since: presented text is never cut further, so *)
(* each prompt extends the one before it.                                  *)
PresentationStable ==
  \A a \in 2..Len(audits) :
    IsPrefix(audits[a - 1].reductions, audits[a].reductions)

(* The attribution of a repeated access never misses a loss: if any        *)
(* earlier result of the same access was shown reduced at a step after it, *)
(* the repeat's own included, the repeat is associated with a removal.     *)
(* Every access but the first of its kind is evidence, once.               *)
LossNeverMissed ==
  LET evidence == AnalyzeRepeatedAccess(Trace).evidence
      accesses == {k \in DOMAIN results : SignatureOf(results[k]) # <<>>}
      at == Ascending({i \in DOMAIN events : events[i].kind = "tool_result"}, Len(events))
      Reduced(k, until) ==
        \E a \in DOMAIN audits :
          /\ audits[a].step <= until /\ k \in DOMAIN audits[a].reductions
          /\ audits[a].reductions[k].method # "none"
  IN  /\ Len(evidence) =
           Cardinality(accesses) - Cardinality({SignatureOf(results[k]) : k \in accesses})
      /\ \A e \in ToSet(evidence) : \A k \in accesses :
           ( /\ SignatureOf(results[k]) = e.signature
             /\ events[at[k]].step < e.repeated
             /\ Reduced(k, e.repeated) ) => e.supported

(* The behaviour rebuilt from the trace is the run's: every message of     *)
(* every prepared context is in exactly one of the two lists (a            *)
(* preparation of step s has 2 + 2s), and no token of a tool result is     *)
(* lost between what was retained and what was discarded.                  *)
BehaviorAgreesWithRun ==
  LET b == AnalyzeContextBehavior(Trace)
      n == Count(events, "context_prepared")
  IN  /\ b.preparations = n
      /\ b.retained + b.removed = n * (n + 1)
      /\ b.original_tokens <= b.retained_tokens + b.discarded_tokens
      /\ policy = "full-history" => b.removed = 0 /\ b.original_tokens = 0
=============================================================================
