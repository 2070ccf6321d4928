--------------------------- MODULE CompactionAgent ---------------------------
(***************************************************************************)
(* The agent loop run with CompactionPolicy: the policy's own state, kept  *)
(* beside the loop, and the view of the conversation it presents.  Indices *)
(* are the code's, from 0: message index i is history[i + 1].  A run holds *)
(* one policy object for its whole life, so every step of the loop either  *)
(* calls the policy or leaves its state alone.                             *)
(***************************************************************************)
EXTENDS AgentLoop, SequencesExt

CONSTANTS
  Compactor,            \* "deterministic", or "auxiliary" for a ModelCompactor
  SummaryTokens,        \* sizes a summary may have; 0 is the empty string
  RecentMessages,       \* recent_messages
  UsablePromptTokens,   \* budget.usable_prompt_tokens
  UtilizationPercent,   \* triggers.utilization_threshold, in percent; 0 is None
  EverySteps,           \* triggers.every_steps; 0 is None
  ToolOutputTokens      \* triggers.tool_output_tokens; 0 is None

ASSUME CompactionAssumption ==
  /\ Policies = {"compaction"}
  /\ Compactor \in {"deterministic", "auxiliary"}
  /\ SummaryTokens \subseteq Nat
  /\ RecentMessages \in Nat \ {0}
  /\ UsablePromptTokens \in Nat \ {0}
  /\ UtilizationPercent \in 0..100 /\ EverySteps \in Nat /\ ToolOutputTokens \in Nat

VARIABLES
  summary,             \* tokens of self.summary; 0 for None and for ""
  compactedUntil,      \* self.compacted_until
  lastCompactionStep,  \* self.last_compaction_step
  records,             \* self.records: the step of each compaction
  reported,            \* self._reported_records
  precompactionPaths,  \* self.precompaction_paths
  revisits,            \* self.revisits
  covered              \* indices the compactor was given for the present summary,
                       \* themselves or within an earlier summary

policyVars == <<summary, compactedUntil, lastCompactionStep, records, reported,
                precompactionPaths, revisits, covered>>
allVars == <<vars, policyVars>>

----------------------------------------------------------------------------
(* TokenBudget.count_messages: four tokens a message and three for the     *)
(* prompt, on top of the content.                                          *)
TokensOf(indices) ==
  FoldFunctionOnSet(LAMBDA tokens, n : n + 4 + tokens, 0,
                    [i \in indices |-> history[i + 1].tokens], indices)

Length == Len(history)
Retained(until) == (0..(IF Length < 2 THEN Length ELSE 2) - 1) \cup (until..(Length - 1))

(* The view's size: the retained messages, and the summary when it is not  *)
(* empty ("if self.summary").                                              *)
EstimateBeforeSummary(until, size) ==  \* mutant: the summary is not counted
  3 + TokensOf(Retained(until))
Estimate(until, size) ==
  3 + TokensOf(Retained(until)) + (IF size > 0 THEN 4 + size ELSE 0)

(* The messages themselves, the summary inserted after the instructions.   *)
View ==
  SubSeq(history, 1, 2)
    \o (IF summary > 0 THEN <<Say("system", summary)>> ELSE <<>>)
    \o SubSeq(history, compactedUntil + 1, Length)

ToolTokens ==
  LET tools == {i \in compactedUntil..(Length - 1) : history[i + 1].role = "tool"}
  IN  FoldFunctionOnSet(LAMBDA tokens, n : n + (IF tokens > 1 THEN tokens ELSE 1), 0,
                        [i \in tools |-> history[i + 1].tokens], tools)

(* CompactionTriggers.reasons, asked of the whole canonical conversation;  *)
(* create_policy never sets token_threshold.                               *)
Triggered ==
  \/ /\ UtilizationPercent > 0
     /\ 100 * (3 + TokensOf(0..(Length - 1))) >= UtilizationPercent * UsablePromptTokens
  \/ EverySteps > 0 /\ step - lastCompactionStep >= EverySteps
  \/ ToolOutputTokens > 0 /\ ToolTokens >= ToolOutputTokens

CompactableEndTooFar ==  \* mutant: one message too many
  IF compactedUntil > Length - RecentMessages + 1 THEN compactedUntil
  ELSE Length - RecentMessages + 1
CompactableEnd ==
  IF compactedUntil > Length - RecentMessages THEN compactedUntil
  ELSE Length - RecentMessages

Compacts == Triggered /\ CompactableEnd > compactedUntil

(* What the compactor is given: the messages that leave the view, after    *)
(* the previous summary when there is one.                                 *)
CompactInputOverlaps ==  \* mutant: the first message that stays is summarised too
  (compactedUntil..CompactableEnd) \cup (IF summary > 0 THEN covered ELSE {})
CompactInputAfresh == compactedUntil..(CompactableEnd - 1)  \* mutant: no previous summary
CompactInput ==
  (compactedUntil..(CompactableEnd - 1)) \cup (IF summary > 0 THEN covered ELSE {})

PathsNewest ==  \* mutant: only the result of the step before
  {events[i].path : i \in {j \in DOMAIN events :
     events[j].kind = "tool_result" /\ events[j].step = step - 1}} \ {NoPath}
PathsSeen ==
  {events[i].path : i \in {j \in DOMAIN events : events[j].kind = "tool_result"}} \ {NoPath}

(* The compaction branch of prepare_context, the compactor having returned.*)
Compact(size) ==
  /\ precompactionPaths' = precompactionPaths \cup PathsSeen
  /\ covered' = CompactInput
  /\ summary' = size
  /\ compactedUntil' = CompactableEnd
  /\ lastCompactionStep' = step
  /\ records' = Append(records, step)
  /\ UNCHANGED revisits

(* drain_new_records, which the loop calls when a view was prepared.       *)
DrainNothing == UNCHANGED reported  \* mutant: the records stay new
Drain == reported' = Len(records')

Prepare ==
  \/ /\ ~Compacts
     /\ UNCHANGED policyVars
     /\ IF Estimate(compactedUntil, summary) > UsablePromptTokens
        THEN ContextOverflow("none") ELSE PrepareContext("none")
  \/ /\ pc = "prepare" /\ Compacts
     /\ \E size \in SummaryTokens :
          /\ Compact(size)
          /\ IF Estimate(CompactableEnd, size) > UsablePromptTokens
             THEN ContextOverflow(Compactor) /\ UNCHANGED reported
             ELSE PrepareContext(Compactor) /\ Drain

(* The compaction request fails: the paths were already noted.             *)
CompactorRaises ==
  /\ pc = "prepare" /\ Compacts /\ Compactor = "auxiliary"
  /\ Raise
  /\ precompactionPaths' = precompactionPaths \cup PathsSeen
  /\ UNCHANGED <<summary, compactedUntil, lastCompactionStep, records, reported,
                 revisits, covered>>

(* observe: a tool result naming a file that some result before a          *)
(* compaction had named is a revisit.                                      *)
Observe(path) ==
  /\ revisits' = IF records # <<>> /\ path \in precompactionPaths
                 THEN Append(revisits, [path |-> path, step |-> step]) ELSE revisits
  /\ UNCHANGED <<summary, compactedUntil, lastCompactionStep, records, reported,
                 precompactionPaths, covered>>

ExecuteObserved ==
  \E tool \in Tools : \E path \in PathsNamed(tool) :
    ExecuteTool(tool, path) /\ Observe(path)

(* The steps of the loop that do not reach the policy.                     *)
Unobserved ==
  /\ \/ Start \/ BeforeModel
     \/ AfterModelRaises \/ MalformedDecision \/ Finish \/ ChooseTool
     \/ BeforeTool \/ StepsExhausted \/ (pc # "prepare" /\ Raise)
     \/ TimeExpires \/ Terminated
  /\ UNCHANGED policyVars

CompactionInit ==
  /\ Init
  /\ summary = 0 /\ compactedUntil = 2 /\ lastCompactionStep = 0
  /\ records = <<>> /\ reported = 0
  /\ precompactionPaths = {} /\ revisits = <<>> /\ covered = {}

CompactionNext == Prepare \/ CompactorRaises \/ ExecuteObserved \/ Unobserved

CompactionSpec == CompactionInit /\ [][CompactionNext]_allVars

----------------------------------------------------------------------------
(* Type invariant of the policy's state.                                   *)
CompactionTypeOK ==
  /\ summary \in Nat /\ compactedUntil \in Nat \ {0, 1}
  /\ lastCompactionStep \in 0..(MaxSteps - 1)
  /\ records \in Seq(0..(MaxSteps - 1)) /\ reported \in 0..Len(records)
  /\ precompactionPaths \subseteq Paths
  /\ revisits \in Seq([path : Paths, step : 0..(MaxSteps - 1)])
  /\ covered \subseteq 2..(compactedUntil - 1)

(* Whatever is no longer presented was given to the compactor for the      *)
(* summary that is, at once or within the previous summary, however often  *)
(* it compacted ("The previous summary is included in later compactions",  *)
(* docs/policies.md:22).  What a compactor makes of it is its own affair,  *)
(* the deterministic one keeps excerpts; a summary that is not empty is    *)
(* assumed of a model.                                                     *)
SummaryCoversRemoved ==
  compactedUntil > 2 => summary > 0 /\ covered = 2..(compactedUntil - 1)

(* The view never hides the two instructions or any of the most recent     *)
(* messages, and never opens, after the summary, with an answer whose      *)
(* question was compacted away.  The latter needs an even window, as the   *)
(* default of 4 is: every iteration appends a pair.                        *)
RecentWindowWhole ==
  /\ compactedUntil > 2 => compactedUntil <= Length - RecentMessages
  /\ (compactedUntil > 2 /\ RecentMessages % 2 = 0) =>
       history[compactedUntil + 1].role = "assistant"

RequestsFit ==
  pc \in {"request", "awaiting"} =>
    FoldLeft(LAMBDA n, message : n + 4 + message.tokens, 3, View) <= UsablePromptTokens

(* A prompt that is sent is whole and fits: the window above is in it, and *)
(* its messages, counted one by one with the summary among them, are       *)
(* within the budget, although the trigger measured something else and the *)
(* summary was not written yet when it did.                                *)
ViewSound == RecentWindowWhole /\ RequestsFit

(* Each compaction reaches the trace once: while the run goes on none is   *)
(* waiting and none is reported twice; only an overflow strands one.       *)
RecordsDrainedOnce ==
  /\ reported = Count(events, "compaction")
  /\ Len(records) - reported = IF failure = "context_window" /\ records # <<>>
                                  /\ records[Len(records)] = step
                               THEN 1 ELSE 0

(* The revisits are exactly the results that name a file which another     *)
(* result had named before a compaction that came before this one.         *)
RevisitsExact ==
  LET Results == {i \in DOMAIN events :
                    events[i].kind = "tool_result" /\ events[i].path # NoPath}
      Revisit(j) == \E i \in Results, r \in DOMAIN records :
                      /\ events[i].path = events[j].path
                      /\ events[i].step < records[r]
                      /\ records[r] <= events[j].step
  IN  {revisits[k] : k \in DOMAIN revisits} =
        {[path |-> events[j].path, step |-> events[j].step] :
           j \in {i \in Results : Revisit(i)}}

(* README.md:53 - "Compaction input, output, request count, and latency    *)
(* are included in total workload."                                        *)
AuxiliaryWorkInTotals == pc = "done" => totals.auxiliary_tokens = answered.auxiliary
=============================================================================
