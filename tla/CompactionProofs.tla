-------------------------- MODULE CompactionProofs --------------------------
(***************************************************************************)
(* Proofs about CompactionAgent for every choice of triggers, window,      *)
(* budget and sizes: the composition only restricts the loop, so whatever  *)
(* was proved of the loop holds of it, and nothing is forgotten between    *)
(* two compactions.                                                        *)
(***************************************************************************)
EXTENDS CompactionAgent, AgentLoopProofs, FoldTheorems

----------------------------------------------------------------------------
(* Each step of the composition is a step of the loop, the policy having   *)
(* chosen between a preparation and an overflow.                           *)
LEMMA CompactionStepIsLoopStep ==
  ASSUME policy = "compaction", CompactionNext
  PROVE  Next
<1>a. Compactions = {"none", "deterministic", "auxiliary"} /\ Compactor \in Compactions
  BY CompactionAssumption DEF Compactions
<1>1. CASE Prepare
  <2>1. \E compaction \in Compactions :
          ContextOverflow(compaction) \/ PrepareContext(compaction)
    BY <1>a, <1>1 DEF Prepare
  <2> QED
    BY <2>1 DEF Next, Loop
<1>2. CASE CompactorRaises
  BY <1>2 DEF CompactorRaises, Next, Loop
<1>3. CASE ExecuteObserved
  BY <1>3 DEF ExecuteObserved, Next, Loop
<1>4. CASE Unobserved
  BY <1>4 DEF Unobserved, Next, Loop
<1> QED
  BY <1>1, <1>2, <1>3, <1>4 DEF CompactionNext

(* The loop with CompactionPolicy is a CodingAgent like any other: each of *)
(* its behaviours, compactions included, is one AgentLoop allows.          *)
THEOREM CompactionImplementsLoop == CompactionSpec => Spec
<1>1. CompactionInit => Init
  BY DEF CompactionInit
<1>2. TypeOK => policy = "compaction"
  BY CompactionAssumption DEF TypeOK
<1>3. TypeOK /\ [CompactionNext]_allVars => [Next]_vars
  BY <1>2, CompactionStepIsLoopStep DEF allVars, vars
<1>4. Init => TypeOK
  BY TypeInit
<1>5. TypeOK /\ [Next]_vars => TypeOK'
  BY TypeNext
<1> QED
  BY <1>1, <1>3, <1>4, <1>5, PTL DEF CompactionSpec, Spec

(* What is proved of the loop holds of it under compaction: the work of a  *)
(* compactor is counted and traced like any other.                         *)
COROLLARY CompactionWorkload == CompactionSpec => []WorkloadAccounted
  BY CompactionImplementsLoop, WorkloadIsAccounted, PTL

----------------------------------------------------------------------------
(* What a compaction relies on from the ones before it: until the first    *)
(* there is no summary, and from then on the present one is not empty and  *)
(* covers everything removed.                                              *)
Summarised ==
  /\ compactedUntil \in Nat /\ compactedUntil >= 2 /\ summary \in Nat
  /\ compactedUntil = 2 => summary = 0
  /\ SummaryCoversRemoved

LEMMA CompactSummarises ==
  ASSUME Summarised, history \in Seq(Messages), 0 \notin SummaryTokens,
         CompactableEnd > compactedUntil, NEW size \in SummaryTokens, Compact(size)
  PROVE  Summarised'
<1>1. CompactableEnd \in Nat
  BY CompactionAssumption DEF CompactableEnd, Length, Summarised
<1>2. size \in Nat \ {0}
  BY CompactionAssumption
<1>3. compactedUntil' = CompactableEnd /\ summary' = size /\ covered' = CompactInput
  BY DEF Compact
<1>4. CompactInput = 2..(CompactableEnd - 1)
  <2>1. CASE compactedUntil = 2
    BY <1>1, <2>1 DEF CompactInput, Summarised
  <2>2. CASE compactedUntil > 2
    <3>1. summary > 0 /\ covered = 2..(compactedUntil - 1)
      BY <2>2 DEF Summarised, SummaryCoversRemoved
    <3>2. CompactInput = (compactedUntil..(CompactableEnd - 1)) \cup 2..(compactedUntil - 1)
      BY <3>1 DEF CompactInput
    <3> QED
      BY <1>1, <2>2, <3>2 DEF Summarised
  <2> QED
    BY <2>1, <2>2 DEF Summarised
<1> QED
  BY <1>1, <1>2, <1>3, <1>4 DEF Summarised, SummaryCoversRemoved

LEMMA SummarisedNext ==
  ASSUME TypeOK, Summarised, 0 \notin SummaryTokens, [CompactionNext]_allVars
  PROVE  Summarised'
<1>a. UNCHANGED <<summary, compactedUntil, covered>> => Summarised'
  BY DEF Summarised, SummaryCoversRemoved
<1>b. history \in Seq(Messages)
  BY DEF TypeOK
<1>1. CASE Prepare
  <2>1. ASSUME NEW size \in SummaryTokens, Compacts, Compact(size)
        PROVE  Summarised'
    BY <1>b, <2>1, CompactSummarises DEF Compacts
  <2> QED
    BY <1>1, <1>a, <2>1 DEF Prepare, policyVars
<1>2. CASE CompactorRaises
  BY <1>2, <1>a DEF CompactorRaises
<1>3. CASE ExecuteObserved
  BY <1>3, <1>a DEF ExecuteObserved, Observe
<1>4. CASE Unobserved \/ UNCHANGED allVars
  BY <1>4, <1>a DEF Unobserved, policyVars, allVars
<1> QED
  BY <1>1, <1>2, <1>3, <1>4 DEF CompactionNext

(* Whatever left the view is in the present summary, however often the     *)
(* policy compacts, as long as no summary is the empty string: for that    *)
(* one, "if self.summary" drops what came before.                          *)
THEOREM NothingIsForgotten ==
  ASSUME 0 \notin SummaryTokens
  PROVE  CompactionSpec => []SummaryCoversRemoved
<1>1. CompactionInit => Summarised
  BY DEF CompactionInit, Summarised, SummaryCoversRemoved
<1>2. CompactionSpec => []TypeOK
  BY CompactionImplementsLoop, TypeCorrect, PTL
<1>3. TypeOK /\ Summarised /\ [CompactionNext]_allVars => Summarised'
  BY SummarisedNext
<1>4. Summarised => SummaryCoversRemoved
  BY DEF Summarised
<1> QED
  BY <1>1, <1>2, <1>3, <1>4, PTL DEF CompactionSpec

----------------------------------------------------------------------------
(* The policy's own state: every compaction starts where the last ended.   *)
LEMMA SeenAreFiles == TypeOK => PathsSeen \subseteq Paths
<1> SUFFICES ASSUME TypeOK, NEW i \in DOMAIN events, events[i].path # NoPath
             PROVE  events[i].path \in Paths
  BY DEF PathsSeen
<1>1. events[i] \in AgentEvents
  BY DEF TypeOK
<1> QED
  BY <1>1 DEF AgentEvents

LEMMA CompactTyped ==
  ASSUME TypeOK, CompactionTypeOK, Compacts, NEW size \in SummaryTokens, Compact(size)
  PROVE  /\ summary' \in Nat /\ compactedUntil' \in Nat \ {0, 1}
         /\ lastCompactionStep' \in 0..(MaxSteps - 1)
         /\ records' \in Seq(0..(MaxSteps - 1)) /\ Len(records') = Len(records) + 1
         /\ precompactionPaths' \subseteq Paths
         /\ revisits' \in Seq([path : Paths, step : 0..(MaxSteps - 1)])
         /\ covered' \subseteq 2..(compactedUntil' - 1)
<1>1. CompactableEnd \in Nat /\ compactedUntil \in Nat \ {0, 1} /\ CompactableEnd > compactedUntil
  BY CompactionAssumption DEF CompactableEnd, Length, TypeOK, CompactionTypeOK, Compacts
<1>2. CompactInput \subseteq 2..(CompactableEnd - 1)
  <2>1. compactedUntil..(CompactableEnd - 1) \subseteq 2..(CompactableEnd - 1)
    BY <1>1
  <2>2. 2..(compactedUntil - 1) \subseteq 2..(CompactableEnd - 1)
    BY <1>1
  <2> QED
    BY <2>1, <2>2 DEF CompactInput, CompactionTypeOK
<1>3. /\ size \in Nat /\ step \in 0..(MaxSteps - 1) /\ records \in Seq(0..(MaxSteps - 1))
  BY CompactionAssumption DEF TypeOK, CompactionTypeOK
<1>4. records' \in Seq(0..(MaxSteps - 1)) /\ Len(records') = Len(records) + 1
  BY <1>3 DEF Compact
<1>5. precompactionPaths' \subseteq Paths
  BY SeenAreFiles DEF Compact, CompactionTypeOK
<1> QED
  BY <1>1, <1>2, <1>3, <1>4, <1>5 DEF Compact, CompactionTypeOK

LEMMA CompactionTypeNext ==
  TypeOK /\ TypeOK' /\ CompactionTypeOK /\ [CompactionNext]_allVars => CompactionTypeOK'
<1> SUFFICES ASSUME TypeOK, TypeOK', CompactionTypeOK, [CompactionNext]_allVars
             PROVE  CompactionTypeOK'
  OBVIOUS
<1>a. UNCHANGED policyVars => CompactionTypeOK'
  BY DEF policyVars, CompactionTypeOK
<1>1. CASE Prepare
  <2>1. ASSUME NEW size \in SummaryTokens, Compacts, Compact(size),
               UNCHANGED reported \/ Drain
        PROVE  CompactionTypeOK'
    <3>1. reported' \in 0..Len(records')
      <4>1. Len(records) \in Nat /\ reported \in 0..Len(records)
        BY DEF CompactionTypeOK
      <4>2. Len(records') = Len(records) + 1
        BY <2>1, CompactTyped
      <4> QED
        BY <2>1, <4>1, <4>2 DEF Drain
    <3> QED
      BY <2>1, <3>1, CompactTyped DEF CompactionTypeOK
  <2> QED
    BY <1>1, <1>a, <2>1 DEF Prepare
<1>2. CASE CompactorRaises
  <2>1. precompactionPaths' \subseteq Paths
    BY <1>2, SeenAreFiles DEF CompactorRaises, CompactionTypeOK
  <2> QED
    BY <1>2, <2>1 DEF CompactorRaises, CompactionTypeOK
<1>3. CASE ExecuteObserved
  <2>1. PICK path : Observe(path)
    BY <1>3 DEF ExecuteObserved
  <2>2. revisits' \in Seq([path : Paths, step : 0..(MaxSteps - 1)])
    <3>1. CASE path \in precompactionPaths
      <4>1. [path |-> path, step |-> step] \in [path : Paths, step : 0..(MaxSteps - 1)]
        BY <3>1 DEF CompactionTypeOK, TypeOK
      <4> QED
        BY <2>1, <4>1, AppendTyped DEF Observe, CompactionTypeOK
    <3>2. CASE path \notin precompactionPaths
      BY <2>1, <3>2 DEF Observe, CompactionTypeOK
    <3> QED
      BY <3>1, <3>2
  <2> QED
    BY <2>1, <2>2 DEF Observe, CompactionTypeOK
<1>4. CASE Unobserved \/ UNCHANGED allVars
  BY <1>4, <1>a DEF Unobserved, allVars
<1> QED
  BY <1>1, <1>2, <1>3, <1>4 DEF CompactionNext

(* The policy never covers what it has not compacted, nor reports a        *)
(* compaction it has not made.                                             *)
THEOREM CompactionIsTyped == CompactionSpec => []CompactionTypeOK
<1>1. CompactionInit => CompactionTypeOK
  BY LimitsAssumption DEF CompactionInit, CompactionTypeOK
<1>2. CompactionSpec => []TypeOK
  BY CompactionImplementsLoop, TypeCorrect, PTL
<1> QED
  BY <1>1, <1>2, CompactionTypeNext, PTL DEF CompactionSpec

----------------------------------------------------------------------------
(* The numbers of the compactions: none is of a step to come, and where a  *)
(* preparation may compact none is of its own step yet.                    *)
Numbered ==
  /\ \A r \in DOMAIN records :
       records[r] <= step /\ (pc \in {"start", "prepare"} => records[r] < step)
  /\ pc = "start" => step = 0
  /\ failure = "context_window" => pc = "done"

Drained == Numbered /\ RecordsDrainedOnce

(* Where a step of the loop outside the policy leads, by number.           *)
LEMMA StepsOn ==
  ASSUME TypeOK, Numbered, Unobserved \/ ExecuteObserved \/ CompactorRaises
  PROVE  /\ step' \in Nat
         /\ \/ step' = step /\ (pc' \in {"start", "prepare"} => pc \in {"start", "prepare"})
            \/ step' = step + 1
         /\ pc' = "start" => step' = 0
         /\ failure' = "context_window" <=> failure = "context_window"
         /\ failure = "context_window" => pc' = "done" /\ step' = step
<1>1. step \in Nat
  BY DEF TypeOK
<1>2. \A reason \in LimitReasons : reason # "context_window"
  BY DEF LimitReasons
<1>3. CASE ExecuteObserved
  BY <1>1, <1>3 DEF ExecuteObserved, ExecuteTool, Advance, Numbered, verdict
<1>4. CASE CompactorRaises
  BY <1>1, <1>4 DEF CompactorRaises, Raise, Numbered, verdict
<1>5. CASE Unobserved
  BY <1>1, <1>2, <1>5 DEF Unobserved, Start, BeforeModel, AfterModelRaises, MalformedDecision,
     Finish, ChooseTool, BeforeTool, StepsExhausted, Raise, TimeExpires, Terminated, Record, Answer,
     FailLimit, Advance, Numbered, vars, verdict, LimitReasons, Terminal
<1> QED
  BY <1>3, <1>4, <1>5

LEMMA Elements ==
  ASSUME NEW S, NEW s \in Seq(S)
  PROVE  \A i \in DOMAIN s : s[i] \in S
  OBVIOUS

LEMMA WiderSeq ==
  ASSUME NEW S, NEW T, S \subseteq T, NEW s \in Seq(S)
  PROVE  s \in Seq(T)
  OBVIOUS

(* Such a step leaves the records and what is drained of them as they are. *)
LEMMA NothingDrained ==
  ASSUME TypeOK, CompactionTypeOK, Drained, Unobserved \/ ExecuteObserved \/ CompactorRaises
  PROVE  Drained'
<1>a. /\ step \in Nat /\ records \in Seq(0..(MaxSteps - 1))
      /\ \A r \in DOMAIN records : records[r] \in Nat
  <2>1. /\ records \in Seq(0..(MaxSteps - 1)) /\ step \in Nat /\ Len(records) \in Nat
        /\ 0..(MaxSteps - 1) \subseteq Nat
    BY DEF TypeOK, CompactionTypeOK
  <2>2. \A r \in DOMAIN records : records[r] \in 0..(MaxSteps - 1)
    BY <2>1, Elements
  <2> QED
    BY <2>1, <2>2
<1>b. UNCHANGED <<records, reported>>
  BY DEF Unobserved, ExecuteObserved, Observe, CompactorRaises, policyVars
<1>c. Numbered
  BY DEF Drained
<1>1. Numbered'
  BY <1>a, <1>b, <1>c, StepsOn DEF Numbered
<1>2. Count(events', "compaction") = Count(events, "compaction")
  <2>a. events \in Seq(AgentEvents) /\ Count(events, "compaction") \in Nat
    BY CountNat DEF TypeOK
  <2>b. ASSUME NEW kind \in Kinds, NEW note \in Notes, NEW path \in Paths \cup {NoPath},
               NEW trace \in Seq(AgentEvents), kind # "compaction"
        PROVE  /\ Count(Append(trace, Event(kind, note, path)), "compaction") =
                    Count(trace, "compaction")
               /\ Append(trace, Event(kind, note, path)) \in Seq(AgentEvents)
    <3>1. Count(trace, "compaction") \in Nat
      BY CountNat
    <3> QED
      BY <2>b, <3>1, EventCounted
  <2>c. /\ {"inference_response", "status", "retrieval", "tool_result"} \subseteq Kinds
        /\ {"none", "completed", "explicit"} \subseteq Notes /\ Tools \subseteq Notes
    BY DataAssumption DEF Kinds, Notes
  <2>1. CASE ExecuteObserved
    <3>1. PICK tool \in Tools : \E path \in PathsNamed(tool) : ExecuteTool(tool, path)
      BY <2>1 DEF ExecuteObserved
    <3>2. PICK path \in PathsNamed(tool) : ExecuteTool(tool, path)
      BY <3>1
    <3>3. tool \in Notes /\ path \in Paths \cup {NoPath}
      BY <2>c, <3>1, <3>2 DEF PathsNamed
    <3>4. PICK trace \in {events, Append(events, Event("retrieval", "explicit", NoPath))} :
            events' = Append(trace, Event("tool_result", tool, path))
      BY <3>2 DEF ExecuteTool
    <3>5. trace \in Seq(AgentEvents) /\ Count(trace, "compaction") = Count(events, "compaction")
      <4>1. CASE trace = events
        BY <2>a, <4>1
      <4>2. CASE trace = Append(events, Event("retrieval", "explicit", NoPath))
        BY <2>a, <2>b, <2>c, <4>2
      <4> QED
        BY <3>4, <4>1, <4>2
    <3> QED
      BY <2>b, <2>c, <3>3, <3>4, <3>5
  <2>2. CASE \/ CompactorRaises
             \/ Unobserved /\ (Start \/ Raise \/ TimeExpires \/ Terminated)
    BY <2>2 DEF CompactorRaises, Start, Raise, TimeExpires, Terminated, vars
  <2>d. /\ Append(events, Event("inference_response", "none", NoPath)) \in Seq(AgentEvents)
        /\ Count(Append(events, Event("inference_response", "none", NoPath)), "compaction") =
             Count(events, "compaction")
    <3>1. /\ "inference_response" \in Kinds /\ "none" \in Notes
          /\ NoPath \in Paths \cup {NoPath}
      BY <2>c
    <3> QED
      BY <2>a, <2>b, <3>1
  <2>3. CASE MalformedDecision \/ ChooseTool
    BY <2>d, <2>3 DEF MalformedDecision, ChooseTool, Emit
  <2>4. CASE Finish
    <3>1. events' = Append(Append(events, Event("inference_response", "none", NoPath)),
                           Event("status", "completed", NoPath))
      BY <2>4 DEF Finish
    <3>2. /\ "status" \in Kinds /\ "completed" \in Notes
          /\ NoPath \in Paths \cup {NoPath}
      BY <2>c
    <3> QED
      BY <2>b, <2>d, <3>1, <3>2
  <2>5. ASSUME NEW reason \in LimitReasons, FailLimit(reason)
        PROVE  Count(events', "compaction") = Count(events, "compaction")
    BY <2>5, FailureCounted
  <2>6. CASE BeforeModel \/ AfterModelRaises \/ BeforeTool \/ StepsExhausted
    BY <2>5, <2>6 DEF BeforeModel, AfterModelRaises, BeforeTool, StepsExhausted, LimitReasons
  <2> QED
    BY <2>1, <2>2, <2>3, <2>4, <2>6 DEF Unobserved
<1>3. CASE failure = "context_window"
  <2>1. failure' = failure /\ step' = step
    BY <1>3, <1>c, StepsOn
  <2> QED
    BY <1>1, <1>2, <1>b, <2>1 DEF Drained, RecordsDrainedOnce
<1>4. CASE failure # "context_window"
  <2>1. failure' # "context_window"
    BY <1>4, <1>c, StepsOn
  <2> QED
    BY <1>1, <1>2, <1>4, <1>b, <2>1 DEF Drained, RecordsDrainedOnce
<1> QED
  BY <1>3, <1>4

(* A preparation: a compaction that is prepared is drained and traced, one *)
(* that overflows is neither.                                              *)
LEMMA PreparedDrained ==
  ASSUME TypeOK, TypeOK', CompactionTypeOK, Drained, Prepare, policy = "compaction"
  PROVE  Drained'
<1>a. /\ step \in Nat /\ records \in Seq(0..(MaxSteps - 1)) /\ Len(records) \in Nat
      /\ \A r \in DOMAIN records : records[r] \in Nat
  <2>1. /\ records \in Seq(0..(MaxSteps - 1)) /\ step \in Nat /\ Len(records) \in Nat
        /\ 0..(MaxSteps - 1) \subseteq Nat
    BY DEF TypeOK, CompactionTypeOK
  <2>2. \A r \in DOMAIN records : records[r] \in 0..(MaxSteps - 1)
    BY <2>1, Elements
  <2> QED
    BY <2>1, <2>2
<1>b. pc = "prepare" /\ step' = step /\ pc' \notin {"start", "prepare"} /\ failure # "context_window"
  BY DEF Prepare, PrepareContext, ContextOverflow, Drained, Numbered
<1>c. Len(records) = reported /\ reported = Count(events, "compaction") /\ reported \in Nat
  BY <1>a, <1>b DEF Drained, RecordsDrainedOnce, CompactionTypeOK
<1>d. /\ Compactions = {"none", "deterministic", "auxiliary"}
      /\ Compactor \in {"deterministic", "auxiliary"}
      /\ "context_failure" \in Kinds /\ "none" \in Notes
  BY CompactionAssumption DEF Compactions, Kinds, Notes
<1>e. events \in Seq(AgentEvents) /\ Count(events, "compaction") \in Nat
  BY CountNat DEF TypeOK
<1>1. ASSUME NEW compaction \in Compactions, PrepareContext(compaction)
      PROVE  /\ failure' # "context_window"
             /\ Count(events', "compaction") =
                  Count(events, "compaction") + (IF compaction # "none" THEN 1 ELSE 0)
  <2>1. failure' = failure /\ events' = PreparedTrace(compaction)
    BY <1>1 DEF PrepareContext, verdict
  <2> QED
    BY <1>b, <1>e, <2>1, PreparedCounted
<1>2. ASSUME NEW compaction \in Compactions, ContextOverflow(compaction)
      PROVE  /\ failure' = "context_window" /\ pc' = "done"
             /\ Count(events', "compaction") = Count(events, "compaction")
  <2>1. events' = Append(events, Event("context_failure", "none", NoPath))
    BY <1>2 DEF ContextOverflow, Emit
  <2> QED
    BY <1>2, <1>d, <1>e, <2>1, EventCounted DEF ContextOverflow
<1>3. CASE UNCHANGED policyVars /\ (ContextOverflow("none") \/ PrepareContext("none"))
  <2>1. UNCHANGED <<records, reported>>
    BY <1>3 DEF policyVars
  <2>2. Numbered'
    BY <1>a, <1>b, <1>d, <1>1, <1>2, <1>3, <2>1 DEF Drained, Numbered
  <2>3. Count(events', "compaction") = Count(events, "compaction")
    BY <1>d, <1>e, <1>1, <1>2, <1>3
  <2>4. records # <<>> => records[Len(records)] < step
    BY <1>a, <1>b DEF Drained, Numbered
  <2> QED
    BY <1>a, <1>b, <1>c, <2>1, <2>2, <2>3, <2>4 DEF Drained, RecordsDrainedOnce
<1>4. ASSUME NEW size \in SummaryTokens, Compact(size),
             \/ ContextOverflow(Compactor) /\ UNCHANGED reported
             \/ PrepareContext(Compactor) /\ Drain
      PROVE  Drained'
  <2>1. /\ records' = Append(records, step) /\ Len(records') = Len(records) + 1
        /\ records' # <<>> /\ records'[Len(records')] = step
        /\ \A r \in DOMAIN records' : (r \in DOMAIN records /\ records'[r] = records[r]) \/ records'[r] = step
    BY <1>4, <1>a DEF Compact
  <2>2. Numbered'
    BY <1>a, <1>b, <1>d, <1>1, <1>2, <1>4, <2>1 DEF Drained, Numbered
  <2>3. CASE ContextOverflow(Compactor) /\ UNCHANGED reported
    BY <1>a, <1>b, <1>c, <1>d, <1>2, <2>1, <2>2, <2>3 DEF Drained, RecordsDrainedOnce
  <2>4. CASE PrepareContext(Compactor) /\ Drain
    <3>1. /\ Count(events', "compaction") = Count(events, "compaction") + 1
          /\ failure' # "context_window" /\ reported' = Len(records')
      BY <1>d, <1>1, <2>4 DEF Drain
    <3> QED
      BY <1>a, <1>c, <2>1, <2>2, <3>1 DEF Drained, RecordsDrainedOnce
  <2> QED
    BY <1>4, <2>3, <2>4
<1> QED
  BY <1>3, <1>4 DEF Prepare

LEMMA DrainedInvariant == CompactionSpec => []Drained
<1>1. CompactionInit => Drained
  <2>1. CompactionInit => {i \in DOMAIN events : events[i].kind = "compaction"} = {}
    BY DEF CompactionInit, Init
  <2> QED
    BY <2>1, FS_EmptySet DEF CompactionInit, Init, Drained, Numbered, RecordsDrainedOnce, Count
<1>2. CompactionSpec => []TypeOK
  BY CompactionImplementsLoop, TypeCorrect, PTL
<1>3. TypeOK /\ TypeOK' /\ CompactionTypeOK /\ Drained /\ [CompactionNext]_allVars => Drained'
  <2>1. TypeOK => policy = "compaction"
    BY CompactionAssumption DEF TypeOK
  <2>2. Drained /\ UNCHANGED allVars => Drained'
    BY DEF Drained, Numbered, RecordsDrainedOnce, Count, allVars, vars, policyVars, verdict
  <2> QED
    BY <2>1, <2>2, NothingDrained, PreparedDrained DEF CompactionNext
<1> QED
  BY <1>1, <1>2, <1>3, CompactionIsTyped, PTL DEF CompactionSpec

(* Every compaction is traced, once, but one whose view overflowed.        *)
THEOREM CompactionsAreTraced == CompactionSpec => []RecordsDrainedOnce
<1>1. Drained => RecordsDrainedOnce
  BY DEF Drained
<1> QED
  BY <1>1, DrainedInvariant, PTL

----------------------------------------------------------------------------
(* Revisits.  A step adds events of its own iteration to the trace, and at *)
(* most one of them, the last, is a tool result.                           *)
Continues(trace, before, now) ==
  /\ trace \in Seq(AgentEvents) /\ Len(trace) >= Len(before)
  /\ \A i \in DOMAIN before : trace[i] = before[i]
  /\ \A i \in DOMAIN trace \ DOMAIN before : trace[i].step = now

Quiet(trace, before, now) ==
  /\ Continues(trace, before, now)
  /\ \A i \in DOMAIN trace \ DOMAIN before : trace[i].kind # "tool_result"

Answered(trace, before, now, path) ==
  /\ Continues(trace, before, now) /\ Len(trace) > Len(before)
  /\ trace[Len(trace)].kind = "tool_result" /\ trace[Len(trace)].path = path
  /\ \A i \in DOMAIN trace \ DOMAIN before : i = Len(trace) \/ trace[i].kind # "tool_result"

(* The results that name a file, the files some of them named before a     *)
(* compaction, and those named again after one.                            *)
Naming(trace) == {i \in DOMAIN trace : trace[i].kind = "tool_result" /\ trace[i].path # NoPath}

NamedBefore(trace, compactions) ==
  {trace[i].path : i \in {k \in Naming(trace) :
                            \E r \in DOMAIN compactions : trace[k].step < compactions[r]}}

Revisits(trace, compactions, j) ==
  \E i \in Naming(trace), r \in DOMAIN compactions :
    /\ trace[i].path = trace[j].path
    /\ trace[i].step < compactions[r] /\ compactions[r] <= trace[j].step

Revisited(trace, compactions) ==
  {[path |-> trace[j].path, step |-> trace[j].step] :
     j \in {i \in Naming(trace) : Revisits(trace, compactions, i)}}

LEMMA QuietStays ==
  ASSUME NEW trace \in Seq(AgentEvents), NEW now
  PROVE  Quiet(trace, trace, now)
  BY DEF Quiet, Continues

LEMMA QuietEvent ==
  ASSUME TypeOK, NEW kind \in Kinds, NEW note \in Notes, NEW path \in Paths \cup {NoPath},
         kind # "tool_result", NEW trace, Quiet(trace, events, step)
  PROVE  Quiet(Append(trace, Event(kind, note, path)), events, step)
<1> DEFINE e == Event(kind, note, path)
           longer == Append(trace, e)
<1>1. e \in AgentEvents /\ e.kind = kind /\ e.step = step
  BY EventTyped DEF Event
<1>2. /\ trace \in Seq(AgentEvents) /\ Len(trace) \in Nat /\ DOMAIN trace = 1..Len(trace)
      /\ events \in Seq(AgentEvents) /\ Len(events) \in Nat /\ DOMAIN events = 1..Len(events)
      /\ Len(trace) >= Len(events)
  BY DEF Quiet, Continues, TypeOK
<1> HIDE DEF e
<1>3. /\ longer \in Seq(AgentEvents) /\ Len(longer) = Len(trace) + 1
      /\ DOMAIN longer = 1..(Len(trace) + 1)
      /\ \A i \in DOMAIN trace : longer[i] = trace[i]
      /\ longer[Len(trace) + 1] = e
  BY <1>1, <1>2
<1> HIDE DEF longer
<1>4. \A i \in DOMAIN events : longer[i] = events[i]
  BY <1>2, <1>3 DEF Quiet, Continues
<1>5. \A i \in DOMAIN longer \ DOMAIN events : longer[i].step = step /\ longer[i].kind # "tool_result"
  <2> TAKE i \in DOMAIN longer \ DOMAIN events
  <2>1. CASE i = Len(trace) + 1
    BY <1>1, <1>3, <2>1
  <2>2. CASE i # Len(trace) + 1
    <3>1. i \in DOMAIN trace \ DOMAIN events
      BY <1>2, <1>3, <2>2
    <3> QED
      BY <1>3, <3>1 DEF Quiet, Continues
  <2> QED
    BY <2>1, <2>2
<1>6. Quiet(longer, events, step)
  BY <1>2, <1>3, <1>4, <1>5 DEF Quiet, Continues
<1> QED
  BY <1>6 DEF longer, e

LEMMA AnswerEvent ==
  ASSUME TypeOK, NEW note \in Notes, NEW path \in Paths \cup {NoPath},
         NEW trace, Quiet(trace, events, step)
  PROVE  Answered(Append(trace, Event("tool_result", note, path)), events, step, path)
<1> DEFINE e == Event("tool_result", note, path)
           longer == Append(trace, e)
<1>0. "tool_result" \in Kinds
  BY DEF Kinds
<1>1. e \in AgentEvents /\ e.kind = "tool_result" /\ e.step = step /\ e.path = path
  BY <1>0, EventTyped DEF Event
<1>2. /\ trace \in Seq(AgentEvents) /\ Len(trace) \in Nat /\ DOMAIN trace = 1..Len(trace)
      /\ events \in Seq(AgentEvents) /\ Len(events) \in Nat /\ DOMAIN events = 1..Len(events)
      /\ Len(trace) >= Len(events)
  BY DEF Quiet, Continues, TypeOK
<1> HIDE DEF e
<1>3. /\ longer \in Seq(AgentEvents) /\ Len(longer) = Len(trace) + 1
      /\ DOMAIN longer = 1..(Len(trace) + 1)
      /\ \A i \in DOMAIN trace : longer[i] = trace[i]
      /\ longer[Len(trace) + 1] = e
  BY <1>1, <1>2
<1> HIDE DEF longer
<1>4. \A i \in DOMAIN events : longer[i] = events[i]
  BY <1>2, <1>3 DEF Quiet, Continues
<1>5. \A i \in DOMAIN longer \ DOMAIN events :
        /\ longer[i].step = step
        /\ i = Len(longer) \/ longer[i].kind # "tool_result"
  <2> TAKE i \in DOMAIN longer \ DOMAIN events
  <2>1. CASE i = Len(trace) + 1
    BY <1>1, <1>3, <2>1
  <2>2. CASE i # Len(trace) + 1
    <3>1. i \in DOMAIN trace \ DOMAIN events
      BY <1>2, <1>3, <2>2
    <3> QED
      BY <1>3, <3>1 DEF Quiet, Continues
  <2> QED
    BY <2>1, <2>2
<1>6. Answered(longer, events, step, path)
  BY <1>1, <1>2, <1>3, <1>4, <1>5 DEF Answered, Continues
<1> QED
  BY <1>6 DEF longer, e

LEMMA PreparedQuietly ==
  ASSUME TypeOK, NEW compaction \in Compactions,
         PrepareContext(compaction) \/ ContextOverflow(compaction)
  PROVE  Quiet(events', events, step)
<1>1. /\ "compaction" \in Kinds /\ "retrieval" \in Kinds /\ "context_prepared" \in Kinds
      /\ "context_failure" \in Kinds
      /\ "none" \in Notes /\ "automatic" \in Notes /\ compaction \in Notes
      /\ NoPath \in Paths \cup {NoPath}
  BY DEF Kinds, Notes, Compactions
<1>2. Quiet(events, events, step)
  BY QuietStays DEF TypeOK
<1>3. /\ Quiet(Append(events, Event("compaction", compaction, NoPath)), events, step)
      /\ Quiet(Append(events, Event("retrieval", "automatic", NoPath)), events, step)
      /\ Quiet(Append(events, Event("context_failure", "none", NoPath)), events, step)
  BY <1>1, <1>2, QuietEvent
<1>4. \A trace : Quiet(trace, events, step) =>
                   Quiet(Append(trace, Event("context_prepared", "none", NoPath)), events, step)
  BY <1>1, QuietEvent
<1>5. CASE PrepareContext(compaction)
  BY <1>2, <1>3, <1>4, <1>5, PreparedTraceShape DEF PrepareContext
<1>6. CASE ContextOverflow(compaction)
  BY <1>3, <1>6 DEF ContextOverflow, Emit
<1> QED
  BY <1>5, <1>6

LEMMA UnobservedQuietly ==
  ASSUME TypeOK, Unobserved \/ CompactorRaises
  PROVE  Quiet(events', events, step)
<1>1. /\ "inference_response" \in Kinds /\ "status" \in Kinds
      /\ "none" \in Notes /\ "completed" \in Notes /\ LimitReasons \subseteq Notes
      /\ NoPath \in Paths \cup {NoPath}
  BY DEF Kinds, Notes
<1>2. Quiet(events, events, step)
  BY QuietStays DEF TypeOK
<1>3. Quiet(Append(events, Event("inference_response", "none", NoPath)), events, step)
  BY <1>1, <1>2, QuietEvent
<1>4. ASSUME NEW reason \in LimitReasons, FailLimit(reason)
      PROVE  Quiet(events', events, step)
  <2>1. reason \in Notes
    BY <1>1
  <2>2. Quiet(Append(events, Event("status", reason, NoPath)), events, step)
    BY <1>1, <1>2, <2>1, QuietEvent
  <2> QED
    BY <1>4, <2>2 DEF FailLimit, Emit
<1>5. CASE BeforeModel \/ AfterModelRaises \/ BeforeTool \/ StepsExhausted
  BY <1>2, <1>4, <1>5 DEF BeforeModel, AfterModelRaises, BeforeTool, StepsExhausted, LimitReasons
<1>6. CASE Start \/ Raise \/ TimeExpires \/ Terminated
  BY <1>2, <1>6 DEF Start, Raise, TimeExpires, Terminated, vars
<1>7. CASE MalformedDecision \/ ChooseTool
  BY <1>3, <1>7 DEF MalformedDecision, ChooseTool, Emit
<1>8. CASE Finish
  BY <1>1, <1>3, <1>8, QuietEvent DEF Finish
<1> QED
  BY <1>5, <1>6, <1>7, <1>8 DEF Unobserved, CompactorRaises

LEMMA ExecutedAnswers ==
  ASSUME TypeOK, NEW tool \in Tools, NEW path \in PathsNamed(tool), ExecuteTool(tool, path)
  PROVE  Answered(events', events, step, path)
<1>1. /\ "retrieval" \in Kinds /\ "explicit" \in Notes /\ tool \in Notes
      /\ path \in Paths \cup {NoPath} /\ NoPath \in Paths \cup {NoPath}
  BY DataAssumption DEF Kinds, Notes, PathsNamed
<1>2. Quiet(events, events, step)
  BY QuietStays DEF TypeOK
<1>3. Quiet(Append(events, Event("retrieval", "explicit", NoPath)), events, step)
  BY <1>1, <1>2, QuietEvent
<1>4. PICK trace \in {events, Append(events, Event("retrieval", "explicit", NoPath))} :
        events' = Append(trace, Event("tool_result", tool, path))
  BY DEF ExecuteTool
<1> QED
  BY <1>1, <1>2, <1>3, <1>4, AnswerEvent

(* What a policy knows of the files named: those of the results there were *)
(* at its last compaction, each of them of an earlier iteration.           *)
Noted == \A i \in DOMAIN events :
           /\ events[i].step <= step
           /\ pc \in {"start", "prepare"} => events[i].step < step

Revisiting ==
  /\ Noted
  /\ pc # "raised" => precompactionPaths = NamedBefore(events, records)
  /\ {revisits[k] : k \in DOMAIN revisits} = Revisited(events, records)

(* Events that are no results change nothing in what results name.         *)
LEMMA QuietlyNamed ==
  ASSUME NEW before \in Seq(AgentEvents), NEW trace, NEW now, Quiet(trace, before, now),
         NEW compactions
  PROVE  /\ NamedBefore(trace, compactions) = NamedBefore(before, compactions)
         /\ Revisited(trace, compactions) = Revisited(before, compactions)
<1>1. DOMAIN before \subseteq DOMAIN trace /\ \A i \in DOMAIN before : trace[i] = before[i]
  BY DEF Quiet, Continues
<1>2. Naming(trace) = Naming(before)
  BY <1>1 DEF Naming, Quiet
<1>3. \A i \in Naming(trace) : trace[i] = before[i]
  BY <1>1, <1>2 DEF Naming
<1> HIDE DEF Naming
<1>4. \A j \in Naming(trace) : Revisits(trace, compactions, j) <=> Revisits(before, compactions, j)
  BY <1>2, <1>3 DEF Revisits
<1> QED
  BY <1>2, <1>3, <1>4 DEF NamedBefore, Revisited

(* A result of this iteration is no file named before a compaction, for    *)
(* none is later, and is a revisit when there is one and the file was.     *)
LEMMA NamedAgain ==
  ASSUME NEW before \in Seq(AgentEvents), NEW trace, NEW now \in Nat, NEW path,
         Answered(trace, before, now, path), NEW compactions,
         \A r \in DOMAIN compactions : compactions[r] \in Nat /\ compactions[r] <= now,
         \A i \in DOMAIN before : before[i].step \in Nat
  PROVE  /\ NamedBefore(trace, compactions) = NamedBefore(before, compactions)
         /\ Revisited(trace, compactions) =
              Revisited(before, compactions)
                \cup (IF path # NoPath /\ path \in NamedBefore(before, compactions)
                      THEN {[path |-> path, step |-> now]} ELSE {})
<1> DEFINE n == Len(trace)
<1>1. /\ DOMAIN before \subseteq DOMAIN trace /\ \A i \in DOMAIN before : trace[i] = before[i]
      /\ n \in DOMAIN trace \ DOMAIN before
      /\ trace[n].kind = "tool_result" /\ trace[n].path = path /\ trace[n].step = now
  BY DEF Answered, Continues
<1>2. \A i \in DOMAIN trace \ DOMAIN before : i = n \/ trace[i].kind # "tool_result"
  BY DEF Answered
<1> HIDE DEF n
<1>3. Naming(trace) = Naming(before) \cup (IF path # NoPath THEN {n} ELSE {})
  BY <1>1, <1>2 DEF Naming
<1>4. n \notin Naming(before) /\ Naming(before) \subseteq DOMAIN before
  BY <1>1 DEF Naming
<1> HIDE DEF Naming
<1>5. \A r \in DOMAIN compactions : ~(now < compactions[r])
  OBVIOUS
<1>6. {k \in Naming(trace) : \E r \in DOMAIN compactions : trace[k].step < compactions[r]} =
      {k \in Naming(before) : \E r \in DOMAIN compactions : before[k].step < compactions[r]}
  BY <1>1, <1>3, <1>4, <1>5
<1>7. NamedBefore(trace, compactions) = NamedBefore(before, compactions)
  BY <1>1, <1>4, <1>6 DEF NamedBefore
<1>8. \A j \in Naming(before) : Revisits(trace, compactions, j) <=> Revisits(before, compactions, j)
  BY <1>1, <1>3, <1>4, <1>5 DEF Revisits
<1>9. path # NoPath => (Revisits(trace, compactions, n) <=> path \in NamedBefore(before, compactions))
  <2> SUFFICES ASSUME path # NoPath
               PROVE  Revisits(trace, compactions, n) <=> path \in NamedBefore(before, compactions)
    OBVIOUS
  <2>1. ASSUME Revisits(trace, compactions, n)
        PROVE  path \in NamedBefore(before, compactions)
    <3>1. PICK i \in Naming(trace), r \in DOMAIN compactions :
            trace[i].path = trace[n].path /\ trace[i].step < compactions[r]
      BY <2>1 DEF Revisits
    <3>2. i \in Naming(before)
      BY <1>1, <1>3, <1>5, <3>1
    <3> QED
      BY <1>1, <1>4, <3>1, <3>2 DEF NamedBefore
  <2>2. ASSUME path \in NamedBefore(before, compactions)
        PROVE  Revisits(trace, compactions, n)
    <3>1. PICK i \in Naming(before) :
            path = before[i].path /\ \E r \in DOMAIN compactions : before[i].step < compactions[r]
      BY <2>2 DEF NamedBefore
    <3>2. PICK r \in DOMAIN compactions : before[i].step < compactions[r]
      BY <3>1
    <3>3. /\ i \in Naming(trace) /\ trace[i].path = trace[n].path
          /\ trace[i].step < compactions[r] /\ compactions[r] <= trace[n].step
      BY <1>1, <1>3, <1>4, <3>1, <3>2
    <3> QED
      BY <3>2, <3>3 DEF Revisits
  <2> QED
    BY <2>1, <2>2
<1>10. {i \in Naming(trace) : Revisits(trace, compactions, i)} =
         {i \in Naming(before) : Revisits(before, compactions, i)}
           \cup (IF path # NoPath /\ path \in NamedBefore(before, compactions) THEN {n} ELSE {})
  BY <1>3, <1>4, <1>8, <1>9
<1>11. \A i \in Naming(before) : trace[i] = before[i]
  BY <1>1, <1>4
<1>12. Revisited(trace, compactions) =
         Revisited(before, compactions)
           \cup (IF path # NoPath /\ path \in NamedBefore(before, compactions)
                 THEN {[path |-> path, step |-> now]} ELSE {})
  <2>1. CASE path # NoPath /\ path \in NamedBefore(before, compactions)
    <3>1. {i \in Naming(trace) : Revisits(trace, compactions, i)} =
            {i \in Naming(before) : Revisits(before, compactions, i)} \cup {n}
      BY <1>10, <2>1
    <3>2. [path |-> trace[n].path, step |-> trace[n].step] = [path |-> path, step |-> now]
      BY <1>1
    <3> HIDE DEF Revisits
    <3> QED
      BY <1>11, <2>1, <3>1, <3>2 DEF Revisited
  <2>2. CASE ~(path # NoPath /\ path \in NamedBefore(before, compactions))
    <3>1. {i \in Naming(trace) : Revisits(trace, compactions, i)} =
            {i \in Naming(before) : Revisits(before, compactions, i)}
      BY <1>10, <2>2
    <3> QED
      BY <1>11, <2>2, <3>1 DEF Revisited
  <2> QED
    BY <2>1, <2>2
<1> QED
  BY <1>7, <1>12

(* A compaction after every result there is: all files named are noted,    *)
(* and none is named again yet.                                            *)
LEMMA NamedUntilNow ==
  ASSUME NEW trace \in Seq(AgentEvents), NEW now \in Nat, NEW compactions \in Seq(Nat),
         \A i \in DOMAIN trace : trace[i].step \in Nat /\ trace[i].step < now
  PROVE  /\ NamedBefore(trace, Append(compactions, now)) = {trace[i].path : i \in Naming(trace)}
         /\ Revisited(trace, Append(compactions, now)) = Revisited(trace, compactions)
         /\ NamedBefore(trace, compactions) \subseteq {trace[i].path : i \in Naming(trace)}
<1> DEFINE more == Append(compactions, now)
           n == Len(compactions) + 1
<1>1. /\ DOMAIN more = DOMAIN compactions \cup {n} /\ n \notin DOMAIN compactions
      /\ more[n] = now /\ \A r \in DOMAIN compactions : more[r] = compactions[r]
  OBVIOUS
<1> HIDE DEF more, n
<1>2. Naming(trace) \subseteq DOMAIN trace
  BY DEF Naming
<1> HIDE DEF Naming
<1>3. {k \in Naming(trace) : \E r \in DOMAIN more : trace[k].step < more[r]} = Naming(trace)
  BY <1>1, <1>2
<1>4. \A j \in Naming(trace) : Revisits(trace, more, j) <=> Revisits(trace, compactions, j)
  <2> SUFFICES ASSUME NEW j \in Naming(trace)
               PROVE  Revisits(trace, more, j) <=> Revisits(trace, compactions, j)
    OBVIOUS
  <2>1. ~(more[n] <= trace[j].step)
    BY <1>1, <1>2
  <2> QED
    BY <1>1, <2>1 DEF Revisits
<1>5. NamedBefore(trace, more) = {trace[i].path : i \in Naming(trace)}
  BY <1>3 DEF NamedBefore
<1>6. Revisited(trace, more) = Revisited(trace, compactions)
  BY <1>4 DEF Revisited
<1> QED
  BY <1>5, <1>6 DEF more, NamedBefore

LEMMA NotedNext ==
  ASSUME TypeOK, Numbered, Noted, [CompactionNext]_allVars, policy = "compaction"
  PROVE  Noted'
<1>a. /\ step \in Nat /\ events \in Seq(AgentEvents)
      /\ \A i \in DOMAIN events : events[i].step \in Nat
  <2>1. step \in Nat /\ events \in Seq(AgentEvents)
    BY DEF TypeOK
  <2>2. \A i \in DOMAIN events : events[i] \in AgentEvents
    BY <2>1, Elements
  <2> QED
    BY <2>1, <2>2 DEF AgentEvents
<1>1. CASE UNCHANGED allVars
  BY <1>1 DEF Noted, allVars, vars
<1>2. ASSUME Continues(events', events, step), step' \in Nat,
             \/ step' = step /\ (pc' \in {"start", "prepare"} =>
                                   pc \in {"start", "prepare"} /\ events' = events)
             \/ step' = step + 1
      PROVE  Noted'
  <2>1. \A i \in DOMAIN events' :
          \/ i \in DOMAIN events /\ events'[i] = events[i]
          \/ events'[i].step = step
    BY <1>2 DEF Continues
  <2>2. CASE step' = step + 1
    BY <1>a, <2>1, <2>2 DEF Noted
  <2>3. CASE step' = step /\ (pc' \in {"start", "prepare"} =>
                                pc \in {"start", "prepare"} /\ events' = events)
    BY <1>a, <2>1, <2>3 DEF Noted
  <2> QED
    BY <1>2, <2>2, <2>3
<1>3. CASE Prepare
  <2>1. PICK compaction \in Compactions :
          PrepareContext(compaction) \/ ContextOverflow(compaction)
    BY <1>3, CompactionAssumption DEF Prepare, Compactions
  <2>2. Continues(events', events, step)
    BY <2>1, PreparedQuietly DEF Quiet
  <2>3. step' = step /\ pc' \notin {"start", "prepare"}
    BY <2>1 DEF PrepareContext, ContextOverflow
  <2> QED
    BY <1>a, <1>2, <2>2, <2>3
<1>4. CASE ExecuteObserved
  <2>1. PICK tool \in Tools : \E path \in PathsNamed(tool) : ExecuteTool(tool, path)
    BY <1>4 DEF ExecuteObserved
  <2>2. PICK path \in PathsNamed(tool) : ExecuteTool(tool, path)
    BY <2>1
  <2>3. Continues(events', events, step)
    BY <2>2, ExecutedAnswers DEF Answered
  <2>4. step' = step + 1 \/ (step' = step /\ pc' = "exhausted")
    BY <2>2 DEF ExecuteTool, Advance
  <2> QED
    BY <1>a, <1>2, <2>3, <2>4
<1>5. CASE Unobserved \/ CompactorRaises
  <2>1. Continues(events', events, step)
    BY <1>5, UnobservedQuietly DEF Quiet
  <2>2. /\ step' \in Nat
        /\ \/ step' = step /\ (pc' \in {"start", "prepare"} => pc \in {"start", "prepare"})
           \/ step' = step + 1
    BY <1>5, StepsOn
  <2>3. step' = step /\ pc' \in {"start", "prepare"} => events' = events
    <3>1. CASE Start \/ Raise \/ TimeExpires \/ Terminated
      BY <3>1 DEF Start, Raise, TimeExpires, Terminated, vars
    <3>2. CASE BeforeModel \/ AfterModelRaises \/ Finish \/ ChooseTool \/ BeforeTool \/ StepsExhausted
      BY <3>2 DEF BeforeModel, AfterModelRaises, Finish, ChooseTool, BeforeTool, StepsExhausted, FailLimit
    <3>3. CASE MalformedDecision
      BY <1>a, <3>3 DEF MalformedDecision, Advance
    <3> QED
      BY <1>5, <3>1, <3>2, <3>3 DEF Unobserved, CompactorRaises
  <2> QED
    BY <1>2, <2>1, <2>2, <2>3
<1> QED
  BY <1>1, <1>3, <1>4, <1>5 DEF CompactionNext

Entries(s) == {s[k] : k \in DOMAIN s}

LEMMA EntriesAppended ==
  ASSUME NEW S, NEW s \in Seq(S), NEW e
  PROVE  Entries(Append(s, e)) = Entries(s) \cup {e}
<1>1. /\ DOMAIN Append(s, e) = DOMAIN s \cup {Len(s) + 1}
      /\ Append(s, e)[Len(s) + 1] = e /\ \A k \in DOMAIN s : Append(s, e)[k] = s[k]
  OBVIOUS
<1> QED
  BY <1>1 DEF Entries

LEMMA RevisitingNext ==
  ASSUME TypeOK, CompactionTypeOK, Numbered, Revisiting, [CompactionNext]_allVars,
         policy = "compaction"
  PROVE  Revisiting'
<1>a. /\ step \in Nat /\ events \in Seq(AgentEvents) /\ records \in Seq(Nat)
      /\ \A i \in DOMAIN events : events[i].step \in Nat
      /\ \A r \in DOMAIN records : records[r] \in Nat /\ records[r] <= step
  <2>1. /\ step \in Nat /\ events \in Seq(AgentEvents) /\ records \in Seq(Nat)
    <3>1. records \in Seq(0..(MaxSteps - 1)) /\ 0..(MaxSteps - 1) \subseteq Nat
      BY DEF CompactionTypeOK
    <3> QED
      BY <3>1, WiderSeq DEF TypeOK
  <2>2. \A i \in DOMAIN events : events[i] \in AgentEvents
    BY <2>1, Elements
  <2>3. \A r \in DOMAIN records : records[r] \in Nat
    BY <2>1, Elements
  <2> QED
    BY <2>1, <2>2, <2>3 DEF AgentEvents, Numbered
<1>b. Noted'
  BY NotedNext DEF Revisiting
<1>c. /\ pc # "raised" => precompactionPaths = NamedBefore(events, records)
      /\ {revisits[k] : k \in DOMAIN revisits} = Revisited(events, records)
  BY DEF Revisiting
<1>1. CASE UNCHANGED allVars
  BY <1>1, <1>b, <1>c DEF Revisiting, NamedBefore, Revisited, Revisits, Naming, allVars, vars, policyVars
<1>2. ASSUME Quiet(events', events, step), UNCHANGED <<records, revisits>>,
             pc' # "raised" => pc # "raised" /\ UNCHANGED precompactionPaths
      PROVE  Revisiting'
  <2>1. /\ NamedBefore(events', records) = NamedBefore(events, records)
        /\ Revisited(events', records) = Revisited(events, records)
    BY <1>a, <1>2, QuietlyNamed
  <2> QED
    BY <1>2, <1>b, <1>c, <2>1, SMTT(30) DEF Revisiting, NamedBefore, Revisited, Revisits, Naming
<1>3. CASE Prepare
  <2>1. PICK compaction \in Compactions :
          PrepareContext(compaction) \/ ContextOverflow(compaction)
    BY <1>3, CompactionAssumption DEF Prepare, Compactions
  <2>2. Quiet(events', events, step)
    BY <2>1, PreparedQuietly
  <2>3. pc = "prepare"
    BY <2>1 DEF PrepareContext, ContextOverflow
  <2>4. CASE UNCHANGED policyVars
    BY <1>2, <2>2, <2>3, <2>4 DEF policyVars
  <2>5. ASSUME NEW size \in SummaryTokens, Compact(size)
        PROVE  Revisiting'
    <3>1. /\ NamedBefore(events, Append(records, step)) = {events[i].path : i \in Naming(events)}
          /\ Revisited(events, Append(records, step)) = Revisited(events, records)
          /\ NamedBefore(events, records) \subseteq {events[i].path : i \in Naming(events)}
      BY <1>a, <2>3, NamedUntilNow DEF Revisiting, Noted
    <3>2. PathsSeen = {events[i].path : i \in Naming(events)}
      BY DEF PathsSeen, Naming
    <3>3. /\ records' = Append(records, step) /\ revisits' = revisits
          /\ precompactionPaths' = precompactionPaths \cup PathsSeen
      BY <2>5 DEF Compact
    <3>4. /\ NamedBefore(events', records') = NamedBefore(events, records')
          /\ Revisited(events', records') = Revisited(events, records')
      BY <1>a, <2>2, QuietlyNamed
    <3>5. precompactionPaths' = NamedBefore(events', records')
      BY <1>c, <2>3, <3>1, <3>2, <3>3, <3>4
    <3>6. {revisits'[k] : k \in DOMAIN revisits'} = Revisited(events', records')
      BY <1>c, <3>1, <3>3, <3>4
    <3> QED
      BY <1>b, <3>5, <3>6 DEF Revisiting, NamedBefore, Revisited, Revisits, Naming
  <2> QED
    BY <1>3, <2>4, <2>5 DEF Prepare
<1>4. CASE ExecuteObserved
  <2>1. PICK tool \in Tools : \E path \in PathsNamed(tool) : ExecuteTool(tool, path) /\ Observe(path)
    BY <1>4 DEF ExecuteObserved
  <2>2. PICK path \in PathsNamed(tool) : ExecuteTool(tool, path) /\ Observe(path)
    BY <2>1
  <2>3. Answered(events', events, step, path)
    BY <2>2, ExecutedAnswers
  <2>4. /\ NamedBefore(events', records) = NamedBefore(events, records)
        /\ Revisited(events', records) =
             Revisited(events, records)
               \cup (IF path # NoPath /\ path \in NamedBefore(events, records)
                     THEN {[path |-> path, step |-> step]} ELSE {})
    <3>1. \A r \in DOMAIN records : records[r] \in Nat /\ records[r] <= step
      BY <1>a
    <3>2. \A i \in DOMAIN events : events[i].step \in Nat
      BY <1>a
    <3>3. step \in Nat /\ events \in Seq(AgentEvents)
      BY <1>a
    <3> QED
      BY <2>3, <3>1, <3>2, <3>3, NamedAgain
  <2>5. pc = "execute" /\ records' = records /\ precompactionPaths' = precompactionPaths
    BY <2>2 DEF ExecuteTool, Observe
  <2>6. precompactionPaths = NamedBefore(events, records)
    BY <1>c, <2>5
  <2>7. path \in precompactionPaths => path # NoPath /\ records # <<>>
    <3>1. path \in precompactionPaths => path # NoPath
      BY DataAssumption DEF CompactionTypeOK
    <3>2. records = <<>> => precompactionPaths = {}
      BY <2>6 DEF NamedBefore
    <3> QED
      BY <3>1, <3>2
  <2>8. {revisits'[k] : k \in DOMAIN revisits'} = Revisited(events', records)
    <3>1. CASE path \in precompactionPaths
      <4>1. revisits' = Append(revisits, [path |-> path, step |-> step])
        BY <2>2, <2>7, <3>1 DEF Observe
      <4>2. revisits \in Seq([path : Paths, step : 0..(MaxSteps - 1)])
        BY DEF CompactionTypeOK
      <4>3. Entries(revisits') = Entries(revisits) \cup {[path |-> path, step |-> step]}
        BY <4>1, <4>2, EntriesAppended
      <4>4. /\ Entries(revisits) = {revisits[k] : k \in DOMAIN revisits}
            /\ Entries(revisits') = {revisits'[k] : k \in DOMAIN revisits'}
        BY DEF Entries
      <4> QED
        BY <1>c, <2>4, <2>6, <2>7, <3>1, <4>3, <4>4
    <3>2. CASE path \notin precompactionPaths
      <4>1. revisits' = revisits
        BY <2>2, <3>2 DEF Observe
      <4> QED
        BY <1>c, <2>4, <2>6, <3>2, <4>1
    <3> QED
      BY <3>1, <3>2
  <2> QED
    BY <1>b, <2>4, <2>5, <2>6, <2>8 DEF Revisiting, NamedBefore, Revisited, Revisits, Naming
<1>5. CASE Unobserved \/ CompactorRaises
  <2>1. Quiet(events', events, step) /\ UNCHANGED <<records, revisits>>
    BY <1>5, UnobservedQuietly DEF Unobserved, CompactorRaises, policyVars
  <2>2. pc' # "raised" => pc # "raised" /\ UNCHANGED precompactionPaths
    BY <1>5 DEF Unobserved, CompactorRaises, policyVars, Start, BeforeModel, AfterModelRaises,
       MalformedDecision, Finish, ChooseTool, BeforeTool, StepsExhausted, Raise, TimeExpires,
       Terminated, Terminal, Record, Answer, vars
  <2> QED
    BY <1>2, <2>1, <2>2
<1> QED
  BY <1>1, <1>3, <1>4, <1>5 DEF CompactionNext

(* A file is revisited exactly when a result names it that another named   *)
(* before a compaction before this one.                                    *)
THEOREM RevisitsAreExact == CompactionSpec => []RevisitsExact
<1>1. CompactionInit => Revisiting
  BY DEF CompactionInit, Init, Revisiting, Noted, NamedBefore, Revisited, Naming
<1>2. CompactionSpec => []TypeOK
  BY CompactionImplementsLoop, TypeCorrect, PTL
<1>3. TypeOK => policy = "compaction"
  BY CompactionAssumption DEF TypeOK
<1>4. Drained => Numbered
  BY DEF Drained
<1>5. Revisiting => RevisitsExact
  BY DEF Revisiting, RevisitsExact, Revisited, Revisits, Naming
<1> QED
  BY <1>1, <1>2, <1>3, <1>4, <1>5, RevisitingNext, DrainedInvariant, CompactionIsTyped, PTL
  DEF CompactionSpec

----------------------------------------------------------------------------
(* What a prompt is: the estimate a view was admitted by, a sum over the   *)
(* retained messages, is what its messages count, one by one.              *)
Sizes(indices) == [i \in indices |-> history[i + 1].tokens]

LEMMA TokensSummed ==
  ASSUME TypeOK, NEW indices, IsFiniteSet(indices), indices \subseteq 0..(Length - 1)
  PROVE  \E g : /\ IsSum(g, indices, Weights(Sizes(indices), indices))
                /\ TokensOf(indices) = g[indices]
<1>1. \A i \in indices : history[i + 1].tokens \in Nat
  <2>1. history \in Seq(Messages) /\ Length \in Nat /\ DOMAIN history = 1..Length
    BY DEF TypeOK, Length
  <2>2. \A i \in indices : i + 1 \in DOMAIN history
    BY <2>1
  <2>3. \A m \in Messages : m.tokens \in Nat
    BY DataAssumption DEF Messages
  <2> QED
    BY <2>1, <2>2, <2>3, Elements
<1>2. Sizes(indices) \in [indices -> Nat]
  BY <1>1 DEF Sizes
<1>3. TokensOf(indices) = SetTokens(Sizes(indices), indices)
  BY DEF TokensOf, SetTokens, Sizes
<1> QED
  BY <1>2, <1>3, MessagesSummed

(* The view with a summary of any size, from any index on.                 *)
ViewOf(conversation, size, until) ==
  SubSeq(conversation, 1, 2)
    \o (IF size > 0 THEN <<Say("system", size)>> ELSE <<>>)
    \o SubSeq(conversation, until + 1, Len(conversation))

LEMMA ViewIsOf == View = ViewOf(history, summary, compactedUntil)
  BY DEF View, ViewOf, Length

(* Which message is where in it.                                           *)
LEMMA ViewShown ==
  ASSUME TypeOK, Length >= 2, NEW until \in 2..Length, NEW size \in Nat
  PROVE  LET view == ViewOf(history, size, until)
             told == IF size > 0 THEN 1 ELSE 0
         IN  /\ view \in Seq([role : Roles, tokens : Nat])
             /\ Len(view) = 2 + told + (Length - until)
             /\ \A k \in 1..2 : view[k] = history[k]
             /\ size > 0 => view[3].tokens = size
             /\ \A k \in 1..(Length - until) : view[2 + told + k] = history[until + k]
<1> DEFINE S == [role : Roles, tokens : Nat]
           first == SubSeq(history, 1, 2)
           middle == IF size > 0 THEN <<Say("system", size)>> ELSE <<>>
           recent == SubSeq(history, until + 1, Len(history))
           told == IF size > 0 THEN 1 ELSE 0
<1>1. history \in Seq(S) /\ Len(history) \in Nat /\ Length = Len(history)
  <2>1. Messages \subseteq S
    BY DataAssumption DEF Messages
  <2> HIDE DEF S
  <2> QED
    BY <2>1, WiderSeq DEF TypeOK, Length
<1>2. Say("system", size) \in S /\ Say("system", size).tokens = size
  BY DEF Say, Roles
<1> HIDE DEF S
<1>3. first \in Seq(S) /\ Len(first) = 2 /\ \A k \in 1..2 : first[k] = history[k]
  BY <1>1
<1>4. /\ middle \in Seq(S) /\ Len(middle) = told /\ told \in {0, 1}
      /\ size > 0 => told = 1 /\ middle[1].tokens = size
  <2> HIDE DEF Say
  <2> QED
    BY <1>2
<1>5. /\ recent \in Seq(S) /\ Len(recent) = Length - until
      /\ \A k \in 1..(Length - until) : recent[k] = history[until + k]
  BY <1>1
<1> HIDE DEF first, middle, recent, told
<1>6. ViewOf(history, size, until) = (first \o middle) \o recent
  BY DEF ViewOf, first, middle, recent
<1>7. /\ first \o middle \in Seq(S) /\ Len(first \o middle) = 2 + told
      /\ \A k \in 1..2 : (first \o middle)[k] = history[k]
      /\ size > 0 => (first \o middle)[3].tokens = size
  <2>1. /\ first \o middle \in Seq(S) /\ Len(first \o middle) = Len(first) + Len(middle)
        /\ \A k \in 1..Len(first) : (first \o middle)[k] = first[k]
        /\ \A k \in 1..Len(middle) : (first \o middle)[Len(first) + k] = middle[k]
    <3>1. first \in Seq(S) /\ middle \in Seq(S) /\ Len(first) \in Nat /\ Len(middle) \in Nat
      BY <1>3, <1>4
    <3> QED
      BY <3>1
  <2>2. size > 0 => (first \o middle)[3] = middle[1]
    <3>1. size > 0 => 1 \in 1..Len(middle)
      BY <1>4
    <3>2. Len(first) + 1 = 3
      BY <1>3
    <3> QED
      BY <2>1, <3>1, <3>2
  <2> QED
    BY <1>3, <1>4, <2>1, <2>2
<1>8. Length - until \in Nat
  BY <1>1
<1>9. /\ (first \o middle) \o recent \in Seq(S)
      /\ Len((first \o middle) \o recent) = 2 + told + (Length - until)
      /\ \A k \in 1..2 : ((first \o middle) \o recent)[k] = history[k]
      /\ size > 0 => ((first \o middle) \o recent)[3].tokens = size
      /\ \A k \in 1..(Length - until) :
           ((first \o middle) \o recent)[2 + told + k] = history[until + k]
  <2> DEFINE a == first \o middle
  <2>1. a \in Seq(S) /\ Len(a) = 2 + told /\ recent \in Seq(S) /\ Len(recent) \in Nat
    BY <1>5, <1>7, <1>8
  <2> HIDE DEF a
  <2>2. /\ a \o recent \in Seq(S) /\ Len(a \o recent) = Len(a) + Len(recent)
        /\ \A k \in 1..Len(a) : (a \o recent)[k] = a[k]
        /\ \A k \in 1..Len(recent) : (a \o recent)[Len(a) + k] = recent[k]
    BY <2>1
  <2>3. \A k \in 1..2 : (a \o recent)[k] = history[k]
    BY <1>4, <1>7, <2>1, <2>2 DEF a
  <2>4. size > 0 => (a \o recent)[3].tokens = size
    BY <1>4, <1>7, <2>1, <2>2 DEF a
  <2>5. \A k \in 1..(Length - until) : (a \o recent)[2 + told + k] = history[until + k]
    BY <1>5, <2>1, <2>2
  <2> QED
    BY <1>5, <2>1, <2>2, <2>3, <2>4, <2>5 DEF a
<1> QED
  BY <1>6, <1>9 DEF S, told

LEMMA ViewMeasured ==
  ASSUME TypeOK, Length >= 2, NEW until \in 2..Length, NEW size \in Nat
  PROVE  PromptTokens(ViewOf(history, size, until)) = Estimate(until, size)
<1> DEFINE view == ViewOf(history, size, until)
           told == IF size > 0 THEN 1 ELSE 0
           extra == IF size > 0 THEN 4 + size ELSE 0
           R == Retained(until)
           n == Len(view)
           \* the messages among the first k of the view, and the summary's share
           Seen(k) == {i \in R : IF i < 2 THEN i < k ELSE (i - until) + 2 + told < k}
           Share(k) == IF k > 2 THEN extra ELSE 0
<1>1. Length \in Nat /\ until \in Nat /\ until >= 2 /\ until <= Length /\ Length = Len(history)
  BY DEF TypeOK, Length
<1>2. R = {0, 1} \cup until..(Length - 1)
  <2>1. 0..(2 - 1) = {0, 1}
    OBVIOUS
  <2>2. (IF Length < 2 THEN Length ELSE 2) = 2
    BY <1>1
  <2> QED
    BY <2>1, <2>2 DEF Retained
<1>3. IsFiniteSet(R) /\ R \subseteq 0..(Length - 1)
  <2>1. R \subseteq 0..(Length - 1)
    BY <1>1, <1>2
  <2>2. IsFiniteSet(0..(Length - 1))
    <3>1. Length - 1 \in Int /\ 0 \in Int
      BY <1>1
    <3> QED
      BY <3>1, FS_Interval
  <2> QED
    BY <2>1, <2>2, FS_Subset
<1>4. /\ view \in Seq([role : Roles, tokens : Nat])
      /\ n = 2 + told + (Length - until)
      /\ \A k \in 1..2 : view[k] = history[k]
      /\ size > 0 => view[3].tokens = size
      /\ \A k \in 1..(Length - until) : view[2 + told + k] = history[until + k]
  BY ViewShown
<1> HIDE DEF view, R
<1>5. PICK g : IsSum(g, R, Weights(Sizes(R), R)) /\ TokensOf(R) = g[R]
  BY <1>3, TokensSummed
<1>6. PICK p : Counts(p, view)
  <2>1. \A message \in [role : Roles, tokens : Nat] : message.tokens \in Nat
    OBVIOUS
  <2> QED
    BY <1>4, <2>1, PromptCounted
<1>7. \A i \in R : Weights(Sizes(R), R)[i] = history[i + 1].tokens + 4
  BY DEF Weights, Sizes
<1>8. told \in {0, 1} /\ (told = 0 => extra = 0) /\ (told = 1 => extra = 4 + size /\ size > 0)
      /\ extra \in Nat /\ n \in Nat
  BY <1>1, <1>4
<1> HIDE DEF n, told, extra
<1>9. \A i \in R : i \in Nat /\ history[i + 1].tokens \in Nat
  <2>1. \A i \in R : i + 1 \in 1..Length
    BY <1>1, <1>3
  <2>2. \A m \in Messages : m.tokens \in Nat
    BY DataAssumption DEF Messages
  <2>3. history \in Seq(Messages) /\ DOMAIN history = 1..Length
    BY <1>1 DEF TypeOK
  <2> QED
    BY <1>1, <1>3, <2>1, <2>2, <2>3, Elements
<1>10. \A s \in SUBSET R : g[s] \in Nat
  BY <1>5 DEF IsSum
<1>11. ASSUME NEW k \in 0..(n - 1)
       PROVE  g[Seen(k + 1)] + Share(k + 1) = g[Seen(k)] + Share(k) + 4 + view[k + 1].tokens
  <2>1. CASE k < 2
    <3>1. k \in R /\ Seen(k + 1) \ {k} = Seen(k) /\ k \in Seen(k + 1) /\ Seen(k + 1) \in SUBSET R
      BY <1>1, <1>2, <1>8, <2>1
    <3>2. g[Seen(k + 1)] = (history[k + 1].tokens + 4) + g[Seen(k)]
      <4>1. g[Seen(k + 1)] = Weights(Sizes(R), R)[k] + g[Seen(k + 1) \ {k}]
        BY <1>5, <3>1 DEF IsSum
      <4> HIDE DEF Seen
      <4> QED
        BY <1>7, <3>1, <4>1
    <3>3. view[k + 1] = history[k + 1]
      <4>1. k + 1 \in 1..2
        BY <1>8, <2>1
      <4> HIDE DEF Seen, Share
      <4> QED
        BY <1>4, <4>1
    <3>4. Share(k + 1) = 0 /\ Share(k) = 0
      BY <2>1
    <3>5. /\ g[Seen(k)] \in Nat /\ history[k + 1].tokens \in Nat
          /\ Seen(k) \in SUBSET R
      <4>1. Seen(k) \in SUBSET R
        BY <1>2
      <4> QED
        BY <1>9, <1>10, <3>1, <4>1
    <3>6. ((history[k + 1].tokens + 4) + g[Seen(k)]) + 0
            = g[Seen(k)] + 0 + 4 + history[k + 1].tokens
      <4> HIDE DEF Seen, Share
      <4> QED
        BY <3>5
    <3> QED
      <4> HIDE DEF Seen, Share
      <4> QED
        BY <3>2, <3>3, <3>4, <3>6
  <2>2. CASE k = 2 /\ told = 1
    <3>1. Seen(k + 1) = Seen(k)
      BY <1>1, <1>2, <1>8, <2>2
    <3>2. Share(k + 1) = 4 + size /\ Share(k) = 0 /\ view[k + 1].tokens = size
      BY <1>4, <1>8, <2>2
    <3>3. g[Seen(k)] \in Nat /\ size \in Nat
      <4>1. Seen(k) \in SUBSET R
        BY <1>2
      <4> QED
        BY <1>4, <1>8, <1>10, <4>1
    <3>4. g[Seen(k)] + (4 + size) = g[Seen(k)] + 0 + 4 + size
      <4> HIDE DEF Seen, Share
      <4> QED
        BY <3>3
    <3> QED
      <4> HIDE DEF Seen, Share
      <4> QED
        BY <3>1, <3>2, <3>4
  <2>3. CASE k >= 2 + told
    <3> DEFINE j == k - 2 - told
    <3>1. j \in Nat /\ until + j \in until..(Length - 1) /\ j + 1 \in 1..(Length - until)
          /\ k = 2 + told + j
      BY <1>1, <1>4, <1>8, <2>3
    <3> HIDE DEF j
    <3>2. /\ until + j \in R /\ Seen(k + 1) \ {until + j} = Seen(k)
          /\ until + j \in Seen(k + 1) /\ Seen(k + 1) \in SUBSET R
      <4>1. until + j \in R /\ until + j \in Seen(k + 1)
        BY <1>1, <1>2, <1>8, <3>1
      <4>2. Seen(k + 1) \in SUBSET R
        BY <1>2
      <4>3. ASSUME NEW i \in R
            PROVE  (i \in Seen(k + 1) /\ i # until + j) <=> i \in Seen(k)
        BY <1>1, <1>2, <1>8, <3>1
      <4> QED
        BY <4>1, <4>2, <4>3
    <3>3. g[Seen(k + 1)] = (history[until + j + 1].tokens + 4) + g[Seen(k)]
      <4> HIDE DEF Seen, Share
      <4>1. \A s \in SUBSET R : \A x \in s :
              g[s] = Weights(Sizes(R), R)[x] + g[s \ {x}]
        BY <1>5 DEF IsSum
      <4>2. g[Seen(k + 1)] = Weights(Sizes(R), R)[until + j] + g[Seen(k + 1) \ {until + j}]
        BY <3>2, <4>1
      <4> QED
        BY <1>7, <3>2, <4>2
    <3>4. view[k + 1] = history[until + j + 1]
      <4>1. view[2 + told + (j + 1)] = history[until + (j + 1)]
        <5> HIDE DEF Seen, Share
        <5> QED
          BY <1>4, <3>1
      <4>2. 2 + told + (j + 1) = k + 1 /\ until + (j + 1) = until + j + 1
        BY <1>1, <1>8, <3>1
      <4> QED
        BY <4>1, <4>2
    <3>5. Share(k + 1) = Share(k)
      BY <1>8, <2>3
    <3>6. g[Seen(k)] \in Nat /\ Share(k) \in Nat /\ history[until + j + 1].tokens \in Nat
      BY <1>8, <1>9, <1>10, <3>2
    <3> QED
      BY <3>3, <3>4, <3>5, <3>6
  <2> QED
    BY <1>8, <2>1, <2>2, <2>3
<1> DEFINE T == {k \in 0..n : p[k] = 3 + g[Seen(k)] + Share(k)}
<1>12. 0 \in T
  <2>1. Seen(0) = {}
    BY <1>1, <1>2, <1>8
  <2>2. p[0] = 3 /\ g[{}] = 0
    BY <1>5, <1>6 DEF IsSum, Counts
  <2> QED
    BY <1>8, <2>1, <2>2
<1>13. ASSUME NEW k \in 0..(n - 1), k \in T PROVE k + 1 \in T
  <2>1. p[k + 1] = p[k] + 4 + view[k + 1].tokens
    BY <1>6 DEF Counts, n
  <2>2. view[k + 1].tokens \in Nat
    <3>1. k + 1 \in 1..n /\ DOMAIN view = 1..n
      BY <1>4, <1>8 DEF n
    <3>2. view[k + 1] \in [role : Roles, tokens : Nat]
      BY <1>4, <3>1, Elements
    <3> QED
      BY <3>2
  <2>3. g[Seen(k)] \in Nat /\ g[Seen(k + 1)] \in Nat /\ Share(k) \in Nat /\ Share(k + 1) \in Nat
    BY <1>8, <1>10
  <2>4. k + 1 \in 0..n
    BY <1>8
  <2> HIDE DEF Seen, Share
  <2> QED
    BY <1>11, <1>13, <2>1, <2>2, <2>3, <2>4
<1>14. n \in T
  <2> HIDE DEF T
  <2> QED
    BY <1>8, <1>12, <1>13, PrefixInduction
<1>15. Seen(n) = R /\ Share(n) = extra
  BY <1>1, <1>2, <1>4, <1>8
<1>16. p[n] = PromptTokens(view)
  BY <1>6 DEF Counts, n
<1>17. PromptTokens(view) = 3 + TokensOf(R) + extra
  BY <1>5, <1>14, <1>15, <1>16
<1> QED
  BY <1>17 DEF Estimate, R, extra, view

LEMMA EstimateTyped ==
  ASSUME TypeOK, Length >= 2, NEW until \in 2..Length, NEW size \in Nat
  PROVE  Estimate(until, size) \in Nat
<1>1. PICK p : Counts(p, ViewOf(history, size, until))
  <2>1. ViewOf(history, size, until) \in Seq([role : Roles, tokens : Nat])
    BY ViewShown
  <2>2. \A message \in [role : Roles, tokens : Nat] : message.tokens \in Nat
    OBVIOUS
  <2> QED
    BY <2>1, <2>2, PromptCounted
<1>2. ViewOf(history, size, until) \in Seq([role : Roles, tokens : Nat])
  BY ViewShown
<1>3. Len(ViewOf(history, size, until)) \in 0..Len(ViewOf(history, size, until))
  BY <1>2
<1>4. PromptTokens(ViewOf(history, size, until)) \in Nat
  BY <1>1, <1>3 DEF Counts
<1> QED
  BY <1>4, ViewMeasured

----------------------------------------------------------------------------
(* The window: a compaction stops where the recent messages begin, which   *)
(* is between two exchanges when the window is even, for a preparation     *)
(* finds every question answered.                                          *)
Windowed ==
  /\ compactedUntil > 2 => compactedUntil <= Length - RecentMessages
  /\ RecentMessages % 2 = 0 => compactedUntil % 2 = 0

LEMMA Later ==
  ASSUME NEW early \in Nat, NEW late \in Nat, late >= early, NEW window \in Nat,
         NEW end \in Int, end <= early - window
  PROVE  end <= late - window
  OBVIOUS

LEMMA WindowedNext ==
  ASSUME TypeOK, TypeOK', CompactionTypeOK, Exchanged, Fresh, Windowed,
         [CompactionNext]_allVars, policy = "compaction"
  PROVE  Windowed'
<1>a. /\ Length \in Nat /\ Length' \in Nat /\ compactedUntil \in Nat /\ RecentMessages \in Nat \ {0}
  BY CompactionAssumption DEF TypeOK, CompactionTypeOK, Length
<1>1. Length' >= Length
  <2>1. [Next]_vars
    BY CompactionStepIsLoopStep DEF allVars, vars
  <2> QED
    BY <2>1, AppendNext DEF Extends, Length
<1>2. CASE UNCHANGED compactedUntil
  <2>1. ASSUME compactedUntil <= Length - RecentMessages
        PROVE  compactedUntil <= Length' - RecentMessages
    <3>1. RecentMessages \in Nat /\ compactedUntil \in Int
      BY <1>a
    <3>2. Length \in Nat /\ Length' \in Nat
      BY <1>a
    <3> QED
      BY <1>1, <2>1, <3>1, <3>2, Later
  <2>2. compactedUntil > 2 => compactedUntil <= Length' - RecentMessages
    BY <2>1 DEF Windowed
  <2>3. RecentMessages % 2 = 0 => compactedUntil % 2 = 0
    BY DEF Windowed
  <2> QED
    BY <1>2, <2>2, <2>3 DEF Windowed
<1>3. CASE pc = "prepare" /\ Compacts /\ compactedUntil' = CompactableEnd
  <2>1. compactedUntil' = Length - RecentMessages
    BY <1>a, <1>3 DEF Compacts, CompactableEnd
  <2>2. Length % 2 = 0
    BY <1>3 DEF Exchanged, Turns, Length
  <2>3. RecentMessages % 2 = 0 => (Length - RecentMessages) % 2 = 0
    BY <1>a, <2>2
  <2>4. compactedUntil' <= Length' - RecentMessages
    <3>1. Length - RecentMessages <= Length - RecentMessages /\ compactedUntil' \in Int
      BY <1>a, <2>1
    <3> QED
      BY <1>a, <1>1, <2>1, <3>1, Later
  <2> QED
    BY <2>1, <2>3, <2>4 DEF Windowed
<1>4. UNCHANGED compactedUntil \/ (pc = "prepare" /\ Compacts /\ compactedUntil' = CompactableEnd)
  BY DEF CompactionNext, Prepare, Compact, CompactorRaises, ExecuteObserved, Observe, Unobserved,
         policyVars, allVars
<1> QED
  BY <1>2, <1>3, <1>4

LEMMA WindowIsWhole ==
  ASSUME TypeOK, CompactionTypeOK, Exchanged, Windowed
  PROVE  RecentWindowWhole
<1>1. /\ Length \in Nat /\ compactedUntil \in Nat /\ RecentMessages \in Nat \ {0}
      /\ DOMAIN history = 1..Length
  BY CompactionAssumption DEF TypeOK, CompactionTypeOK, Length
<1>2. ASSUME compactedUntil > 2, RecentMessages % 2 = 0
      PROVE  history[compactedUntil + 1].role = "assistant"
  <2>1. compactedUntil % 2 = 0 /\ compactedUntil <= Length - RecentMessages
    BY <1>2 DEF Windowed
  <2>2. (compactedUntil + 1) % 2 = 1
    BY <1>1, <2>1, Parity
  <2>3. compactedUntil + 1 \in DOMAIN history /\ compactedUntil + 1 > 2
    BY <1>1, <1>2, <2>1
  <2> QED
    BY <2>2, <2>3 DEF Exchanged, ConversationMatchesTrace
<1> QED
  BY <1>2 DEF RecentWindowWhole, Windowed

FitsOf(place, conversation, size, until) ==
  place \in {"request", "awaiting"} =>
    PromptTokens(ViewOf(conversation, size, until)) <= UsablePromptTokens

LEMMA RequestsFitOf ==
  /\ RequestsFit <=> FitsOf(pc, history, summary, compactedUntil)
  /\ RequestsFit' <=> FitsOf(pc', history', summary', compactedUntil')
<1>1. RequestsFit <=> FitsOf(pc, history, summary, compactedUntil)
  BY ViewIsOf DEF RequestsFit, FitsOf, PromptTokens
<1>2. RequestsFit' <=> FitsOf(pc', history', summary', compactedUntil')
  BY DEF RequestsFit, FitsOf, PromptTokens, View, ViewOf, Length, FoldLeft, MapThenFoldSet
<1> QED
  BY <1>1, <1>2

(* A prompt is sent only when its estimate fits, and the estimate is what  *)
(* it counts.                                                              *)
LEMMA FitsNext ==
  ASSUME TypeOK, CompactionTypeOK, Exchanged, Windowed, RequestsFit,
         [CompactionNext]_allVars, policy = "compaction"
  PROVE  RequestsFit'
<1>a. /\ Length \in Nat /\ compactedUntil \in Nat /\ compactedUntil >= 2 /\ summary \in Nat
      /\ RecentMessages \in Nat \ {0} /\ UsablePromptTokens \in Nat
  BY CompactionAssumption DEF TypeOK, CompactionTypeOK, Length
<1>b. FitsOf(pc, history, summary, compactedUntil)
  BY RequestsFitOf
<1> SUFFICES FitsOf(pc', history', summary', compactedUntil')
  BY RequestsFitOf
<1>1. ASSUME pc = "prepare", history' = history, NEW size \in Nat, NEW until \in Nat,
             until >= 2, until <= Length, summary' = size, compactedUntil' = until,
             ~(Estimate(until, size) > UsablePromptTokens)
      PROVE  FitsOf(pc', history', summary', compactedUntil')
  <2>1. Length >= 2
    BY <1>1 DEF Exchanged, Turns, Length
  <2>2. PromptTokens(ViewOf(history, size, until)) = Estimate(until, size)
    BY <1>a, <1>1, <2>1, ViewMeasured
  <2>3. Estimate(until, size) \in Nat
    BY <1>a, <1>1, <2>1, EstimateTyped
  <2> QED
    BY <1>a, <1>1, <2>2, <2>3 DEF FitsOf
<1>2. CASE UNCHANGED <<history, summary, compactedUntil>>
           /\ (pc' \in {"request", "awaiting"} => pc \in {"request", "awaiting"})
  BY <1>b, <1>2 DEF FitsOf
<1>3. CASE Prepare
  <2>1. CASE pc' \notin {"request", "awaiting"}
    BY <2>1 DEF FitsOf
  <2>2. CASE pc' \in {"request", "awaiting"}
    <3>0. \A compaction : ~ContextOverflow(compaction)
      BY <2>2 DEF ContextOverflow
    <3>1. CASE /\ UNCHANGED policyVars /\ PrepareContext("none")
               /\ ~(Estimate(compactedUntil, summary) > UsablePromptTokens)
      <4>1. pc = "prepare" /\ history' = history /\ summary' = summary
            /\ compactedUntil' = compactedUntil
        BY <3>1 DEF PrepareContext, policyVars
      <4>2. compactedUntil <= Length
        <5>1. Length >= 2
          BY <4>1 DEF Exchanged, Turns, Length
        <5>2. compactedUntil = 2 \/ compactedUntil <= Length - RecentMessages
          BY <1>a DEF Windowed
        <5> QED
          BY <1>a, <5>1, <5>2
      <4> QED
        BY <1>a, <1>1, <3>1, <4>1, <4>2
    <3>2. ASSUME NEW size \in SummaryTokens, pc = "prepare", Compacts, Compact(size),
                 PrepareContext(Compactor),
                 ~(Estimate(CompactableEnd, size) > UsablePromptTokens)
          PROVE  FitsOf(pc', history', summary', compactedUntil')
      <4>1. /\ CompactableEnd \in Nat /\ CompactableEnd >= 2 /\ CompactableEnd <= Length
        BY <1>a, <3>2 DEF Compacts, CompactableEnd
      <4>2. size \in Nat /\ history' = history /\ summary' = size
            /\ compactedUntil' = CompactableEnd
        BY <3>2, CompactionAssumption DEF Compact, PrepareContext
      <4> QED
        BY <1>1, <3>2, <4>1, <4>2
    <3> QED
      BY <1>3, <3>0, <3>1, <3>2 DEF Prepare
  <2> QED
    BY <2>1, <2>2
<1>4. CASE ExecuteObserved \/ CompactorRaises
  <2>1. pc' \notin {"request", "awaiting"}
    BY <1>4 DEF ExecuteObserved, ExecuteTool, Advance, CompactorRaises, Raise
  <2> QED
    BY <2>1 DEF FitsOf
<1>5. CASE Unobserved
  <2>1. UNCHANGED <<summary, compactedUntil>>
    BY <1>5 DEF Unobserved, policyVars
  <2>2. \/ pc' \notin {"request", "awaiting"}
        \/ UNCHANGED history /\ pc \in {"request", "awaiting"}
    BY <1>5 DEF Unobserved, Start, BeforeModel, AfterModelRaises, MalformedDecision, Finish,
                ChooseTool, BeforeTool, StepsExhausted, Raise, TimeExpires, Terminated,
                FailLimit, Advance, vars
  <2> QED
    BY <1>2, <2>1, <2>2 DEF FitsOf
<1>6. CASE UNCHANGED allVars
  BY <1>2, <1>6 DEF allVars, vars, policyVars
<1> QED
  BY <1>3, <1>4, <1>5, <1>6 DEF CompactionNext

(* What is sent is whole and fits: the recent messages are all in it, the  *)
(* first of them answered, and it counts no more than the budget, its      *)
(* summary with it.                                                        *)
THEOREM ViewsAreSound == CompactionSpec => []ViewSound
<1>1. CompactionInit => Windowed /\ RequestsFit
  <2>1. CompactionInit => compactedUntil = 2 /\ pc = "start"
    BY DEF CompactionInit, Init
  <2>2. compactedUntil = 2 => Windowed
    BY DEF Windowed
  <2> QED
    BY <2>1, <2>2 DEF RequestsFit
<1>2. CompactionSpec => []TypeOK /\ []Exchanged /\ []Fresh
  BY CompactionImplementsLoop, TypeCorrect, ExchangedInvariant, FreshInvariant, PTL
<1>3. TypeOK => policy = "compaction"
  BY CompactionAssumption DEF TypeOK
<1>4. /\ TypeOK /\ TypeOK' /\ CompactionTypeOK /\ Exchanged /\ Fresh /\ Windowed /\ RequestsFit
      /\ [CompactionNext]_allVars
      => Windowed' /\ RequestsFit'
  BY <1>3, WindowedNext, FitsNext
<1>5. TypeOK /\ CompactionTypeOK /\ Exchanged /\ Windowed /\ RequestsFit => ViewSound
  BY WindowIsWhole DEF ViewSound
<1> QED
  BY <1>1, <1>2, <1>4, <1>5, CompactionIsTyped, PTL DEF CompactionSpec
=============================================================================
