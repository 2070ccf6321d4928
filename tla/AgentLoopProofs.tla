-------------------------- MODULE AgentLoopProofs --------------------------
(***************************************************************************)
(* Theorems about AgentLoop for every choice of limits, policies, tools    *)
(* and message sizes: what the counters of a run are kept to, what its     *)
(* trace and its conversation say of it, and that a trace is closed once,  *)
(* with the verdict the run returned.                                      *)
(***************************************************************************)
EXTENDS AgentLoop, FiniteSetTheorems, SequenceTheorems, TLAPS

----------------------------------------------------------------------------
(* What an emitted event and a message are, as facts to cite.              *)
LEMMA EventTyped ==
  ASSUME TypeOK, NEW kind \in Kinds, NEW note \in Notes,
         NEW path \in Paths \cup {NoPath}
  PROVE  Event(kind, note, path) \in AgentEvents
  BY DEF TypeOK, Event, AgentEvents

LEMMA SaidTyped ==
  ASSUME NEW role \in Roles, NEW tokens \in ContentTokens
  PROVE  Say(role, tokens) \in Messages
  BY DEF Say, Messages

LEMMA AppendTyped ==
  ASSUME NEW S, NEW s \in Seq(S), NEW a \in S
  PROVE  Append(s, a) \in Seq(S)
  OBVIOUS

LEMMA EmitTyped ==
  ASSUME TypeOK, NEW kind \in Kinds, NEW note \in Notes,
         NEW path \in Paths \cup {NoPath}, Emit(kind, note, path)
  PROVE  events' \in Seq(AgentEvents)
<1>1. Event(kind, note, path) \in AgentEvents
  BY EventTyped
<1>2. events \in Seq(AgentEvents)
  BY DEF TypeOK
<1> QED
  BY <1>1, <1>2 DEF Emit

(* A compaction policy does not retrieve: a preparation emits one event or *)
(* two.                                                                    *)
LEMMA PreparedTraceShape ==
  ASSUME NEW compaction \in Compactions
  PROVE  PreparedTrace(compaction) =
           IF compaction # "none"
           THEN Append(Append(events, Event("compaction", compaction, NoPath)),
                       Event("context_prepared", "none", NoPath))
           ELSE IF policy = "retrieval"
           THEN Append(Append(events, Event("retrieval", "automatic", NoPath)),
                       Event("context_prepared", "none", NoPath))
           ELSE Append(events, Event("context_prepared", "none", NoPath))
  BY DEF PreparedTrace, Compactions

(* The totals with one more response of each kind.                         *)
LEMMA AgentCounted ==
  ASSUME NEW t \in InferenceTotals, NEW n \in Nat, NEW u,
         u = [t EXCEPT !.requests = @ + n, !.agent_tokens = @ + n]
  PROVE  /\ u \in InferenceTotals
         /\ u.requests = t.requests + n /\ u.agent_tokens = t.agent_tokens + n
         /\ u.auxiliary_tokens = t.auxiliary_tokens
<1> DEFINE v == [t EXCEPT !.requests = @ + n]
<1>1. /\ v \in InferenceTotals /\ v.requests = t.requests + n
      /\ v.agent_tokens = t.agent_tokens /\ v.auxiliary_tokens = t.auxiliary_tokens
  BY DEF InferenceTotals
<1>2. u = [v EXCEPT !.agent_tokens = v.agent_tokens + n]
  BY <1>1
<1> HIDE DEF v
<1> QED
  BY <1>1, <1>2 DEF InferenceTotals

LEMMA AuxiliaryCounted ==
  ASSUME NEW t \in InferenceTotals, NEW n \in Nat, NEW u,
         u = [t EXCEPT !.requests = @ + n, !.auxiliary_tokens = @ + n]
  PROVE  /\ u \in InferenceTotals
         /\ u.requests = t.requests + n /\ u.agent_tokens = t.agent_tokens
         /\ u.auxiliary_tokens = t.auxiliary_tokens + n
<1> DEFINE v == [t EXCEPT !.requests = @ + n]
<1>1. /\ v \in InferenceTotals /\ v.requests = t.requests + n
      /\ v.agent_tokens = t.agent_tokens /\ v.auxiliary_tokens = t.auxiliary_tokens
  BY DEF InferenceTotals
<1>2. u = [v EXCEPT !.auxiliary_tokens = v.auxiliary_tokens + n]
  BY <1>1
<1> HIDE DEF v
<1> QED
  BY <1>1, <1>2 DEF InferenceTotals

----------------------------------------------------------------------------
(* Type correctness: every reachable state of a run has the declared type. *)
LEMMA TypeInit == Init => TypeOK
<1> SUFFICES ASSUME Init PROVE TypeOK
  OBVIOUS
<1>1. step \in 0..(MaxSteps - 1)
  BY LimitsAssumption DEF Init
<1>2. tracker \in LimitTrackers /\ totals \in InferenceTotals /\ answered \in ByKind
  BY DEF Init, LimitTrackers, InferenceTotals, ByKind
<1>3. pc \in Places /\ failure \in Failures
  BY DEF Init, Places, Failures
<1>4. history \in Seq(Messages) /\ events \in Seq(AgentEvents)
  BY DEF Init
<1>5. /\ policy \in Policies /\ toolCalls \in Nat /\ filesModified \subseteq Paths
      /\ completed \in BOOLEAN /\ expired \in BOOLEAN
  BY DEF Init
<1> QED
  BY <1>1, <1>2, <1>3, <1>4, <1>5 DEF TypeOK

LEMMA TypeNext == TypeOK /\ [Next]_vars => TypeOK'
<1> SUFFICES ASSUME TypeOK, [Next]_vars PROVE TypeOK'
  OBVIOUS
<1>a. history \in Seq(Messages) /\ events \in Seq(AgentEvents)
  BY DEF TypeOK
<1>b. tracker \in LimitTrackers /\ totals \in InferenceTotals /\ answered \in ByKind
  BY DEF TypeOK
<1>1. CASE Start
  BY <1>1, SaidTyped DEF Start, TypeOK, work, verdict, Roles, Places
<1>2. ASSUME NEW compaction \in Compactions, PrepareContext(compaction)
      PROVE  TypeOK'
  <2>1. compaction \in {"none", "deterministic", "auxiliary"}
    BY DEF Compactions
  <2>2. events' \in Seq(AgentEvents)
    <3>1. Event("compaction", compaction, NoPath) \in AgentEvents \/ compaction = "none"
      BY <2>1, EventTyped DEF Kinds, Notes
    <3>2. Event("retrieval", "automatic", NoPath) \in AgentEvents
      BY EventTyped DEF Kinds, Notes
    <3>3. Event("context_prepared", "none", NoPath) \in AgentEvents
      BY EventTyped DEF Kinds, Notes
    <3>4. CASE compaction # "none"
      BY <1>2, <1>a, <2>1, <3>1, <3>3, <3>4, AppendTyped, PreparedTraceShape
         DEF PrepareContext
    <3>5. CASE compaction = "none" /\ policy # "retrieval"
      BY <1>2, <1>a, <3>3, <3>5, AppendTyped, PreparedTraceShape DEF PrepareContext
    <3>6. CASE compaction = "none" /\ policy = "retrieval"
      BY <1>2, <1>a, <3>2, <3>3, <3>6, AppendTyped, PreparedTraceShape
         DEF PrepareContext
    <3> QED
      BY <3>4, <3>5, <3>6
  <2>3. totals' \in InferenceTotals /\ answered' \in ByKind
    <3>1. AuxiliaryCalls(compaction) \in Nat
      BY DEF AuxiliaryCalls
    <3>2. totals' \in InferenceTotals
      <4>1. totals' = [totals EXCEPT !.requests = @ + AuxiliaryCalls(compaction),
                                     !.auxiliary_tokens = @ + AuxiliaryCalls(compaction)]
        BY <1>2 DEF PrepareContext, RecordAuxiliary
      <4> QED
        BY <1>b, <3>1, <4>1, AuxiliaryCounted
    <3>3. answered' \in ByKind
      <4>1. answered' = [answered EXCEPT !.auxiliary = @ + AuxiliaryCalls(compaction)]
        BY <1>2 DEF PrepareContext
      <4> QED
        BY <1>b, <3>1, <4>1 DEF ByKind
    <3> QED
      BY <3>2, <3>3
  <2> QED
    BY <1>2, <2>2, <2>3 DEF PrepareContext, TypeOK, verdict, Places
<1>3. ASSUME NEW compaction \in Compactions, ContextOverflow(compaction)
      PROVE  TypeOK'
  <2>1. events' \in Seq(AgentEvents)
    BY <1>3, EmitTyped DEF ContextOverflow, Kinds, Notes
  <2>2. answered' \in ByKind
    <3>1. answered' = [answered EXCEPT !.auxiliary = @ + AuxiliaryCalls(compaction)]
      BY <1>3 DEF ContextOverflow
    <3> QED
      BY <1>b, <3>1 DEF AuxiliaryCalls, ByKind
  <2> QED
    BY <1>3, <2>1, <2>2 DEF ContextOverflow, TypeOK, Places, Terminal, Failures
<1>4. ASSUME NEW reason \in LimitReasons, FailLimit(reason)
      PROVE  /\ events' \in Seq(AgentEvents) /\ pc' \in Places
             /\ failure' \in Failures
  <2>1. events' \in Seq(AgentEvents)
    BY <1>4, EmitTyped DEF FailLimit, Kinds, Notes
  <2> QED
    BY <1>4, <2>1 DEF FailLimit, Places, Terminal, Failures
<1>5. CASE BeforeModel
  <2>1. tracker' \in LimitTrackers
    BY <1>5 DEF BeforeModel, TypeOK, LimitTrackers
  <2>2. /\ events' \in Seq(AgentEvents) /\ pc' \in Places
        /\ failure' \in Failures
    BY <1>4, <1>5 DEF BeforeModel, LimitReasons, TypeOK, Places
  <2> QED
    BY <1>5, <2>1, <2>2 DEF BeforeModel, TypeOK
<1>6. ASSUME NEW tokens \in ResponseTokens, Answer(tokens)
      PROVE  answered' \in ByKind /\ tracker' \in LimitTrackers
  <2>1. tokens \in Nat
    BY DataAssumption
  <2>2. answered' \in ByKind
    BY <1>6, <1>b DEF Answer, ByKind
  <2>3. tracker' \in LimitTrackers
    BY <1>6, <1>b, <2>1 DEF Answer, LimitTrackers
  <2> QED
    BY <2>2, <2>3
<1>7. ASSUME Record
      PROVE  /\ answered' \in ByKind /\ tracker' \in LimitTrackers
             /\ totals' \in InferenceTotals
  <2>1. answered' \in ByKind /\ tracker' \in LimitTrackers
    BY <1>6, <1>7 DEF Record
  <2>2. totals' = [totals EXCEPT !.requests = @ + 1, !.agent_tokens = @ + 1]
    BY <1>7 DEF Record
  <2> QED
    BY <1>b, <2>1, <2>2, AgentCounted
<1>8. Advance => step' \in 0..(MaxSteps - 1) /\ pc' \in Places
  BY LimitsAssumption DEF Advance, TypeOK, Places
<1>9. CASE AfterModelRaises
  <2>1. /\ events' \in Seq(AgentEvents) /\ pc' \in Places
        /\ failure' \in Failures
    BY <1>4, <1>9 DEF AfterModelRaises, LimitReasons
  <2>2. answered' \in ByKind /\ tracker' \in LimitTrackers
    BY <1>6, <1>9 DEF AfterModelRaises
  <2> QED
    BY <1>9, <2>1, <2>2 DEF AfterModelRaises, TypeOK
<1>10. ASSUME Emit("inference_response", "none", NoPath)
       PROVE  events' \in Seq(AgentEvents)
  BY <1>10, EmitTyped DEF Kinds, Notes
<1>11. CASE MalformedDecision
  <2>1. history' \in Seq(Messages)
    <3>1. PICK a, u \in ContentTokens : history' = Correction(a, u)
      BY <1>11 DEF MalformedDecision
    <3>2. Say("assistant", a) \in Messages /\ Say("user", u) \in Messages
      BY SaidTyped DEF Roles
    <3> QED
      BY <1>a, <3>1, <3>2 DEF Correction
  <2> QED
    BY <1>11, <1>7, <1>8, <1>10, <2>1 DEF MalformedDecision, Record, TypeOK, verdict
<1>12. CASE Finish
  <2>1. history' \in Seq(Messages)
    <3>1. PICK a \in ContentTokens : history' = Append(history, Say("assistant", a))
      BY <1>12 DEF Finish
    <3>2. Say("assistant", a) \in Messages
      BY SaidTyped DEF Roles
    <3> QED
      BY <1>a, <3>1, <3>2
  <2>2. events' \in Seq(AgentEvents)
    <3>1. Event("inference_response", "none", NoPath) \in AgentEvents
      BY EventTyped DEF Kinds, Notes
    <3>2. Event("status", "completed", NoPath) \in AgentEvents
      BY EventTyped DEF Kinds, Notes
    <3> QED
      <4>1. events' = Append(Append(events, Event("inference_response", "none", NoPath)),
                             Event("status", "completed", NoPath))
        BY <1>12 DEF Finish
      <4> QED
        BY <1>a, <3>1, <3>2, <4>1, AppendTyped
  <2> QED
    BY <1>12, <1>7, <2>1, <2>2 DEF Finish, Record, TypeOK, Places, Terminal
<1>13. CASE ChooseTool
  <2>1. history' \in Seq(Messages)
    <3>1. PICK a \in ContentTokens : history' = Append(history, Say("assistant", a))
      BY <1>13 DEF ChooseTool
    <3>2. Say("assistant", a) \in Messages
      BY SaidTyped DEF Roles
    <3> QED
      BY <1>a, <3>1, <3>2
  <2> QED
    BY <1>13, <1>7, <1>10, <2>1 DEF ChooseTool, Record, TypeOK, verdict, Places
<1>14. CASE BeforeTool
  <2>1. tracker' \in LimitTrackers
    BY <1>14 DEF BeforeTool, TypeOK, LimitTrackers
  <2>2. /\ events' \in Seq(AgentEvents) /\ pc' \in Places
        /\ failure' \in Failures
    BY <1>4, <1>14 DEF BeforeTool, LimitReasons, TypeOK, Places
  <2> QED
    BY <1>14, <2>1, <2>2 DEF BeforeTool, TypeOK
<1>15. ASSUME NEW tool \in Tools, NEW path \in PathsNamed(tool),
              ExecuteTool(tool, path)
       PROVE  TypeOK'
  <2>1. path \in Paths \cup {NoPath}
    BY DEF PathsNamed
  <2>2. events' \in Seq(AgentEvents)
    <3>1. Event("retrieval", "explicit", NoPath) \in AgentEvents
      BY EventTyped DEF Kinds, Notes
    <3>2. Event("tool_result", tool, path) \in AgentEvents
      BY <2>1, EventTyped, DataAssumption DEF Kinds, Notes
    <3> QED
      BY <1>15, <3>1, <3>2 DEF ExecuteTool, TypeOK
  <2>3. history' \in Seq(Messages)
    BY <1>15, SaidTyped DEF ExecuteTool, TypeOK, Roles
  <2>4. filesModified' \subseteq Paths
    BY <1>15, <2>1 DEF ExecuteTool, Modified, TypeOK
  <2> QED
    BY <1>15, <1>8, <2>2, <2>3, <2>4 DEF ExecuteTool, TypeOK, verdict
<1>16. CASE StepsExhausted
  BY <1>16, <1>4 DEF StepsExhausted, LimitReasons, TypeOK, work
<1>17. CASE Raise
  BY <1>17 DEF Raise, TypeOK, work, verdict, Places, Terminal
<1>18. CASE TimeExpires
  BY <1>18 DEF TimeExpires, TypeOK, work, verdict
<1>19. CASE UNCHANGED vars
  BY <1>19 DEF vars, TypeOK, work, verdict
<1> QED
  BY <1>1, <1>2, <1>3, <1>5, <1>9, <1>11, <1>12, <1>13, <1>14, <1>15, <1>16,
     <1>17, <1>18, <1>19 DEF Next, Loop, Terminated

THEOREM TypeCorrect == Spec => []TypeOK
  BY TypeInit, TypeNext, PTL DEF Spec

----------------------------------------------------------------------------
(* The counters of an iteration, the strengthening of everything below.    *)
LEMMA ProgressInit == Init => Progress
  BY LimitsAssumption DEF Init, Progress

LEMMA ProgressNext == TypeOK /\ Progress /\ [Next]_vars => Progress'
<1> SUFFICES ASSUME TypeOK, Progress, [Next]_vars PROVE Progress'
  OBVIOUS
<1>a. /\ tracker \in LimitTrackers /\ step \in Nat /\ step < MaxSteps
      /\ completed \in BOOLEAN
  BY LimitsAssumption DEF TypeOK
<1> USE LimitsAssumption DEF Progress, LimitTrackers
<1>1. CASE Start
  BY <1>1, <1>a DEF Start, work, verdict
<1>2. ASSUME NEW compaction \in Compactions, PrepareContext(compaction)
      PROVE  Progress'
  BY <1>2, <1>a DEF PrepareContext, verdict
<1>3. ASSUME NEW compaction \in Compactions, ContextOverflow(compaction)
      PROVE  Progress'
  BY <1>3, <1>a DEF ContextOverflow
<1>4. CASE BeforeModel
  BY <1>4, <1>a DEF BeforeModel, FailLimit
<1>5. CASE AfterModelRaises
  BY <1>5, <1>a DEF AfterModelRaises, Answer, FailLimit
<1>6. CASE MalformedDecision
  <2>1. /\ pc = "awaiting" /\ UNCHANGED verdict
        /\ tracker'.model_requests = tracker.model_requests
        /\ tracker'.tool_calls = tracker.tool_calls
    BY <1>6, <1>a DEF MalformedDecision, Record, Answer
  <2>2. Advance
    BY <1>6 DEF MalformedDecision
  <2> QED
    BY <2>1, <2>2, <1>a DEF Advance, verdict
<1>7. CASE Finish
  BY <1>7, <1>a DEF Finish, Record, Answer
<1>8. CASE ChooseTool
  BY <1>8, <1>a DEF ChooseTool, Record, Answer, verdict
<1>9. CASE BeforeTool
  BY <1>9, <1>a DEF BeforeTool, FailLimit, MayCall
<1>10. ASSUME NEW tool \in Tools, NEW path \in PathsNamed(tool),
              ExecuteTool(tool, path)
       PROVE  Progress'
  BY <1>10, <1>a DEF ExecuteTool, Advance, verdict
<1>11. CASE StepsExhausted
  BY <1>11, <1>a DEF StepsExhausted, FailLimit, work
<1>12. CASE Raise
  BY <1>12, <1>a DEF Raise, work, verdict
<1>13. CASE TimeExpires
  BY <1>13, <1>a DEF TimeExpires, work, verdict
<1>14. CASE UNCHANGED vars
  BY <1>14, <1>a DEF vars, work, verdict
<1> QED
  BY <1>1, <1>2, <1>3, <1>4, <1>5, <1>6, <1>7, <1>8, <1>9, <1>10, <1>11, <1>12,
     <1>13, <1>14 DEF Next, Loop, Terminated

----------------------------------------------------------------------------
(* The loop implements RunContract: every step of the run is a request, a  *)
(* call, an ending the counters justify, or none of the contract's steps.  *)
LEMMA ContractInit == Init => Contract!Init
  BY DEF Init, Outcome, Contract!Init

LEMMA ContractNext ==
  TypeOK /\ Progress /\ Progress' /\ [Next]_vars => [Contract!Next]_(Contract!vars)
<1> SUFFICES ASSUME TypeOK, Progress, Progress', [Next]_vars
             PROVE  [Contract!Next]_(Contract!vars)
  OBVIOUS
<1>a. /\ tracker \in LimitTrackers /\ step \in Nat /\ step < MaxSteps
      /\ completed \in BOOLEAN
  BY LimitsAssumption DEF TypeOK
<1>b. ASSUME UNCHANGED <<Outcome, tracker.model_requests, tracker.tool_calls>>
      PROVE  [Contract!Next]_(Contract!vars)
  BY <1>b DEF Contract!vars
<1>c. ASSUME UNCHANGED <<verdict, tracker.model_requests, tracker.tool_calls>>,
             pc # "raised", pc' # "raised" \/ UNCHANGED pc
      PROVE  [Contract!Next]_(Contract!vars)
  BY <1>b, <1>c DEF Outcome, verdict
<1>d. pc \notin {"done", "raised"} => Outcome = "running" /\ ~completed
  BY DEF Progress, Outcome
<1>e. ASSUME NEW end \in Contract!Outcomes \ {"running"},
             Outcome = "running", Outcome' = end, Contract!Justified(end),
             tracker'.model_requests = tracker.model_requests,
             tracker'.tool_calls = tracker.tool_calls
      PROVE  [Contract!Next]_(Contract!vars)
  BY <1>e DEF Contract!Next, Contract!End
<1>f. ASSUME NEW reason \in Contract!Reasons, pc \notin {"done", "raised"},
             failure' = reason, pc' = "done", UNCHANGED completed,
             Contract!Justified(reason),
             tracker'.model_requests = tracker.model_requests,
             tracker'.tool_calls = tracker.tool_calls
      PROVE  [Contract!Next]_(Contract!vars)
  <2>1. Outcome' = reason
    BY <1>d, <1>f DEF Outcome, Contract!Reasons
  <2>2. reason \in Contract!Outcomes \ {"running"}
    BY DEF Contract!Outcomes, Contract!Reasons
  <2> QED
    BY <1>d, <1>e, <1>f, <2>1, <2>2
<1>1. CASE Start
  BY <1>1, <1>c DEF Start, work
<1>2. ASSUME NEW compaction \in Compactions, PrepareContext(compaction)
      PROVE  [Contract!Next]_(Contract!vars)
  BY <1>2, <1>c DEF PrepareContext
<1>3. ASSUME NEW compaction \in Compactions, ContextOverflow(compaction)
      PROVE  [Contract!Next]_(Contract!vars)
  BY <1>3, <1>f DEF ContextOverflow, Contract!Reasons, Contract!Justified
<1>4. CASE BeforeModel
  <2>1. CASE FailLimit("wall_clock") /\ UNCHANGED tracker
    BY <1>4, <1>f, <2>1 DEF BeforeModel, FailLimit, Contract!Reasons, Contract!Justified
  <2>2. CASE tracker.model_requests >= MaxModelRequests
             /\ FailLimit("model_requests") /\ UNCHANGED tracker
    <3>1. tracker.model_requests = MaxModelRequests
      BY <2>2, <1>a, LimitsAssumption DEF Progress, LimitTrackers
    <3> QED
      BY <1>4, <1>f, <2>2, <3>1
         DEF BeforeModel, FailLimit, Contract!Reasons, Contract!Justified
  <2>3. CASE /\ tracker.model_requests < MaxModelRequests
             /\ tracker' = [tracker EXCEPT !.model_requests = @ + 1]
             /\ pc' = "awaiting" /\ UNCHANGED failure
    <3>1. tracker.model_requests < MaxSteps
      BY <1>4, <1>a DEF BeforeModel, Progress
    <3>2. /\ tracker'.model_requests = tracker.model_requests + 1
          /\ tracker'.tool_calls = tracker.tool_calls
      BY <1>a, <2>3 DEF LimitTrackers
    <3>3. Outcome = "running" /\ UNCHANGED Outcome
      BY <1>4, <1>d, <2>3 DEF BeforeModel, Outcome
    <3> QED
      BY <2>3, <3>1, <3>2, <3>3 DEF Contract!Next, Contract!Request
  <2> QED
    BY <1>4, <2>1, <2>2, <2>3 DEF BeforeModel
<1>5. ASSUME NEW tokens \in ResponseTokens, Answer(tokens)
      PROVE  /\ tracker'.model_requests = tracker.model_requests
             /\ tracker'.tool_calls = tracker.tool_calls
             /\ pc = "awaiting"
             /\ tracker.tool_calls < tracker.model_requests
  BY <1>5, <1>a DEF Answer, LimitTrackers, Progress
<1>6. CASE AfterModelRaises
  BY <1>5, <1>6, <1>f
     DEF AfterModelRaises, FailLimit, Contract!Reasons, Contract!Justified
<1>7. CASE MalformedDecision
  BY <1>5, <1>7, <1>c DEF MalformedDecision, Record, Advance
<1>8. CASE Finish
  <2>1. Outcome' = "completed"
    BY <1>8 DEF Finish, Outcome
  <2>2. /\ tracker'.model_requests = tracker.model_requests
        /\ tracker'.tool_calls = tracker.tool_calls
        /\ pc = "awaiting"
        /\ tracker.tool_calls < tracker.model_requests
    BY <1>5, <1>8 DEF Finish, Record
  <2>3. "completed" \in Contract!Outcomes \ {"running"}
    BY DEF Contract!Outcomes
  <2>4. Contract!Justified("completed")
    BY <2>2 DEF Contract!Justified
  <2> QED
    BY <1>d, <1>e, <2>1, <2>2, <2>3, <2>4
<1>9. CASE ChooseTool
  BY <1>5, <1>9, <1>c DEF ChooseTool, Record
<1>10. CASE BeforeTool
  <2>1. CASE FailLimit("wall_clock") /\ UNCHANGED tracker
    BY <1>10, <1>f, <2>1 DEF BeforeTool, FailLimit, Contract!Reasons, Contract!Justified
  <2>2. tracker.tool_calls < tracker.model_requests
    BY <1>10, <1>a DEF BeforeTool, Progress, LimitTrackers
  <2>3. CASE ~MayCall /\ FailLimit("tool_calls") /\ UNCHANGED tracker
    <3>1. tracker.tool_calls = MaxToolCalls
      BY <2>3, <1>a, LimitsAssumption DEF MayCall, Progress, LimitTrackers
    <3> QED
      BY <1>10, <1>f, <2>2, <2>3, <3>1
         DEF BeforeTool, FailLimit, Contract!Reasons, Contract!Justified
  <2>4. CASE /\ MayCall /\ tracker' = [tracker EXCEPT !.tool_calls = @ + 1]
             /\ pc' = "execute" /\ UNCHANGED failure
    <3>1. /\ tracker'.tool_calls = tracker.tool_calls + 1
          /\ tracker'.model_requests = tracker.model_requests
      BY <1>a, <2>4 DEF LimitTrackers
    <3>2. Outcome = "running" /\ UNCHANGED Outcome
      BY <1>10, <1>d, <2>4 DEF BeforeTool, Outcome
    <3> QED
      BY <2>2, <2>4, <3>1, <3>2 DEF MayCall, Contract!Next, Contract!Call
  <2> QED
    BY <1>10, <2>1, <2>3, <2>4 DEF BeforeTool
<1>11. ASSUME NEW tool \in Tools, NEW path \in PathsNamed(tool),
              ExecuteTool(tool, path)
       PROVE  [Contract!Next]_(Contract!vars)
  BY <1>11, <1>c DEF ExecuteTool, Advance
<1>12. CASE StepsExhausted
  BY <1>12, <1>f DEF StepsExhausted, FailLimit, work, Progress, Contract!Reasons,
                     Contract!Justified
<1>13. CASE Raise
  <2>1. Outcome = "running" /\ Outcome' = "raised" /\ UNCHANGED tracker
    BY <1>13, <1>d DEF Raise, Outcome, work
  <2>2. "raised" \in Contract!Outcomes \ {"running"}
    BY DEF Contract!Outcomes
  <2>3. Contract!Justified("raised")
    BY DEF Contract!Justified
  <2> QED
    BY <1>e, <2>1, <2>2, <2>3
<1>14. CASE TimeExpires
  BY <1>14, <1>b DEF TimeExpires, Outcome, work, verdict
<1>15. CASE UNCHANGED vars
  BY <1>15, <1>b DEF vars, Outcome, work, verdict
<1> QED
  BY <1>1, <1>2, <1>3, <1>4, <1>6, <1>7, <1>8, <1>9, <1>10, <1>11, <1>12, <1>13,
     <1>14, <1>15 DEF Next, Loop, Terminated

(* The counters advance together: one request per step, calls behind.      *)
THEOREM ProgressInvariant == Spec => []Progress
<1>1. Spec => []TypeOK
  BY TypeCorrect
<1> QED
  BY <1>1, ProgressInit, ProgressNext, PTL DEF Spec

(* Every run keeps the contract: limits never exceeded, calls never ahead  *)
(* of answers, one verdict, and only a verdict its counters justify.       *)
THEOREM LoopKeepsContract == Spec => KeepsContract
<1>1. Spec => []TypeOK
  BY TypeCorrect
<1>2. Spec => []Progress
  BY ProgressInvariant
<1> QED
  BY <1>1, <1>2, ContractInit, ContractNext, PTL DEF Spec, KeepsContract, Contract!Spec

----------------------------------------------------------------------------
(* Counting: what appending one event does to a count over the trace.      *)
LEMMA IndicesFinite ==
  ASSUME NEW S, NEW s \in Seq(S), NEW I \in SUBSET DOMAIN s
  PROVE  IsFiniteSet(I) /\ Cardinality(I) \in Nat
<1>1. IsFiniteSet(1..Len(s))
  BY FS_Interval
<1>2. I \subseteq 1..Len(s)
  OBVIOUS
<1> QED
  BY <1>1, <1>2, FS_Subset, FS_CardinalityType

LEMMA CountNat ==
  ASSUME NEW s \in Seq(AgentEvents), NEW kind
  PROVE  Count(s, kind) \in Nat /\ AuxiliaryCount(s) \in Nat
<1>1. {i \in DOMAIN s : s[i].kind = kind} \in SUBSET DOMAIN s
  OBVIOUS
<1>2. {i \in DOMAIN s : s[i].note = "auxiliary"} \in SUBSET DOMAIN s
  OBVIOUS
<1> QED
  BY <1>1, <1>2, IndicesFinite DEF Count, AuxiliaryCount

LEMMA AppendIndices ==
  ASSUME NEW S, NEW s \in Seq(S), NEW e \in S, NEW I \in SUBSET DOMAIN s
  PROVE  /\ Cardinality(I \cup {Len(s) + 1}) = Cardinality(I) + 1
         /\ DOMAIN Append(s, e) = DOMAIN s \cup {Len(s) + 1}
         /\ \A i \in DOMAIN s : Append(s, e)[i] = s[i]
         /\ Append(s, e)[Len(s) + 1] = e
         /\ Len(s) + 1 \notin DOMAIN s
<1>1. IsFiniteSet(I)
  BY IndicesFinite
<1>2. Len(s) + 1 \notin I
  OBVIOUS
<1>3. Cardinality(I \cup {Len(s) + 1}) = Cardinality(I) + 1
  BY <1>1, <1>2, FS_AddElement
<1> QED
  BY <1>3

LEMMA CountAppend ==
  ASSUME NEW s \in Seq(AgentEvents), NEW e \in AgentEvents, NEW kind
  PROVE  Count(Append(s, e), kind) = Count(s, kind) + (IF e.kind = kind THEN 1 ELSE 0)
<1> DEFINE I == {i \in DOMAIN s : s[i].kind = kind}
<1> DEFINE J == {i \in DOMAIN Append(s, e) : Append(s, e)[i].kind = kind}
<1>1. I \in SUBSET DOMAIN s
  OBVIOUS
<1>2. J = IF e.kind = kind THEN I \cup {Len(s) + 1} ELSE I
  BY <1>1, AppendIndices
<1>3. Cardinality(I \cup {Len(s) + 1}) = Cardinality(I) + 1
  BY <1>1, AppendIndices
<1>4. Cardinality(I) \in Nat
  BY <1>1, IndicesFinite
<1>5. Count(s, kind) = Cardinality(I) /\ Count(Append(s, e), kind) = Cardinality(J)
  BY DEF Count
<1> HIDE DEF I, J
<1>6. Cardinality(J) = Cardinality(I) + (IF e.kind = kind THEN 1 ELSE 0)
  BY <1>2, <1>3, <1>4
<1> QED
  BY <1>5, <1>6

LEMMA AuxiliaryCountAppend ==
  ASSUME NEW s \in Seq(AgentEvents), NEW e \in AgentEvents
  PROVE  AuxiliaryCount(Append(s, e)) =
           AuxiliaryCount(s) + (IF e.note = "auxiliary" THEN 1 ELSE 0)
<1> DEFINE I == {i \in DOMAIN s : s[i].note = "auxiliary"}
<1> DEFINE J == {i \in DOMAIN Append(s, e) : Append(s, e)[i].note = "auxiliary"}
<1>1. I \in SUBSET DOMAIN s
  OBVIOUS
<1>2. J = IF e.note = "auxiliary" THEN I \cup {Len(s) + 1} ELSE I
  BY <1>1, AppendIndices
<1>3. Cardinality(I \cup {Len(s) + 1}) = Cardinality(I) + 1
  BY <1>1, AppendIndices
<1>4. Cardinality(I) \in Nat
  BY <1>1, IndicesFinite
<1>5. AuxiliaryCount(s) = Cardinality(I) /\ AuxiliaryCount(Append(s, e)) = Cardinality(J)
  BY DEF AuxiliaryCount
<1> HIDE DEF I, J
<1>6. Cardinality(J) = Cardinality(I) + (IF e.note = "auxiliary" THEN 1 ELSE 0)
  BY <1>2, <1>3, <1>4
<1> QED
  BY <1>5, <1>6

(* What emitting one event does to the two counts of the workload.         *)
LEMMA EmitCounted ==
  ASSUME TypeOK, NEW kind \in Kinds, NEW note \in Notes,
         NEW path \in Paths \cup {NoPath}, NEW trace \in Seq(AgentEvents)
  PROVE  /\ Count(Append(trace, Event(kind, note, path)), "inference_response") =
              Count(trace, "inference_response")
                + (IF kind = "inference_response" THEN 1 ELSE 0)
         /\ AuxiliaryCount(Append(trace, Event(kind, note, path))) =
              AuxiliaryCount(trace) + (IF note = "auxiliary" THEN 1 ELSE 0)
         /\ Append(trace, Event(kind, note, path)) \in Seq(AgentEvents)
<1>1. Event(kind, note, path) \in AgentEvents
  BY EventTyped
<1>2. Event(kind, note, path).kind = kind /\ Event(kind, note, path).note = note
  BY DEF Event
<1> QED
  BY <1>1, <1>2, CountAppend, AuxiliaryCountAppend, AppendTyped

(* The same for the count of any kind, over an event and a preparation.    *)
LEMMA EventCounted ==
  ASSUME TypeOK, NEW kind \in Kinds, NEW note \in Notes,
         NEW path \in Paths \cup {NoPath}, NEW trace \in Seq(AgentEvents), NEW counted
  PROVE  /\ Count(Append(trace, Event(kind, note, path)), counted) =
              Count(trace, counted) + (IF kind = counted THEN 1 ELSE 0)
         /\ Append(trace, Event(kind, note, path)) \in Seq(AgentEvents)
<1>1. Event(kind, note, path) \in AgentEvents
  BY EventTyped
<1>2. Event(kind, note, path).kind = kind
  BY DEF Event
<1> QED
  BY <1>1, <1>2, CountAppend, AppendTyped

LEMMA FailureCounted ==
  ASSUME TypeOK, NEW reason \in LimitReasons, FailLimit(reason),
         NEW counted, counted # "status"
  PROVE  Count(events', counted) = Count(events, counted)
<1>1. events' = Append(events, Event("status", reason, NoPath))
  BY DEF FailLimit, Emit
<1>2. "status" \in Kinds /\ reason \in Notes
  BY DEF Kinds, Notes
<1>3. Count(events, counted) \in Nat
  BY CountNat DEF TypeOK
<1> QED
  BY <1>1, <1>2, <1>3, EventCounted DEF TypeOK

LEMMA PreparedCounted ==
  ASSUME TypeOK, NEW compaction \in Compactions, NEW counted, counted # "context_prepared"
  PROVE  Count(PreparedTrace(compaction), counted) =
           Count(events, counted)
             + (IF counted = "compaction" /\ compaction # "none" THEN 1 ELSE 0)
             + (IF counted = "retrieval" /\ policy = "retrieval" THEN 1 ELSE 0)
<1> DEFINE compacted == Append(events, Event("compaction", compaction, NoPath))
           retrieved == Append(events, Event("retrieval", "automatic", NoPath))
<1>a. events \in Seq(AgentEvents) /\ Count(events, counted) \in Nat
  BY CountNat DEF TypeOK
<1>b. /\ {"compaction", "retrieval", "context_prepared"} \subseteq Kinds
      /\ {"automatic", "none"} \subseteq Notes /\ compaction \in Notes
  BY DEF Kinds, Notes, Compactions
<1>1. /\ compacted \in Seq(AgentEvents)
      /\ Count(compacted, counted) =
           Count(events, counted) + (IF counted = "compaction" THEN 1 ELSE 0)
  BY <1>a, <1>b, EventCounted
<1>2. /\ retrieved \in Seq(AgentEvents)
      /\ Count(retrieved, counted) =
           Count(events, counted) + (IF counted = "retrieval" THEN 1 ELSE 0)
  BY <1>a, <1>b, EventCounted
<1>3. \A trace \in Seq(AgentEvents) :
        Count(Append(trace, Event("context_prepared", "none", NoPath)), counted) =
          Count(trace, counted)
  <2> TAKE trace \in Seq(AgentEvents)
  <2>1. Count(trace, counted) \in Nat
    BY CountNat
  <2> QED
    BY <1>b, <2>1, EventCounted
<1> HIDE DEF compacted, retrieved
<1>4. PreparedTrace(compaction) =
        Append(IF compaction # "none" THEN compacted
               ELSE IF policy = "retrieval" THEN retrieved ELSE events,
               Event("context_prepared", "none", NoPath))
  BY PreparedTraceShape DEF compacted, retrieved
<1>5. compaction # "none" => policy # "retrieval"
  BY DEF Compactions
<1> QED
  BY <1>a, <1>1, <1>2, <1>3, <1>4, <1>5

----------------------------------------------------------------------------
(* No response is lost but where the run ends over it.                     *)
LEMMA WorkloadInit == Init => WorkloadAccounted
<1> SUFFICES ASSUME Init PROVE WorkloadAccounted
  OBVIOUS
<1>1. Count(events, "inference_response") = 0 /\ AuxiliaryCount(events) = 0
  <2>1. {i \in DOMAIN events : events[i].kind = "inference_response"} = {}
    BY DEF Init
  <2>2. {i \in DOMAIN events : events[i].note = "auxiliary"} = {}
    BY DEF Init
  <2> QED
    BY <2>1, <2>2, FS_EmptySet DEF Count, AuxiliaryCount
<1> QED
  BY <1>1 DEF Init, WorkloadAccounted

LEMMA WorkloadNext ==
  TypeOK /\ Progress /\ WorkloadAccounted /\ [Next]_vars => WorkloadAccounted'
<1> SUFFICES ASSUME TypeOK, Progress, WorkloadAccounted, [Next]_vars
             PROVE  WorkloadAccounted'
  OBVIOUS
<1>a. /\ events \in Seq(AgentEvents) /\ totals \in InferenceTotals /\ answered \in ByKind
      /\ Count(events, "inference_response") \in Nat /\ AuxiliaryCount(events) \in Nat
  BY CountNat DEF TypeOK
<1>b. pc \notin {"done", "raised"} => failure = "none"
  BY DEF Progress
<1>c. /\ totals.agent_tokens \in Nat /\ totals.auxiliary_tokens \in Nat
      /\ totals.requests \in Nat
      /\ answered.agent \in Nat /\ answered.auxiliary \in Nat
  BY <1>a DEF InferenceTotals, ByKind
<1>d. ASSUME UNCHANGED <<totals, answered, failure>>,
             Count(events', "inference_response") = Count(events, "inference_response"),
             AuxiliaryCount(events') = AuxiliaryCount(events)
      PROVE  WorkloadAccounted'
  BY <1>d DEF WorkloadAccounted
<1>e. ASSUME UNCHANGED <<totals, answered, failure, events>>
      PROVE  WorkloadAccounted'
  BY <1>d, <1>e
<1>f. ASSUME NEW reason \in LimitReasons, FailLimit(reason)
      PROVE  /\ Count(events', "inference_response") = Count(events, "inference_response")
             /\ AuxiliaryCount(events') = AuxiliaryCount(events)
             /\ failure' = reason
  <2>1. events' = Append(events, Event("status", reason, NoPath)) /\ failure' = reason
    BY <1>f DEF FailLimit, Emit
  <2>2. "status" \in Kinds /\ reason \in Notes /\ reason # "auxiliary"
    BY DEF Kinds, Notes, LimitReasons
  <2> QED
    BY <1>a, <2>1, <2>2, EmitCounted
<1>g. ASSUME NEW reason \in LimitReasons \ {"generated_tokens"}, FailLimit(reason),
             UNCHANGED <<totals, answered>>, pc \notin {"done", "raised"}
      PROVE  WorkloadAccounted'
  BY <1>b, <1>f, <1>g DEF WorkloadAccounted, LimitReasons
<1>1. CASE Start
  BY <1>1, <1>e DEF Start, work, verdict
<1>2. ASSUME NEW compaction \in Compactions, PrepareContext(compaction)
      PROVE  WorkloadAccounted'
  <2>1. /\ totals'.agent_tokens = totals.agent_tokens /\ answered'.agent = answered.agent
        /\ totals'.auxiliary_tokens = totals.auxiliary_tokens + AuxiliaryCalls(compaction)
        /\ totals'.requests = totals.requests + AuxiliaryCalls(compaction)
        /\ answered'.auxiliary = answered.auxiliary + AuxiliaryCalls(compaction)
        /\ AuxiliaryCalls(compaction) \in Nat
        /\ failure = "none" /\ failure' = "none"
    <3>1. AuxiliaryCalls(compaction) \in Nat
      BY DEF AuxiliaryCalls
    <3>2. totals' = [totals EXCEPT !.requests = @ + AuxiliaryCalls(compaction),
                                   !.auxiliary_tokens = @ + AuxiliaryCalls(compaction)]
      BY <1>2 DEF PrepareContext, RecordAuxiliary
    <3>3. /\ totals'.agent_tokens = totals.agent_tokens
          /\ totals'.auxiliary_tokens = totals.auxiliary_tokens + AuxiliaryCalls(compaction)
          /\ totals'.requests = totals.requests + AuxiliaryCalls(compaction)
      BY <1>a, <3>1, <3>2, AuxiliaryCounted
    <3>4. /\ answered'.agent = answered.agent
          /\ answered'.auxiliary = answered.auxiliary + AuxiliaryCalls(compaction)
      BY <1>2, <1>a DEF PrepareContext, ByKind
    <3> QED
      BY <1>2, <1>b, <3>1, <3>3, <3>4 DEF PrepareContext, verdict
  <2>2. /\ Count(events', "inference_response") = Count(events, "inference_response")
        /\ AuxiliaryCount(events') = AuxiliaryCount(events) + AuxiliaryCalls(compaction)
    <3> DEFINE compacted == Append(events, Event("compaction", compaction, NoPath))
    <3> DEFINE retrieved == Append(events, Event("retrieval", "automatic", NoPath))
    <3>1. /\ {"compaction", "retrieval", "context_prepared"} \subseteq Kinds
          /\ {"automatic", "none"} \subseteq Notes
          /\ compaction # "none" => compaction \in Notes
      BY DEF Kinds, Notes, Compactions
    <3>2. compaction # "none" =>
            /\ compacted \in Seq(AgentEvents)
            /\ Count(compacted, "inference_response") = Count(events, "inference_response")
            /\ AuxiliaryCount(compacted) = AuxiliaryCount(events) + AuxiliaryCalls(compaction)
      BY <1>a, <3>1, EmitCounted DEF AuxiliaryCalls
    <3>3. /\ retrieved \in Seq(AgentEvents)
          /\ Count(retrieved, "inference_response") = Count(events, "inference_response")
          /\ AuxiliaryCount(retrieved) = AuxiliaryCount(events)
      BY <1>a, <3>1, EmitCounted
    <3>4. \A trace \in Seq(AgentEvents) :
            LET prepared == Append(trace, Event("context_prepared", "none", NoPath)) IN
            /\ Count(prepared, "inference_response") = Count(trace, "inference_response")
            /\ AuxiliaryCount(prepared) = AuxiliaryCount(trace)
      <4> TAKE trace \in Seq(AgentEvents)
      <4>1. Count(trace, "inference_response") \in Nat /\ AuxiliaryCount(trace) \in Nat
        BY CountNat
      <4> QED
        BY <3>1, <4>1, EmitCounted
    <3>5. events' = PreparedTrace(compaction)
      BY <1>2 DEF PrepareContext
    <3> HIDE DEF compacted, retrieved
    <3>6. CASE compaction # "none"
      <4>1. events' = Append(compacted, Event("context_prepared", "none", NoPath))
        BY <3>5, <3>6, PreparedTraceShape DEF compacted
      <4> QED
        BY <3>2, <3>4, <3>6, <4>1
    <3>7. CASE compaction = "none"
      <4>1. AuxiliaryCalls(compaction) = 0
        BY <3>7 DEF AuxiliaryCalls
      <4>2. \/ events' = Append(retrieved, Event("context_prepared", "none", NoPath))
            \/ events' = Append(events, Event("context_prepared", "none", NoPath))
        BY <3>5, <3>7, PreparedTraceShape DEF retrieved
      <4> QED
        <5>1. AuxiliaryCount(events') = AuxiliaryCount(events)
              /\ Count(events', "inference_response") = Count(events, "inference_response")
          BY <1>a, <3>3, <3>4, <4>2
        <5> QED
          BY <1>a, <4>1, <5>1
    <3> QED
      BY <3>6, <3>7
  <2> QED
    BY SMTT(30), <1>a, <1>c, <2>1, <2>2 DEF WorkloadAccounted
<1>3. ASSUME NEW compaction \in Compactions, ContextOverflow(compaction)
      PROVE  WorkloadAccounted'
  <2>1. /\ totals' = totals /\ answered'.agent = answered.agent
        /\ answered'.auxiliary \in {answered.auxiliary, answered.auxiliary + 1}
        /\ failure = "none" /\ failure' = "context_window"
    BY <1>3, <1>a, <1>b DEF ContextOverflow, ByKind, AuxiliaryCalls
  <2>2. /\ Count(events', "inference_response") = Count(events, "inference_response")
        /\ AuxiliaryCount(events') = AuxiliaryCount(events)
    <3>1. events' = Append(events, Event("context_failure", "none", NoPath))
      BY <1>3 DEF ContextOverflow, Emit
    <3>2. "context_failure" \in Kinds /\ "none" \in Notes
      BY DEF Kinds, Notes
    <3> QED
      BY <1>a, <3>1, <3>2, EmitCounted
  <2>3. /\ answered.agent - totals.agent_tokens = 0
        /\ answered.auxiliary - totals.auxiliary_tokens = 0
        /\ totals.requests = totals.agent_tokens + totals.auxiliary_tokens
        /\ totals.agent_tokens = Count(events, "inference_response")
        /\ totals.auxiliary_tokens = AuxiliaryCount(events)
    BY <2>1 DEF WorkloadAccounted
  <2>4. /\ answered'.agent - totals'.agent_tokens = 0
        /\ answered'.auxiliary - totals'.auxiliary_tokens \in {0, 1}
    BY <1>c, <2>1, <2>3
  <2> QED
    BY <2>1, <2>2, <2>3, <2>4 DEF WorkloadAccounted
<1>4. CASE BeforeModel
  BY <1>4, <1>e, <1>g DEF BeforeModel, LimitReasons
<1>5. ASSUME NEW tokens \in ResponseTokens, Answer(tokens)
      PROVE  /\ answered'.agent = answered.agent + 1
             /\ answered'.auxiliary = answered.auxiliary /\ failure = "none"
  BY <1>5, <1>a, <1>b DEF Answer, ByKind
<1>6. CASE AfterModelRaises
  <2>1. /\ answered'.agent = answered.agent + 1
        /\ answered'.auxiliary = answered.auxiliary /\ failure = "none"
        /\ totals' = totals
    BY <1>5, <1>6 DEF AfterModelRaises
  <2>2. /\ Count(events', "inference_response") = Count(events, "inference_response")
        /\ AuxiliaryCount(events') = AuxiliaryCount(events)
        /\ failure' = "generated_tokens"
    BY <1>6, <1>f DEF AfterModelRaises, LimitReasons
  <2> QED
    BY <1>c, <2>1, <2>2 DEF WorkloadAccounted
<1>7. ASSUME Record, UNCHANGED failure,
             Count(events', "inference_response") = Count(events, "inference_response") + 1,
             AuxiliaryCount(events') = AuxiliaryCount(events)
      PROVE  WorkloadAccounted'
  <2>1. /\ answered'.agent = answered.agent + 1
        /\ answered'.auxiliary = answered.auxiliary /\ failure = "none"
    BY <1>5, <1>7 DEF Record
  <2>2. /\ totals'.agent_tokens = totals.agent_tokens + 1
        /\ totals'.auxiliary_tokens = totals.auxiliary_tokens
        /\ totals'.requests = totals.requests + 1
    <3>1. totals' = [totals EXCEPT !.requests = @ + 1, !.agent_tokens = @ + 1]
      BY <1>7 DEF Record
    <3>2. totals \in InferenceTotals
      BY <1>a
    <3>3. 1 \in Nat
      OBVIOUS
    <3> QED
      BY ZenonT(60), <3>1, <3>2, <3>3, AgentCounted
  <2> QED
    BY <1>7, <1>c, <2>1, <2>2 DEF WorkloadAccounted
<1>8. LET response == Append(events, Event("inference_response", "none", NoPath)) IN
      /\ response \in Seq(AgentEvents)
      /\ Count(response, "inference_response") = Count(events, "inference_response") + 1
      /\ AuxiliaryCount(response) = AuxiliaryCount(events)
  <2>1. "inference_response" \in Kinds /\ "none" \in Notes
    BY DEF Kinds, Notes
  <2> QED
    BY <1>a, <2>1, EmitCounted
<1>9. CASE MalformedDecision
  BY <1>9, <1>7, <1>8 DEF MalformedDecision, Emit, verdict
<1>10. CASE Finish
  <2> DEFINE response == Append(events, Event("inference_response", "none", NoPath))
  <2>1. events' = Append(response, Event("status", "completed", NoPath))
    BY <1>10 DEF Finish
  <2>2. "status" \in Kinds /\ "completed" \in Notes
    BY DEF Kinds, Notes
  <2>3. /\ response \in Seq(AgentEvents)
        /\ Count(response, "inference_response") = Count(events, "inference_response") + 1
        /\ AuxiliaryCount(response) = AuxiliaryCount(events)
    BY <1>8
  <2> HIDE DEF response
  <2>4. /\ Count(events', "inference_response") = Count(response, "inference_response")
        /\ AuxiliaryCount(events') = AuxiliaryCount(response)
    BY <1>a, <2>1, <2>2, <2>3, EmitCounted
  <2> QED
    BY <1>7, <1>10, <2>3, <2>4 DEF Finish
<1>11. CASE ChooseTool
  BY <1>11, <1>7, <1>8 DEF ChooseTool, Emit, verdict
<1>12. CASE BeforeTool
  BY <1>12, <1>e, <1>g DEF BeforeTool, LimitReasons
<1>13. ASSUME NEW tool \in Tools, NEW path \in PathsNamed(tool),
              ExecuteTool(tool, path)
       PROVE  WorkloadAccounted'
  <2> DEFINE recovered == Append(events, Event("retrieval", "explicit", NoPath))
  <2>1. /\ {"retrieval", "tool_result"} \subseteq Kinds
        /\ "explicit" \in Notes /\ tool \in Notes /\ tool # "auxiliary"
        /\ path \in Paths \cup {NoPath}
    BY DataAssumption DEF Kinds, Notes, ToolNames, PathsNamed
  <2>2. /\ recovered \in Seq(AgentEvents)
        /\ Count(recovered, "inference_response") = Count(events, "inference_response")
        /\ AuxiliaryCount(recovered) = AuxiliaryCount(events)
    BY <1>a, <2>1, EmitCounted
  <2>3. \/ events' = Append(recovered, Event("tool_result", tool, path))
        \/ events' = Append(events, Event("tool_result", tool, path))
    BY <1>13 DEF ExecuteTool
  <2> HIDE DEF recovered
  <2>4. /\ Count(events', "inference_response") = Count(events, "inference_response")
        /\ AuxiliaryCount(events') = AuxiliaryCount(events)
    <3>1. \A trace \in Seq(AgentEvents) :
            LET answer == Append(trace, Event("tool_result", tool, path)) IN
            /\ Count(answer, "inference_response") = Count(trace, "inference_response")
            /\ AuxiliaryCount(answer) = AuxiliaryCount(trace)
      <4> TAKE trace \in Seq(AgentEvents)
      <4>1. Count(trace, "inference_response") \in Nat /\ AuxiliaryCount(trace) \in Nat
        BY CountNat
      <4> QED
        BY <2>1, <4>1, EmitCounted
    <3> QED
      BY <1>a, <2>2, <2>3, <3>1
  <2> QED
    BY <1>13, <1>d, <2>4 DEF ExecuteTool, verdict
<1>14. CASE StepsExhausted
  BY <1>14, <1>g DEF StepsExhausted, LimitReasons, work
<1>15. CASE Raise
  BY <1>15, <1>e DEF Raise, work, verdict
<1>16. CASE TimeExpires
  BY <1>16, <1>e DEF TimeExpires, work, verdict
<1>17. CASE UNCHANGED vars
  BY <1>17, <1>e DEF vars, work, verdict
<1> QED
  BY <1>1, <1>2, <1>3, <1>4, <1>6, <1>9, <1>10, <1>11, <1>12, <1>13, <1>14, <1>15,
     <1>16, <1>17 DEF Next, Loop, Terminated

(* The totals and the trace account for every response the server produced *)
(* but the one a generation limit or an overflowing compaction ended on.   *)
THEOREM WorkloadIsAccounted == Spec => []WorkloadAccounted
<1>1. Spec => []TypeOK
  BY TypeCorrect
<1>2. Spec => []Progress
  BY ProgressInvariant
<1> QED
  BY <1>1, <1>2, WorkloadInit, WorkloadNext, PTL DEF Spec

----------------------------------------------------------------------------
(* A sequence extends another when it begins with it.                      *)
Extends(t, s) == Len(t) >= Len(s) /\ SubSeq(t, 1, Len(s)) = s

LEMMA ExtendsItself ==
  ASSUME NEW S, NEW s \in Seq(S)
  PROVE  Extends(s, s)
  BY SubSeqFull, LenProperties DEF Extends

LEMMA ExtendsByOne ==
  ASSUME NEW S, NEW s \in Seq(S), NEW a \in S
  PROVE  Extends(Append(s, a), s)
<1>1. Append(s, a) \in Seq(S) /\ Len(Append(s, a)) = Len(s) + 1 /\ Len(s) \in Nat
  OBVIOUS
<1>2. \A i \in 1..Len(s) : Append(s, a)[i] = s[i] /\ s[i] \in S
  OBVIOUS
<1>3. SubSeq(Append(s, a), 1, Len(s)) \in Seq(S)
      /\ Len(SubSeq(Append(s, a), 1, Len(s))) = Len(s)
      /\ \A i \in 1..Len(s) : SubSeq(Append(s, a), 1, Len(s))[i] = s[i]
  BY <1>1, <1>2
<1>4. SubSeq(Append(s, a), 1, Len(s)) = s
  BY <1>3, SeqEqual
<1> QED
  BY <1>1, <1>4 DEF Extends

LEMMA ExtendsByTwo ==
  ASSUME NEW S, NEW s \in Seq(S), NEW a \in S, NEW b \in S
  PROVE  Extends(Append(Append(s, a), b), s)
<1> DEFINE t == Append(Append(s, a), b)
<1>1. t \in Seq(S) /\ Len(t) = Len(s) + 2 /\ Len(s) \in Nat
  OBVIOUS
<1>2. \A i \in 1..Len(s) : t[i] = s[i]
  OBVIOUS
<1> HIDE DEF t
<1>3. SubSeq(t, 1, Len(s)) \in Seq(S)
      /\ Len(SubSeq(t, 1, Len(s))) = Len(s)
      /\ \A i \in 1..Len(s) : SubSeq(t, 1, Len(s))[i] = s[i]
  BY <1>1, <1>2
<1>4. SubSeq(t, 1, Len(s)) = s
  BY <1>3, SeqEqual
<1>5. Extends(t, s)
  BY <1>1, <1>4 DEF Extends
<1> QED
  BY <1>5 DEF t

(* A run starts on an empty conversation, and never comes back to the start.*)
Fresh == pc = "start" => history = <<>>

LEMMA FreshInvariant == Spec => []Fresh
<1>1. Init => Fresh
  BY DEF Init, Fresh
<1>2. Fresh /\ [Next]_vars => Fresh'
  <2> SUFFICES ASSUME Fresh, [Next]_vars PROVE Fresh'
    OBVIOUS
  <2>1. ASSUME NEW reason, FailLimit(reason) PROVE pc' = "done"
    BY <2>1 DEF FailLimit
  <2>2. Advance => pc' # "start"
    BY DEF Advance
  <2>3. CASE Start
    BY <2>3 DEF Start, Fresh
  <2>4. ASSUME NEW compaction \in Compactions,
               PrepareContext(compaction) \/ ContextOverflow(compaction)
        PROVE  Fresh'
    BY <2>4 DEF PrepareContext, ContextOverflow, Fresh
  <2>5. CASE BeforeModel \/ BeforeTool
    BY <2>1, <2>5 DEF BeforeModel, BeforeTool, Fresh
  <2>6. CASE AfterModelRaises \/ StepsExhausted
    BY <2>1, <2>6 DEF AfterModelRaises, StepsExhausted, Fresh
  <2>7. CASE MalformedDecision \/ Finish \/ ChooseTool
    BY <2>2, <2>7 DEF MalformedDecision, Finish, ChooseTool, Fresh
  <2>8. ASSUME NEW tool \in Tools, NEW path \in PathsNamed(tool),
               ExecuteTool(tool, path)
        PROVE  Fresh'
    BY <2>2, <2>8 DEF ExecuteTool, Fresh
  <2>9. CASE Raise \/ TimeExpires \/ UNCHANGED vars
    BY <2>9 DEF Raise, TimeExpires, vars, Fresh
  <2> QED
    BY <2>3, <2>4, <2>5, <2>6, <2>7, <2>8, <2>9 DEF Next, Loop, Terminated
<1> QED
  BY <1>1, <1>2, PTL DEF Spec

(* Canonical messages and events only grow: each action appends to them.   *)
LEMMA AppendNext ==
  TypeOK /\ Fresh /\ [Next]_vars =>
    Extends(history', history) /\ Extends(events', events)
<1> SUFFICES ASSUME TypeOK, Fresh, [Next]_vars
             PROVE  Extends(history', history) /\ Extends(events', events)
  OBVIOUS
<1>a. history \in Seq(Messages) /\ events \in Seq(AgentEvents)
  BY DEF TypeOK
<1>b. Extends(history, history) /\ Extends(events, events)
  BY <1>a, ExtendsItself
<1>c. ASSUME NEW role \in Roles, NEW tokens \in ContentTokens
      PROVE  Say(role, tokens) \in Messages
             /\ Extends(Append(history, Say(role, tokens)), history)
  BY <1>a, SaidTyped, ExtendsByOne
<1>d. ASSUME NEW kind \in Kinds, NEW note \in Notes, NEW path \in Paths \cup {NoPath}
      PROVE  /\ Event(kind, note, path) \in AgentEvents
             /\ Extends(Append(events, Event(kind, note, path)), events)
  BY <1>a, EventTyped, ExtendsByOne
<1>e. ASSUME NEW reason \in LimitReasons, FailLimit(reason)
      PROVE  Extends(events', events)
  <2>1. "status" \in Kinds /\ reason \in Notes
    BY DEF Kinds, Notes
  <2> QED
    BY <1>d, <1>e, <2>1 DEF FailLimit, Emit
<1>f. {"assistant", "user", "tool"} \subseteq Roles
  BY DEF Roles
<1>g. /\ {"compaction", "retrieval", "context_prepared", "inference_response",
          "tool_result", "status", "context_failure"} \subseteq Kinds
      /\ {"none", "automatic", "explicit", "completed"} \subseteq Notes
  BY DEF Kinds, Notes
<1>h. Event("context_prepared", "none", NoPath) \in AgentEvents
  BY <1>d, <1>g
<1>1. CASE Start
  <2>1. history = <<>> /\ events' = events
    BY <1>1 DEF Start, Fresh
  <2>2. \E s, t \in ContentTokens : history' = <<Say("system", s), Say("user", t)>>
    BY <1>1 DEF Start
  <2>3. PICK s, t \in ContentTokens : history' = <<Say("system", s), Say("user", t)>>
    BY <2>2
  <2>4. Say("system", s) \in Messages /\ Say("user", t) \in Messages
    BY SaidTyped DEF Roles
  <2>5. history' = Append(Append(history, Say("system", s)), Say("user", t))
    BY <2>1, <2>3
  <2> QED
    BY <1>a, <1>b, <2>1, <2>4, <2>5, ExtendsByTwo
<1>2. ASSUME NEW compaction \in Compactions, PrepareContext(compaction)
      PROVE  Extends(history', history) /\ Extends(events', events)
  <2>1. history' = history /\ events' = PreparedTrace(compaction)
    BY <1>2 DEF PrepareContext
  <2>2. compaction \in Notes
    BY DEF Compactions, Notes
  <2>3. /\ Event("compaction", compaction, NoPath) \in AgentEvents
        /\ Event("retrieval", "automatic", NoPath) \in AgentEvents
    BY <1>d, <1>g, <2>2
  <2>4. \A e \in AgentEvents :
          Extends(Append(Append(events, e), Event("context_prepared", "none", NoPath)), events)
    BY <1>a, <1>h, ExtendsByTwo
  <2>5. Extends(Append(events, Event("context_prepared", "none", NoPath)), events)
    BY <1>a, <1>h, ExtendsByOne
  <2>6. Extends(events', events)
    BY <2>1, <2>3, <2>4, <2>5, PreparedTraceShape
  <2> QED
    BY <1>b, <2>1, <2>6
<1>3. ASSUME NEW compaction \in Compactions, ContextOverflow(compaction)
      PROVE  Extends(history', history) /\ Extends(events', events)
  BY <1>3, <1>b, <1>d, <1>g DEF ContextOverflow, Emit
<1>4. CASE BeforeModel \/ BeforeTool
  <2>1. "wall_clock" \in LimitReasons /\ "model_requests" \in LimitReasons
        /\ "tool_calls" \in LimitReasons
    BY DEF LimitReasons
  <2>2. history' = history
    BY <1>4 DEF BeforeModel, BeforeTool
  <2>3. Extends(events', events)
    BY <1>4, <1>b, <1>e, <2>1 DEF BeforeModel, BeforeTool
  <2> QED
    BY <1>b, <2>2, <2>3
<1>5. CASE AfterModelRaises \/ StepsExhausted
  <2>1. "generated_tokens" \in LimitReasons /\ "steps" \in LimitReasons
    BY DEF LimitReasons
  <2>2. history' = history
    BY <1>5 DEF AfterModelRaises, StepsExhausted
  <2>3. Extends(events', events)
    BY <1>5, <1>e, <2>1 DEF AfterModelRaises, StepsExhausted
  <2> QED
    BY <1>b, <2>2, <2>3
<1>6. CASE MalformedDecision
  <2>1. Extends(events', events)
    BY <1>6, <1>d, <1>g DEF MalformedDecision, Emit
  <2>2. PICK a, u \in ContentTokens : history' = Correction(a, u)
    BY <1>6 DEF MalformedDecision
  <2>3. Say("assistant", a) \in Messages /\ Say("user", u) \in Messages
    BY <1>f, SaidTyped
  <2>4. history' = Append(Append(history, Say("assistant", a)), Say("user", u))
    BY <2>2 DEF Correction
  <2> QED
    BY <1>a, <2>1, <2>3, <2>4, ExtendsByTwo
<1>7. CASE Finish
  <2>1. /\ Event("inference_response", "none", NoPath) \in AgentEvents
        /\ Event("status", "completed", NoPath) \in AgentEvents
    BY <1>d, <1>g
  <2>2. events' = Append(Append(events, Event("inference_response", "none", NoPath)),
                         Event("status", "completed", NoPath))
    BY <1>7 DEF Finish
  <2>3. Extends(events', events)
    BY <1>a, <2>1, <2>2, ExtendsByTwo
  <2>4. Extends(history', history)
    BY <1>7, <1>c, <1>f DEF Finish
  <2> QED
    BY <2>3, <2>4
<1>8. CASE ChooseTool
  <2>1. Extends(events', events)
    BY <1>8, <1>d, <1>g DEF ChooseTool, Emit
  <2>2. Extends(history', history)
    BY <1>8, <1>c, <1>f DEF ChooseTool
  <2> QED
    BY <2>1, <2>2
<1>9. ASSUME NEW tool \in Tools, NEW path \in PathsNamed(tool),
             ExecuteTool(tool, path)
      PROVE  Extends(history', history) /\ Extends(events', events)
  <2>1. tool \in Notes /\ path \in Paths \cup {NoPath}
    BY DataAssumption DEF Notes, ToolNames, PathsNamed
  <2>2. /\ Event("retrieval", "explicit", NoPath) \in AgentEvents
        /\ Event("tool_result", tool, path) \in AgentEvents
        /\ Extends(Append(events, Event("tool_result", tool, path)), events)
    BY <1>d, <1>g, <2>1
  <2>3. \/ events' = Append(Append(events, Event("retrieval", "explicit", NoPath)),
                            Event("tool_result", tool, path))
        \/ events' = Append(events, Event("tool_result", tool, path))
    BY <1>9 DEF ExecuteTool
  <2>4. Extends(events', events)
    BY <1>a, <2>2, <2>3, ExtendsByTwo
  <2>5. Extends(history', history)
    BY <1>9, <1>c, <1>f DEF ExecuteTool
  <2> QED
    BY <2>4, <2>5
<1>10. CASE Raise \/ TimeExpires \/ UNCHANGED vars
  BY <1>10, <1>b DEF Raise, TimeExpires, vars
<1> QED
  BY <1>1, <1>2, <1>3, <1>4, <1>5, <1>6, <1>7, <1>8, <1>9, <1>10
  DEF Next, Loop, Terminated

(* What a policy's indices and an analysis refer to stays where it was.    *)
THEOREM NothingIsTakenBack == Spec => AppendOnly
<1>1. Spec => []TypeOK
  BY TypeCorrect
<1>2. Spec => []Fresh
  BY FreshInvariant
<1>3. TypeOK /\ Fresh /\ [Next]_vars =>
        [/\ Len(history') >= Len(history) /\ SubSeq(history', 1, Len(history)) = history
         /\ Len(events') >= Len(events) /\ SubSeq(events', 1, Len(events)) = events]_vars
  BY AppendNext DEF Extends
<1> QED
  BY <1>1, <1>2, <1>3, PTL DEF Spec, AppendOnly

----------------------------------------------------------------------------
(* A trace is open until the event that states the verdict.                *)
Closing == {"status", "context_failure"}
OpenTrace(trace) == \A i \in DOMAIN trace : trace[i].kind \notin Closing

LEMMA OpenAppend ==
  ASSUME NEW trace \in Seq(AgentEvents), OpenTrace(trace),
         NEW e \in AgentEvents, e.kind \notin Closing
  PROVE  OpenTrace(Append(trace, e))
<1>1. DOMAIN trace = 1..Len(trace) /\ Len(trace) \in Nat
  OBVIOUS
<1>2. DOMAIN Append(trace, e) = 1..(Len(trace) + 1)
  OBVIOUS
<1>3. \A i \in 1..(Len(trace) + 1) :
        Append(trace, e)[i] = IF i = Len(trace) + 1 THEN e ELSE trace[i]
  OBVIOUS
<1> QED
  BY <1>1, <1>2, <1>3 DEF OpenTrace

LEMMA CloseAppend ==
  ASSUME NEW trace \in Seq(AgentEvents), OpenTrace(trace), NEW e \in AgentEvents
  PROVE  /\ Append(trace, e) # <<>>
         /\ Append(trace, e)[Len(Append(trace, e))] = e
         /\ \A i \in DOMAIN Append(trace, e) :
              Append(trace, e)[i].kind \in Closing => i = Len(Append(trace, e))
<1>1. DOMAIN trace = 1..Len(trace) /\ Len(trace) \in Nat
  OBVIOUS
<1>2. /\ DOMAIN Append(trace, e) = 1..(Len(trace) + 1)
      /\ Len(Append(trace, e)) = Len(trace) + 1
  OBVIOUS
<1>3. \A i \in 1..(Len(trace) + 1) :
        Append(trace, e)[i] = IF i = Len(trace) + 1 THEN e ELSE trace[i]
  OBVIOUS
<1>4. Append(trace, e) # <<>>
  <2>1. Len(<<>>) = 0
    OBVIOUS
  <2> QED
    BY <1>1, <1>2, <2>1
<1> QED
  BY <1>1, <1>2, <1>3, <1>4 DEF OpenTrace

LEMMA VerdictOpen ==
  ASSUME OpenTrace(events'), Progress', pc' # "done"
  PROVE  OneVerdict'
  BY DEF OpenTrace, Closing, Progress, OneVerdict

LEMMA VerdictClosed ==
  ASSUME NEW trace \in Seq(AgentEvents), OpenTrace(trace), NEW e \in AgentEvents,
         events' = Append(trace, e), pc' = "done", Progress',
         IF failure' = "context_window" THEN e.kind = "context_failure"
         ELSE e.kind = "status" /\ e.note = IF completed' THEN "completed" ELSE failure'
  PROVE  OneVerdict'
<1>1. /\ events' # <<>> /\ events'[Len(events')] = e
      /\ \A i \in DOMAIN events' : events'[i].kind \in Closing => i = Len(events')
  BY CloseAppend
<1> QED
  BY <1>1 DEF Progress, OneVerdict, Closing

LEMMA VerdictNext ==
  TypeOK /\ Progress /\ OneVerdict /\ [Next]_vars => OneVerdict'
<1> SUFFICES ASSUME TypeOK, Progress, OneVerdict, [Next]_vars PROVE OneVerdict'
  OBVIOUS
<1>a. Progress'
  BY ProgressNext
<1>b. events \in Seq(AgentEvents)
  BY DEF TypeOK
<1>c. pc # "done" => OpenTrace(events) /\ failure = "none" /\ completed = FALSE
  BY DEF OneVerdict, OpenTrace, Closing, TypeOK
<1>d. ASSUME NEW kind \in Kinds, NEW note \in Notes, NEW path \in Paths \cup {NoPath}
      PROVE  /\ Event(kind, note, path) \in AgentEvents
             /\ Event(kind, note, path).kind = kind
             /\ Event(kind, note, path).note = note
  BY EventTyped DEF Event
<1>e. /\ {"compaction", "retrieval", "context_prepared", "inference_response",
          "tool_result", "status", "context_failure"} \subseteq Kinds
      /\ {"none", "automatic", "explicit", "completed"} \subseteq Notes
  BY DEF Kinds, Notes
<1>f. ASSUME NEW reason \in LimitReasons, FailLimit(reason), pc # "done",
             UNCHANGED completed
      PROVE  OneVerdict'
  <2>1. reason \in Notes /\ reason # "context_window"
    BY DEF Notes, LimitReasons
  <2>2. /\ events' = Append(events, Event("status", reason, NoPath))
        /\ failure' = reason /\ pc' = "done"
    BY <1>f DEF FailLimit, Emit
  <2>3. completed' = FALSE
    BY <1>c, <1>f
  <2> QED
    BY <1>a, <1>b, <1>c, <1>d, <1>e, <1>f, <2>1, <2>2, <2>3, VerdictClosed
<1>g. ASSUME UNCHANGED <<events, failure, completed>>, pc # "done", pc' # "done"
      PROVE  OneVerdict'
  BY <1>a, <1>c, <1>g, VerdictOpen
<1>h. ASSUME NEW kind \in Kinds, NEW note \in Notes, NEW path \in Paths \cup {NoPath},
             kind \notin Closing,
             events' = Append(events, Event(kind, note, path)),
             pc # "done", pc' # "done"
      PROVE  OneVerdict'
  BY <1>a, <1>b, <1>c, <1>d, <1>h, OpenAppend, VerdictOpen
<1>i. /\ "retrieval" \notin Closing /\ "compaction" \notin Closing
      /\ "context_prepared" \notin Closing /\ "inference_response" \notin Closing
      /\ "tool_result" \notin Closing
  BY DEF Closing
<1>1. CASE Start
  BY <1>1, <1>g DEF Start, work, verdict
<1>2. ASSUME NEW compaction \in Compactions, PrepareContext(compaction)
      PROVE  OneVerdict'
  <2>1. pc # "done" /\ pc' # "done" /\ events' = PreparedTrace(compaction)
    BY <1>2 DEF PrepareContext
  <2>2. compaction \in Notes
    BY DEF Compactions, Notes
  <2> DEFINE prepared == Event("context_prepared", "none", NoPath)
             compacted == Event("compaction", compaction, NoPath)
             retrieved == Event("retrieval", "automatic", NoPath)
  <2>3. /\ prepared \in AgentEvents /\ prepared.kind \notin Closing
        /\ compacted \in AgentEvents /\ compacted.kind \notin Closing
        /\ retrieved \in AgentEvents /\ retrieved.kind \notin Closing
    BY <1>d, <1>e, <1>i, <2>2
  <2>4. events' = Append(Append(events, compacted), prepared)
        \/ events' = Append(Append(events, retrieved), prepared)
        \/ events' = Append(events, prepared)
    BY <2>1, PreparedTraceShape
  <2> HIDE DEF prepared, compacted, retrieved
  <2>5. \A e \in AgentEvents : e.kind \notin Closing =>
          Append(events, e) \in Seq(AgentEvents) /\ OpenTrace(Append(events, e))
    BY <1>b, <1>c, <2>1, OpenAppend
  <2>6. OpenTrace(events')
    BY <2>3, <2>4, <2>5, OpenAppend
  <2> QED
    BY <1>a, <2>1, <2>6, VerdictOpen
<1>3. ASSUME NEW compaction \in Compactions, ContextOverflow(compaction)
      PROVE  OneVerdict'
  <2>1. /\ pc # "done" /\ pc' = "done" /\ failure' = "context_window"
        /\ events' = Append(events, Event("context_failure", "none", NoPath))
    BY <1>3 DEF ContextOverflow, Emit
  <2> QED
    BY <1>a, <1>b, <1>c, <1>d, <1>e, <2>1, VerdictClosed
<1>4. CASE BeforeModel \/ BeforeTool
  <2>1. /\ {"wall_clock", "model_requests", "tool_calls"} \subseteq LimitReasons
        /\ pc # "done" /\ UNCHANGED completed
    BY <1>4 DEF BeforeModel, BeforeTool, LimitReasons
  <2>2. \/ FailLimit("wall_clock") \/ FailLimit("model_requests")
        \/ FailLimit("tool_calls")
        \/ UNCHANGED <<events, failure>> /\ pc' # "done"
    BY <1>4 DEF BeforeModel, BeforeTool
  <2> QED
    BY <1>f, <1>g, <2>1, <2>2
<1>5. CASE AfterModelRaises
  <2>1. "generated_tokens" \in LimitReasons
    BY DEF LimitReasons
  <2>2. pc # "done" /\ FailLimit("generated_tokens") /\ UNCHANGED completed
    BY <1>5 DEF AfterModelRaises, Answer
  <2> QED
    BY <1>f, <2>1, <2>2
<1>6. CASE StepsExhausted
  <2>1. "steps" \in LimitReasons
    BY DEF LimitReasons
  <2>2. pc # "done" /\ FailLimit("steps") /\ UNCHANGED completed
    BY <1>6 DEF StepsExhausted
  <2> QED
    BY <1>f, <2>1, <2>2
<1>7. Record => pc # "done"
  BY DEF Record, Answer
<1>8. CASE MalformedDecision \/ ChooseTool
  <2>1. /\ pc # "done" /\ pc' # "done"
        /\ events' = Append(events, Event("inference_response", "none", NoPath))
    BY <1>7, <1>8 DEF MalformedDecision, ChooseTool, Advance, Emit
  <2> QED
    BY <1>e, <1>h, <1>i, <2>1
<1>9. CASE Finish
  <2> DEFINE answer == Event("inference_response", "none", NoPath)
  <2>1. /\ answer \in AgentEvents /\ answer.kind \notin Closing
        /\ Event("status", "completed", NoPath) \in AgentEvents
        /\ Event("status", "completed", NoPath).kind = "status"
        /\ Event("status", "completed", NoPath).note = "completed"
    BY <1>d, <1>e, <1>i
  <2>2. /\ pc # "done" /\ pc' = "done" /\ completed' = TRUE /\ failure' = failure
        /\ events' = Append(Append(events, answer), Event("status", "completed", NoPath))
    BY <1>7, <1>9 DEF Finish
  <2> HIDE DEF answer
  <2>3. Append(events, answer) \in Seq(AgentEvents) /\ OpenTrace(Append(events, answer))
    BY <1>b, <1>c, <2>1, <2>2, OpenAppend
  <2> QED
    BY <1>a, <1>c, <2>1, <2>2, <2>3, VerdictClosed
<1>10. ASSUME NEW tool \in Tools, NEW path \in PathsNamed(tool),
              ExecuteTool(tool, path)
       PROVE  OneVerdict'
  <2> DEFINE recovered == Event("retrieval", "explicit", NoPath)
             answer == Event("tool_result", tool, path)
  <2>1. tool \in Notes /\ path \in Paths \cup {NoPath}
    BY DataAssumption DEF Notes, ToolNames, PathsNamed
  <2>2. /\ recovered \in AgentEvents /\ recovered.kind \notin Closing
        /\ answer \in AgentEvents /\ answer.kind \notin Closing
    BY <1>d, <1>e, <1>i, <2>1
  <2>3. /\ pc # "done" /\ pc' # "done"
        /\ \/ events' = Append(Append(events, recovered), answer)
           \/ events' = Append(events, answer)
    BY <1>10 DEF ExecuteTool, Advance
  <2> HIDE DEF recovered, answer
  <2>4. \A e \in AgentEvents : e.kind \notin Closing =>
          Append(events, e) \in Seq(AgentEvents) /\ OpenTrace(Append(events, e))
    BY <1>b, <1>c, <2>3, OpenAppend
  <2>5. OpenTrace(events')
    BY <2>2, <2>3, <2>4, OpenAppend
  <2> QED
    BY <1>a, <2>3, <2>5, VerdictOpen
<1>11. CASE Raise
  BY <1>11, <1>g DEF Raise, verdict
<1>12. CASE TimeExpires
  BY <1>12, <1>g DEF TimeExpires, verdict, Terminal
<1>13. CASE UNCHANGED vars
  BY <1>13 DEF vars, verdict, OneVerdict
<1> QED
  BY <1>1, <1>2, <1>3, <1>4, <1>5, <1>6, <1>8, <1>9, <1>10, <1>11, <1>12, <1>13
  DEF Next, Loop, Terminated

(* A run that returns has one verdict, and its trace is closed by it.      *)
THEOREM RunsEndOnce == Spec => []OneVerdict
<1>1. Spec => []TypeOK
  BY TypeCorrect
<1>2. Spec => []Progress
  BY ProgressInvariant
<1>3. Init => OneVerdict
  BY DEF Init, OneVerdict
<1> QED
  BY <1>1, <1>2, <1>3, VerdictNext, PTL DEF Spec

----------------------------------------------------------------------------
(* The conversation and the trace tell the same story.  What a step counts *)
(* on is whose turn it is: a question is outstanding where a request is    *)
(* made or prepared, an answer where a tool is about to run.               *)
Turns(place, conversation) ==
  /\ place = "start" => conversation = <<>>
  /\ place \in {"prepare", "request", "awaiting", "exhausted"} =>
       Len(conversation) >= 2 /\ Len(conversation) % 2 = 0
  /\ place \in {"tool", "execute"} =>
       Len(conversation) > 2 /\ Len(conversation) % 2 = 1

InTurn(conversation) ==
  \A i \in DOMAIN conversation :
    i > 2 => (conversation[i].role = "assistant" <=> i % 2 = 1)

Exchanged == Turns(pc, history) /\ ConversationMatchesTrace

LEMMA RoleCountAppend ==
  ASSUME NEW s \in Seq(Messages), NEW m \in Messages, NEW role
  PROVE  /\ RoleCount(Append(s, m), role) =
              RoleCount(s, role) + (IF m.role = role THEN 1 ELSE 0)
         /\ RoleCount(s, role) \in Nat
<1> DEFINE I == {i \in DOMAIN s : s[i].role = role}
           J == {i \in DOMAIN Append(s, m) : Append(s, m)[i].role = role}
<1>1. I \in SUBSET DOMAIN s
  OBVIOUS
<1>2. J = IF m.role = role THEN I \cup {Len(s) + 1} ELSE I
  BY <1>1, AppendIndices
<1>3. Cardinality(I \cup {Len(s) + 1}) = Cardinality(I) + 1
  BY <1>1, AppendIndices
<1>4. Cardinality(I) \in Nat
  BY <1>1, IndicesFinite
<1>5. RoleCount(s, role) = Cardinality(I) /\ RoleCount(Append(s, m), role) = Cardinality(J)
  BY DEF RoleCount
<1> HIDE DEF I, J
<1>6. Cardinality(J) = Cardinality(I) + (IF m.role = role THEN 1 ELSE 0)
  BY <1>2, <1>3, <1>4
<1> QED
  BY <1>4, <1>5, <1>6

LEMMA Parity ==
  ASSUME NEW n \in Nat
  PROVE  /\ n % 2 = 0 <=> (n + 1) % 2 = 1
         /\ n % 2 = 1 <=> (n + 1) % 2 = 0
         /\ n % 2 = 0 <=> (n + 2) % 2 = 0
  OBVIOUS

(* An answer goes to an odd place, everything else to an even one.         *)
LEMMA InTurnAppend ==
  ASSUME NEW s \in Seq(Messages), NEW m \in Messages, InTurn(s),
         m.role = "assistant" <=> (Len(s) + 1) % 2 = 1
  PROVE  InTurn(Append(s, m))
<1>1. DOMAIN s = 1..Len(s) /\ Len(s) \in Nat
  OBVIOUS
<1>2. DOMAIN Append(s, m) = 1..(Len(s) + 1)
  OBVIOUS
<1>3. \A i \in 1..(Len(s) + 1) : Append(s, m)[i] = IF i = Len(s) + 1 THEN m ELSE s[i]
  OBVIOUS
<1> SUFFICES ASSUME NEW i \in 1..(Len(s) + 1), i > 2
             PROVE  Append(s, m)[i].role = "assistant" <=> i % 2 = 1
  BY <1>2 DEF InTurn
<1>4. CASE i = Len(s) + 1
  BY <1>3, <1>4
<1>5. CASE i # Len(s) + 1
  <2>1. i \in DOMAIN s /\ Append(s, m)[i] = s[i]
    BY <1>1, <1>3, <1>5
  <2> QED
    BY <2>1 DEF InTurn
<1> QED
  BY <1>4, <1>5

(* What one message more does to a conversation that takes turns.          *)
LEMMA Spoken ==
  ASSUME NEW s \in Seq(Messages), NEW role \in Roles, NEW tokens \in ContentTokens
  PROVE  /\ Append(s, Say(role, tokens)) \in Seq(Messages)
         /\ Len(Append(s, Say(role, tokens))) = Len(s) + 1
         /\ Len(s) \in Nat
         /\ \A counted :
              /\ RoleCount(Append(s, Say(role, tokens)), counted) =
                   RoleCount(s, counted) + (IF role = counted THEN 1 ELSE 0)
              /\ RoleCount(s, counted) \in Nat
         /\ InTurn(s) /\ (role = "assistant" <=> Len(s) % 2 = 0) =>
              InTurn(Append(s, Say(role, tokens)))
<1>1. Say(role, tokens) \in Messages
  BY SaidTyped
<1>2. Say(role, tokens).role = role
  BY DEF Say
<1>3. Len(s) \in Nat
  OBVIOUS
<1>4. InTurn(s) /\ (role = "assistant" <=> Len(s) % 2 = 0) =>
        InTurn(Append(s, Say(role, tokens)))
  BY <1>1, <1>2, <1>3, InTurnAppend, Parity
<1>5. \A counted :
        /\ RoleCount(Append(s, Say(role, tokens)), counted) =
             RoleCount(s, counted) + (IF role = counted THEN 1 ELSE 0)
        /\ RoleCount(s, counted) \in Nat
  BY <1>1, <1>2, RoleCountAppend
<1> QED
  BY <1>1, <1>3, <1>4, <1>5

(* A tool that ran adds its result, after what it may have retrieved.      *)
LEMMA ExecutedCounted ==
  ASSUME TypeOK, NEW tool \in Tools, NEW path \in PathsNamed(tool),
         ExecuteTool(tool, path), NEW counted, counted # "retrieval"
  PROVE  Count(events', counted) =
           Count(events, counted) + (IF counted = "tool_result" THEN 1 ELSE 0)
<1> DEFINE recovered == Append(events, Event("retrieval", "explicit", NoPath))
<1>a. events \in Seq(AgentEvents) /\ Count(events, counted) \in Nat
  BY CountNat DEF TypeOK
<1>b. /\ {"retrieval", "tool_result"} \subseteq Kinds
      /\ "explicit" \in Notes /\ tool \in Notes /\ path \in Paths \cup {NoPath}
  BY DataAssumption DEF Kinds, Notes, ToolNames, PathsNamed
<1>1. recovered \in Seq(AgentEvents) /\ Count(recovered, counted) = Count(events, counted)
  BY <1>a, <1>b, EventCounted
<1>2. \A trace \in Seq(AgentEvents) :
        Count(Append(trace, Event("tool_result", tool, path)), counted) =
          Count(trace, counted) + (IF counted = "tool_result" THEN 1 ELSE 0)
  BY <1>b, EventCounted
<1>3. \/ events' = Append(recovered, Event("tool_result", tool, path))
      \/ events' = Append(events, Event("tool_result", tool, path))
  BY DEF ExecuteTool
<1> HIDE DEF recovered
<1> QED
  BY <1>a, <1>1, <1>2, <1>3

(* What holds of counts and turns where nobody speaks.                     *)
LEMMA NobodySpoke ==
  ASSUME Exchanged, UNCHANGED <<history, toolCalls>>, Turns(pc', history),
         Count(events', "inference_response") = Count(events, "inference_response"),
         Count(events', "tool_result") = Count(events, "tool_result")
  PROVE  Exchanged'
<1>1. Turns(pc, history)'
  OBVIOUS
<1>2. ConversationMatchesTrace'
  BY DEF Exchanged, ConversationMatchesTrace
<1> QED
  BY <1>1, <1>2 DEF Exchanged

LEMMA ExchangedNext == TypeOK /\ Exchanged /\ [Next]_vars => Exchanged'
<1> SUFFICES ASSUME TypeOK, Exchanged, [Next]_vars PROVE Exchanged'
  OBVIOUS
<1>a. /\ events \in Seq(AgentEvents) /\ history \in Seq(Messages) /\ toolCalls \in Nat
      /\ Len(history) \in Nat
  BY DEF TypeOK
<1>b. /\ Count(events, "inference_response") \in Nat /\ Count(events, "tool_result") \in Nat
      /\ RoleCount(history, "assistant") = Count(events, "inference_response")
      /\ RoleCount(history, "tool") = Count(events, "tool_result")
      /\ RoleCount(history, "tool") = toolCalls
      /\ InTurn(history) /\ Turns(pc, history)
  BY <1>a, CountNat DEF Exchanged, ConversationMatchesTrace, InTurn
<1>c. {"assistant", "user", "tool", "system"} \subseteq Roles
  BY DEF Roles
<1>d. ASSUME NEW kind \in Kinds, NEW note \in Notes, NEW path \in Paths \cup {NoPath},
             Emit(kind, note, path), NEW counted
      PROVE  Count(events', counted) = Count(events, counted) + (IF kind = counted THEN 1 ELSE 0)
  BY <1>a, <1>d, EventCounted DEF Emit
<1>e. ASSUME NEW reason \in LimitReasons, FailLimit(reason), UNCHANGED <<history, toolCalls>>
      PROVE  Exchanged'
  <2>1. pc' = "done"
    BY <1>e DEF FailLimit
  <2>2. Turns(pc', history)
    BY <2>1 DEF Turns
  <2>3. /\ Count(events', "inference_response") = Count(events, "inference_response")
        /\ Count(events', "tool_result") = Count(events, "tool_result")
    BY <1>e, FailureCounted
  <2> QED
    BY <1>e, <2>2, <2>3, NobodySpoke
<1>f. ASSUME UNCHANGED <<history, toolCalls, events>>, Turns(pc', history)
      PROVE  Exchanged'
  BY <1>f, NobodySpoke
<1>g. ASSUME InTurn(history'), Turns(pc', history'),
             RoleCount(history', "assistant") = Count(events', "inference_response"),
             RoleCount(history', "tool") = Count(events', "tool_result"),
             RoleCount(history', "tool") = toolCalls'
      PROVE  Exchanged'
  BY <1>g DEF Exchanged, ConversationMatchesTrace, InTurn
<1>h. {"inference_response", "tool_result", "status", "context_failure"} \subseteq Kinds
      /\ {"none", "completed"} \subseteq Notes
  BY DEF Kinds, Notes
<1>1. CASE Start
  <2>1. PICK s, t \in ContentTokens : history' = <<Say("system", s), Say("user", t)>>
    BY <1>1 DEF Start
  <2>2. history = <<>> /\ pc' = "prepare" /\ UNCHANGED <<events, toolCalls>>
    BY <1>1, <1>b DEF Start, Turns, work
  <2>3. history' = Append(Append(history, Say("system", s)), Say("user", t))
    BY <2>1, <2>2
  <2> DEFINE told == Append(history, Say("system", s))
  <2>a. /\ told \in Seq(Messages) /\ Len(told) = Len(history) + 1
        /\ \A counted :
             /\ RoleCount(told, counted) =
                  RoleCount(history, counted) + (IF "system" = counted THEN 1 ELSE 0)
             /\ RoleCount(history, counted) \in Nat
    BY <1>a, <1>c, Spoken
  <2>b. history' = Append(told, Say("user", t))
    BY <2>3
  <2> HIDE DEF told
  <2>c. /\ Len(history') = Len(told) + 1
        /\ \A counted :
             RoleCount(history', counted) =
               RoleCount(told, counted) + (IF "user" = counted THEN 1 ELSE 0)
    BY <1>c, <2>a, <2>b, Spoken
  <2>d. Len(history) = 0
    BY <2>2
  <2>5. /\ Len(history') = 2
        /\ RoleCount(history', "assistant") = RoleCount(history, "assistant")
        /\ RoleCount(history', "tool") = RoleCount(history, "tool")
    BY <2>a, <2>c, <2>d
  <2>6. InTurn(history')
    <3>1. DOMAIN history' = 1..2
      BY <2>1
    <3> QED
      BY <3>1 DEF InTurn
  <2>7. Turns(pc', history')
    BY <2>2, <2>5 DEF Turns
  <2> QED
    BY <1>b, <1>g, <2>2, <2>5, <2>6, <2>7
<1>2. ASSUME NEW compaction \in Compactions, PrepareContext(compaction)
      PROVE  Exchanged'
  <2>1. /\ pc = "prepare" /\ pc' = "request" /\ UNCHANGED <<history, toolCalls>>
        /\ events' = PreparedTrace(compaction)
    BY <1>2 DEF PrepareContext
  <2>2. /\ Count(events', "inference_response") = Count(events, "inference_response")
        /\ Count(events', "tool_result") = Count(events, "tool_result")
    BY <1>b, <2>1, PreparedCounted
  <2>3. Turns(pc', history)
    BY <1>b, <2>1 DEF Turns
  <2> QED
    BY <2>1, <2>2, <2>3, NobodySpoke
<1>3. ASSUME NEW compaction \in Compactions, ContextOverflow(compaction)
      PROVE  Exchanged'
  <2>1. /\ pc' = "done" /\ UNCHANGED <<history, toolCalls>>
        /\ Emit("context_failure", "none", NoPath)
    BY <1>3 DEF ContextOverflow
  <2>2. /\ Count(events', "inference_response") = Count(events, "inference_response")
        /\ Count(events', "tool_result") = Count(events, "tool_result")
    BY <1>b, <1>d, <1>h, <2>1
  <2>3. Turns(pc', history)
    BY <2>1 DEF Turns
  <2> QED
    BY <2>1, <2>2, <2>3, NobodySpoke
<1>4. CASE BeforeModel \/ BeforeTool
  <2>1. {"wall_clock", "model_requests", "tool_calls"} \subseteq LimitReasons
        /\ UNCHANGED <<history, toolCalls>>
    BY <1>4 DEF BeforeModel, BeforeTool, LimitReasons
  <2>2. \/ FailLimit("wall_clock") \/ FailLimit("model_requests")
        \/ FailLimit("tool_calls")
        \/ UNCHANGED events /\ \/ pc = "request" /\ pc' = "awaiting"
                               \/ pc = "tool" /\ pc' = "execute"
    BY <1>4 DEF BeforeModel, BeforeTool
  <2>3. CASE UNCHANGED events /\ \/ pc = "request" /\ pc' = "awaiting"
                                 \/ pc = "tool" /\ pc' = "execute"
    <3>1. Turns(pc', history)
      BY <1>b, <2>3 DEF Turns
    <3> QED
      BY <1>f, <2>1, <2>3, <3>1
  <2> QED
    BY <1>e, <2>1, <2>2, <2>3
<1>5. CASE AfterModelRaises \/ StepsExhausted
  <2>1. "generated_tokens" \in LimitReasons /\ "steps" \in LimitReasons
    BY DEF LimitReasons
  <2>2. /\ FailLimit("generated_tokens") \/ FailLimit("steps")
        /\ UNCHANGED <<history, toolCalls>>
    BY <1>5 DEF AfterModelRaises, StepsExhausted, work
  <2> QED
    BY <1>e, <2>1, <2>2
<1>6. ASSUME Record
      PROVE  UNCHANGED toolCalls /\ Len(history) >= 2 /\ Len(history) % 2 = 0
  BY <1>6, <1>b DEF Record, Answer, Turns
<1>7. ASSUME NEW a \in ContentTokens, Len(history) >= 2, Len(history) % 2 = 0
      PROVE  LET answered_ == Append(history, Say("assistant", a)) IN
             /\ answered_ \in Seq(Messages) /\ InTurn(answered_)
             /\ Len(answered_) > 2 /\ Len(answered_) % 2 = 1
             /\ RoleCount(answered_, "assistant") = Count(events, "inference_response") + 1
             /\ RoleCount(answered_, "tool") = Count(events, "tool_result")
  BY <1>a, <1>b, <1>c, <1>7, Spoken, Parity
<1>8. ASSUME Emit("inference_response", "none", NoPath)
      PROVE  /\ Count(events', "inference_response") = Count(events, "inference_response") + 1
             /\ Count(events', "tool_result") = Count(events, "tool_result")
  BY <1>b, <1>d, <1>h, <1>8
<1>9. CASE MalformedDecision
  <2>1. PICK a, u \in ContentTokens : history' = Correction(a, u)
    BY <1>9 DEF MalformedDecision
  <2>2. /\ UNCHANGED toolCalls /\ Len(history) >= 2 /\ Len(history) % 2 = 0
        /\ Emit("inference_response", "none", NoPath) /\ pc' \in {"prepare", "exhausted"}
    BY <1>6, <1>9 DEF MalformedDecision, Advance
  <2> DEFINE said == Append(history, Say("assistant", a))
  <2>3. /\ said \in Seq(Messages) /\ InTurn(said) /\ Len(said) > 2 /\ Len(said) % 2 = 1
        /\ RoleCount(said, "assistant") = Count(events, "inference_response") + 1
        /\ RoleCount(said, "tool") = Count(events, "tool_result")
    BY <1>7, <2>2
  <2>4. history' = Append(said, Say("user", u))
    BY <2>1 DEF Correction
  <2> HIDE DEF said
  <2>5. /\ InTurn(history') /\ Len(history') = Len(said) + 1 /\ Len(said) \in Nat
        /\ RoleCount(history', "assistant") = RoleCount(said, "assistant")
        /\ RoleCount(history', "tool") = RoleCount(said, "tool")
    BY <1>c, <2>3, <2>4, Spoken
  <2>6. Turns(pc', history')
    BY <2>2, <2>3, <2>5, Parity DEF Turns
  <2> QED
    BY <1>b, <1>g, <1>8, <2>2, <2>3, <2>5, <2>6
<1>10. CASE Finish
  <2>1. PICK a \in ContentTokens : history' = Append(history, Say("assistant", a))
    BY <1>10 DEF Finish
  <2>2. /\ UNCHANGED toolCalls /\ Len(history) >= 2 /\ Len(history) % 2 = 0
        /\ pc' = "done"
    BY <1>6, <1>10 DEF Finish
  <2> DEFINE response == Append(events, Event("inference_response", "none", NoPath))
  <2>3. /\ response \in Seq(AgentEvents)
        /\ Count(response, "inference_response") = Count(events, "inference_response") + 1
        /\ Count(response, "tool_result") = Count(events, "tool_result")
    BY <1>a, <1>b, <1>h, EventCounted
  <2>4. events' = Append(response, Event("status", "completed", NoPath))
    BY <1>10 DEF Finish
  <2> HIDE DEF response
  <2>5. /\ Count(events', "inference_response") = Count(events, "inference_response") + 1
        /\ Count(events', "tool_result") = Count(events, "tool_result")
    BY <1>b, <1>h, <2>3, <2>4, EventCounted
  <2>6. Turns(pc', history')
    BY <2>2 DEF Turns
  <2> QED
    BY <1>b, <1>g, <1>7, <2>1, <2>2, <2>5, <2>6
<1>11. CASE ChooseTool
  <2>1. PICK a \in ContentTokens : history' = Append(history, Say("assistant", a))
    BY <1>11 DEF ChooseTool
  <2>2. /\ UNCHANGED toolCalls /\ Len(history) >= 2 /\ Len(history) % 2 = 0
        /\ Emit("inference_response", "none", NoPath) /\ pc' = "tool"
    BY <1>6, <1>11 DEF ChooseTool
  <2>3. Turns(pc', history')
    BY <1>7, <2>1, <2>2 DEF Turns
  <2> QED
    BY <1>b, <1>g, <1>7, <1>8, <2>1, <2>2, <2>3
<1>12. ASSUME NEW tool \in Tools, NEW path \in PathsNamed(tool),
              ExecuteTool(tool, path)
       PROVE  Exchanged'
  <2>1. PICK t \in ContentTokens : history' = Append(history, Say("tool", t))
    BY <1>12 DEF ExecuteTool
  <2>2. /\ toolCalls' = toolCalls + 1 /\ pc' \in {"prepare", "exhausted"}
        /\ Len(history) > 2 /\ Len(history) % 2 = 1
    BY <1>b, <1>12 DEF ExecuteTool, Advance, Turns
  <2>3. /\ Count(events', "inference_response") = Count(events, "inference_response")
        /\ Count(events', "tool_result") = Count(events, "tool_result") + 1
    BY <1>b, <1>12, ExecutedCounted
  <2>4. /\ InTurn(history') /\ Len(history') = Len(history) + 1
        /\ RoleCount(history', "assistant") = RoleCount(history, "assistant")
        /\ RoleCount(history', "tool") = RoleCount(history, "tool") + 1
    BY <1>a, <1>b, <1>c, <2>1, <2>2, Spoken
  <2>5. Turns(pc', history')
    BY <1>a, <2>2, <2>4, Parity DEF Turns
  <2> QED
    BY <1>b, <1>g, <2>2, <2>3, <2>4, <2>5
<1>13. CASE Raise
  <2>1. pc' = "raised" /\ UNCHANGED <<history, toolCalls, events>>
    BY <1>13 DEF Raise, work
  <2> QED
    BY <1>f, <2>1 DEF Turns
<1>14. CASE TimeExpires \/ UNCHANGED vars
  BY <1>14, <1>b, <1>f DEF TimeExpires, vars, work
<1> QED
  BY <1>1, <1>2, <1>3, <1>4, <1>5, <1>9, <1>10, <1>11, <1>12, <1>13, <1>14
  DEF Next, Loop, Terminated

LEMMA ExchangedInvariant == Spec => []Exchanged
<1>1. Init => Exchanged
  <2> SUFFICES ASSUME Init PROVE Exchanged
    OBVIOUS
  <2>1. /\ {i \in DOMAIN events : events[i].kind = "inference_response"} = {}
        /\ {i \in DOMAIN events : events[i].kind = "tool_result"} = {}
        /\ {i \in DOMAIN history : history[i].role = "assistant"} = {}
        /\ {i \in DOMAIN history : history[i].role = "tool"} = {}
        /\ toolCalls = 0 /\ pc = "start" /\ history = <<>>
    BY DEF Init
  <2>2. ConversationMatchesTrace
    <3>1. /\ RoleCount(history, "assistant") = 0 /\ RoleCount(history, "tool") = 0
          /\ Count(events, "inference_response") = 0 /\ Count(events, "tool_result") = 0
      BY <2>1, FS_EmptySet DEF Count, RoleCount
    <3>2. \A i \in DOMAIN history : FALSE
      BY <2>1
    <3> QED
      BY <2>1, <3>1, <3>2 DEF ConversationMatchesTrace
  <2>3. Turns(pc, history)
    BY <2>1 DEF Turns
  <2> QED
    BY <2>2, <2>3 DEF Exchanged
<1>2. Spec => []TypeOK
  BY TypeCorrect
<1> QED
  BY <1>1, <1>2, ExchangedNext, PTL DEF Spec

(* What the model was told and what the trace says of it agree, message by *)
(* message: no answer without its event, no result without its message.    *)
THEOREM ConversationIsTheTrace == Spec => []ConversationMatchesTrace
<1>1. Exchanged => ConversationMatchesTrace
  BY DEF Exchanged
<1> QED
  BY <1>1, ExchangedInvariant, PTL

----------------------------------------------------------------------------
(* The trace is in order.  An event may come after the last one there is,  *)
(* and how late in an iteration the last one can be depends on the place:  *)
(* before a preparation nothing of this step is traced, and before a       *)
(* response its own preparation is the last event.                         *)
Follows(last, e) ==
  /\ last.step <= e.step
  /\ last.step = e.step => Stage(last) < Stage(e)
  /\ e.kind = "inference_response" =>
       last.kind = "context_prepared" /\ last.step = e.step

InOrder(trace) == \A i \in 1..(Len(trace) - 1) : Follows(trace[i], trace[i + 1])

Placed(place, now, trace) ==
  LET last == trace[Len(trace)]
  IN  /\ place = "start" => trace = <<>>
      /\ place = "prepare" => trace = <<>> \/ last.step < now
      /\ place \in {"request", "awaiting"} =>
           /\ trace # <<>> /\ last.step = now
           /\ last.kind = "context_prepared" /\ Stage(last) = 2
      /\ place \in {"tool", "execute"} =>
           trace # <<>> /\ last.step = now /\ Stage(last) = 3
      /\ place = "exhausted" =>
           trace # <<>> /\ last.step = now /\ Stage(last) < 6

Replayable == Placed(pc, step, events) /\ InOrder(events)

LEMMA LastAppended ==
  ASSUME NEW S, NEW s \in Seq(S), NEW e \in S
  PROVE  /\ Append(s, e) # <<>> /\ Append(s, e) \in Seq(S)
         /\ Append(s, e)[Len(Append(s, e))] = e
<1>1. Len(Append(s, e)) = Len(s) + 1 /\ Len(s) \in Nat /\ Append(s, e)[Len(s) + 1] = e
  OBVIOUS
<1>2. Append(s, e) # <<>>
  <2>1. Len(<<>>) = 0
    OBVIOUS
  <2> QED
    BY <1>1, <2>1
<1> QED
  BY <1>1, <1>2

LEMMA InOrderAppend ==
  ASSUME NEW trace \in Seq(AgentEvents), NEW e \in AgentEvents, InOrder(trace),
         trace # <<>> => Follows(trace[Len(trace)], e)
  PROVE  InOrder(Append(trace, e))
<1> DEFINE longer == Append(trace, e)
<1>1. Len(longer) = Len(trace) + 1 /\ Len(trace) \in Nat
  OBVIOUS
<1>2. \A i \in 1..(Len(trace) + 1) : longer[i] = IF i = Len(trace) + 1 THEN e ELSE trace[i]
  OBVIOUS
<1>3. trace = <<>> => Len(trace) = 0
  OBVIOUS
<1> HIDE DEF longer
<1> SUFFICES ASSUME NEW i \in 1..Len(trace) PROVE Follows(longer[i], longer[i + 1])
  BY <1>1 DEF InOrder, longer
<1>4. CASE i = Len(trace)
  BY <1>1, <1>2, <1>3, <1>4
<1>5. CASE i # Len(trace)
  <2>1. i \in 1..(Len(trace) - 1)
    BY <1>1, <1>5
  <2>2. longer[i] = trace[i] /\ longer[i + 1] = trace[i + 1]
    BY <1>1, <1>2, <2>1
  <2> QED
    BY <2>1, <2>2 DEF InOrder
<1> QED
  BY <1>4, <1>5

(* Where in an iteration the events of the loop are.                       *)
LEMMA Stages ==
  ASSUME TypeOK
  PROVE  /\ \A note \in Compactions : Stage(Event("compaction", note, NoPath)) = 0
         /\ Stage(Event("retrieval", "automatic", NoPath)) = 1
         /\ Stage(Event("context_prepared", "none", NoPath)) = 2
         /\ Stage(Event("inference_response", "none", NoPath)) = 3
         /\ Stage(Event("retrieval", "explicit", NoPath)) = 4
         /\ \A tool \in Tools, path \in Paths \cup {NoPath} :
              Stage(Event("tool_result", tool, path)) = 5
         /\ \A reason \in LimitReasons \cup {"completed"} :
              Stage(Event("status", reason, NoPath)) = 6
         /\ Stage(Event("context_failure", "none", NoPath)) = 6
  BY DataAssumption DEF Stage, Event, Compactions, ToolNames, LimitReasons

(* One event more keeps a trace in order, and is the last one then.        *)
LEMMA Traced ==
  ASSUME TypeOK, NEW kind \in Kinds, NEW note \in Notes,
         NEW path \in Paths \cup {NoPath}, NEW trace \in Seq(AgentEvents),
         InOrder(trace), trace # <<>> => Follows(trace[Len(trace)], Event(kind, note, path))
  PROVE  LET longer == Append(trace, Event(kind, note, path)) IN
         /\ longer \in Seq(AgentEvents) /\ longer # <<>> /\ InOrder(longer)
         /\ longer[Len(longer)] = Event(kind, note, path)
<1>1. Event(kind, note, path) \in AgentEvents
  BY EventTyped
<1> QED
  BY <1>1, LastAppended, InOrderAppend

(* An event of this step may follow whatever is of an earlier one, and of  *)
(* this step whatever has an earlier stage.                                *)
LEMMA FollowsOlder ==
  ASSUME TypeOK, NEW last \in AgentEvents, NEW kind, NEW note, NEW path,
         kind # "inference_response",
         \/ last.step < step
         \/ last.step = step /\ Stage(last) < Stage(Event(kind, note, path))
  PROVE  Follows(last, Event(kind, note, path))
<1>1. last.step \in Int /\ step \in Int
  BY LimitsAssumption DEF TypeOK, AgentEvents
<1>2. Event(kind, note, path).step = step /\ Event(kind, note, path).kind = kind
  BY DEF Event
<1> QED
  BY <1>1, <1>2 DEF Follows

LEMMA ReplayableNext == TypeOK /\ Replayable /\ [Next]_vars => Replayable'
<1> SUFFICES ASSUME TypeOK, Replayable, [Next]_vars PROVE Replayable'
  OBVIOUS
<1> DEFINE last == events[Len(events)]
<1>a. events \in Seq(AgentEvents) /\ step \in Nat /\ (events # <<>> => last \in AgentEvents)
  <2>1. events \in Seq(AgentEvents) /\ step \in Nat
    BY LimitsAssumption DEF TypeOK
  <2>2. events # <<>> => Len(events) \in 1..Len(events)
    BY <2>1
  <2> QED
    BY <2>1, <2>2
<1>b. InOrder(events) /\ Placed(pc, step, events)
  BY DEF Replayable
<1>c. {"wall_clock", "model_requests", "tool_calls", "generated_tokens", "steps"} \subseteq LimitReasons
  BY DEF LimitReasons
<1>d. /\ {"compaction", "retrieval", "context_prepared", "inference_response",
          "tool_result", "status", "context_failure"} \subseteq Kinds
      /\ {"none", "automatic", "explicit", "completed"} \subseteq Notes
      /\ LimitReasons \subseteq Notes
  BY DEF Kinds, Notes
<1>e. \A kind, note, path : Event(kind, note, path).step = step
                            /\ Event(kind, note, path).kind = kind
  BY DEF Event
<1>f. ASSUME NEW reason \in LimitReasons, FailLimit(reason),
             events # <<>>, last.step = step, Stage(last) < 6
      PROVE  Replayable'
  <2>1. Stage(Event("status", reason, NoPath)) = 6
    BY Stages
  <2>2. Follows(last, Event("status", reason, NoPath))
    BY <1>a, <1>f, <2>1, FollowsOlder
  <2>3. events' = Append(events, Event("status", reason, NoPath)) /\ pc' = "done"
    BY <1>f DEF FailLimit, Emit
  <2>4. InOrder(events')
    BY <1>a, <1>b, <1>d, <2>2, <2>3, Traced
  <2> QED
    BY <2>3, <2>4 DEF Replayable, Placed
<1>g. ASSUME UNCHANGED <<events, step>>, Placed(pc', step, events)
      PROVE  Replayable'
  BY <1>b, <1>g DEF Replayable
<1>h. ASSUME InOrder(events'), Placed(pc', step', events')
      PROVE  Replayable'
  BY <1>h DEF Replayable
<1>i. ASSUME Advance, events' # <<>>, events'[Len(events')].step = step,
             Stage(events'[Len(events')]) < 6, InOrder(events')
      PROVE  Replayable'
  <2>1. Placed(pc', step', events')
    BY <1>a, <1>i DEF Advance, Placed
  <2> QED
    BY <1>h, <1>i, <2>1
<1> DEFINE response == Append(events, Event("inference_response", "none", NoPath))
<1>j. ASSUME pc = "awaiting"
      PROVE  /\ response \in Seq(AgentEvents) /\ response # <<>> /\ InOrder(response)
             /\ response[Len(response)] = Event("inference_response", "none", NoPath)
             /\ response[Len(response)].step = step /\ Stage(response[Len(response)]) = 3
  <2>1. /\ events # <<>> /\ last.step = step /\ last.kind = "context_prepared"
        /\ Stage(last) = 2
    BY <1>b, <1>j DEF Placed
  <2>2. Stage(Event("inference_response", "none", NoPath)) = 3
    BY Stages
  <2>3. Follows(last, Event("inference_response", "none", NoPath))
    BY <1>a, <1>e, <2>1, <2>2 DEF Follows
  <2> QED
    BY <1>a, <1>b, <1>d, <1>e, <2>2, <2>3, Traced
<1> HIDE DEF last, response
<1>1. CASE Start
  <2>1. UNCHANGED <<events, step>> /\ pc' = "prepare" /\ events = <<>>
    BY <1>1, <1>b DEF Start, Placed
  <2> QED
    BY <1>g, <2>1 DEF Placed
<1>2. ASSUME NEW compaction \in Compactions, PrepareContext(compaction)
      PROVE  Replayable'
  <2> DEFINE compacted == Append(events, Event("compaction", compaction, NoPath))
             retrieved == Append(events, Event("retrieval", "automatic", NoPath))
  <2>1. /\ pc = "prepare" /\ pc' = "request" /\ step' = step
        /\ events' = PreparedTrace(compaction)
    BY <1>2 DEF PrepareContext
  <2>2. compaction \in Notes
    BY DEF Compactions, Notes
  <2>3. events # <<>> => last.step < step
    BY <1>b, <2>1 DEF Placed, last
  <2>4. \A kind, note : events # <<>> /\ kind # "inference_response" =>
          Follows(last, Event(kind, note, NoPath))
    BY <1>a, <2>3, FollowsOlder
  <2>5. /\ Stage(Event("compaction", compaction, NoPath)) = 0
        /\ Stage(Event("retrieval", "automatic", NoPath)) = 1
        /\ Stage(Event("context_prepared", "none", NoPath)) = 2
    BY Stages
  <2>6. /\ compacted \in Seq(AgentEvents) /\ compacted # <<>> /\ InOrder(compacted)
        /\ compacted[Len(compacted)] = Event("compaction", compaction, NoPath)
    BY <1>a, <1>b, <1>d, <2>2, <2>4, Traced DEF last
  <2>7. /\ retrieved \in Seq(AgentEvents) /\ retrieved # <<>> /\ InOrder(retrieved)
        /\ retrieved[Len(retrieved)] = Event("retrieval", "automatic", NoPath)
    BY <1>a, <1>b, <1>d, <2>4, Traced DEF last
  <2> HIDE DEF compacted, retrieved
  <2>8. \E trace \in {compacted, retrieved, events} :
          /\ events' = Append(trace, Event("context_prepared", "none", NoPath))
          /\ trace \in Seq(AgentEvents) /\ InOrder(trace)
          /\ trace # <<>> =>
               Follows(trace[Len(trace)], Event("context_prepared", "none", NoPath))
    <3>1. Follows(Event("compaction", compaction, NoPath),
                  Event("context_prepared", "none", NoPath))
      BY <1>a, <1>e, <2>5 DEF Follows
    <3>2. Follows(Event("retrieval", "automatic", NoPath),
                  Event("context_prepared", "none", NoPath))
      BY <1>a, <1>e, <2>5 DEF Follows
    <3>3. events # <<>> => Follows(last, Event("context_prepared", "none", NoPath))
      BY <2>4
    <3>4. \/ events' = Append(compacted, Event("context_prepared", "none", NoPath))
          \/ events' = Append(retrieved, Event("context_prepared", "none", NoPath))
          \/ events' = Append(events, Event("context_prepared", "none", NoPath))
      BY <2>1, PreparedTraceShape DEF compacted, retrieved
    <3> QED
      BY <1>a, <1>b, <2>6, <2>7, <3>1, <3>2, <3>3, <3>4 DEF last
  <2>9. /\ InOrder(events') /\ events' # <<>>
        /\ events'[Len(events')] = Event("context_prepared", "none", NoPath)
    BY <1>d, <2>8, Traced
  <2>10. Placed(pc', step', events')
    BY <1>e, <2>1, <2>5, <2>9 DEF Placed
  <2> QED
    BY <1>h, <2>9, <2>10
<1>3. ASSUME NEW compaction \in Compactions, ContextOverflow(compaction)
      PROVE  Replayable'
  <2>1. /\ pc = "prepare" /\ pc' = "done"
        /\ events' = Append(events, Event("context_failure", "none", NoPath))
    BY <1>3 DEF ContextOverflow, Emit
  <2>2. events # <<>> => last.step < step
    BY <1>b, <2>1 DEF Placed, last
  <2>3. events # <<>> => Follows(last, Event("context_failure", "none", NoPath))
    BY <1>a, <2>2, FollowsOlder
  <2>4. InOrder(events')
    BY <1>a, <1>b, <1>d, <2>1, <2>3, Traced DEF last
  <2> QED
    BY <1>h, <2>1, <2>4 DEF Placed
<1>4. CASE BeforeModel \/ BeforeTool
  <2>1. pc \in {"request", "tool"} /\ UNCHANGED step
    BY <1>4 DEF BeforeModel, BeforeTool
  <2>2. events # <<>> /\ last.step = step /\ Stage(last) < 6
    BY <1>b, <2>1 DEF Placed, last
  <2>3. \/ FailLimit("wall_clock") \/ FailLimit("model_requests")
        \/ FailLimit("tool_calls")
        \/ UNCHANGED events /\ \/ pc = "request" /\ pc' = "awaiting"
                               \/ pc = "tool" /\ pc' = "execute"
    BY <1>4 DEF BeforeModel, BeforeTool
  <2>4. CASE UNCHANGED events /\ \/ pc = "request" /\ pc' = "awaiting"
                                 \/ pc = "tool" /\ pc' = "execute"
    <3>1. Placed(pc', step, events)
      BY <1>b, <2>4 DEF Placed
    <3> QED
      BY <1>g, <2>1, <2>4, <3>1
  <2> QED
    BY <1>c, <1>f, <2>2, <2>3, <2>4
<1>5. CASE AfterModelRaises
  <2>1. pc = "awaiting" /\ FailLimit("generated_tokens")
    BY <1>5 DEF AfterModelRaises, Answer
  <2>2. events # <<>> /\ last.step = step /\ Stage(last) < 6
    BY <1>b, <2>1 DEF Placed, last
  <2> QED
    BY <1>c, <1>f, <2>1, <2>2
<1>6. CASE StepsExhausted
  <2>1. pc = "exhausted" /\ FailLimit("steps")
    BY <1>6 DEF StepsExhausted
  <2>2. events # <<>> /\ last.step = step /\ Stage(last) < 6
    BY <1>b, <2>1 DEF Placed, last
  <2> QED
    BY <1>c, <1>f, <2>1, <2>2
<1>7. Record => pc = "awaiting"
  BY DEF Record, Answer
<1>8. CASE MalformedDecision
  <2>1. pc = "awaiting" /\ events' = response /\ Advance
    BY <1>7, <1>8 DEF MalformedDecision, Emit, response
  <2> QED
    BY <1>i, <1>j, <2>1
<1>9. CASE Finish
  <2>1. /\ pc = "awaiting" /\ pc' = "done"
        /\ events' = Append(response, Event("status", "completed", NoPath))
    BY <1>7, <1>9 DEF Finish, response
  <2>2. Stage(Event("status", "completed", NoPath)) = 6
    BY Stages
  <2>3. Follows(response[Len(response)], Event("status", "completed", NoPath))
    BY <1>a, <1>e, <1>j, <2>1, <2>2 DEF Follows
  <2>4. InOrder(events')
    BY <1>d, <1>j, <2>1, <2>3, Traced
  <2> QED
    BY <1>h, <2>1, <2>4 DEF Placed
<1>10. CASE ChooseTool
  <2>1. pc = "awaiting" /\ events' = response /\ pc' = "tool" /\ step' = step
    BY <1>7, <1>10 DEF ChooseTool, Emit, response
  <2>2. Placed(pc', step', events')
    BY <1>j, <2>1 DEF Placed
  <2> QED
    BY <1>h, <1>j, <2>1, <2>2
<1>11. ASSUME NEW tool \in Tools, NEW path \in PathsNamed(tool),
              ExecuteTool(tool, path)
       PROVE  Replayable'
  <2> DEFINE recovered == Append(events, Event("retrieval", "explicit", NoPath))
             answer == Event("tool_result", tool, path)
  <2>1. tool \in Notes /\ path \in Paths \cup {NoPath}
    BY DataAssumption DEF Notes, ToolNames, PathsNamed
  <2>2. pc = "execute" /\ Advance
    BY <1>11 DEF ExecuteTool
  <2>3. events # <<>> /\ last.step = step /\ Stage(last) = 3
    BY <1>b, <2>2 DEF Placed, last
  <2>4. /\ Stage(Event("retrieval", "explicit", NoPath)) = 4
        /\ Stage(answer) = 5
    BY <2>1, Stages
  <2>5. /\ Follows(last, Event("retrieval", "explicit", NoPath)) /\ Follows(last, answer)
    BY <1>a, <2>3, <2>4, FollowsOlder
  <2>6. Follows(Event("retrieval", "explicit", NoPath), answer)
    BY <1>a, <1>e, <2>4 DEF Follows
  <2>7. /\ recovered \in Seq(AgentEvents) /\ recovered # <<>> /\ InOrder(recovered)
        /\ recovered[Len(recovered)] = Event("retrieval", "explicit", NoPath)
    BY <1>a, <1>b, <1>d, <2>5, Traced DEF last
  <2>8. events' = Append(recovered, answer) \/ events' = Append(events, answer)
    BY <1>11 DEF ExecuteTool
  <2> HIDE DEF recovered
  <2>9. /\ InOrder(events') /\ events' # <<>> /\ events'[Len(events')] = answer
    <3>1. CASE events' = Append(recovered, answer)
      BY <1>d, <2>1, <2>6, <2>7, <3>1, Traced
    <3>2. CASE events' = Append(events, answer)
      BY <1>a, <1>b, <1>d, <2>1, <2>5, <3>2, Traced DEF last
    <3> QED
      BY <2>8, <3>1, <3>2
  <2>10. answer.step = step
    BY <1>e
  <2> HIDE DEF answer
  <2> QED
    BY <1>i, <2>2, <2>4, <2>9, <2>10
<1>12. CASE Raise
  BY <1>12, <1>g DEF Raise, Placed
<1>13. CASE TimeExpires \/ UNCHANGED vars
  BY <1>13, <1>b, <1>g DEF TimeExpires, vars
<1> QED
  BY <1>1, <1>2, <1>3, <1>4, <1>5, <1>6, <1>8, <1>9, <1>10, <1>11, <1>12, <1>13
  DEF Next, Loop, Terminated

(* An analysis can replay the trace from its first event to its last: no   *)
(* event of an iteration comes late, and none answers another preparation. *)
THEOREM TraceCanBeReplayed == Spec => []TraceOrdered
<1>1. Init => Replayable
  BY DEF Init, Replayable, Placed, InOrder
<1>2. Spec => []TypeOK
  BY TypeCorrect
<1>3. Replayable => TraceOrdered
  BY DEF Replayable, InOrder, Follows, TraceOrdered
<1> QED
  BY <1>1, <1>2, <1>3, ReplayableNext, PTL DEF Spec
=============================================================================
