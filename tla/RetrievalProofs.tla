--------------------------- MODULE RetrievalProofs ---------------------------
(***************************************************************************)
(* Proofs about RetrievalAgent for every repository, window, budget and    *)
(* ranking: the composition only restricts the loop, and the store holds   *)
(* every observation of the run.                                           *)
(***************************************************************************)
EXTENDS RetrievalAgent, AgentLoopProofs, FoldTheorems

----------------------------------------------------------------------------
LEMMA RetrievalStepIsLoopStep ==
  ASSUME RetrievalNext
  PROVE  Next
<1>1. CASE Prepare
  <2>1. "none" \in Compactions
    BY DEF Compactions
  <2>2. ContextOverflow("none") \/ PrepareContext("none")
    BY <1>1 DEF Prepare
  <2> QED
    BY <2>1, <2>2 DEF Next, Loop
<1>2. CASE ExecuteObserved
  BY <1>2 DEF ExecuteObserved, Next, Loop
<1>3. CASE Unobserved
  BY <1>3 DEF Unobserved, Next, Loop
<1> QED
  BY <1>1, <1>2, <1>3 DEF RetrievalNext

(* The loop with RetrievalContextPolicy is a CodingAgent like any other:   *)
(* each of its behaviours is one AgentLoop allows.                         *)
THEOREM RetrievalImplementsLoop == RetrievalSpec => Spec
<1>1. RetrievalInit => Init
  BY DEF RetrievalInit
<1>2. [RetrievalNext]_allVars => [Next]_vars
  BY RetrievalStepIsLoopStep DEF allVars, vars
<1> QED
  BY <1>1, <1>2, PTL DEF RetrievalSpec, Spec

----------------------------------------------------------------------------
(* What the steps of the composition add to the trace, by kind.            *)
LEMMA UnobservedCounted ==
  ASSUME TypeOK, Unobserved \/ UNCHANGED allVars, NEW counted,
         counted \notin {"inference_response", "status"}
  PROVE  Count(events', counted) = Count(events, counted)
<1>a. events \in Seq(AgentEvents) /\ Count(events, counted) \in Nat
  BY CountNat DEF TypeOK
<1>b. /\ {"inference_response", "status"} \subseteq Kinds
      /\ {"none", "completed"} \subseteq Notes
  BY DEF Kinds, Notes
<1>c. {"wall_clock", "model_requests", "tool_calls", "generated_tokens", "steps"}
        \subseteq LimitReasons
  BY DEF LimitReasons
<1>1. CASE BeforeModel \/ AfterModelRaises \/ BeforeTool \/ StepsExhausted
  <2>1. (\E reason \in LimitReasons : FailLimit(reason)) \/ events' = events
    BY <1>1, <1>c DEF BeforeModel, AfterModelRaises, BeforeTool, StepsExhausted
  <2> QED
    BY <2>1, FailureCounted
<1>2. CASE MalformedDecision \/ ChooseTool
  <2>1. events' = Append(events, Event("inference_response", "none", NoPath))
    BY <1>2 DEF MalformedDecision, ChooseTool, Emit
  <2> QED
    BY <1>a, <1>b, <2>1, EventCounted
<1>3. CASE Finish
  <2> DEFINE answer == Append(events, Event("inference_response", "none", NoPath))
  <2>1. events' = Append(answer, Event("status", "completed", NoPath))
    BY <1>3 DEF Finish
  <2>2. answer \in Seq(AgentEvents) /\ Count(answer, counted) = Count(events, counted)
    BY <1>a, <1>b, EventCounted
  <2> HIDE DEF answer
  <2> QED
    BY <1>a, <1>b, <2>1, <2>2, EventCounted
<1>4. CASE Start \/ Raise \/ TimeExpires \/ Terminated \/ UNCHANGED allVars
  BY <1>4 DEF Start, Raise, TimeExpires, Terminated, allVars, vars
<1> QED
  BY <1>1, <1>2, <1>3, <1>4 DEF Unobserved

LEMMA PreparationCounted ==
  ASSUME TypeOK, NEW counted, counted \notin {"context_prepared", "context_failure"},
         ContextOverflow("none") \/ PrepareContext("none")
  PROVE  Count(events', counted) =
           Count(events, counted)
             + (IF counted = "retrieval" /\ policy = "retrieval" /\ PrepareContext("none")
                THEN 1 ELSE 0)
<1>a. /\ events \in Seq(AgentEvents) /\ Count(events, counted) \in Nat
      /\ "context_failure" \in Kinds /\ "none" \in Notes /\ "none" \in Compactions
  BY CountNat DEF TypeOK, Kinds, Notes, Compactions
<1>1. CASE PrepareContext("none")
  <2>1. events' = PreparedTrace("none")
    BY <1>1 DEF PrepareContext
  <2>2. Count(PreparedTrace("none"), counted) =
          Count(events, counted)
            + (IF counted = "compaction" /\ "none" # "none" THEN 1 ELSE 0)
            + (IF counted = "retrieval" /\ policy = "retrieval" THEN 1 ELSE 0)
    BY <1>a, PreparedCounted
  <2> QED
    BY <1>1, <1>a, <2>1, <2>2
<1>2. CASE ContextOverflow("none")
  <2>1. events' = Append(events, Event("context_failure", "none", NoPath)) /\ pc' = "done"
    BY <1>2 DEF ContextOverflow, Emit
  <2>2. ~PrepareContext("none")
    BY <2>1 DEF PrepareContext
  <2> QED
    BY <1>a, <2>1, <2>2, EventCounted
<1> QED
  BY <1>1, <1>2

LEMMA ExecutionCounted ==
  ASSUME TypeOK, NEW tool \in Tools, NEW path \in PathsNamed(tool), ExecuteTool(tool, path)
  PROVE  /\ Count(events', "tool_result") = Count(events, "tool_result") + 1
         /\ Count(events', "retrieval") =
              Count(events, "retrieval") + (IF Searched THEN 1 ELSE 0)
<1> DEFINE searched == Append(events, Event("retrieval", "explicit", NoPath))
           result == Event("tool_result", tool, path)
<1>1. /\ tool \in Notes /\ path \in Paths \cup {NoPath} /\ "explicit" \in Notes
      /\ {"tool_result", "retrieval"} \subseteq Kinds
  BY DataAssumption DEF Notes, ToolNames, Kinds, PathsNamed
<1>2. /\ events \in Seq(AgentEvents) /\ Len(events) \in Nat
      /\ \A kind : Count(events, kind) \in Nat
  BY CountNat DEF TypeOK
<1>3. /\ searched \in Seq(AgentEvents)
      /\ Count(searched, "tool_result") = Count(events, "tool_result")
      /\ Count(searched, "retrieval") = Count(events, "retrieval") + 1
  BY <1>1, <1>2, EventCounted
<1>4. /\ result \in AgentEvents /\ result.kind = "tool_result"
      /\ Event("retrieval", "explicit", NoPath) \in AgentEvents
      /\ Event("retrieval", "explicit", NoPath).kind = "retrieval"
  <2>1. result \in AgentEvents /\ Event("retrieval", "explicit", NoPath) \in AgentEvents
    BY <1>1, EventTyped
  <2> QED
    BY <2>1 DEF Event
<1>5. events' = Append(searched, result) \/ events' = Append(events, result)
  BY DEF ExecuteTool
<1>6. /\ Append(searched, result)[Len(events) + 1] = Event("retrieval", "explicit", NoPath)
      /\ Append(events, result)[Len(events) + 1] = result
  <2> HIDE DEF result
  <2>1. /\ Len(searched) = Len(events) + 1
        /\ searched[Len(events) + 1] = Event("retrieval", "explicit", NoPath)
    BY <1>2, <1>4
  <2> HIDE DEF searched
  <2> QED
    BY <1>2, <1>3, <1>4, <2>1
<1> HIDE DEF searched, result
<1>7. CASE events' = Append(searched, result)
  <2>1. Searched
    BY <1>4, <1>6, <1>7 DEF Searched
  <2>2. /\ Count(events', "tool_result") = Count(searched, "tool_result") + 1
        /\ Count(events', "retrieval") = Count(searched, "retrieval") + 0
    BY <1>3, <1>4, <1>7, CountAppend
  <2> QED
    BY <1>2, <1>3, <2>1, <2>2
<1>8. CASE events' = Append(events, result)
  <2>1. ~Searched
    BY <1>4, <1>6, <1>8 DEF Searched
  <2>2. /\ Count(events', "tool_result") = Count(events, "tool_result") + 1
        /\ Count(events', "retrieval") = Count(events, "retrieval") + 0
    BY <1>2, <1>4, <1>8, CountAppend
  <2> QED
    BY <1>2, <2>1, <2>2
<1> QED
  BY <1>5, <1>7, <1>8

----------------------------------------------------------------------------
(* The store and the payloads it was filled from, with their types.        *)
Remembered ==
  /\ documents \in Seq(Observations)
  /\ results \in Seq([call : CallIds, content : ContentTokens])
  /\ ObservationsComplete

LEMMA AppendSet ==
  ASSUME NEW S, NEW s \in Seq(S), NEW e \in S
  PROVE  /\ Append(s, e) \in Seq(S) /\ Len(Append(s, e)) = Len(s) + 1
         /\ DOMAIN s = 1..Len(s) /\ DOMAIN Append(s, e) = 1..(Len(s) + 1)
         /\ \A i \in 1..(Len(s) + 1) :
              Append(s, e)[i] = IF i = Len(s) + 1 THEN e ELSE s[i]
         /\ ToSet(Append(s, e)) = ToSet(s) \cup {e}
<1>1. /\ Append(s, e) \in Seq(S) /\ Len(Append(s, e)) = Len(s) + 1
      /\ Len(s) \in Nat
      /\ DOMAIN s = 1..Len(s) /\ DOMAIN Append(s, e) = 1..(Len(s) + 1)
  OBVIOUS
<1>2. \A i \in 1..(Len(s) + 1) : Append(s, e)[i] = IF i = Len(s) + 1 THEN e ELSE s[i]
  OBVIOUS
<1>3. ToSet(Append(s, e)) = ToSet(s) \cup {e}
  BY <1>1, <1>2 DEF ToSet
<1> QED
  BY <1>1, <1>2, <1>3

LEMMA RememberOne ==
  ASSUME Remembered, NEW call \in CallIds, NEW content \in ContentTokens,
         documents' = Stored(call, content),
         results' = Append(results, [call |-> call, content |-> content]),
         Count(events', "tool_result") = Count(events, "tool_result") + 1
  PROVE  Remembered'
<1> DEFINE observed(s) == {Document("observation", s[i].call, s[i].content) :
                             i \in {j \in DOMAIN s : s[j].content # 0}}
           result == [call |-> call, content |-> content]
           document == Document("observation", call, content)
<1>a. /\ documents \in Seq(Observations)
      /\ results \in Seq([call : CallIds, content : ContentTokens])
      /\ result \in [call : CallIds, content : ContentTokens]
      /\ result.call = call /\ result.content = content
  BY DEF Remembered
<1>b. content # 0 => document \in Observations
  BY DEF Document, Observations
<1>1. /\ results' \in Seq([call : CallIds, content : ContentTokens])
      /\ Len(results') = Len(results) + 1
      /\ DOMAIN results = 1..Len(results) /\ DOMAIN results' = 1..(Len(results) + 1)
      /\ \A i \in 1..(Len(results) + 1) :
           results'[i] = IF i = Len(results) + 1 THEN result ELSE results[i]
  BY <1>a, AppendSet
<1>2. Len(results) \in Nat
  BY <1>a
<1>3. observed(results') =
        observed(results) \cup (IF content # 0 THEN {document} ELSE {})
  BY <1>1, <1>2, <1>a
<1>4. CASE content = 0 \/ document \in ToSet(documents)
  <2>1. documents' = documents
    BY <1>4 DEF Stored
  <2>2. ToSet(documents) = observed(results)
    BY DEF Remembered, ObservationsComplete
  <2>3. ToSet(documents) = observed(results')
    BY <1>3, <1>4, <2>2
  <2> QED
    BY <1>1, <2>1, <2>3 DEF Remembered, ObservationsComplete
<1>5. CASE content # 0 /\ document \notin ToSet(documents)
  <2>1. documents' = Append(documents, document)
    BY <1>5 DEF Stored
  <2> HIDE DEF document
  <2>2. /\ documents' \in Seq(Observations)
        /\ DOMAIN documents = 1..Len(documents)
        /\ DOMAIN documents' = 1..(Len(documents) + 1)
        /\ \A i \in 1..(Len(documents) + 1) :
             documents'[i] = IF i = Len(documents) + 1 THEN document ELSE documents[i]
        /\ ToSet(documents') = ToSet(documents) \cup {document}
    BY <1>a, <1>b, <1>5, <2>1, AppendSet
  <2>3. ToSet(documents') = observed(results')
    BY <1>3, <1>5, <2>2 DEF Remembered, ObservationsComplete
  <2>4. \A i \in DOMAIN documents : documents[i] # document
    BY <1>5 DEF ToSet
  <2>5. Len(documents) \in Nat
    BY <1>a
  <2>6. \A i, j \in DOMAIN documents' : documents'[i] = documents'[j] => i = j
    BY <2>2, <2>4, <2>5 DEF Remembered, ObservationsComplete
  <2> QED
    BY <1>1, <2>2, <2>3, <2>6 DEF Remembered, ObservationsComplete
<1> QED
  BY <1>4, <1>5

LEMMA RememberedNext ==
  ASSUME TypeOK, TypeOK', Remembered, [RetrievalNext]_allVars
  PROVE  Remembered'
<1>a. UNCHANGED <<documents, results>>
        /\ Count(events', "tool_result") = Count(events, "tool_result") => Remembered'
  BY DEF Remembered, ObservationsComplete
<1>1. CASE Prepare
  <2>1. UNCHANGED <<documents, results>> /\ (ContextOverflow("none") \/ PrepareContext("none"))
    BY <1>1 DEF Prepare
  <2> QED
    <3>1. Count(events, "tool_result") \in Nat
      BY CountNat DEF TypeOK
    <3>2. Count(events', "tool_result") = Count(events, "tool_result") + 0
      BY <2>1, PreparationCounted
    <3> QED
      BY <1>a, <2>1, <3>1, <3>2
<1>2. CASE ExecuteObserved
  <2>1. PICK tool, path, call :
          /\ tool \in Tools /\ path \in PathsNamed(tool) /\ call \in CallIds
          /\ ExecuteTool(tool, path)
          /\ documents' = Stored(call, history'[Len(history')].tokens)
          /\ results' = Append(results, [call |-> call,
                                         content |-> history'[Len(history')].tokens])
    BY <1>2 DEF ExecuteObserved
  <2>2. PICK t \in ContentTokens : history' = Append(history, Say("tool", t))
    BY <2>1 DEF ExecuteTool
  <2>3. history'[Len(history')].tokens = t
    <3>a. "tool" \in Roles
      BY DEF Roles
    <3>b. Say("tool", t).tokens = t
      BY DEF Say
    <3>1. history \in Seq(Messages) /\ Say("tool", t) \in Messages /\ Say("tool", t).tokens = t
      BY <3>a, <3>b, SaidTyped DEF TypeOK
    <3>2. history'[Len(history')] = Say("tool", t)
      BY <2>2, <3>1
    <3> QED
      BY <3>1, <3>2
  <2>4. Count(events', "tool_result") = Count(events, "tool_result") + 1
    BY <2>1, ExecutionCounted
  <2>5. /\ documents' = Stored(call, t)
        /\ results' = Append(results, [call |-> call, content |-> t])
    BY <2>1, <2>3
  <2>6. call \in CallIds
    BY <2>1
  <2> QED
    BY <2>4, <2>5, <2>6, RememberOne
<1>3. CASE Unobserved \/ UNCHANGED allVars
  <2>1. UNCHANGED <<documents, results>>
    BY <1>3 DEF Unobserved, policyVars, allVars
  <2> QED
    BY <1>3, <1>a, <2>1, UnobservedCounted
<1> QED
  BY <1>1, <1>2, <1>3 DEF RetrievalNext

LEMMA RememberedInvariant == RetrievalSpec => []Remembered
<1>1. RetrievalInit => Remembered
  <2> SUFFICES ASSUME RetrievalInit PROVE Remembered
    OBVIOUS
  <2>1. documents = <<>> /\ results = <<>> /\ events = <<>>
    BY DEF RetrievalInit, Init
  <2>2. Count(events, "tool_result") = 0
    <3>1. {i \in DOMAIN events : events[i].kind = "tool_result"} = {}
      BY <2>1
    <3> QED
      BY <3>1, FS_EmptySet DEF Count
  <2> QED
    BY <2>1, <2>2 DEF Remembered, ObservationsComplete, ToSet
<1>2. RetrievalSpec => []TypeOK
  BY RetrievalImplementsLoop, TypeCorrect, PTL
<1>3. TypeOK /\ TypeOK' /\ Remembered /\ [RetrievalNext]_allVars => Remembered'
  BY RememberedNext
<1> QED
  BY <1>1, <1>2, <1>3, PTL DEF RetrievalSpec

(* Whatever a tool answered in the run can be recovered, however long ago  *)
(* its message left the active window, and nothing is offered twice.       *)
THEOREM NothingObservedIsLost == RetrievalSpec => []ObservationsComplete
<1>1. Remembered => ObservationsComplete
  BY DEF Remembered
<1> QED
  BY <1>1, RememberedInvariant, PTL

----------------------------------------------------------------------------
(* What a recovery selects.                                                *)
Documents == RepositoryDocuments \cup Observations

LEMMA CapTyped == Cap \in Nat /\ Cap \in {RetrievalTokens, UsablePromptTokens}
<1>1. RetrievalTokens \in Nat /\ UsablePromptTokens \in Nat
  BY RetrievalAssumption
<1>2. \E x \in {RetrievalTokens, UsablePromptTokens} :
        \A y \in {RetrievalTokens, UsablePromptTokens} : x <= y
  BY <1>1
<1>3. Cap \in {RetrievalTokens, UsablePromptTokens}
  BY <1>2 DEF Cap, Min
<1> QED
  BY <1>1, <1>3

LEMMA DocumentTokens == \A document \in Documents : document.tokens \in Nat \ {0}
BY RetrievalAssumption, DataAssumption DEF Documents, Observations

(* The candidates one after another: nothing is left out that would have   *)
(* fitted, since what is left of the cap never grows.                      *)
LEMMA Selected ==
  ASSUME NEW ranked \in Seq(Documents)
  PROVE  /\ Select(ranked).items \subseteq ToSet(ranked)
         /\ Select(ranked).tokens \in 0..Cap
         /\ \A document \in ToSet(ranked) \ Select(ranked).items :
              document.tokens > Cap - Select(ranked).tokens
<1> DEFINE n == Len(ranked)
           B == [items : SUBSET ToSet(ranked), tokens : 0..Cap]
           nothing == [items |-> {}, tokens |-> 0]
           Taken(taken, document) ==
             IF document.tokens > Cap - taken.tokens THEN taken
             ELSE [items |-> taken.items \cup {document},
                   tokens |-> taken.tokens + document.tokens]
           F == [at \in (1..n) \X B |-> Taken(at[2], ranked[at[1]])]
<1>1. /\ n \in Nat /\ DOMAIN ranked = 1..n /\ Cap \in Nat
      /\ \A i \in 1..n : ranked[i].tokens \in Nat /\ ranked[i] \in ToSet(ranked)
      /\ ToSet(ranked) = {ranked[i] : i \in 1..n}
  <2>1. n \in Nat /\ DOMAIN ranked = 1..n /\ \A i \in 1..n : ranked[i] \in Documents
    OBVIOUS
  <2> QED
    BY <2>1, CapTyped, DocumentTokens DEF ToSet
<1>2. nothing \in B
  <2>1. {} \in SUBSET ToSet(ranked) /\ 0 \in 0..Cap
    BY <1>1
  <2> QED
    BY <2>1
<1>3. \A i \in 1..n, taken \in B : /\ F[<<i, taken>>] = Taken(taken, ranked[i])
                                   /\ Taken(taken, ranked[i]) \in B
  <2> SUFFICES ASSUME NEW i \in 1..n, NEW taken \in B
               PROVE  /\ F[<<i, taken>>] = Taken(taken, ranked[i])
                      /\ Taken(taken, ranked[i]) \in B
    OBVIOUS
  <2>1. F[<<i, taken>>] = Taken(taken, ranked[i])
    OBVIOUS
  <2>2. /\ taken.tokens \in 0..Cap /\ taken.items \in SUBSET ToSet(ranked)
        /\ ranked[i].tokens \in Nat /\ ranked[i] \in ToSet(ranked) /\ Cap \in Nat
    BY <1>1
  <2>3. ranked[i].tokens <= Cap - taken.tokens => taken.tokens + ranked[i].tokens \in 0..Cap
    BY <2>2
  <2>4. ~(ranked[i].tokens > Cap - taken.tokens) => ranked[i].tokens <= Cap - taken.tokens
    BY <2>2
  <2>5. taken.items \cup {ranked[i]} \in SUBSET ToSet(ranked)
    BY <2>2
  <2> QED
    BY <2>1, <2>3, <2>4, <2>5
<1>4. Maps(F, 1..n, B)
  <2> HIDE DEF F, B, n, Taken
  <2> QED
    BY <1>3 DEF Maps
<1>5. PICK g : IsFold(g, 1..n, [s \in SUBSET (1..n) |-> Max(s)], B, nothing, F)
  <2> HIDE DEF F, n, B, nothing
  <2> QED
    BY <1>1, <1>2, <1>4, LeftFoldExists
<1>6. g = [s \in SUBSET (1..n) |-> IF s = {} THEN nothing
                                   ELSE Taken(g[s \ {Max(s)}], ranked[Max(s)])]
  <2> HIDE DEF F, n, B, nothing, Taken
  <2>1. ASSUME NEW s \in SUBSET (1..n), s # {}
        PROVE  g[s] = Taken(g[s \ {Max(s)}], ranked[Max(s)])
    BY <1>1, <1>3, <1>5, <2>1, MaxOfSome DEF IsFold
  <2> QED
    BY <1>5, <2>1 DEF IsFold
<1>7. PICK h : /\ h = [s \in SUBSET (1..n) |-> IF s = {} THEN nothing
                                               ELSE Taken(h[s \ {Max(s)}], ranked[Max(s)])]
               /\ Select(ranked) = h[1..n]
  BY <1>1, <1>6, ZenonT(60) DEF Select, FoldLeft, MapThenFoldSet
<1>8. PICK p : StepsTo(p, n, B, nothing, F, Select(ranked))
  <2> HIDE DEF F, n, B, nothing, Taken
  <2>1. h[{}] = nothing
    BY <1>7
  <2>2. ASSUME NEW s \in SUBSET (1..n), s # {}, h[s \ {Max(s)}] \in B
        PROVE  h[s] = F[<<Max(s), h[s \ {Max(s)}]>>]
    <3>1. Max(s) \in 1..n
      BY <1>1, <2>2, MaxOfSome
    <3>2. h[s] = Taken(h[s \ {Max(s)}], ranked[Max(s)])
      BY <1>7, <2>2
    <3> QED
      BY <1>3, <2>2, <3>1, <3>2
  <2>3. \E p : StepsTo(p, n, B, nothing, F, h[1..n])
    BY <1>1, <1>2, <1>4, <2>1, <2>2, LeftFoldSteps
  <2> QED
    BY <1>7, <2>3
<1>9. /\ \A k \in 0..n : p[k] \in B
      /\ p[0] = nothing
      /\ p[n] = Select(ranked)
      /\ \A k \in 0..(n - 1) : p[k + 1] = Taken(p[k], ranked[k + 1])
  <2> HIDE DEF F, n, B, nothing, Taken
  <2>1. /\ p \in [0..n -> B] /\ p[0] = nothing /\ p[n] = Select(ranked)
        /\ \A k \in 0..(n - 1) : p[k + 1] = F[<<k + 1, p[k]>>]
    BY <1>8 DEF Steps, StepsTo
  <2>2. ASSUME NEW k \in 0..(n - 1) PROVE p[k + 1] = Taken(p[k], ranked[k + 1])
    <3>1. k + 1 \in 1..n /\ k \in 0..n
      BY <1>1
    <3>2. p[k] \in B
      BY <2>1, <3>1
    <3> QED
      BY <1>3, <2>1, <3>1, <3>2
  <2> QED
    BY <2>1, <2>2
<1> DEFINE T == {k \in 0..n : \A i \in 1..k :
                   ranked[i] \in p[k].items \/ ranked[i].tokens > Cap - p[k].tokens}
<1>10. 0 \in T
  BY <1>1
<1>11. ASSUME NEW k \in 0..(n - 1), k \in T PROVE k + 1 \in T
  <2>1. k \in 0..n /\ k + 1 \in 0..n /\ k + 1 \in 1..n
    BY <1>1
  <2>2. /\ p[k].tokens \in 0..Cap /\ ranked[k + 1].tokens \in Nat
        /\ p[k + 1] = Taken(p[k], ranked[k + 1])
    BY <1>1, <1>9, <2>1
  <2>3. /\ p[k + 1].tokens \in Int /\ p[k + 1].tokens >= p[k].tokens
        /\ p[k].items \subseteq p[k + 1].items
        /\ ranked[k + 1] \in p[k + 1].items \/ ranked[k + 1].tokens > Cap - p[k + 1].tokens
    <3>1. \A taken \in [items : SUBSET ToSet(ranked), tokens : 0..Cap] :
            \A document : document.tokens \in Nat =>
              LET after == Taken(taken, document)
              IN  /\ after.tokens \in Int /\ after.tokens >= taken.tokens
                  /\ taken.items \subseteq after.items
                  /\ document \in after.items \/ document.tokens > Cap - after.tokens
      <4> SUFFICES ASSUME NEW taken \in [items : SUBSET ToSet(ranked), tokens : 0..Cap],
                          NEW document, document.tokens \in Nat
                   PROVE  LET after == Taken(taken, document)
                          IN  /\ after.tokens \in Int /\ after.tokens >= taken.tokens
                              /\ taken.items \subseteq after.items
                              /\ \/ document \in after.items
                                 \/ document.tokens > Cap - after.tokens
        OBVIOUS
      <4>1. taken.tokens \in Int /\ taken.tokens + document.tokens \in Int
            /\ taken.tokens + document.tokens >= taken.tokens
        BY <1>1
      <4> QED
        BY <4>1
    <3>2. p[k] \in [items : SUBSET ToSet(ranked), tokens : 0..Cap]
      BY <1>9, <2>1
    <3> HIDE DEF Taken
    <3> QED
      BY <2>2, <3>1, <3>2
  <2>4. ASSUME NEW i \in 1..k
        PROVE  ranked[i] \in p[k + 1].items \/ ranked[i].tokens > Cap - p[k + 1].tokens
    <3>1. i \in 1..n
      BY <1>1
    <3>2. ranked[i].tokens \in Nat /\ p[k].tokens \in Nat /\ Cap \in Nat
      <4>1. ranked[i].tokens \in Nat /\ Cap \in Nat
        BY <1>1, <3>1
      <4>2. p[k].tokens \in Nat
        BY <2>2, <4>1
      <4> QED
        BY <4>1, <4>2
    <3>3. ranked[i] \in p[k].items \/ ranked[i].tokens > Cap - p[k].tokens
      BY <1>11
    <3>4. ranked[i].tokens > Cap - p[k].tokens => ranked[i].tokens > Cap - p[k + 1].tokens
      <4>1. \A x, c, a \in Nat, b \in Int : (x > c - a /\ b >= a) => x > c - b
        OBVIOUS
      <4> QED
        BY <2>3, <3>2, <4>1
    <3> QED
      BY <2>3, <3>3, <3>4
  <2>5. \A i \in 1..(k + 1) : i \in 1..k \/ i = k + 1
    BY <2>1
  <2> QED
    BY <2>1, <2>3, <2>4, <2>5
<1>12. n \in T
  <2> HIDE DEF T, n
  <2>1. \A k \in 0..n : k \in T
    BY <1>1, <1>10, <1>11, PrefixInduction
  <2> QED
    BY <1>1, <2>1
<1>13. Select(ranked) \in B
  <2>1. n \in 0..n
    BY <1>1
  <2> HIDE DEF B, n
  <2> QED
    BY <1>9, <2>1
<1>14. \A i \in 1..n : ranked[i] \in Select(ranked).items
                       \/ ranked[i].tokens > Cap - Select(ranked).tokens
  BY <1>9, <1>12
<1> QED
  BY <1>1, <1>13, <1>14

(* What was recovered last, and that it filled its cap.                    *)
Recovered ==
  /\ recovered.items \subseteq recovered.offered /\ recovered.tokens \in 0..Cap
  /\ recovered.offered \subseteq Documents /\ IsFiniteSet(recovered.offered)
  /\ RecoveryMaximal

LEMMA RankingsTyped ==
  ASSUME documents \in Seq(Observations), NEW ranked \in Rankings
  PROVE  /\ ranked \in Seq(Documents)
         /\ ToSet(ranked) \subseteq Documents /\ IsFiniteSet(ToSet(ranked))
<1>1. PICK offer \in Offers : ranked \in SetToSeqs(offer)
  BY DEF Rankings
<1>2. offer \subseteq RepositoryDocuments \cup ToSet(documents)
  BY DEF Offers
<1>3. DOMAIN documents = 1..Len(documents) /\ Len(documents) \in Nat
      /\ \A i \in 1..Len(documents) : documents[i] \in Observations
  OBVIOUS
<1>4. IsFiniteSet(ToSet(documents)) /\ ToSet(documents) \subseteq Observations
  <2>1. documents \in Surjection(1..Len(documents), ToSet(documents))
    BY <1>3 DEF ToSet, Surjection
  <2>2. IsFiniteSet(1..Len(documents))
    BY <1>3, FS_Interval
  <2> QED
    BY <1>3, <2>1, <2>2, FS_Surjection DEF ToSet
<1>5. IsFiniteSet(offer) /\ offer \subseteq Documents
  <2>1. IsFiniteSet(RepositoryDocuments \cup ToSet(documents))
    BY <1>4, FS_Union, RetrievalAssumption
  <2> QED
    BY <1>2, <1>4, <2>1, FS_Subset DEF Documents
<1>6. Cardinality(offer) \in Nat
  BY <1>5, FS_CardinalityType
<1>7. ranked \in [1..Cardinality(offer) -> offer]
  BY <1>1 DEF SetToSeqs
<1>8. ranked \in Seq(offer)
  BY <1>6, <1>7
<1>9. ranked \in Seq(Documents)
  BY <1>5, <1>8
<1>10. ToSet(ranked) \subseteq offer
  BY <1>7 DEF ToSet
<1> QED
  BY <1>5, <1>9, <1>10, FS_Subset

LEMMA RecoverFills ==
  ASSUME documents \in Seq(Observations), NEW query, NEW ranked \in Rankings,
         Recover(query, ranked)
  PROVE  Recovered'
<1>1. /\ ranked \in Seq(Documents)
      /\ ToSet(ranked) \subseteq Documents /\ IsFiniteSet(ToSet(ranked))
  BY RankingsTyped
<1>2. /\ recovered'.items = Select(ranked).items /\ recovered'.tokens = Select(ranked).tokens
      /\ recovered'.offered = ToSet(ranked)
  BY DEF Recover
<1> QED
  BY <1>1, <1>2, Selected DEF Recovered, RecoveryMaximal, Cap

LEMMA RecoveredNext ==
  ASSUME Remembered, Recovered, [RetrievalNext]_allVars
  PROVE  Recovered'
<1>1. documents \in Seq(Observations)
  BY DEF Remembered
<1>2. recovered' = recovered => Recovered'
  BY DEF Recovered, RecoveryMaximal, Cap, Documents
<1>3. (\E query : \E ranked \in Rankings : Recover(query, ranked)) \/ recovered' = recovered
  BY DEF RetrievalNext, Prepare, ExecuteObserved, Unobserved, policyVars, searchVars, allVars
<1> QED
  BY <1>1, <1>2, <1>3, RecoverFills

LEMMA RecoveredInvariant == RetrievalSpec => []Recovered
<1>1. RetrievalInit => Recovered
  BY FS_EmptySet, CapTyped DEF RetrievalInit, Recovered, RecoveryMaximal
<1>2. Remembered /\ Recovered /\ [RetrievalNext]_allVars => Recovered'
  BY RecoveredNext
<1> QED
  BY RememberedInvariant, <1>1, <1>2, PTL DEF RetrievalSpec

(* A recovery fills its cap, however the search ranked the candidates and  *)
(* whatever their sizes: what it left out would not have fitted.           *)
THEOREM RecoveryFillsItsCap == RetrievalSpec => []RecoveryMaximal
<1>1. Recovered => RecoveryMaximal
  BY DEF Recovered
<1> QED
  BY <1>1, RecoveredInvariant, PTL

----------------------------------------------------------------------------
(* The searches.  The policy counts a query as often as it noted it, and   *)
(* numbers each note with the count so far.                                *)
Asked == ({"automatic"} \X ContentTokens \X ContentTokens) \cup ({"explicit"} \X Queries)

AskedSoFar(searches, i, query) == {j \in 1..i : searches[j].query = query}

Numbered ==
  /\ retrievalEvents \in Seq([query : Asked, repeat : Nat])
  /\ DOMAIN queryCounts = {retrievalEvents[i].query : i \in DOMAIN retrievalEvents}
  /\ \A query \in DOMAIN queryCounts :
       queryCounts[query] =
         Cardinality(AskedSoFar(retrievalEvents, Len(retrievalEvents), query))
  /\ \A i \in DOMAIN retrievalEvents :
       retrievalEvents[i].repeat =
         Cardinality(AskedSoFar(retrievalEvents, i, retrievalEvents[i].query))

LEMMA NumberedOnce ==
  ASSUME Numbered, NEW query \in Asked, NEW ranked, Recover(query, ranked)
  PROVE  /\ Numbered'
         /\ Len(retrievalEvents') = Len(retrievalEvents) + 1
         /\ retrievalEvents'[Len(retrievalEvents) + 1].query = query
         /\ \A i \in DOMAIN retrievalEvents : retrievalEvents'[i] = retrievalEvents[i]
<1> DEFINE n == Len(retrievalEvents)
           R == [query : Asked, repeat : Nat]
           last == [query |-> query, repeat |-> queryCounts'[query]]
           Before(i, of) == AskedSoFar(retrievalEvents, i, of)
           After(i, of) == AskedSoFar(retrievalEvents', i, of)
<1>1. /\ retrievalEvents \in Seq(R) /\ n \in Nat /\ DOMAIN retrievalEvents = 1..n
      /\ DOMAIN queryCounts = {retrievalEvents[i].query : i \in 1..n}
  BY DEF Numbered
<1>2. /\ DOMAIN queryCounts' = DOMAIN queryCounts \cup {query}
      /\ \A of \in DOMAIN queryCounts' :
           queryCounts'[of] = (IF of \in DOMAIN queryCounts THEN queryCounts[of] ELSE 0)
                                + (IF of = query THEN 1 ELSE 0)
  <2>1. queryCounts' = queryCounts (+) SetToBag({query})
    BY DEF Recover
  <2>2. DOMAIN SetToBag({query}) = {query} /\ SetToBag({query})[query] = 1
    BY DEF SetToBag
  <2> QED
    BY <2>1, <2>2 DEF (+)
<1>3. \A of : \A i \in 0..n :
        IsFiniteSet(Before(i, of)) /\ Cardinality(Before(i, of)) \in Nat
  <2> SUFFICES ASSUME NEW i \in 0..n, NEW of
               PROVE  IsFiniteSet(Before(i, of)) /\ Cardinality(Before(i, of)) \in Nat
    OBVIOUS
  <2>1. IsFiniteSet(1..i) /\ Before(i, of) \in SUBSET (1..i)
    BY <1>1, FS_Interval DEF AskedSoFar
  <2> QED
    BY <2>1, FS_Subset, FS_CardinalityType
<1>4. \A of : of \notin DOMAIN queryCounts => Before(n, of) = {}
  BY <1>1 DEF AskedSoFar
<1>5. \A of \in DOMAIN queryCounts' :
        queryCounts'[of] = Cardinality(Before(n, of)) + (IF of = query THEN 1 ELSE 0)
  <2> SUFFICES ASSUME NEW of \in DOMAIN queryCounts'
               PROVE  queryCounts'[of] = Cardinality(Before(n, of))
                                           + (IF of = query THEN 1 ELSE 0)
    OBVIOUS
  <2>1. CASE of \in DOMAIN queryCounts
    BY <1>2, <2>1 DEF Numbered
  <2>2. CASE of \notin DOMAIN queryCounts
    BY <1>2, <1>4, <2>2, FS_EmptySet
  <2> QED
    BY <2>1, <2>2
<1>6. last \in R /\ last.query = query /\ last.repeat = queryCounts'[query]
      /\ last.repeat = Cardinality(Before(n, query)) + 1
  <2>1. queryCounts'[query] = Cardinality(Before(n, query)) + 1
    BY <1>2, <1>5
  <2>2. Cardinality(Before(n, query)) \in Nat
    BY <1>1, <1>3
  <2> QED
    BY <2>1, <2>2
<1>7. retrievalEvents' = Append(retrievalEvents, last)
  BY DEF Recover
<1> HIDE DEF last
<1>8. /\ retrievalEvents' \in Seq(R) /\ Len(retrievalEvents') = n + 1
      /\ DOMAIN retrievalEvents' = 1..(n + 1) /\ retrievalEvents'[n + 1] = last
      /\ \A i \in 1..n : retrievalEvents'[i] = retrievalEvents[i]
  BY <1>1, <1>6, <1>7
<1>9. /\ \A of : \A i \in 0..n : After(i, of) = Before(i, of)
      /\ \A of : After(n + 1, of) =
                   Before(n, of) \cup (IF of = query THEN {n + 1} ELSE {})
  <2>1. \A of : \A i \in 0..n : {j \in 1..i : retrievalEvents'[j].query = of} = Before(i, of)
    BY <1>1, <1>8 DEF AskedSoFar
  <2>2. ASSUME NEW of
        PROVE  {j \in 1..(n + 1) : retrievalEvents'[j].query = of} =
                 Before(n, of) \cup (IF of = query THEN {n + 1} ELSE {})
    <3>1. \A j \in 1..(n + 1) : j \in 1..n \/ j = n + 1
      BY <1>1
    <3>2. n + 1 \in 1..(n + 1) /\ \A j \in 1..n : j \in 1..(n + 1)
      BY <1>1
    <3> QED
      BY <1>6, <1>8, <3>1, <3>2 DEF AskedSoFar
  <2> QED
    BY <2>1, <2>2 DEF AskedSoFar
<1>10. \A of : Cardinality(Before(n, of) \cup (IF of = query THEN {n + 1} ELSE {})) =
                 Cardinality(Before(n, of)) + (IF of = query THEN 1 ELSE 0)
  <2> SUFFICES ASSUME NEW of
               PROVE  Cardinality(Before(n, of) \cup (IF of = query THEN {n + 1} ELSE {})) =
                        Cardinality(Before(n, of)) + (IF of = query THEN 1 ELSE 0)
    OBVIOUS
  <2>1. n + 1 \notin Before(n, of)
    BY <1>1 DEF AskedSoFar
  <2>2. n \in 0..n
    BY <1>1
  <2> HIDE DEF Before, n
  <2>3. IsFiniteSet(Before(n, of)) /\ Cardinality(Before(n, of)) \in Nat
    BY <1>3, <2>2
  <2>4. Cardinality(Before(n, of) \cup {n + 1}) = Cardinality(Before(n, of)) + 1
    BY <2>1, <2>3, FS_AddElement
  <2>5. CASE of = query
    BY <2>4, <2>5
  <2>6. CASE of # query
    <3>1. Before(n, of) \cup (IF of = query THEN {n + 1} ELSE {}) = Before(n, of)
      BY <2>6
    <3> QED
      BY <2>3, <2>6, <3>1
  <2> QED
    BY <2>5, <2>6
<1>11. /\ DOMAIN queryCounts' = {retrievalEvents'[i].query : i \in DOMAIN retrievalEvents'}
  <2>1. {retrievalEvents'[i].query : i \in 1..(n + 1)} =
          {retrievalEvents[i].query : i \in 1..n} \cup {query}
    <3>1. \A i \in 1..(n + 1) : i \in 1..n \/ i = n + 1
      BY <1>1
    <3>2. n + 1 \in 1..(n + 1) /\ \A i \in 1..n : i \in 1..(n + 1)
      BY <1>1
    <3> QED
      BY <1>6, <1>8, <3>1, <3>2, ZenonT(60)
  <2> QED
    BY <1>1, <1>2, <1>8, <2>1
<1>12. \A of \in DOMAIN queryCounts' :
         queryCounts'[of] = Cardinality(After(Len(retrievalEvents'), of))
  BY <1>5, <1>8, <1>9, <1>10
<1>13. \A i \in DOMAIN retrievalEvents' :
         retrievalEvents'[i].repeat = Cardinality(After(i, retrievalEvents'[i].query))
  <2> SUFFICES ASSUME NEW i \in 1..(n + 1)
               PROVE  retrievalEvents'[i].repeat =
                        Cardinality(After(i, retrievalEvents'[i].query))
    BY <1>8
  <2>1. CASE i \in 1..n
    <3>1. After(i, retrievalEvents'[i].query) = Before(i, retrievalEvents[i].query)
      BY <1>8, <1>9, <2>1, SMTT(30) DEF AskedSoFar
    <3>2. retrievalEvents[i].repeat = Cardinality(Before(i, retrievalEvents[i].query))
      BY <1>1, <2>1 DEF Numbered
    <3> QED
      BY <1>8, <2>1, <3>1, <3>2
  <2>2. CASE i = n + 1
    <3>1. After(n + 1, query) = Before(n, query) \cup {n + 1}
      BY <1>9
    <3>2. After(n + 1, retrievalEvents'[n + 1].query) = Before(n, query) \cup {n + 1}
      BY <1>6, <1>8, <3>1 DEF AskedSoFar
    <3>3. Cardinality(Before(n, query) \cup {n + 1}) = Cardinality(Before(n, query)) + 1
      BY <1>10
    <3> QED
      BY <1>6, <1>8, <2>2, <3>2, <3>3
  <2> QED
    BY <1>1, <2>1, <2>2
<1>14. Numbered'
  BY <1>8, <1>11, <1>12, <1>13 DEF Numbered
<1> QED
  BY <1>1, <1>6, <1>8, <1>14

(* Every search is in the trace, unless the context overflowed right after *)
(* it.                                                                     *)
Noted ==
  /\ Numbered
  /\ traced \in Seq(Asked) /\ Len(traced) = Count(events, "retrieval")
  /\ Len(retrievalEvents) = Len(traced) + (IF failure = "context_window" THEN 1 ELSE 0)
  /\ \A i \in DOMAIN traced : retrievalEvents[i].query = traced[i]

LEMMA AutomaticAsked ==
  ASSUME TypeOK, Exchanged, pc = "prepare"
  PROVE  AutomaticQuery \in Asked
<1>1. history \in Seq(Messages) /\ Len(history) \in Nat /\ Len(history) >= 2
  BY DEF TypeOK, Exchanged, Turns
<1>2. Len(history) \in 1..Len(history) /\ Len(history) - 1 \in 1..Len(history)
  BY <1>1
<1>3. history[Len(history)] \in Messages /\ history[Len(history) - 1] \in Messages
  BY <1>1, <1>2
<1>4. /\ history[Len(history)].tokens \in ContentTokens
      /\ history[Len(history) - 1].tokens \in ContentTokens
  BY <1>3 DEF Messages
<1> QED
  BY <1>4 DEF AutomaticQuery, Asked

(* A search that reaches the trace, and one that does not.                 *)
LEMMA NotedSearch ==
  ASSUME TypeOK, Noted, NEW query \in Asked, NEW ranked, Recover(query, ranked),
         failure # "context_window",
         \/ /\ traced' = Append(traced, query) /\ failure' # "context_window"
            /\ Count(events', "retrieval") = Count(events, "retrieval") + 1
         \/ /\ UNCHANGED traced /\ failure' = "context_window"
            /\ Count(events', "retrieval") = Count(events, "retrieval")
  PROVE  Noted'
<1> DEFINE n == Len(traced)
<1>1. /\ Numbered /\ traced \in Seq(Asked) /\ n \in Nat /\ DOMAIN traced = 1..n
      /\ n = Count(events, "retrieval") /\ Len(retrievalEvents) = n
      /\ \A i \in 1..n : retrievalEvents[i].query = traced[i]
  BY DEF Noted
<1>2. DOMAIN retrievalEvents = 1..n
  BY <1>1 DEF Numbered
<1>3. /\ Numbered' /\ Len(retrievalEvents') = n + 1
      /\ retrievalEvents'[n + 1].query = query
      /\ \A i \in 1..n : retrievalEvents'[i] = retrievalEvents[i]
  BY <1>1, <1>2, NumberedOnce
<1>4. CASE UNCHANGED traced
  <2>1. failure' = "context_window" /\ Count(events', "retrieval") = n
    <3>1. Len(Append(traced, query)) = n + 1
      BY <1>1
    <3> QED
      BY <1>1, <1>4, <3>1
  <2> QED
    BY <1>1, <1>3, <1>4, <2>1 DEF Noted
<1>5. CASE traced' = Append(traced, query) /\ failure' # "context_window"
           /\ Count(events', "retrieval") = Count(events, "retrieval") + 1
  <2>1. /\ traced' \in Seq(Asked) /\ Len(traced') = n + 1 /\ DOMAIN traced' = 1..(n + 1)
        /\ \A i \in 1..n : traced'[i] = traced[i]
        /\ traced'[n + 1] = query
    BY <1>1, <1>5
  <2>2. \A i \in 1..(n + 1) : retrievalEvents'[i].query = traced'[i]
    <3>1. \A i \in 1..(n + 1) : i \in 1..n \/ i = n + 1
      BY <1>1
    <3> QED
      BY <1>1, <1>3, <2>1, <3>1
  <2> QED
    BY <1>1, <1>3, <1>5, <2>1, <2>2 DEF Noted
<1> QED
  BY <1>4, <1>5

LEMMA VerdictFromElsewhere ==
  ASSUME TypeOK, Progress, Unobserved \/ UNCHANGED allVars
  PROVE  failure' = "context_window" <=> failure = "context_window"
<1>1. pc # "done" => failure = "none"
  BY DEF Progress
<1>2. CASE BeforeModel \/ AfterModelRaises \/ BeforeTool \/ StepsExhausted
  <2>1. pc # "done"
    BY <1>2 DEF BeforeModel, AfterModelRaises, Answer, BeforeTool, StepsExhausted
  <2>2. failure' \in {"none", "wall_clock", "model_requests", "generated_tokens",
                      "tool_calls", "steps"}
    BY <1>1, <1>2, <2>1 DEF BeforeModel, AfterModelRaises, BeforeTool, StepsExhausted, FailLimit
  <2> QED
    BY <1>1, <2>1, <2>2
<1>3. CASE Start \/ MalformedDecision \/ Finish \/ ChooseTool \/ Raise \/ TimeExpires
           \/ Terminated \/ UNCHANGED allVars
  BY <1>3 DEF Start, MalformedDecision, Finish, ChooseTool, Raise, TimeExpires, Terminated,
              verdict, allVars, vars
<1> QED
  BY <1>2, <1>3 DEF Unobserved

LEMMA NotedNext ==
  ASSUME TypeOK, Progress, Exchanged, Noted, [RetrievalNext]_allVars
  PROVE  Noted'
<1>1. ASSUME UNCHANGED searchVars, Count(events', "retrieval") = Count(events, "retrieval"),
             failure' = "context_window" <=> failure = "context_window"
      PROVE  Noted'
  BY <1>1 DEF searchVars, Noted, Numbered, AskedSoFar
<1>2. pc # "done" => failure = "none"
  BY DEF Progress
<1>3. Count(events, "retrieval") \in Nat
  BY CountNat DEF TypeOK
<1>4. CASE Prepare
  <2>1. PICK ranked \in Rankings :
          /\ Recover(AutomaticQuery, ranked)
          /\ \/ ContextOverflow("none") /\ UNCHANGED traced
             \/ PrepareContext("none") /\ traced' = Append(traced, AutomaticQuery)
    BY <1>4 DEF Prepare
  <2>2. pc = "prepare" /\ failure = "none" /\ AutomaticQuery \in Asked
    BY <1>2, <1>4, AutomaticAsked DEF Prepare
  <2>3. CASE ContextOverflow("none") /\ UNCHANGED traced
    <3>1. failure' = "context_window" /\ ~PrepareContext("none")
      BY <2>3 DEF ContextOverflow, PrepareContext
    <3>2. Count(events', "retrieval") = Count(events, "retrieval") + 0
      BY <2>3, <3>1, PreparationCounted
    <3> QED
      BY <1>3, <2>1, <2>2, <2>3, <3>1, <3>2, NotedSearch
  <2>4. CASE PrepareContext("none") /\ traced' = Append(traced, AutomaticQuery)
    <3>1. failure' = failure /\ policy = "retrieval"
      BY <2>4, RetrievalAssumption DEF PrepareContext, verdict, TypeOK
    <3>2. Count(events', "retrieval") = Count(events, "retrieval") + 1
      BY <2>4, <3>1, PreparationCounted
    <3> QED
      BY <2>1, <2>2, <2>4, <3>1, <3>2, NotedSearch
  <2> QED
    BY <2>1, <2>3, <2>4
<1>5. CASE ExecuteObserved
  <2>1. PICK tool \in Tools : \E path \in PathsNamed(tool) :
          /\ ExecuteTool(tool, path)
          /\ \/ /\ Searched
                /\ \E query \in Queries, ranked \in Rankings :
                     /\ Recover(ExplicitQuery(query), ranked)
                     /\ traced' = Append(traced, ExplicitQuery(query))
             \/ ~Searched /\ UNCHANGED searchVars
    BY <1>5 DEF ExecuteObserved
  <2>2. pc = "execute" /\ UNCHANGED failure /\ failure = "none"
    BY <1>2, <2>1 DEF ExecuteTool, verdict
  <2>3. Count(events', "retrieval") =
          Count(events, "retrieval") + (IF Searched THEN 1 ELSE 0)
    BY <2>1, ExecutionCounted
  <2>4. CASE Searched
    <3>1. PICK query \in Queries, ranked \in Rankings :
            /\ Recover(ExplicitQuery(query), ranked)
            /\ traced' = Append(traced, ExplicitQuery(query))
      BY <2>1, <2>4
    <3>2. ExplicitQuery(query) \in Asked
      BY DEF ExplicitQuery, Asked
    <3> QED
      BY <2>2, <2>3, <2>4, <3>1, <3>2, NotedSearch
  <2>5. CASE ~Searched
    BY <1>1, <1>3, <2>1, <2>2, <2>3, <2>5
  <2> QED
    BY <2>4, <2>5
<1>6. CASE Unobserved \/ UNCHANGED allVars
  <2>1. UNCHANGED searchVars
    BY <1>6 DEF Unobserved, policyVars, allVars
  <2>2. Count(events', "retrieval") = Count(events, "retrieval")
    BY <1>6, UnobservedCounted
  <2> QED
    BY <1>1, <1>6, <2>1, <2>2, VerdictFromElsewhere
<1> QED
  BY <1>4, <1>5, <1>6 DEF RetrievalNext

(* What the analysis makes of a trace of searches: it counts those whose   *)
(* query came before.                                                      *)
Nth(queries, i) == Cardinality({j \in 1..i : queries[j] = queries[i]})

LEMMA NthCounted ==
  ASSUME NEW queries \in Seq(Asked), NEW i \in 1..Len(queries)
  PROVE  /\ Nth(queries, i) \in 1..i
         /\ Nth(queries, i) > 1 <=> \E j \in 1..(i - 1) : queries[j] = queries[i]
<1> DEFINE I == {j \in 1..i : queries[j] = queries[i]}
<1>1. /\ i \in Nat /\ i \in I /\ IsFiniteSet(1..i) /\ Cardinality(1..i) = i
      /\ I \in SUBSET (1..i)
  BY FS_Interval
<1>2. IsFiniteSet(I) /\ Cardinality(I) \in Nat /\ Cardinality(I) <= i
  BY <1>1, FS_Subset, FS_CardinalityType
<1>3. IsFiniteSet(I \ {i}) /\ Cardinality(I \ {i}) = Cardinality(I) - 1
  BY <1>1, <1>2, FS_RemoveElement
<1>4. Cardinality(I \ {i}) \in Nat /\ (Cardinality(I \ {i}) = 0 <=> I \ {i} = {})
  BY <1>3, FS_EmptySet, FS_CardinalityType
<1>5. I \ {i} # {} <=> \E j \in 1..(i - 1) : queries[j] = queries[i]
  <2>1. \A j \in 1..i : j # i <=> j \in 1..(i - 1)
    BY <1>1
  <2>2. \A j \in 1..(i - 1) : j \in 1..i
    BY <1>1
  <2> QED
    BY <2>1, <2>2
<1>6. Nth(queries, i) = Cardinality(I)
  BY DEF Nth
<1> HIDE DEF I
<1>7. Cardinality(I) \in 1..i
  BY <1>1, <1>2, <1>3, <1>4
<1>8. Cardinality(I) > 1 <=> I \ {i} # {}
  BY <1>2, <1>3, <1>4
<1> QED
  BY <1>5, <1>6, <1>7, <1>8

LEMMA RepeatsAnalysed ==
  ASSUME NEW queries \in Seq(Asked)
  PROVE  AnalyzeContextBehavior([i \in DOMAIN queries |->
                                   [kind |-> "retrieval", query |-> queries[i]]]
                               ).repeated_retrievals =
           Cardinality({i \in DOMAIN queries : Nth(queries, i) > 1})
<1> DEFINE n == Len(queries)
           trace == [i \in DOMAIN queries |-> [kind |-> "retrieval", query |-> queries[i]]]
           B == [preparations : Nat, retained : Nat, removed : Nat, original_tokens : Nat,
                 retained_tokens : Nat, discarded_tokens : Nat, retrieval_queries : Nat,
                 repeated_retrievals : Nat, compactions : Nat, queries : SUBSET Asked]
           Op(b, entry) ==
             CASE entry.kind = "context_prepared" -> Preparation(b, entry.audit)
               [] entry.kind = "retrieval"        -> Retrieval(b, entry.query)
               [] entry.kind = "compaction"       -> [b EXCEPT !.compactions = @ + 1]
               [] OTHER -> b
           F == [at \in (1..n) \X B |-> Retrieval(at[2], queries[at[1]])]
<1>1. /\ n \in Nat /\ DOMAIN queries = 1..n /\ DOMAIN trace = 1..n
      /\ \A i \in 1..n : queries[i] \in Asked
  OBVIOUS
<1>2. \A i \in 1..n : trace[i].kind = "retrieval" /\ trace[i].query = queries[i]
  BY <1>1
<1> HIDE DEF trace
<1>3. \A b, i : i \in 1..n => Op(b, trace[i]) = Retrieval(b, queries[i])
  BY <1>2
<1>4. \A b \in B, query \in Asked :
        /\ Retrieval(b, query) \in B
        /\ Retrieval(b, query).queries = b.queries \cup {query}
        /\ Retrieval(b, query).repeated_retrievals =
             b.repeated_retrievals + (IF query \in b.queries THEN 1 ELSE 0)
  <2> SUFFICES ASSUME NEW b \in B, NEW query \in Asked
               PROVE  /\ Retrieval(b, query) \in B
                      /\ Retrieval(b, query).queries = b.queries \cup {query}
                      /\ Retrieval(b, query).repeated_retrievals =
                           b.repeated_retrievals + (IF query \in b.queries THEN 1 ELSE 0)
    OBVIOUS
  <2>1. /\ b.retrieval_queries + 1 \in Nat /\ b.repeated_retrievals \in Nat
        /\ b.repeated_retrievals + 1 \in Nat
        /\ b.queries \cup {query} \in SUBSET Asked
    OBVIOUS
  <2>2. /\ Retrieval(b, query).queries = b.queries \cup {query}
        /\ Retrieval(b, query).repeated_retrievals =
             IF query \in b.queries THEN b.repeated_retrievals + 1 ELSE b.repeated_retrievals
    BY DEF Retrieval
  <2>3. Retrieval(b, query) \in B
    BY <2>1 DEF Retrieval
  <2>4. b.repeated_retrievals + 0 = b.repeated_retrievals
    BY <2>1
  <2> HIDE DEF B
  <2> QED
    BY <2>2, <2>3, <2>4
<1>5. ContextBehavior \in B /\ ContextBehavior.queries = {}
      /\ ContextBehavior.repeated_retrievals = 0
  BY DEF ContextBehavior
<1> HIDE DEF B
<1>6. /\ Maps(F, 1..n, B)
      /\ \A i \in 1..n, b \in B : F[<<i, b>>] = Retrieval(b, queries[i])
  BY <1>1, <1>4 DEF Maps
<1> HIDE DEF F, n
<1>7. PICK g : IsFold(g, 1..n, [s \in SUBSET (1..n) |-> Max(s)], B, ContextBehavior, F)
  BY <1>1, <1>5, <1>6, LeftFoldExists
<1>8. g = [s \in SUBSET (1..n) |-> IF s = {} THEN ContextBehavior
                                   ELSE Op(g[s \ {Max(s)}], trace[Max(s)])]
  <2> HIDE DEF Op
  <2>1. ASSUME NEW s \in SUBSET (1..n), s # {}
        PROVE  g[s] = Op(g[s \ {Max(s)}], trace[Max(s)])
    <3>1. Max(s) \in 1..n
      BY <1>1, <2>1, MaxOfSome
    <3>2. g[s] = F[<<Max(s), g[s \ {Max(s)}]>>] /\ g[s \ {Max(s)}] \in B
      BY <1>7, <2>1 DEF IsFold
    <3> QED
      BY <1>3, <1>6, <3>1, <3>2
  <2> QED
    BY <1>7, <2>1 DEF IsFold
<1>9. PICK h : /\ h = [s \in SUBSET (1..n) |-> IF s = {} THEN ContextBehavior
                                               ELSE Op(h[s \ {Max(s)}], trace[Max(s)])]
               /\ AnalyzeContextBehavior(trace) = h[1..n]
  BY <1>1, <1>8, ZenonT(60) DEF AnalyzeContextBehavior, FoldLeft, MapThenFoldSet
<1> HIDE DEF Op
<1>10. PICK p : StepsTo(p, n, B, ContextBehavior, F, AnalyzeContextBehavior(trace))
  <2>1. h[{}] = ContextBehavior
    BY <1>9
  <2>2. ASSUME NEW s \in SUBSET (1..n), s # {}, h[s \ {Max(s)}] \in B
        PROVE  h[s] = F[<<Max(s), h[s \ {Max(s)}]>>]
    <3>1. Max(s) \in 1..n
      BY <1>1, <2>2, MaxOfSome
    <3>2. h[s] = Op(h[s \ {Max(s)}], trace[Max(s)])
      BY <1>9, <2>2
    <3> QED
      BY <1>3, <1>6, <2>2, <3>1, <3>2, ZenonT(60)
  <2>3. \E p : StepsTo(p, n, B, ContextBehavior, F, h[1..n])
    BY <1>1, <1>5, <1>6, <2>1, <2>2, LeftFoldSteps
  <2> QED
    BY <1>9, <2>3
<1>11. /\ p \in [0..n -> B] /\ p[0] = ContextBehavior /\ p[n] = AnalyzeContextBehavior(trace)
       /\ \A k \in 0..(n - 1) : p[k + 1] = F[<<k + 1, p[k]>>]
  BY <1>10 DEF Steps, StepsTo
<1> DEFINE Repeated(k) == {i \in 1..k : Nth(queries, i) > 1}
           T == {k \in 0..n : /\ p[k].queries = {queries[i] : i \in 1..k}
                              /\ p[k].repeated_retrievals = Cardinality(Repeated(k))}
<1>12. 0 \in T
  <2>1. 1..0 = {} /\ 0 \in 0..n
    BY <1>1
  <2> QED
    BY <1>5, <1>11, <2>1, FS_EmptySet
<1>13. ASSUME NEW k \in 0..(n - 1), k \in T PROVE k + 1 \in T
  <2>1. k \in 0..n /\ k + 1 \in 1..n /\ k \in Nat /\ k + 1 \in 0..n
    BY <1>1
  <2>2. p[k] \in B /\ queries[k + 1] \in Asked /\ p[k + 1] = Retrieval(p[k], queries[k + 1])
    BY <1>1, <1>6, <1>11, <2>1
  <2>3. /\ p[k + 1].queries = p[k].queries \cup {queries[k + 1]}
        /\ p[k + 1].repeated_retrievals =
             p[k].repeated_retrievals + (IF queries[k + 1] \in p[k].queries THEN 1 ELSE 0)
    BY <1>4, <2>2
  <2>4. /\ \A i : i \in 1..(k + 1) <=> i \in 1..k \/ i = k + 1
        /\ k + 1 \notin 1..k
    BY <2>1
  <2>5. p[k + 1].queries = {queries[i] : i \in 1..(k + 1)}
    <3>1. p[k].queries = {queries[i] : i \in 1..k}
      BY <1>13
    <3> QED
      BY <2>3, <2>4, <3>1
  <2>6. queries[k + 1] \in p[k].queries <=> Nth(queries, k + 1) > 1
    <3>1. p[k].queries = {queries[i] : i \in 1..k}
      BY <1>13
    <3>2. Nth(queries, k + 1) > 1 <=> \E j \in 1..((k + 1) - 1) : queries[j] = queries[k + 1]
      BY <2>1, NthCounted DEF n
    <3>3. (k + 1) - 1 = k
      BY <2>1
    <3> QED
      BY <3>1, <3>2, <3>3
  <2>7. /\ Repeated(k + 1) = Repeated(k) \cup (IF Nth(queries, k + 1) > 1 THEN {k + 1} ELSE {})
        /\ k + 1 \notin Repeated(k)
    BY <2>4
  <2>8. IsFiniteSet(Repeated(k)) /\ Cardinality(Repeated(k)) \in Nat
    <3>1. IsFiniteSet(1..k) /\ Repeated(k) \in SUBSET (1..k)
      BY <2>1, FS_Interval
    <3> QED
      BY <3>1, FS_Subset, FS_CardinalityType
  <2>9. p[k].repeated_retrievals = Cardinality(Repeated(k))
    BY <1>13
  <2> HIDE DEF Repeated
  <2>10. Cardinality(Repeated(k) \cup {k + 1}) = Cardinality(Repeated(k)) + 1
    BY <2>7, <2>8, FS_AddElement
  <2>11. p[k + 1].repeated_retrievals = Cardinality(Repeated(k + 1))
    <3>1. CASE Nth(queries, k + 1) > 1
      BY <2>3, <2>6, <2>7, <2>9, <2>10, <3>1
    <3>2. CASE ~(Nth(queries, k + 1) > 1)
      <4>1. Repeated(k + 1) = Repeated(k)
        BY <2>7, <3>2
      <4> QED
        BY <2>3, <2>6, <2>8, <2>9, <3>2, <4>1
    <3> QED
      BY <3>1, <3>2
  <2> QED
    BY <2>1, <2>5, <2>11
<1>14. n \in T
  <2> HIDE DEF T
  <2>1. \A k \in 0..n : k \in T
    BY <1>1, <1>12, <1>13, PrefixInduction
  <2> QED
    BY <1>1, <2>1
<1> QED
  BY <1>1, <1>11, <1>14 DEF trace

LEMMA NotedInvariant == RetrievalSpec => []Noted
<1>1. RetrievalInit => Noted
  <2> SUFFICES ASSUME RetrievalInit PROVE Noted
    OBVIOUS
  <2>1. /\ retrievalEvents = <<>> /\ traced = <<>> /\ events = <<>>
        /\ failure = "none" /\ queryCounts = EmptyBag
    BY DEF RetrievalInit, Init
  <2>2. DOMAIN queryCounts = {}
    BY <2>1 DEF EmptyBag, SetToBag
  <2>3. Count(events, "retrieval") = 0
    <3>1. {i \in DOMAIN events : events[i].kind = "retrieval"} = {}
      BY <2>1
    <3> QED
      BY <3>1, FS_EmptySet DEF Count
  <2> QED
    BY <2>1, <2>2, <2>3 DEF Noted, Numbered
<1>2. RetrievalSpec => []TypeOK /\ []Progress /\ []Exchanged
  BY RetrievalImplementsLoop, TypeCorrect, ProgressInvariant, ExchangedInvariant, PTL
<1>3. TypeOK /\ Progress /\ Exchanged /\ Noted /\ [RetrievalNext]_allVars => Noted'
  BY NotedNext
<1> QED
  BY <1>1, <1>2, <1>3, PTL DEF RetrievalSpec

(* The two sequences tell the same repetitions.                            *)
LEMMA SameRepeats ==
  ASSUME Noted, NEW i \in DOMAIN traced
  PROVE  /\ retrievalEvents[i].query = traced[i] /\ i \in 1..Len(traced)
         /\ retrievalEvents[i].repeat = Nth(traced, i)
<1>1. /\ Len(traced) \in Nat /\ DOMAIN traced = 1..Len(traced)
      /\ Len(retrievalEvents) \in Nat /\ DOMAIN retrievalEvents = 1..Len(retrievalEvents)
      /\ Len(retrievalEvents) >= Len(traced)
      /\ \A j \in 1..Len(traced) : retrievalEvents[j].query = traced[j]
  BY DEF Noted, Numbered
<1>2. i \in DOMAIN retrievalEvents /\ i \in 1..Len(traced)
      /\ \A j \in 1..i : j \in 1..Len(traced)
  BY <1>1
<1>3. AskedSoFar(retrievalEvents, i, retrievalEvents[i].query) =
        {j \in 1..i : traced[j] = traced[i]}
  BY <1>1, <1>2 DEF AskedSoFar
<1> QED
  BY <1>1, <1>2, <1>3 DEF Noted, Numbered, Nth

(* Every search is in the trace but that of an overflow, numbered as the   *)
(* analysis counts it: retrieval_events and analyze_context_behavior never *)
(* disagree on what was asked twice, however long the run.                 *)
THEOREM SearchesAreTraced == RetrievalSpec => []RetrievalsTraced
<1>1. Noted => RetrievalsTraced
  <2> SUFFICES ASSUME Noted PROVE RetrievalsTraced
    OBVIOUS
  <2>1. /\ Len(traced) = Count(events, "retrieval") /\ traced \in Seq(Asked)
        /\ Len(traced) \in Nat /\ DOMAIN traced = 1..Len(traced)
        /\ Len(retrievalEvents) - Len(traced) = IF failure = "context_window" THEN 1 ELSE 0
    BY DEF Noted
  <2>2. \A i \in DOMAIN traced : /\ retrievalEvents[i].query = traced[i]
                                 /\ retrievalEvents[i].repeat = Nth(traced, i)
    BY SameRepeats
  <2>3. {i \in DOMAIN traced : Nth(traced, i) > 1} =
          {i \in DOMAIN traced : retrievalEvents[i].repeat > 1}
    BY <2>2
  <2>4. AnalyzeContextBehavior([i \in DOMAIN traced |->
                                  [kind |-> "retrieval", query |-> traced[i]]]
                              ).repeated_retrievals =
          Cardinality({i \in DOMAIN traced : retrievalEvents[i].repeat > 1})
    BY <2>1, <2>3, RepeatsAnalysed
  <2> QED
    BY <2>1, <2>2, <2>4 DEF RetrievalsTraced, Nth
<1> QED
  BY <1>1, NotedInvariant, PTL

(* The policy's state has its types: nothing recovered that was not        *)
(* offered, no more of it than its cap, and no number without its query.   *)
THEOREM PolicyIsTyped == RetrievalSpec => []RetrievalTypeOK
<1>1. Remembered /\ Recovered /\ Noted => RetrievalTypeOK
  <2> SUFFICES ASSUME Remembered, Recovered, Noted PROVE RetrievalTypeOK
    OBVIOUS
  <2>1. ASSUME NEW i \in DOMAIN retrievalEvents
        PROVE  retrievalEvents[i].repeat \in 1..i
    <3>1. /\ retrievalEvents \in Seq([query : Asked, repeat : Nat])
          /\ DOMAIN retrievalEvents = 1..Len(retrievalEvents)
          /\ Len(retrievalEvents) \in Nat
      BY DEF Noted, Numbered
    <3> DEFINE queries == [j \in 1..Len(retrievalEvents) |-> retrievalEvents[j].query]
    <3>2. /\ queries \in Seq(Asked) /\ Len(queries) = Len(retrievalEvents)
          /\ i \in 1..Len(queries) /\ \A j \in 1..i : j \in 1..Len(queries)
      <4>1. \A j \in 1..Len(retrievalEvents) : retrievalEvents[j].query \in Asked
        <5>1. ASSUME NEW R, retrievalEvents \in Seq(R)
              PROVE  \A j \in 1..Len(retrievalEvents) : retrievalEvents[j] \in R
          BY <5>1
        <5>2. \A j \in 1..Len(retrievalEvents) :
                retrievalEvents[j] \in [query : Asked, repeat : Nat]
          BY <3>1, <5>1
        <5> QED
          BY <5>2
      <4>2. queries \in [1..Len(retrievalEvents) -> Asked]
        BY <4>1
      <4>3. queries \in Seq(Asked) /\ Len(queries) = Len(retrievalEvents)
        <5> HIDE DEF queries
        <5> QED
          BY <3>1, <4>2
      <4> QED
        BY <3>1, <4>3
    <3>3. AskedSoFar(retrievalEvents, i, retrievalEvents[i].query) =
            {j \in 1..i : queries[j] = queries[i]}
      BY <3>1, <3>2 DEF AskedSoFar
    <3>4. retrievalEvents[i].repeat = Nth(queries, i)
      BY <3>3 DEF Noted, Numbered, Nth
    <3> HIDE DEF queries
    <3> QED
      BY <3>2, <3>4, NthCounted
  <2> QED
    BY <2>1 DEF Remembered, Recovered, Noted, Numbered, Documents, RetrievalTypeOK
<1> QED
  BY <1>1, RememberedInvariant, RecoveredInvariant, NotedInvariant, PTL

----------------------------------------------------------------------------
(* The view.  Its estimate is a number, so that it fits or does not.       *)
Sized == [role : Roles, tokens : Nat]

LEMMA EstimateTyped ==
  ASSUME NEW messages \in Seq(Sized)
  PROVE  CountMessages(messages) \in Nat
<1>1. PICK p : Counts(p, messages)
  <2>1. \A message \in Sized : message.tokens \in Nat
    BY DEF Sized
  <2> QED
    BY <2>1, PromptCounted
<1>2. Len(messages) \in Nat /\ Len(messages) \in 0..Len(messages)
  OBVIOUS
<1>3. PromptTokens(messages) \in Nat
  BY <1>1, <1>2 DEF Counts
<1> QED
  BY <1>3 DEF CountMessages, PromptTokens

LEMMA ItemsTyped ==
  ASSUME NEW items, IsFiniteSet(items), items \subseteq Documents
  PROVE  MapThenSumSet(LAMBDA document : HeaderTokens + document.tokens, items) \in Nat
<1> DEFINE F == [at \in items \X Nat |-> (HeaderTokens + at[1].tokens) + at[2]]
<1>1. \A item \in items, n \in Nat :
        /\ F[<<item, n>>] = (HeaderTokens + item.tokens) + n
        /\ (HeaderTokens + item.tokens) + n \in Nat
  BY DocumentTokens, RetrievalAssumption
<1> HIDE DEF F
<1>2. Maps(F, items, Nat)
  BY <1>1 DEF Maps
<1>3. PICK g : IsFold(g, items, [s \in SUBSET items |-> CHOOSE item \in s : TRUE], Nat, 0, F)
  BY <1>2, SetFoldExists
<1>4. g = [s \in SUBSET items |->
             IF s = {} THEN 0
             ELSE (HeaderTokens + (CHOOSE item \in s : TRUE).tokens)
                    + g[s \ {CHOOSE item \in s : TRUE}]]
  <2>1. ASSUME NEW s \in SUBSET items, s # {}
        PROVE  g[s] = (HeaderTokens + (CHOOSE item \in s : TRUE).tokens)
                        + g[s \ {CHOOSE item \in s : TRUE}]
    <3>1. /\ g[s \ {CHOOSE item \in s : TRUE}] \in Nat
          /\ g[s] = F[<<CHOOSE item \in s : TRUE, g[s \ {CHOOSE item \in s : TRUE}]>>]
      BY <1>3, <2>1 DEF IsFold
    <3> QED
      BY <1>1, <2>1, <3>1
  <2> QED
    BY <1>3, <2>1 DEF IsFold
<1>5. PICK h : /\ h = [s \in SUBSET items |->
                         IF s = {} THEN 0
                         ELSE (HeaderTokens + (CHOOSE item \in s : TRUE).tokens)
                                + h[s \ {CHOOSE item \in s : TRUE}]]
               /\ MapThenSumSet(LAMBDA document : HeaderTokens + document.tokens, items)
                    = h[items]
  BY <1>4 DEF MapThenSumSet, MapThenFoldSet
<1> DEFINE T == {s \in SUBSET items : h[s] \in Nat}
<1>6. {} \in T
  <2>1. h[{}] = 0
    BY <1>5
  <2> QED
    BY <2>1
<1>7. ASSUME NEW s \in SUBSET items, s # {}, \A item \in s : s \ {item} \in T
      PROVE  s \in T
  <2> DEFINE x == CHOOSE item \in s : TRUE
  <2>1. x \in s /\ h[s] = (HeaderTokens + x.tokens) + h[s \ {x}]
    BY <1>5, <1>7
  <2>2. h[s \ {x}] \in Nat /\ x.tokens \in Nat /\ HeaderTokens \in Nat
    BY <1>7, <2>1, DocumentTokens, RetrievalAssumption
  <2> HIDE DEF x
  <2> QED
    BY <2>1, <2>2
<1>8. items \in T
  <2> HIDE DEF T
  <2> QED
    BY <1>6, <1>7, SubsetInduction
<1> QED
  BY <1>5, <1>8

(* Where the active window begins.                                         *)
LEMMA RecentStarts ==
  ASSUME TypeOK, Len(history) >= 2
  PROVE  /\ RecentStart \in 2..Len(history)
         /\ RecentStart = 2 \/ RecentStart = Len(history) - ActiveMessages
         /\ RecentStart >= Len(history) - ActiveMessages
<1> DEFINE s == {2, Len(history) - ActiveMessages}
<1>1. Len(history) \in Nat /\ ActiveMessages \in Nat \ {0}
  BY RetrievalAssumption DEF TypeOK
<1>2. \E x \in s : \A y \in s : x >= y
  BY <1>1
<1>3. Max(s) \in s /\ \A y \in s : Max(s) >= y
  BY <1>2 DEF Max
<1> QED
  BY <1>1, <1>3 DEF RecentStart

LEMMA ViewTyped ==
  ASSUME TypeOK, Len(history) >= 2, NEW items, IsFiniteSet(items), items \subseteq Documents
  PROVE  View(items) \in Seq(Sized)
<1> DEFINE size == MapThenSumSet(LAMBDA document : HeaderTokens + document.tokens, items)
           recent == SubSeq(history, RecentStart + 1, Len(history))
           told == IF items = {} THEN <<>> ELSE <<Say("system", size)>>
<1>1. size \in Nat
  BY ItemsTyped
<1> HIDE DEF size
<1>2. history \in Seq(Sized) /\ Len(history) \in Nat
  <2>1. Messages \subseteq Sized
    BY DataAssumption DEF Messages, Sized
  <2> QED
    BY <2>1 DEF TypeOK
<1>3. SubSeq(history, 1, 2) \in Seq(Sized)
  BY <1>2, SubSeqProperties
<1>4. recent \in Seq(Sized)
  <2>1. RecentStart + 1 \in 1..(Len(history) + 1) /\ Len(history) \in (RecentStart + 1 - 1)..Len(history)
    BY <1>2, RecentStarts
  <2> QED
    BY <1>2, <2>1, SubSeqProperties
<1>5. told \in Seq(Sized)
  <2>1. Say("system", size) \in Sized
    BY <1>1 DEF Say, Sized, Roles
  <2> QED
    BY <2>1
<1>6. View(items) = SubSeq(history, 1, 2) \o told \o recent
  BY DEF View, size
<1> HIDE DEF told, recent
<1> QED
  BY <1>3, <1>4, <1>5, <1>6

(* A view, and what it counts, depend on the conversation and the items    *)
(* alone.                                                                  *)
LEMMA SameView ==
  ASSUME UNCHANGED history, NEW items
  PROVE  recovered'.items = items => View(recovered.items)' = View(items)
BY DEF View, RecentStart, MapThenSumSet, MapThenFoldSet, Say, Max

LEMMA SameCount ==
  CountMessages(View(recovered.items))' = CountMessages(View(recovered.items)')
BY DEF CountMessages, FoldLeft, MapThenFoldSet

LEMMA FitsNext ==
  ASSUME TypeOK, TypeOK', Exchanged, Exchanged', Remembered, Recovered', RequestsFit,
         [RetrievalNext]_allVars
  PROVE  RequestsFit'
<1>1. CASE Prepare
  <2>1. CASE pc' \in {"request", "awaiting"}
    <3>1. /\ ~(Estimate(recovered'.items) > UsablePromptTokens)
          /\ PrepareContext("none") /\ pc = "prepare"
      BY <1>1, <2>1 DEF Prepare, ContextOverflow
    <3>2. history' = history
      BY <3>1 DEF PrepareContext
    <3>3. Len(history) >= 2
      BY <3>1 DEF Exchanged, Turns
    <3>4. IsFiniteSet(recovered'.items) /\ recovered'.items \subseteq Documents
      <4>1. /\ recovered'.items \subseteq recovered'.offered
            /\ recovered'.offered \subseteq Documents /\ IsFiniteSet(recovered'.offered)
        BY DEF Recovered, Documents
      <4> QED
        BY <4>1, FS_Subset
    <3>5. CountMessages(View(recovered'.items)) \in Nat
      BY <3>3, <3>4, ViewTyped, EstimateTyped
    <3>6. CountMessages(View(recovered'.items)) <= UsablePromptTokens
      BY <3>1, <3>5, RetrievalAssumption DEF Estimate
    <3>7. View(recovered.items)' = View(recovered'.items)
      BY <3>2, SameView
    <3> QED
      BY <3>6, <3>7, SameCount DEF RequestsFit
  <2> QED
    BY <2>1 DEF RequestsFit
<1>2. CASE UNCHANGED <<history, recovered>>
           /\ (pc' \in {"request", "awaiting"} => pc \in {"request", "awaiting"})
  <2>1. View(recovered.items)' = View(recovered.items)
    BY <1>2, SameView
  <2> QED
    BY <1>2, <2>1, SameCount DEF RequestsFit
<1>3. CASE ExecuteObserved
  <2>1. pc' \notin {"request", "awaiting"}
    BY <1>3 DEF ExecuteObserved, ExecuteTool, Advance
  <2> QED
    BY <2>1 DEF RequestsFit
<1>4. CASE Unobserved
  <2>1. recovered' = recovered
    BY <1>4 DEF Unobserved, policyVars, searchVars
  <2>2. \/ pc' \notin {"request", "awaiting"}
        \/ UNCHANGED history /\ pc \in {"request", "awaiting"}
    BY <1>4 DEF Unobserved, Start, BeforeModel, AfterModelRaises, MalformedDecision, Finish,
                ChooseTool, BeforeTool, StepsExhausted, Raise, TimeExpires, Terminated,
                FailLimit, Advance, vars
  <2> QED
    BY <1>2, <2>1, <2>2 DEF RequestsFit
<1>5. CASE UNCHANGED allVars
  BY <1>2, <1>5 DEF allVars, vars, policyVars, searchVars
<1> QED
  BY <1>1, <1>3, <1>4, <1>5 DEF RetrievalNext

(* What is sent fits, with the recovered items in it, and when the window  *)
(* is even the messages it opens with are a question and its answer: the   *)
(* conversation only ever grows by such pairs between two requests.        *)
THEOREM ViewsAreSound == RetrievalSpec => []ViewSound
<1>1. RetrievalInit => RequestsFit
  BY DEF RetrievalInit, Init, RequestsFit
<1>2. RetrievalSpec => []TypeOK /\ []Exchanged
  BY RetrievalImplementsLoop, TypeCorrect, ExchangedInvariant, PTL
<1>3. /\ TypeOK /\ TypeOK' /\ Exchanged /\ Exchanged' /\ Remembered /\ Recovered'
      /\ RequestsFit /\ [RetrievalNext]_allVars
      => RequestsFit'
  BY FitsNext
<1>4. TypeOK /\ Exchanged => WindowOpensWithAQuestion
  <2> SUFFICES ASSUME TypeOK, Exchanged, pc = "request", ActiveMessages % 2 = 0,
                      Len(history) > 2
               PROVE  history[RecentStart + 1].role = "assistant"
    BY DEF WindowOpensWithAQuestion
  <2>1. /\ Len(history) \in Nat /\ Len(history) % 2 = 0 /\ ActiveMessages \in Nat \ {0}
        /\ DOMAIN history = 1..Len(history)
    BY RetrievalAssumption DEF TypeOK, Exchanged, Turns
  <2>2. /\ RecentStart \in 2..Len(history)
        /\ RecentStart = 2 \/ RecentStart = Len(history) - ActiveMessages
    BY <2>1, RecentStarts
  <2>3. RecentStart < Len(history)
    <3>1. CASE RecentStart = 2
      BY <2>1, <3>1
    <3>2. CASE RecentStart = Len(history) - ActiveMessages
      BY <2>1, <3>2
    <3> QED
      BY <2>2, <3>1, <3>2
  <2>4. (RecentStart + 1) % 2 = 1
    <3>1. RecentStart \in Nat /\ RecentStart % 2 = 0
      <4>1. CASE RecentStart = 2
        BY <4>1
      <4>2. CASE RecentStart = Len(history) - ActiveMessages
        BY <2>1, <2>2, <4>2
      <4> QED
        BY <2>2, <4>1, <4>2
    <3> QED
      BY <3>1
  <2>5. RecentStart + 1 \in DOMAIN history /\ RecentStart + 1 > 2
    <3>1. RecentStart \in Nat /\ RecentStart >= 2
      <4>1. Len(history) \in Nat
        BY <2>1
      <4> QED
        BY <4>1, <2>2
    <3> QED
      BY <2>1, <2>3, <3>1
  <2> QED
    BY <2>4, <2>5 DEF Exchanged, ConversationMatchesTrace
<1>5. RetrievalSpec => []RequestsFit
  BY <1>1, <1>2, <1>3, RememberedInvariant, RecoveredInvariant, PTL DEF RetrievalSpec
<1>6. WindowOpensWithAQuestion /\ RequestsFit => ViewSound
  BY DEF ViewSound
<1> QED
  BY <1>2, <1>4, <1>5, <1>6, PTL
=============================================================================
