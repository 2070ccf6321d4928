--------------------------- MODULE RetrievalAgent ---------------------------
(***************************************************************************)
(* The agent loop run with RetrievalContextPolicy and its ObservationStore:*)
(* every preparation, and the retrieve tool, search the repository as it   *)
(* was indexed when the run began and the tool results seen so far.  What  *)
(* a search ranks and in which order is left open.                         *)
(***************************************************************************)
EXTENDS AgentLoop, SequencesExt, TraceAnalysis

CONSTANTS
  RepositoryDocuments,  \* the chunks of repository_index
  CallIds,              \* call ids of the model's tool calls; it may repeat one
  Queries,              \* queries of explicit retrieve calls
  SearchLimit,          \* search(limit=12), of each index
  RetrievalTokens,      \* retrieval_tokens
  ActiveMessages,       \* active_messages
  UsablePromptTokens,   \* budget.usable_prompt_tokens
  HeaderTokens          \* what "[source=... metadata=...]" adds to an item

(* A document is the index it is in, its source id and its size.  The id   *)
(* of an observation is its call id and the digest of its content; one     *)
(* content of each size is told apart.                                     *)
Document(from, id, tokens) == [from |-> from, id |-> id, tokens |-> tokens]

ASSUME RetrievalAssumption ==
  /\ Policies = {"retrieval"}
  /\ RepositoryDocuments \subseteq [from : {"repository"}, id : STRING, tokens : Nat \ {0}]
  /\ IsFiniteSet(RepositoryDocuments)
  /\ SearchLimit \in Nat \ {0} /\ RetrievalTokens \in Nat \ {0}
  /\ ActiveMessages \in Nat \ {0} /\ UsablePromptTokens \in Nat \ {0}
  /\ HeaderTokens \in Nat

VARIABLES
  documents,        \* self.observations.documents
  queryCounts,      \* self.query_counts
  retrievalEvents,  \* self.retrieval_events: query and repeat_number
  recovered,        \* the latest RecoveryResult, with what the search offered
  traced,           \* the queries in the payloads of the trace's retrievals
  results           \* call id and content in the payloads of its tool results

searchVars == <<queryCounts, retrievalEvents, recovered, traced>>
policyVars == <<documents, results, searchVars>>
allVars == <<vars, policyVars>>

----------------------------------------------------------------------------
Observations == [from : {"observation"}, id : CallIds, tokens : ContentTokens \ {0}]

(* What the two searches may return, merged by score: at most the limit of *)
(* each, in any order.                                                     *)
Offers ==
  {offer \in SUBSET (RepositoryDocuments \cup ToSet(documents)) :
     \A from \in {"repository", "observation"} :
       Cardinality({document \in offer : document.from = from}) <= SearchLimit}
Rankings == UNION {SetToSeqs(offer) : offer \in Offers}

Cap == Min({RetrievalTokens, UsablePromptTokens})

(* The items of a recovery: each candidate that fits what is left of the   *)
(* cap.  Leaving at a full cap changes nothing, since no item is empty.    *)
SelectUntilTooLarge(ranked) ==  \* mutant: stop at the first that does not fit
  FoldLeft(LAMBDA taken, document :
             IF taken.full \/ document.tokens > Cap - taken.tokens
             THEN [taken EXCEPT !.full = TRUE]
             ELSE [taken EXCEPT !.items = @ \cup {document}, !.tokens = @ + document.tokens],
           [items |-> {}, tokens |-> 0, full |-> FALSE], ranked)
SelectOverCap(ranked) ==  \* mutant: the item that crosses the cap is taken too
  FoldLeft(LAMBDA taken, document :
             IF taken.tokens >= Cap THEN taken
             ELSE [items |-> taken.items \cup {document},
                   tokens |-> taken.tokens + document.tokens],
           [items |-> {}, tokens |-> 0], ranked)
Select(ranked) ==
  FoldLeft(LAMBDA taken, document :
             IF document.tokens > Cap - taken.tokens THEN taken
             ELSE [items |-> taken.items \cup {document},
                   tokens |-> taken.tokens + document.tokens],
           [items |-> {}, tokens |-> 0], ranked)

(* recover: what every search does to the policy, whoever asked.           *)
RecoverTalliesHits(query, ranked) ==  \* mutant: an empty recovery is not noted
  /\ recovered' = [items |-> Select(ranked).items, tokens |-> Select(ranked).tokens,
                   offered |-> ToSet(ranked)]
  /\ queryCounts' = queryCounts (+) SetToBag({query})
  /\ retrievalEvents' = IF Select(ranked).items = {} THEN retrievalEvents
                        ELSE Append(retrievalEvents,
                          [query |-> query, repeat |-> queryCounts'[query]])
Recover(query, ranked) ==
  /\ recovered' = [items |-> Select(ranked).items, tokens |-> Select(ranked).tokens,
                   offered |-> ToSet(ranked)]
  /\ queryCounts' = queryCounts (+) SetToBag({query})
  /\ retrievalEvents' = Append(retrievalEvents,
       [query |-> query, repeat |-> queryCounts'[query]])

(* _automatic_query: the objective, which never changes, and the content   *)
(* of the two newest messages.                                             *)
AutomaticQuery ==
  <<"automatic", history[Len(history) - 1].tokens, history[Len(history)].tokens>>
ExplicitQuery(query) == <<"explicit", query>>

RecentStartTooLate ==  \* mutant: one message too few
  Max({2, Len(history) - ActiveMessages + 1})
RecentStart == Max({2, Len(history) - ActiveMessages})

(* The view: the instructions, the recovered items as one message when     *)
(* there are any, and the active window.                                   *)
View(items) ==
  LET size == MapThenSumSet(LAMBDA document : HeaderTokens + document.tokens, items)
  IN  SubSeq(history, 1, 2)
        \o (IF items = {} THEN <<>> ELSE <<Say("system", size)>>)
        \o SubSeq(history, RecentStart + 1, Len(history))

(* TokenBudget.count_messages.                                             *)
CountMessages(messages) == FoldLeft(LAMBDA n, message : n + 4 + message.tokens, 3, messages)

EstimateBeforeRecovery(items) == CountMessages(View({}))  \* mutant: items not counted
Estimate(items) == CountMessages(View(items))

----------------------------------------------------------------------------
(* prepare_context searches first, whether or not the view will fit.       *)
Prepare ==
  /\ pc = "prepare"
  /\ \E ranked \in Rankings :
       /\ Recover(AutomaticQuery, ranked)
       /\ IF Estimate(recovered'.items) > UsablePromptTokens
          THEN ContextOverflow("none") /\ UNCHANGED traced
          ELSE PrepareContext("none") /\ traced' = Append(traced, AutomaticQuery)
  /\ UNCHANGED <<documents, results>>

(* ObservationStore.add_event: a result with content is kept, unless the   *)
(* same call already gave the same content.                                *)
StoredOncePerCall(call, content) ==  \* mutant: deduplicated by call id alone
  IF content = 0 \/ \E document \in ToSet(documents) : document.id = call THEN documents
  ELSE Append(documents, Document("observation", call, content))
Stored(call, content) ==
  IF content = 0 \/ Document("observation", call, content) \in ToSet(documents)
  THEN documents
  ELSE Append(documents, Document("observation", call, content))

(* Whether the tool that ran asked the policy, as its trace shows.         *)
Searched == events'[Len(events) + 1].kind = "retrieval"

(* A tool result reaches the store before it reaches the conversation; the *)
(* answer to a retrieve, found or not, is a result like any other and      *)
(* never empty.                                                            *)
ExecuteObserved ==
  \E tool \in Tools : \E path \in PathsNamed(tool) : \E call \in CallIds :
    /\ ExecuteTool(tool, path)
    /\ LET content == history'[Len(history')].tokens
       IN  /\ tool = "retrieve" => content > 0
           /\ documents' = Stored(call, content)
           /\ results' = Append(results, [call |-> call, content |-> content])
    /\ \/ /\ Searched
          /\ \E query \in Queries, ranked \in Rankings :
               /\ Recover(ExplicitQuery(query), ranked)
               /\ traced' = Append(traced, ExplicitQuery(query))
       \/ ~Searched /\ UNCHANGED searchVars

(* The steps of the loop that do not reach the policy.                     *)
Unobserved ==
  /\ \/ Start \/ BeforeModel
     \/ AfterModelRaises \/ MalformedDecision \/ Finish \/ ChooseTool
     \/ BeforeTool \/ StepsExhausted \/ Raise
     \/ TimeExpires \/ Terminated
  /\ UNCHANGED policyVars

RetrievalInit ==
  /\ Init
  /\ documents = <<>> /\ results = <<>>
  /\ queryCounts = EmptyBag /\ retrievalEvents = <<>> /\ traced = <<>>
  /\ recovered = [items |-> {}, tokens |-> 0, offered |-> {}]

RetrievalNext == Prepare \/ ExecuteObserved \/ Unobserved

RetrievalSpec == RetrievalInit /\ [][RetrievalNext]_allVars

----------------------------------------------------------------------------
(* Type invariant of the policy's state.                                   *)
RetrievalTypeOK ==
  /\ documents \in Seq(Observations)
  /\ results \in Seq([call : CallIds, content : ContentTokens])
  /\ recovered.items \subseteq recovered.offered /\ recovered.tokens \in 0..Cap
  /\ recovered.offered \subseteq RepositoryDocuments \cup Observations
  /\ \A i \in DOMAIN retrievalEvents : retrievalEvents[i].repeat \in 1..i
  /\ DOMAIN queryCounts = {retrievalEvents[i].query : i \in DOMAIN retrievalEvents}

(* The store is the run's memory: whatever a tool ever answered, in the    *)
(* window or long gone from it, is in it once, also when the model repeats *)
(* a call id ("external store for complete historical observations").      *)
ObservationsComplete ==
  /\ ToSet(documents) = {Document("observation", results[i].call, results[i].content) :
                           i \in {j \in DOMAIN results : results[j].content # 0}}
  /\ \A i, j \in DOMAIN documents : documents[i] = documents[j] => i = j
  /\ Len(results) = Count(events, "tool_result")

(* Every search the policy made is in the trace, in order and with the     *)
(* repetitions the analysis counts there, and analyze_context_behavior     *)
(* finds as many repeated as the policy numbered above one; only the       *)
(* search of the preparation that overflowed is not there.                 *)
RetrievalsTraced ==
  LET searches == Len(retrievalEvents)
      Repeats(i) == Cardinality({j \in 1..i : traced[j] = traced[i]})
  IN  /\ Len(traced) = Count(events, "retrieval")
      /\ searches - Len(traced) = IF failure = "context_window" THEN 1 ELSE 0
      /\ \A i \in DOMAIN traced : /\ retrievalEvents[i].query = traced[i]
                                  /\ retrievalEvents[i].repeat = Repeats(i)
      /\ AnalyzeContextBehavior([i \in DOMAIN traced |->
                                   [kind |-> "retrieval", query |-> traced[i]]]).repeated_retrievals =
           Cardinality({i \in DOMAIN traced : retrievalEvents[i].repeat > 1})

(* A recovery fills its cap: nothing the search offered was left out that  *)
(* would still have fitted, however the candidates were ranked.            *)
RecoveryMaximal ==
  \A document \in recovered.offered \ recovered.items :
    document.tokens > Cap - recovered.tokens

(* The window a request shows never opens with an answer whose question    *)
(* has left it, when the window is even, as the default of 6 is: every     *)
(* iteration appends a pair, whichever way it went.                        *)
WindowOpensWithAQuestion ==
  (pc = "request" /\ ActiveMessages % 2 = 0 /\ Len(history) > 2) =>
    history[RecentStart + 1].role = "assistant"

RequestsFit ==
  pc \in {"request", "awaiting"} =>
    CountMessages(View(recovered.items)) <= UsablePromptTokens

(* A prompt that is sent shows whole exchanges, as above, and fits the     *)
(* budget with the recovered items in it, though their cap counts neither  *)
(* their headers nor the rest of the view.                                 *)
ViewSound == WindowOpensWithAQuestion /\ RequestsFit
=============================================================================
