\* Searches of the policy and of the model, results that are empty or repeat
\* a call id, recoveries that fit, fill the cap or push the view over it.
CONSTANTS
  Policies = {"retrieval"}
  MaxSteps = 3
  MaxModelRequests = 3
  MaxToolCalls = 3
  MaxGeneratedTokens = 3
  ResponseTokens = {1}
  ContentTokens = {0, 1, 3}
  Tools = {"search", "retrieve"}
  Paths = {}
  none = none
  NoPath = none
  c1 = c1
  c2 = c2
  CallIds <- MCCallIds
  RepositoryDocuments <- MCRepository
  Queries = {"q"}
  SearchLimit = 1
  RetrievalTokens = 5
  ActiveMessages = 2
  UsablePromptTokens = 38
  HeaderTokens = 1
SYMMETRY MCSymmetry
CONSTRAINT MCSizes
SPECIFICATION RetrievalSpec
INVARIANTS
  RetrievalTypeOK
  ObservationsComplete
  RetrievalsTraced
  RecoveryMaximal
  ViewSound
