\* The deadline passes anywhere in a run, under every kind of policy.
CONSTANTS
  Policies = {"full-history", "retrieval", "compaction"}
  MaxSteps = 4
  MaxModelRequests = 3
  MaxToolCalls = 2
  MaxGeneratedTokens = 4
  ResponseTokens = {1, 2}
  ContentTokens = {1}
  Tools = {"read_file", "retrieve"}
  Paths = {f1}
  NoPath = none
SPECIFICATION DeadlineSpec
INVARIANT
  LateWorkBounded
