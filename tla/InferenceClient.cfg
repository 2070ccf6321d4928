\* Complete and streamed calls, up to two retries, against the mock server and
\* against one that may do anything; connections lost at every point.
CONSTANTS
  Retries = 2
  MaxCalls = 2
  Lengths = {1, 3}
  Servers = {"mock", "other"}
SPECIFICATION FairSpec
INVARIANTS
  TypeOK
  LostWorkBounded
  CountedIsWhole
PROPERTIES
  CallsEnd
  KeepsPromise
