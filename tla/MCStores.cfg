\* Two connections of different capacity over three sessions and three turns; three
\* processes and four opens of a file of any version; two batches on two backends
\* over three ticks; a batch of two items at any provider.
CONSTANTS
  mcp = mcp
  cli = cli
  cli1 = cli1
  cli2 = cli2
  s1 = s1
  s2 = s2
  s3 = s3
  x1 = x1
  x2 = x2
  Conns <- MCConns
  Sessions <- MCSessions
  Capacity <- MCCapacity
  MaxTurns = 3
  MaxTouch = 4
  None = None
  Processes <- MCProcesses
  InitialVersions = {0, 1, 2, 3}
  MaxOpens = 4
  Batches <- MCBatchIds
  BackendOf <- MCBackendOf
  TwoStep = {"openai"}
  Ttl = 1
  Window = 0
  Retention = 1
  MaxClock = 3
  MaxItems = 2
SPECIFICATION MCSpec
SYMMETRY SessionSymmetry
CHECK_DEADLOCK FALSE
INVARIANTS
  TurnsAreWhole
  SchemaIsWhole
PROPERTIES
  LruSpec
  HandlesAreAccounted
  AnswersAreTold
