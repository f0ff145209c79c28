\* Two handlers and two ids over one slot: every submit evicts, mid-get and mid-cancel too.
CONSTANTS
  c1 = c1
  c2 = c2
  Callers <- MCCallers
  MaxJobs = 2
  Capacity = 1
  None = None
SPECIFICATION FairSpec
INVARIANTS
  AbortIsDeserved
  NoEternalRunning
  DoneIsPinged
PROPERTIES
  LifecycleSpec
  AbandonedWorkStops
