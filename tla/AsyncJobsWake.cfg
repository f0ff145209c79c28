\* One job, two callers and a line of narrative, no deadline obliged to pass.
CONSTANTS
  Callers = {c1, c2}
  Waiters = {w1}
  MaxJobs = 1
  Capacity = 2
  RingCap = 2
  WaitLevels = {3}
  Limits = {1}
  None = None
  MaxNarrative = 1
SPECIFICATION FairSpec
PROPERTIES
  LandingEndsAWait
  EveryWaitReturns
