\* One job, one caller: job_get between the outcome and its ping.
CONSTANTS
  Callers = {c1}
  Waiters = {w1}
  MaxJobs = 1
  Capacity = 2
  RingCap = 1
  WaitLevels = {3}
  Limits = {1}
  None = None
  MaxNarrative = 1
SPECIFICATION Spec
INVARIANTS
  CollectedStaysQuiet
