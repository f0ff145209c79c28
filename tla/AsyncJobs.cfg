\* Two jobs whose pings meet in a one-slot ring, one caller, one job_wait.
CONSTANTS
  Callers = {c1}
  Waiters = {w1}
  MaxJobs = 2
  Capacity = 2
  RingCap = 1
  WaitLevels = {3}
  Limits = {1}
  None = None
  MaxNarrative = 0
SPECIFICATION Spec
INVARIANTS
  PingsAreSound
PROPERTIES
  PingLeavesForCause
