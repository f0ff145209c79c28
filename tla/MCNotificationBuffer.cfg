\* Two waiters over a two-slot ring, narrative (1) and wake-level (3) records.
CONSTANTS
  w1 = w1
  w2 = w2
  Waiters <- MCWaiters
  RingCap = 2
  Levels = {1, 3}
  WaitLevels = {1, 3}
  Limits = {1}
  Jobs = {1}
  NoJob = 0
  MaxRecords = 3
SPECIFICATION RingSpec
SYMMETRY WaiterSymmetry
INVARIANTS
  NoLostWakeup
  RecordsAreDelivered
