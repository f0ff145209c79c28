------------------------- MODULE NotificationBuffer -------------------------
(***************************************************************************)
(* The bounded ring of log records that job_wait drains (mcp_log.rs).      *)
(* push() appends under the ring's mutex and wakes one waiter after        *)
(* dropping it; wait_drain_with() loops drain / register / park until a    *)
(* record at the wake floor arrives or its deadline passes.  A record is a *)
(* push number (so that delivery can be counted), its level's rank and the *)
(* job its `job` field names.                                              *)
(***************************************************************************)
EXTENDS Naturals, Sequences, FiniteSets

CONSTANTS Waiters,      \* concurrent job_wait calls
          RingCap,      \* NotificationBuffer::new's cap
          Levels,       \* ranks the records have
          WaitLevels,   \* ranks of the `level` arguments job_wait is called with
          Limits,       \* `limit` arguments job_wait is called with
          Jobs,         \* values of a record's `job` field
          NoJob,        \* the record has no `job` field
          MaxRecords    \* bound: records pushed in one run

InfoFloor == 1
WakeFloor == 3

ASSUME RingAssumption == /\ RingCap \in Nat \ {0}
                         /\ Levels \subseteq 0..7 /\ WakeFloor \in Levels
                         /\ WaitLevels \subseteq 0..7
                         /\ Limits \subseteq Nat
                         /\ NoJob \notin Jobs
                         /\ MaxRecords \in Nat

VARIABLES ring,      \* the VecDeque, oldest first
          pushed,    \* records pushed so far
          owed,      \* push calls between their append and their notify_one
          permit,    \* tokio Notify: a stored permit
          queue,     \* tokio Notify: parked waiters, first to be notified first
          notified,  \* parked waiters handed a notification, not yet polled
          expired,   \* waiters whose deadline has passed
          call,      \* each waiter's place in wait_drain_with and its arguments
          delivered  \* history: records each waiter drained, in order

ringVars == <<ring, pushed>>
notifyVars == <<owed, permit, queue, notified>>
bufferVars == <<ringVars, notifyVars, expired, call, delivered>>

Records == [seq : Nat, level : Levels, job : Jobs \cup {NoJob}]

LesserOf(a, b) == IF a <= b THEN a ELSE b

\* VecDeque trimmed from the front to at most n records.
LastN(s, n) == SubSeq(s, (IF Len(s) > n THEN Len(s) - n ELSE 0) + 1, Len(s))

\* What an in-place scan keeps of s: the elements at these positions, in order.
Picked(s, at) ==
  LET picked[i \in 0..Len(s)] ==
        IF i = 0 THEN <<>>
        ELSE IF i \in at THEN Append(picked[i - 1], s[i]) ELSE picked[i - 1]
  IN picked[Len(s)]

AtOrAbove(floor, s) == Picked(s, {i \in 1..Len(s) : s[i].level >= floor})
Below(floor, s) == Picked(s, {i \in 1..Len(s) : s[i].level < floor})

Fresh == [pc |-> "idle", drain |-> 0, sample |-> 0, limit |-> 0,
          tail |-> <<>>, woke |-> FALSE]

Pcs == {"idle", "drain", "check", "parked", "returned"}

Waiting(w) == call[w].pc \in {"drain", "check", "parked"}
Elems(s) == {s[i] : i \in 1..Len(s)}

RingTypeOK ==
  /\ ring \in Seq(Records) /\ Len(ring) <= RingCap
  /\ pushed \in 0..MaxRecords
  /\ owed \in Nat
  /\ permit \in BOOLEAN
  /\ queue \in Seq(Waiters)
  /\ notified \in SUBSET Waiters
  /\ expired \in SUBSET Waiters
  /\ call \in [Waiters -> [pc : Pcs, drain : 0..7, sample : 0..7, limit : Nat,
                           tail : Seq(Records), woke : BOOLEAN]]
  /\ delivered \in [Waiters -> Seq(Records)]

RingInit ==
  /\ ring = <<>> /\ pushed = 0
  /\ owed = 0 /\ permit = FALSE /\ queue = <<>> /\ notified = {}
  /\ expired = {}
  /\ call = [w \in Waiters |-> Fresh]
  /\ delivered = [w \in Waiters |-> <<>>]
-----------------------------------------------------------------------------
(* Producers: any thread that logs under kaibo.                            *)

\* Mutant of Push: only the first record of an empty ring is signalled.
PushCoalesces(level, job) ==
  /\ pushed < MaxRecords
  /\ pushed' = pushed + 1
  /\ ring' = Append(ring, [seq |-> pushed + 1, level |-> level, job |-> job])
  /\ owed' = IF ring = <<>> THEN owed + 1 ELSE owed
  /\ UNCHANGED <<permit, queue, notified, expired, call, delivered>>

\* push, first half: append, dropping the oldest record of a full ring.
Push(level, job) ==
  LET record == [seq |-> pushed + 1, level |-> level, job |-> job]
      room == IF Len(ring) = RingCap THEN Tail(ring) ELSE ring
  IN /\ pushed < MaxRecords
     /\ pushed' = pushed + 1
     /\ ring' = Append(room, record)
     /\ owed' = owed + 1
     /\ UNCHANGED <<permit, queue, notified, expired, call, delivered>>

\* tokio's notify_one: the first parked waiter, or a stored permit.
WakeOne(parked, handed) ==
  IF parked = <<>>
  THEN permit' = TRUE /\ queue' = parked /\ notified' = handed
  ELSE /\ queue' = Tail(parked)
       /\ notified' = handed \cup {Head(parked)}
       /\ UNCHANGED permit

\* push, second half, outside the ring's mutex.
NotifyOne ==
  /\ owed > 0
  /\ owed' = owed - 1
  /\ WakeOne(queue, notified)
  /\ UNCHANGED <<ringVars, expired, call, delivered>>

\* Mutant of DiscardJobPings: the id is not compared.
DiscardAllPings(job) ==
  /\ ring' = Picked(ring, {i \in 1..Len(ring) : ring[i].job = NoJob})
  /\ UNCHANGED <<pushed, notifyVars, expired, call, delivered>>

\* job_get on a terminal job: drop whatever names it.
DiscardJobPings(job) ==
  /\ ring' = Picked(ring, {i \in 1..Len(ring) : ring[i].job # job})
  /\ UNCHANGED <<pushed, notifyVars, expired, call, delivered>>
-----------------------------------------------------------------------------
(* job_wait.                                                               *)

\* The floors: `level` sizes the sample but is capped at the wake floor; with
\* a progress token the drain goes down to Info to stream the narrative.
WaitStart(w, level, token, limit) ==
  LET sample == LesserOf(level, WakeFloor)
  IN /\ call[w].pc \in {"idle", "returned"}
     /\ call' = [call EXCEPT ![w] =
          [Fresh EXCEPT !.pc = "drain", !.sample = sample, !.limit = limit,
                        !.drain = IF token THEN LesserOf(InfoFloor, sample)
                                           ELSE sample]]
     /\ expired' = expired \ {w}
     /\ UNCHANGED <<ringVars, notifyVars, delivered>>

Expire(w) ==
  /\ Waiting(w)
  /\ w \notin expired
  /\ expired' = expired \cup {w}
  /\ UNCHANGED <<ringVars, notifyVars, call, delivered>>

\* Mutant of Absorb: narrative ends the wait.
AbsorbWakesOnAny(w, woken, other) ==
  LET drained == AtOrAbove(call[w].drain, ring)
      woke == AtOrAbove(InfoFloor, drained) # <<>>
  IN /\ ring' = Below(call[w].drain, ring)
     /\ delivered' = [delivered EXCEPT ![w] = @ \o drained]
     /\ call' = [call EXCEPT ![w].pc = IF woke THEN woken ELSE other,
                             ![w].woke = woke,
                             ![w].tail = LastN(@ \o drained, call[w].limit)]

\* drain(drain_floor, MAX), then absorb into the sliding tail.
Absorb(w, woken, other) ==
  LET c == call[w]
      drained == AtOrAbove(c.drain, ring)
      woke == \E r \in Elems(drained) : r.level >= WakeFloor
  IN /\ ring' = Below(c.drain, ring)
     /\ delivered' = [delivered EXCEPT ![w] = @ \o drained]
     /\ call' = [call EXCEPT ![w] =
          [c EXCEPT !.pc = IF woke THEN woken ELSE other,
                    !.woke = woke,
                    !.tail = LastN(@ \o AtOrAbove(c.sample, drained), c.limit)]]

Drain(w) ==
  /\ call[w].pc = "drain"
  /\ Absorb(w, "returned", "check")
  /\ UNCHANGED <<pushed, notifyVars, expired>>

\* Mutant of FinalDrain: past the deadline the loop goes on.
FinalDrainLoops(w) ==
  /\ call[w].pc = "check"
  /\ w \in expired
  /\ Absorb(w, "returned", "drain")
  /\ UNCHANGED <<pushed, notifyVars, expired>>

\* Past the deadline: one last drain, then return whatever it held.
FinalDrain(w) ==
  /\ call[w].pc = "check"
  /\ w \in expired
  /\ Absorb(w, "returned", "returned")
  /\ UNCHANGED <<pushed, notifyVars, expired>>

\* Mutant of Park: a stored permit is not looked for.
ParkBlind(w) ==
  /\ call[w].pc = "check"
  /\ w \notin expired
  /\ queue' = Append(queue, w)
  /\ call' = [call EXCEPT ![w].pc = "parked"]
  /\ UNCHANGED <<ringVars, owed, permit, notified, expired, delivered>>

\* The first poll of `notified`: take a stored permit or join the queue.
Park(w) ==
  /\ call[w].pc = "check"
  /\ w \notin expired
  /\ IF permit
     THEN /\ permit' = FALSE
          /\ call' = [call EXCEPT ![w].pc = "drain"]
          /\ UNCHANGED queue
     ELSE /\ queue' = Append(queue, w)
          /\ call' = [call EXCEPT ![w].pc = "parked"]
          /\ UNCHANGED permit
  /\ UNCHANGED <<ringVars, owed, notified, expired, delivered>>

\* select! takes the notification.
Wake(w) ==
  /\ call[w].pc = "parked"
  /\ w \in notified
  /\ notified' = notified \ {w}
  /\ call' = [call EXCEPT ![w].pc = "drain"]
  /\ UNCHANGED <<ringVars, owed, permit, queue, expired, delivered>>

\* select! takes the sleep: dropping `notified` leaves the queue, and passes an
\* unconsumed notification on to the next waiter.
SleepEnds(w) ==
  /\ call[w].pc = "parked"
  /\ w \in expired
  /\ call' = [call EXCEPT ![w].pc = "drain"]
  /\ IF w \in notified
     THEN WakeOne(queue, notified \ {w})
     ELSE /\ queue' = Picked(queue, {i \in 1..Len(queue) : queue[i] # w})
          /\ UNCHANGED <<permit, notified>>
  /\ UNCHANGED <<ringVars, owed, expired, delivered>>

WaiterStep(w) == Drain(w) \/ FinalDrain(w) \/ Park(w) \/ Wake(w) \/ SleepEnds(w)

RingNext ==
  \/ \E level \in Levels : Push(level, NoJob)
  \/ \E job \in Jobs : Push(WakeFloor, job)
  \/ NotifyOne
  \/ \E job \in Jobs : DiscardJobPings(job)
  \/ \E w \in Waiters :
       \/ \E level \in WaitLevels, token \in BOOLEAN, limit \in Limits :
            WaitStart(w, level, token, limit)
       \/ Expire(w)
       \/ WaiterStep(w)

RingSpec == RingInit /\ [][RingNext]_bufferVars
-----------------------------------------------------------------------------
(***************************************************************************)
(* Properties.                                                             *)
(***************************************************************************)

WakeLevel(s) == \E r \in Elems(s) : r.level >= WakeFloor

\* A waiter that will run drain() without anything else happening first.
AboutToDrain(w) ==
  \/ call[w].pc = "drain"
  \/ w \in notified
  \/ Waiting(w) /\ w \in expired

\* "A push that races a job_wait's registration isn't missed" (push): while a
\* wake-level record is buffered, no waiter sleeps unless the push still owes
\* its notify_one or some waiter is on its way to drain the ring.
NoLostWakeup ==
  (WakeLevel(ring) /\ \E w \in Waiters : call[w].pc = "parked")
    => \/ owed > 0
       \/ \E w \in Waiters : AboutToDrain(w)

\* Deliver-once, oldest first (drain): what each waiter took at one level comes
\* in push order across all its calls (a lower floor may fetch older narrative
\* later), and no record goes to two waiters or stays behind once taken.
DeliverOnceInOrder ==
  \A w \in Waiters :
    /\ \A i, k \in 1..Len(delivered[w]) :
         i < k /\ delivered[w][i].level = delivered[w][k].level
           => delivered[w][i].seq < delivered[w][k].seq
    /\ Elems(delivered[w]) \cap Elems(ring) = {}
    /\ \A v \in Waiters \ {w} : Elems(delivered[w]) \cap Elems(delivered[v]) = {}

ReturnedEarly(w) == call[w].pc = "returned" /\ w \notin expired

\* "Narrative alone never cuts it short" (job_wait): at the default sample, a
\* call that returns before its deadline hands back a wake-level record.
EarlyReturnShowsWhy ==
  \A w \in Waiters :
    ReturnedEarly(w) /\ call[w].sample = WakeFloor /\ call[w].limit > 0
      => WakeLevel(call[w].tail)

\* Together: what a wait hands back is what was pushed, once, in order, and tells why.
RecordsAreDelivered == RingTypeOK /\ DeliverOnceInOrder /\ EarlyReturnShowsWhy
=============================================================================
