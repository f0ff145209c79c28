----------------------------- MODULE AsyncJobs -----------------------------
(***************************************************************************)
(* The async-job tools of the server: the job registry and the             *)
(* notification ring together, as job_get, job_cancel, job_list and        *)
(* job_wait use them.  A finishing task pushes its completion ping into    *)
(* the ring after landing its outcome; job_get, having shown a finished    *)
(* job, drops that job's ping from the ring; job_wait drains the ring.     *)
(***************************************************************************)
EXTENDS Naturals, Sequences, FiniteSets

CONSTANTS Callers, Waiters, MaxJobs, Capacity, RingCap, WaitLevels, Limits, None,
          MaxNarrative  \* bound: narrative records pushed in one run

NoJob == 0

ASSUME AsyncJobsAssumption == /\ MaxJobs \in Nat \ {0} /\ Capacity \in Nat \ {0}
                              /\ None \notin Callers
                              /\ RingCap \in Nat \ {0} /\ WaitLevels \subseteq 0..7
                              /\ Limits \subseteq Nat /\ MaxNarrative \in Nat

VARIABLES nextId, cell, task, aborted, lru, storeLock, listing, handler, told, pings
VARIABLES ring, pushed, owed, permit, queue, notified, expired, call, delivered
VARIABLES collecting,  \* job_get between its snapshot and its discard, else NoJob
          collected,   \* history: finished jobs a job_get has replied about
          settled      \* history: those whose task was over by that reply

Store == INSTANCE JobStore

Ids == 1..MaxJobs
Levels == {1, 3}

Ring == INSTANCE NotificationBuffer WITH Jobs <- Ids, MaxRecords <- MaxNarrative + MaxJobs

storeVars == <<nextId, cell, task, aborted, lru, storeLock, listing, handler, told, pings>>
ringVars == <<ring, pushed, owed, permit, queue, notified, expired, call, delivered>>
getVars == <<collecting, collected, settled>>
vars == <<storeVars, ringVars, getVars>>

Init == /\ Store!Init
        /\ Ring!RingInit
        /\ collecting = [c \in Callers |-> NoJob]
        /\ collected = {}
        /\ settled = {}

\* A caller's handler is one call at a time: job_get's discard comes first.
Free(c) == collecting[c] = NoJob
-----------------------------------------------------------------------------
(* Steps of the registry alone.                                            *)

Submit(c) == /\ Free(c)
             /\ Store!SubmitSpawn(c) \/ Store!SubmitPut(c)
             /\ UNCHANGED <<ringVars, getVars>>

JobGetLookup(c, j) == /\ Free(c)
                      /\ Store!GetLookup(c, j)
                      /\ UNCHANGED <<ringVars, getVars>>

JobCancel(c) == /\ Free(c)
                /\ \/ \E j \in Ids : Store!CancelLookup(c, j)
                   \/ Store!CancelMark(c)
                /\ UNCHANGED <<ringVars, getVars>>

TaskRuns(j) == /\ \/ Store!FirstPoll(j) \/ Store!AbortTakes(j)
                  \/ Store!LandOutcome(j) \/ Store!FinishGuardDrop(j)
               /\ UNCHANGED <<ringVars, getVars>>

FutureEnds(j) == /\ \/ Store!FuturePanics(j)
                    \/ \E verdict \in {"returnedOk", "returnedErr"} :
                         Store!FutureReturns(j, verdict)
                 /\ UNCHANGED <<ringVars, getVars>>
-----------------------------------------------------------------------------
(* Steps that join the two.                                                *)

\* tracing::warn!(job = id): the bridge layer pushes the ping synchronously.
CompletionPing(j) == /\ Store!Signal(j)
                     /\ Ring!Push(Ring!WakeFloor, j)
                     /\ UNCHANGED getVars

\* A running consult logs its progress: narrative, or a milestone at Warn.
Narrate(j, level) == /\ task[j] = "working"
                     /\ pushed < MaxNarrative + Cardinality({k \in Ids : pings[k] > 0})
                     /\ Ring!Push(level, NoJob)
                     /\ UNCHANGED <<storeVars, getVars>>

\* job_get: the snapshot decides whether there is a ping to retire.
JobGetSnapshot(c) ==
  /\ Store!GetSnapshot(c)
  /\ collecting' = [collecting EXCEPT ![c] =
       IF cell[handler[c].job] \in Store!Landed THEN handler[c].job ELSE NoJob]
  /\ UNCHANGED <<ringVars, collected, settled>>

\* Mutant of JobGetDiscard: only a Done job retires its ping.
DiscardDoneOnly(c) ==
  /\ collecting[c] # NoJob
  /\ IF cell[collecting[c]] = "Done" THEN Ring!DiscardJobPings(collecting[c])
                                      ELSE UNCHANGED ringVars
  /\ collected' = collected \cup {collecting[c]}
  /\ settled' = settled \cup {j \in {collecting[c]} : task[j] = "ended"}
  /\ collecting' = [collecting EXCEPT ![c] = NoJob]
  /\ UNCHANGED storeVars

JobGetDiscard(c) ==
  /\ collecting[c] # NoJob
  /\ Ring!DiscardJobPings(collecting[c])
  /\ collected' = collected \cup {collecting[c]}
  /\ settled' = settled \cup {j \in {collecting[c]} : task[j] = "ended"}
  /\ collecting' = [collecting EXCEPT ![c] = NoJob]
  /\ UNCHANGED storeVars
-----------------------------------------------------------------------------
(* Steps of the ring alone: job_wait and the second half of a push.        *)

NotifyOne == Ring!NotifyOne /\ UNCHANGED <<storeVars, getVars>>

JobWaitStart(w) == /\ \E level \in WaitLevels, token \in BOOLEAN, limit \in Limits :
                        Ring!WaitStart(w, level, token, limit)
                   /\ UNCHANGED <<storeVars, getVars>>

Deadline(w) == Ring!Expire(w) /\ UNCHANGED <<storeVars, getVars>>

JobWaitStep(w) == Ring!WaiterStep(w) /\ UNCHANGED <<storeVars, getVars>>
-----------------------------------------------------------------------------
Next ==
  \/ \E c \in Callers :
       \/ Submit(c) \/ JobCancel(c) \/ JobGetSnapshot(c) \/ JobGetDiscard(c)
       \/ \E j \in Ids : JobGetLookup(c, j)
  \/ \E j \in Ids :
       \/ TaskRuns(j) \/ FutureEnds(j) \/ CompletionPing(j)
       \/ \E level \in Levels : Narrate(j, level)
  \/ NotifyOne
  \/ \E w \in Waiters : JobWaitStart(w) \/ Deadline(w) \/ JobWaitStep(w)

Spec == Init /\ [][Next]_vars

\* No deadline is obliged to pass and no future to return.
Fairness ==
  /\ WF_vars(NotifyOne)
  /\ \A w \in Waiters : WF_vars(JobWaitStep(w))
  /\ \A j \in Ids : WF_vars(TaskRuns(j)) /\ WF_vars(CompletionPing(j))
  /\ \A c \in Callers : WF_vars(JobGetDiscard(c))

FairSpec == Spec /\ Fairness
-----------------------------------------------------------------------------
(***************************************************************************)
(* Properties.                                                             *)
(***************************************************************************)

PingsInRing(j) == {r \in Ring!Elems(ring) : r.job = j}

\* job_wait never announces a job that job_get then shows still running or
\* canceled: a ping is buffered, or on its way to a caller, only for a job that
\* landed its own outcome (submit: state first, ping after; cancel: no ping).
PingsAreTrue ==
  \A j \in Ids :
    (PingsInRing(j) # {} \/ \E w \in Waiters : \E r \in Ring!Elems(delivered[w]) : r.job = j)
      => cell[j] \in {"Done", "Failed"}

\* "Collecting a terminal job retires its completion ping" (job_get), once the
\* task that emits it is over: no later job_wait can return on it.
SettledStaysQuiet == \A j \in settled : PingsInRing(j) = {}

\* The same with no such proviso, as job_get's comment has it.
CollectedStaysQuiet == \A j \in collected : PingsInRing(j) = {}

\* "An uncollected job's ping still wakes a later job_wait" (discard_job_pings):
\* a ping leaves the ring into a job_wait, by job_get of that very job, or
\* pushed out of a full ring, and in no other way.
PingLeavesForCause ==
  [][\A j \in Ids :
       PingsInRing(j) # {} /\ PingsInRing(j)' = {} =>
         \/ \E c \in Callers : collecting[c] = j /\ collecting'[c] = NoJob
         \/ \E w \in Waiters : \E r \in PingsInRing(j) : r \in Ring!Elems(delivered'[w])
         \/ pushed' > pushed /\ Len(ring) = RingCap /\ Head(ring).job = j]_vars

\* A job that lands its outcome while a job_wait is parked ends that wait, or
\* the one that took its ping, unless the job is collected first: the waiter
\* needs no deadline to learn of it.
LandingEndsAWait ==
  \A j \in Ids, w \in Waiters :
    (task[j] = "signalling" /\ call[w].pc = "parked")
      ~> \/ call[w].pc = "returned"
         \/ j \in collected
         \/ \E v \in Waiters \ {w} : PingsInRing(j) = {} /\ pings[j] > 0

\* "Never an indefinite hang" (wait_drain): once deadlines pass every job_wait
\* returns, whatever is pushed, collected or taken by another call meanwhile.
EveryWaitReturns ==
  (\A w \in Waiters : WF_vars(Deadline(w)))
    => \A w \in Waiters : Ring!Waiting(w) ~> (call[w].pc = "returned")

\* Together: a ping is only of a landed job, and none is left of one collected after its task ended.
PingsAreSound == PingsAreTrue /\ SettledStaysQuiet
=============================================================================
