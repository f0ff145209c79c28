------------------------------ MODULE JobStore ------------------------------
(***************************************************************************)
(* The in-memory registry behind consult_submit, deliberate and deferred   *)
(* generate (jobs.rs): an LRU of jobs under one mutex, a status cell per   *)
(* job under its own mutex, and one spawned task per job that runs on      *)
(* another worker thread.  An action is what happens between two lock      *)
(* operations or awaits, so tasks, handlers and eviction interleave.       *)
(***************************************************************************)
EXTENDS Naturals, Sequences, FiniteSets

CONSTANTS Callers,     \* concurrent MCP tool handlers
          MaxJobs,     \* bound: ids minted in one run
          Capacity,    \* JobStore::new's capacity
          None         \* the store mutex is free

ASSUME JobStoreAssumption == /\ MaxJobs \in Nat \ {0}
                             /\ Capacity \in Nat \ {0}
                             /\ None \notin Callers

VARIABLES nextId,      \* next_id: AtomicU64
          cell,        \* Arc<Mutex<JobState>>, "absent" before submit
          task,        \* where the spawned task is
          aborted,     \* tasks whose AbortHandle::abort was called
          lru,         \* LruCache keys, most recently used first
          storeLock,   \* holder of the store mutex when held across steps
          listing,     \* rows job_list has still to snapshot
          handler,     \* each caller's place in its handler
          told,        \* history: last state a caller was shown of each job
          pings        \* history: completion pings each job emitted

storeVars == <<nextId, lru, storeLock, listing>>
taskVars == <<cell, task, aborted, pings>>
vars == <<storeVars, taskVars, handler, told>>

Ids == 1..MaxJobs
Landed == {"Done", "Failed"}
Terminal == Landed \cup {"Canceled"}
CellStates == {"absent", "Running"} \cup Terminal
TaskStates == {"none", "spawned", "working", "returnedOk", "returnedErr",
               "signalling", "unwinding", "ended"}

InStore(j) == \E i \in 1..Len(lru) : lru[i] = j

\* LruCache::get moves the entry at position i to the front.
Promote(q, i) == <<q[i]>> \o SubSeq(q, 1, i - 1) \o SubSeq(q, i + 1, Len(q))

\* A handler between its lookup and its reply owns a clone of the Arc<Job>.
Holds(c, j) == handler[c].pc \in {"get", "cancel"} /\ handler[c].job = j
HeldByOther(c, j) == \E d \in Callers \ {c} : Holds(d, j)

Idle == [pc |-> "idle", job |-> 0]

TypeOK ==
  /\ nextId \in 1..(MaxJobs + 1)
  /\ cell \in [Ids -> CellStates]
  /\ task \in [Ids -> TaskStates]
  /\ aborted \in SUBSET Ids
  /\ lru \in Seq(Ids) /\ Len(lru) <= Capacity
  /\ storeLock \in Callers \cup {None}
  /\ listing \in Seq(Ids)
  /\ handler \in [Callers -> [pc : {"idle", "list"}, job : {0}]
                           \cup [pc : {"put", "get", "cancel"}, job : Ids]]
  /\ told \in [Ids -> CellStates \cup {"nothing"}]
  /\ pings \in [Ids -> Nat]

Init ==
  /\ nextId = 1
  /\ cell = [j \in Ids |-> "absent"]
  /\ task = [j \in Ids |-> "none"]
  /\ aborted = {}
  /\ lru = <<>>
  /\ storeLock = None
  /\ listing = <<>>
  /\ handler = [c \in Callers |-> Idle]
  /\ told = [j \in Ids |-> "nothing"]
  /\ pings = [j \in Ids |-> 0]
-----------------------------------------------------------------------------
(* submit: mint the id and spawn the task, and only then enter the map.    *)

SubmitSpawn(c) ==
  /\ handler[c] = Idle
  /\ nextId <= MaxJobs
  /\ nextId' = nextId + 1
  /\ cell' = [cell EXCEPT ![nextId] = "Running"]
  /\ task' = [task EXCEPT ![nextId] = "spawned"]
  /\ handler' = [handler EXCEPT ![c] = [pc |-> "put", job |-> nextId]]
  /\ UNCHANGED <<lru, storeLock, listing, aborted, pings, told>>

\* Mutant of SubmitPut: an evicted job has no Drop.
PutLeavesRunning(c) ==
  /\ handler[c].pc = "put"
  /\ storeLock = None
  /\ lru' = <<handler[c].job>> \o IF Len(lru) = Capacity THEN SubSeq(lru, 1, Capacity - 1) ELSE lru
  /\ handler' = [handler EXCEPT ![c] = Idle]
  /\ UNCHANGED <<nextId, storeLock, listing, cell, task, aborted, pings, told>>

\* Past capacity the least recently used entry leaves; Job::drop aborts its
\* task unless a handler still owns a clone of the Arc.
SubmitPut(c) ==
  /\ handler[c].pc = "put"
  /\ storeLock = None
  /\ LET full == Len(lru) = Capacity
         kept == IF full THEN SubSeq(lru, 1, Capacity - 1) ELSE lru
         evicted == {j \in Ids : full /\ j = lru[Capacity]}
     IN /\ lru' = <<handler[c].job>> \o kept
        /\ aborted' = aborted \cup {j \in evicted : ~HeldByOther(c, j)}
  /\ handler' = [handler EXCEPT ![c] = Idle]
  /\ UNCHANGED <<nextId, storeLock, listing, cell, task, pings, told>>
-----------------------------------------------------------------------------
(* The spawned task, with its FinishGuard.                                 *)

\* The first poll builds the guard; before it, an abort just drops the future.
FirstPoll(j) ==
  /\ task[j] = "spawned"
  /\ task' = [task EXCEPT ![j] = "working"]
  /\ UNCHANGED <<storeVars, cell, aborted, pings, handler, told>>

FutureReturns(j, verdict) ==
  /\ task[j] = "working"
  /\ task' = [task EXCEPT ![j] = verdict]
  /\ UNCHANGED <<storeVars, cell, aborted, pings, handler, told>>

FuturePanics(j) ==
  /\ task[j] = "working"
  /\ task' = [task EXCEPT ![j] = "unwinding"]
  /\ UNCHANGED <<storeVars, cell, aborted, pings, handler, told>>

\* The runtime drops an aborted future at an await point, never in the tail.
AbortTakes(j) ==
  /\ j \in aborted
  /\ task[j] \in {"spawned", "working"}
  /\ task' = [task EXCEPT ![j] = IF @ = "spawned" THEN "ended" ELSE "unwinding"]
  /\ UNCHANGED <<storeVars, cell, aborted, pings, handler, told>>

\* Mutants of LandOutcome: the answer lands over a cancel; a canceled job pings;
\* the task ends without its ping.
LandAnyway(j) ==
  /\ task[j] \in {"returnedOk", "returnedErr"}
  /\ cell' = [cell EXCEPT ![j] = "Done"]
  /\ task' = [task EXCEPT ![j] = "signalling"]
  /\ UNCHANGED <<storeVars, aborted, pings, handler, told>>

LandSilently(j) ==
  /\ task[j] \in {"returnedOk", "returnedErr"}
  /\ cell' = [cell EXCEPT ![j] = IF @ = "Running" THEN "Done" ELSE @]
  /\ task' = [task EXCEPT ![j] = "ended"]
  /\ UNCHANGED <<storeVars, aborted, pings, handler, told>>

\* The tail of the task: land the outcome iff the cell is still Running.
LandOutcome(j) ==
  /\ task[j] \in {"returnedOk", "returnedErr"}
  /\ \/ /\ cell[j] = "Running"
        /\ cell' = [cell EXCEPT ![j] = IF task[j] = "returnedOk" THEN "Done"
                                                                 ELSE "Failed"]
        /\ task' = [task EXCEPT ![j] = "signalling"]
     \/ /\ cell[j] # "Running"
        /\ task' = [task EXCEPT ![j] = "ended"]
        /\ UNCHANGED cell
  /\ UNCHANGED <<storeVars, aborted, pings, handler, told>>

\* The Warn-level completion ping, emitted after the cell's lock is dropped.
Signal(j) ==
  /\ task[j] = "signalling"
  /\ pings' = [pings EXCEPT ![j] = @ + 1]
  /\ task' = [task EXCEPT ![j] = "ended"]
  /\ UNCHANGED <<storeVars, cell, aborted, handler, told>>

\* Mutant of FinishGuardDrop: no guard, the future is just dropped.
DropUnguarded(j) ==
  /\ task[j] = "unwinding"
  /\ task' = [task EXCEPT ![j] = "ended"]
  /\ UNCHANGED <<storeVars, cell, aborted, pings, handler, told>>

\* FinishGuard::drop, still armed: fail a job that never resolved, no ping.
FinishGuardDrop(j) ==
  /\ task[j] = "unwinding"
  /\ cell' = [cell EXCEPT ![j] = IF @ = "Running" THEN "Failed" ELSE @]
  /\ task' = [task EXCEPT ![j] = "ended"]
  /\ UNCHANGED <<storeVars, aborted, pings, handler, told>>
-----------------------------------------------------------------------------
(* job_get and job_cancel: look up under the store lock, then touch the    *)
(* cell under its own lock.  An unknown id changes nothing.                *)

Lookup(c, j, pc) ==
  /\ handler[c] = Idle
  /\ storeLock = None
  /\ \E i \in 1..Len(lru) : lru[i] = j /\ lru' = Promote(lru, i)
  /\ handler' = [handler EXCEPT ![c] = [pc |-> pc, job |-> j]]
  /\ UNCHANGED <<nextId, storeLock, listing, taskVars, told>>

\* Mutant of Release: dropping any clone aborts.
ReleaseAborts(c) == {handler[c].job}

\* The handler drops its clone: the last one out of the store aborts the task.
Release(c) ==
  LET j == handler[c].job
  IN IF InStore(j) \/ HeldByOther(c, j) THEN {} ELSE {j}

GetLookup(c, j) == Lookup(c, j, "get")

GetSnapshot(c) ==
  /\ handler[c].pc = "get"
  /\ told' = [told EXCEPT ![handler[c].job] = cell[handler[c].job]]
  /\ aborted' = aborted \cup Release(c)
  /\ handler' = [handler EXCEPT ![c] = Idle]
  /\ UNCHANGED <<storeVars, cell, task, pings>>

CancelLookup(c, j) == Lookup(c, j, "cancel")

\* Abort and mark in one critical section of the cell; AlreadyFinished does
\* not say how the job ended, so it shows the caller no state.
CancelMark(c) ==
  LET j == handler[c].job
  IN /\ handler[c].pc = "cancel"
     /\ \/ /\ cell[j] = "Running"
           /\ cell' = [cell EXCEPT ![j] = "Canceled"]
           /\ told' = [told EXCEPT ![j] = "Canceled"]
           /\ aborted' = aborted \cup {j}
        \/ /\ cell[j] = "Canceled"
           /\ told' = [told EXCEPT ![j] = "Canceled"]
           /\ aborted' = aborted \cup Release(c)
           /\ UNCHANGED cell
        \/ /\ cell[j] \in Landed
           /\ aborted' = aborted \cup Release(c)
           /\ UNCHANGED <<cell, told>>
     /\ handler' = [handler EXCEPT ![c] = Idle]
     /\ UNCHANGED <<storeVars, task, pings>>
-----------------------------------------------------------------------------
(* job_list: every row is snapshotted under the one store lock, but each   *)
(* cell is read at its own instant.                                        *)

ListBegin(c) ==
  /\ handler[c] = Idle
  /\ storeLock = None
  /\ storeLock' = c
  /\ listing' = lru
  /\ handler' = [handler EXCEPT ![c] = [pc |-> "list", job |-> 0]]
  /\ UNCHANGED <<nextId, lru, taskVars, told>>

ListRow(c) ==
  /\ storeLock = c
  /\ listing # <<>>
  /\ told' = [told EXCEPT ![Head(listing)] = cell[Head(listing)]]
  /\ listing' = Tail(listing)
  /\ UNCHANGED <<nextId, lru, storeLock, taskVars, handler>>

ListEnd(c) ==
  /\ storeLock = c
  /\ listing = <<>>
  /\ storeLock' = None
  /\ handler' = [handler EXCEPT ![c] = Idle]
  /\ UNCHANGED <<nextId, lru, listing, taskVars, told>>
-----------------------------------------------------------------------------
HandlerStep(c) ==
  \/ SubmitPut(c) \/ GetSnapshot(c) \/ CancelMark(c)
  \/ ListRow(c) \/ ListEnd(c)

\* What the runtime does with a task on its own, once its future is over.
TaskStep(j) ==
  \/ FirstPoll(j) \/ AbortTakes(j) \/ LandOutcome(j)
  \/ Signal(j) \/ FinishGuardDrop(j)

Next ==
  \/ \E c \in Callers : SubmitSpawn(c) \/ ListBegin(c) \/ HandlerStep(c)
  \/ \E c \in Callers, j \in Ids : GetLookup(c, j) \/ CancelLookup(c, j)
  \/ \E j \in Ids :
       \/ TaskStep(j)
       \/ FuturePanics(j)
       \/ \E verdict \in {"returnedOk", "returnedErr"} : FutureReturns(j, verdict)

Spec == Init /\ [][Next]_vars

\* The runtime polls what is ready and a handler past its lookup runs to its
\* reply.  Nothing makes the future itself return.
Fairness == /\ \A j \in Ids : WF_vars(TaskStep(j))
            /\ \A c \in Callers : WF_vars(HandlerStep(c))

FairSpec == Spec /\ Fairness
-----------------------------------------------------------------------------
(***************************************************************************)
(* Properties.                                                             *)
(***************************************************************************)

\* A job some caller can still reach through the store, or is about to.
Reachable(j) == \/ InStore(j)
                \/ \E c \in Callers : \/ Holds(c, j)
                                      \/ handler[c].pc = "put" /\ handler[c].job = j

\* The whole registry is a set of jobs that resolve once: a late answer never
\* replaces a cancel nor a cancel an answer, a report is never older than the
\* call that made it, and no canceled job pings (jobs.rs, submit and cancel).
Lifecycle == INSTANCE JobLifecycle WITH state <- cell
LifecycleSpec == Lifecycle!Spec

\* A job that a caller can still find Running is never aborted: only job_cancel,
\* which marks the cell in the same critical section, or the last reference
\* going away (Job::drop) may stop its task.
AbortIsDeserved ==
  \A j \in aborted : cell[j] = "Running" => ~Reachable(j)

\* "job_get" never says "still running" of a task that is gone: whether it
\* returned, panicked or was aborted, a reachable job's cell is terminal by
\* then (FinishGuard, and an abort before the first poll, which has no guard).
NoEternalRunning ==
  \A j \in Ids : task[j] = "ended" /\ Reachable(j) => cell[j] \in Terminal

\* "A finished/failed job is exactly what a job_wait drains" (submit): a job
\* that is Done when its task is over emitted its ping, once, also when it was
\* evicted or aborted while it landed.
DoneIsPinged ==
  \A j \in Ids : task[j] = "ended" /\ cell[j] = "Done" => pings[j] = 1

\* Canceled and evicted work stops: no consult runs on against a cell that no
\* job_get will ever show (job_cancel, Job::drop).
AbandonedWorkStops ==
  \A j \in Ids :
    (task[j] # "none" /\ (cell[j] = "Canceled" \/ ~Reachable(j)))
      ~> (task[j] = "ended")
-----------------------------------------------------------------------------
(***************************************************************************)
(* The inductive invariant behind the safety properties.                   *)
(***************************************************************************)

\* Ids are minted in order; nothing is known of an id not yet minted.
MintedInv ==
  \A j \in Ids : IF j < nextId THEN cell[j] # "absent" /\ task[j] # "none"
                  ELSE cell[j] = "absent" /\ task[j] = "none" /\ j \notin aborted

\* The map has one entry per id, and holds minted ids only.
StoreInv ==
  /\ \A i \in 1..Len(lru) : lru[i] < nextId
  /\ \A i, k \in 1..Len(lru) : lru[i] = lru[k] => i = k
  /\ \A i \in 1..Len(listing) : listing[i] < nextId

\* A submit between spawn and put is the only one to know its id.
HandlerInv ==
  \A c \in Callers :
    /\ handler[c].pc \in {"put", "get", "cancel"} =>
         handler[c].job < nextId
    /\ handler[c].pc = "put" =>
         /\ ~InStore(handler[c].job)
         /\ \A d \in Callers \ {c} : handler[d].job # handler[c].job

\* What the place of a task says about its cell and its ping.
TaskInv ==
  \A j \in Ids :
    /\ task[j] # "ended" => pings[j] = 0
    /\ task[j] = "signalling" => cell[j] \in Landed
    /\ pings[j] # 0 => pings[j] = 1 /\ cell[j] \in Landed
    /\ task[j] = "ended" /\ cell[j] = "Running" => j \in aborted

\* What makes DoneIsPinged inductive: before a task lands or fails its job the
\* cell says Running or Canceled, so no outcome is there without its task.
LandingInv ==
  /\ \A j \in Ids :
       task[j] \in {"spawned", "working", "returnedOk", "returnedErr", "unwinding"}
         => cell[j] \in {"Running", "Canceled"}
  /\ DoneIsPinged

IInv == /\ TypeOK
        /\ MintedInv
        /\ StoreInv
        /\ HandlerInv
        /\ TaskInv
        /\ AbortIsDeserved
=============================================================================
