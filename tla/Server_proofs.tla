---------------------------- MODULE Server_proofs ----------------------------
(***************************************************************************)
(* Proofs about the server (server/mod.rs).  Of its async-job tools          *)
(* (AsyncJobs): put together, the registry still does what JobStore does and *)
(* the mailbox what NotificationBuffer does, so what is proved of each holds *)
(* of both; and a completion ping tells the truth about its job, stays gone  *)
(* once collected, and is never lost.  Of it and the command line            *)
(* (FrontDoors), for every verb and whatever is wrong with a request: both   *)
(* doors answer the same, and what is refused has cost nothing.              *)
(***************************************************************************)
EXTENDS AsyncJobs, FrontDoors, SequenceTheorems, TLAPS

-----------------------------------------------------------------------------
(* The async-job tools. *)

\* The proofs about the two components, at the instances AsyncJobs makes of them.
RP == INSTANCE NotificationBuffer_proofs WITH Jobs <- Ids, MaxRecords <- MaxNarrative + MaxJobs
SP == INSTANCE JobStore_proofs

\* The ring's constants, as job_wait and the bridge layer set them, are what
\* NotificationBuffer assumes of its own.
LEMMA RingAssumed ==
  /\ RingCap \in Nat \ {0} /\ Levels \subseteq 0..7 /\ Ring!WakeFloor \in Levels
  /\ WaitLevels \subseteq 0..7 /\ Limits \subseteq Nat /\ NoJob \notin Ids
  /\ MaxNarrative + MaxJobs \in Nat
BY AsyncJobsAssumption DEF Levels, Ring!WakeFloor, NoJob, Ids

\* What NotificationBuffer_proofs says of an in-place scan, for the ring of this module.
LEMMA RingPicks ==
  ASSUME NEW S, NEW s \in Seq(S), NEW at \in SUBSET (1..Len(s))
  PROVE  Ring!Picked(s, at) \in Seq(S) /\ Ring!Elems(Ring!Picked(s, at)) = {s[i] : i \in at}
<1>1. RP!Picked(s, at) \in Seq(S) /\ RP!Elems(RP!Picked(s, at)) = RP!Members(s, at)
  BY RP!PickedIsSubsequence, RingAssumed DEF RP!WakeFloor, Ring!WakeFloor
<1>2. RP!Picked(s, at) = Ring!Picked(s, at)
  BY DEF RP!Picked, Ring!Picked
<1>3. RP!Elems(Ring!Picked(s, at)) = Ring!Elems(Ring!Picked(s, at))
  BY DEF RP!Elems, Ring!Elems
<1>4. RP!Members(s, at) = {s[i] : i \in at}
  BY DEF RP!Members
<1>5. QED
  BY <1>1, <1>2, <1>3, <1>4, Zenon

\* Init of the composition is the registry's.
LEMMA StoreInit == Init => Store!Init
BY DEF Init

\* Each step of the composition is a step of the registry or leaves it alone.
LEMMA StoreStep == [Next]_vars => [Store!Next]_Store!vars
<1> SUFFICES ASSUME [Next]_vars PROVE Store!Next \/ UNCHANGED Store!vars
  OBVIOUS
<1>1. CASE UNCHANGED storeVars
  BY <1>1 DEF storeVars, Store!vars, Store!storeVars, Store!taskVars
<1>2. ASSUME NEW c \in Callers, Submit(c) PROVE Store!Next
  BY <1>2 DEF Submit, Store!Next, Store!HandlerStep
<1>3. ASSUME NEW c \in Callers, JobCancel(c) PROVE Store!Next
  BY <1>3 DEF JobCancel, Store!Next, Store!HandlerStep, Ids, Store!Ids
<1>4. ASSUME NEW c \in Callers, JobGetSnapshot(c) PROVE Store!Next
  BY <1>4 DEF JobGetSnapshot, Store!Next, Store!HandlerStep
<1>5. ASSUME NEW c \in Callers, NEW j \in Ids, JobGetLookup(c, j) PROVE Store!Next
  BY <1>5 DEF JobGetLookup, Store!Next, Ids, Store!Ids
<1>6. ASSUME NEW j \in Ids, TaskRuns(j) PROVE Store!Next
  BY <1>6 DEF TaskRuns, Store!Next, Store!TaskStep, Ids, Store!Ids
<1>7. ASSUME NEW j \in Ids, FutureEnds(j) PROVE Store!Next
  BY <1>7 DEF FutureEnds, Store!Next, Ids, Store!Ids
<1>8. ASSUME NEW j \in Ids, CompletionPing(j) PROVE Store!Next
  BY <1>8 DEF CompletionPing, Store!Next, Store!TaskStep, Ids, Store!Ids
<1>9. CASE UNCHANGED vars
  BY <1>1, <1>9 DEF vars
<1>10. ASSUME NEW c \in Callers, JobGetDiscard(c) PROVE UNCHANGED storeVars
  BY <1>10 DEF JobGetDiscard
<1>11. ASSUME NEW j \in Ids, NEW level \in Levels, Narrate(j, level) PROVE UNCHANGED storeVars
  BY <1>11 DEF Narrate
<1>12. ASSUME NotifyOne \/ \E w \in Waiters : JobWaitStart(w) \/ Deadline(w) \/ JobWaitStep(w)
       PROVE  UNCHANGED storeVars
  BY <1>12 DEF NotifyOne, JobWaitStart, Deadline, JobWaitStep
<1>13. QED
  BY <1>1, <1>2, <1>3, <1>4, <1>5, <1>6, <1>7, <1>8, <1>9, <1>10, <1>11, <1>12 DEF Next

\* Whatever job_get's discard, the pings and job_wait do around it, the registry behaves
\* as JobStore says: every theorem about JobStore holds of the server's.
THEOREM RegistryIsTheStore == Spec => Store!Spec
BY StoreInit, StoreStep, PTL DEF Spec, Store!Spec

\* JobStore's inductive invariant, carried over.
LEMMA StoreKeeps == Spec => []Store!IInv
<1>1. SP!Spec => []SP!IInv
  BY SP!Invariance, AsyncJobsAssumption
<1>2. SP!IInv => Store!IInv
  BY DEF SP!IInv, Store!IInv, SP!TypeOK, Store!TypeOK, SP!MintedInv, Store!MintedInv,
         SP!StoreInv, Store!StoreInv, SP!HandlerInv, Store!HandlerInv, SP!TaskInv,
         Store!TaskInv, SP!AbortIsDeserved, Store!AbortIsDeserved, SP!Ids, Store!Ids,
         SP!CellStates, Store!CellStates, SP!Terminal, Store!Terminal, SP!Landed,
         Store!Landed, SP!TaskStates, Store!TaskStates, SP!InStore, Store!InStore,
         SP!Reachable, Store!Reachable, SP!Holds, Store!Holds
<1>3. Store!Init => SP!Init
  BY DEF SP!Init, Store!Init, SP!Ids, Store!Ids, SP!Idle, Store!Idle
<1>4. [Store!Next]_Store!vars => [SP!Next]_SP!vars
  BY DEF SP!Next, Store!Next, SP!vars, Store!vars, SP!storeVars, Store!storeVars, SP!taskVars,
         Store!taskVars,
         SP!SubmitSpawn, Store!SubmitSpawn, SP!ListBegin, Store!ListBegin,
         SP!HandlerStep, Store!HandlerStep, SP!SubmitPut, Store!SubmitPut,
         SP!GetSnapshot, Store!GetSnapshot, SP!CancelMark, Store!CancelMark,
         SP!ListRow, Store!ListRow, SP!ListEnd, Store!ListEnd, SP!Lookup,
         Store!Lookup, SP!GetLookup, Store!GetLookup, SP!CancelLookup,
         Store!CancelLookup, SP!TaskStep, Store!TaskStep, SP!FirstPoll,
         Store!FirstPoll, SP!AbortTakes, Store!AbortTakes, SP!LandOutcome,
         Store!LandOutcome, SP!Signal, Store!Signal, SP!FinishGuardDrop,
         Store!FinishGuardDrop, SP!FuturePanics, Store!FuturePanics,
         SP!FutureReturns, Store!FutureReturns, SP!Ids, Store!Ids, SP!Idle,
         Store!Idle, SP!Promote, Store!Promote, SP!Holds, Store!Holds,
         SP!HeldByOther, Store!HeldByOther, SP!InStore, Store!InStore, SP!Release,
         Store!Release, SP!Landed, Store!Landed
<1>5. QED
  BY <1>1, <1>2, <1>3, <1>4, RegistryIsTheStore, PTL DEF SP!Spec, Store!Spec

-----------------------------------------------------------------------------
(* The mailbox is the ring. *)

\* What a job_get has to retire is a job.
CollectTyped == collecting \in [Callers -> Ids \cup {NoJob}]

\* No job_get has a job to retire at first.
LEMMA CollectInit == Init => CollectTyped
BY DEF Init, CollectTyped

\* job_get carries a minted id from its snapshot to its discard.
LEMMA CollectStep == CollectTyped /\ Store!IInv /\ [Next]_vars => CollectTyped'
<1> SUFFICES ASSUME CollectTyped, Store!IInv, [Next]_vars PROVE CollectTyped'
  OBVIOUS
<1>1. ASSUME NEW c \in Callers, JobGetSnapshot(c) PROVE CollectTyped'
  <2>1. handler[c].pc = "get"
    BY <1>1 DEF JobGetSnapshot, Store!GetSnapshot
  <2>2. Store!TypeOK
    BY DEF Store!IInv
  <2>3. handler[c] \in [pc : {"idle", "list"}, job : {0}]
                      \cup [pc : {"put", "get", "cancel"}, job : Ids]
    BY <2>2 DEF Store!TypeOK, Store!Ids, Ids
  <2>4. handler[c].job \in Ids
    BY <2>1, <2>3
  <2>5. QED
    BY <1>1, <2>4 DEF JobGetSnapshot, CollectTyped
<1>2. ASSUME NEW c \in Callers, JobGetDiscard(c) PROVE CollectTyped'
  BY <1>2 DEF JobGetDiscard, CollectTyped
<1>3. CASE UNCHANGED collecting
  BY <1>3 DEF CollectTyped
<1>4. ASSUME NEW c \in Callers,
             Submit(c) \/ JobCancel(c) \/ \E j \in Ids : JobGetLookup(c, j)
      PROVE  UNCHANGED collecting
  BY <1>4 DEF Submit, JobCancel, JobGetLookup, getVars
<1>5. ASSUME NEW j \in Ids,
             \/ TaskRuns(j) \/ FutureEnds(j) \/ CompletionPing(j)
             \/ \E level \in Levels : Narrate(j, level)
      PROVE  UNCHANGED collecting
  BY <1>5 DEF TaskRuns, FutureEnds, CompletionPing, Narrate, getVars
<1>6. ASSUME NotifyOne \/ \E w \in Waiters : JobWaitStart(w) \/ Deadline(w) \/ JobWaitStep(w)
      PROVE  UNCHANGED collecting
  BY <1>6 DEF NotifyOne, JobWaitStart, Deadline, JobWaitStep, getVars
<1>7. CASE UNCHANGED vars
  BY <1>3, <1>7 DEF vars, getVars
<1>8. QED
  BY <1>1, <1>2, <1>3, <1>4, <1>5, <1>6, <1>7 DEF Next

\* The same, in every reachable state.
LEMMA CollectAlways == Spec => []CollectTyped
BY CollectInit, CollectStep, StoreKeeps, PTL DEF Spec

\* Init of the composition is the ring's.
LEMMA RingInit == Init => Ring!RingInit
BY DEF Init

\* Each step of the composition is a step of the ring or leaves it alone.
LEMMA RingStep == CollectTyped /\ [Next]_vars => [Ring!RingNext]_Ring!bufferVars
<1> SUFFICES ASSUME CollectTyped, [Next]_vars PROVE Ring!RingNext \/ UNCHANGED Ring!bufferVars
  OBVIOUS
<1>1. CASE UNCHANGED ringVars
  BY <1>1 DEF ringVars, Ring!bufferVars, Ring!ringVars, Ring!notifyVars
<1>2. ASSUME NEW j \in Ids, CompletionPing(j) PROVE Ring!RingNext
  BY <1>2 DEF CompletionPing, Ring!RingNext
<1>3. ASSUME NEW j \in Ids, NEW level \in Levels, Narrate(j, level) PROVE Ring!RingNext
  BY <1>3 DEF Narrate, Ring!RingNext
<1>4. ASSUME NEW c \in Callers, JobGetDiscard(c) PROVE Ring!RingNext
  BY <1>4 DEF JobGetDiscard, CollectTyped, Ring!RingNext
<1>5. CASE NotifyOne
  BY <1>5 DEF NotifyOne, Ring!RingNext
<1>6. ASSUME NEW w \in Waiters, JobWaitStart(w) \/ Deadline(w) \/ JobWaitStep(w)
      PROVE  Ring!RingNext
  BY <1>6 DEF JobWaitStart, Deadline, JobWaitStep, Ring!RingNext
<1>7. ASSUME NEW c \in Callers,
             Submit(c) \/ JobCancel(c) \/ JobGetSnapshot(c) \/ \E j \in Ids : JobGetLookup(c, j)
      PROVE  UNCHANGED ringVars
  BY <1>7 DEF Submit, JobCancel, JobGetSnapshot, JobGetLookup, ringVars
<1>8. ASSUME NEW j \in Ids, TaskRuns(j) \/ FutureEnds(j) PROVE UNCHANGED ringVars
  BY <1>8 DEF TaskRuns, FutureEnds
<1>9. CASE UNCHANGED vars
  BY <1>1, <1>9 DEF vars
<1>10. QED
  BY <1>1, <1>2, <1>3, <1>4, <1>5, <1>6, <1>7, <1>8, <1>9 DEF Next

\* Whatever the registry does around it, the mailbox behaves as NotificationBuffer says:
\* no wakeup is lost there, and every record reaches one job_wait.
THEOREM MailboxIsTheRing == Spec => Ring!RingSpec
BY RingInit, RingStep, CollectAlways, PTL DEF Spec, Ring!RingSpec

\* The ring's types and NoLostWakeup, carried over.
LEMMA RingKeeps == Spec => [](Ring!RingTypeOK /\ Ring!NoLostWakeup)
<1>1. RP!RingSpec => [](RP!RecordsAreDelivered /\ RP!NoLostWakeup)
  <2>1. RP!RingSpec => []RP!RecordsAreDelivered
    BY RP!RecordsReachOneWait, RingAssumed DEF RP!WakeFloor, Ring!WakeFloor
  <2>2. RP!RingSpec => []RP!NoLostWakeup
    BY RP!NoWakeupIsLost, RingAssumed DEF RP!WakeFloor, Ring!WakeFloor
  <2>3. QED
    BY <2>1, <2>2, PTL
<1>2. RP!RecordsAreDelivered => Ring!RingTypeOK
  BY DEF RP!RecordsAreDelivered, RP!RingTypeOK, Ring!RingTypeOK, RP!Records, Ring!Records,
         RP!Pcs, Ring!Pcs
<1>3. RP!NoLostWakeup => Ring!NoLostWakeup
  BY DEF RP!NoLostWakeup, Ring!NoLostWakeup, RP!WakeLevel, Ring!WakeLevel, RP!AboutToDrain,
         Ring!AboutToDrain, RP!Waiting, Ring!Waiting, RP!Elems, Ring!Elems, RP!WakeFloor,
         Ring!WakeFloor
<1>4. Ring!RingInit => RP!RingInit
  BY DEF RP!RingInit, Ring!RingInit, RP!Fresh, Ring!Fresh
<1>5. [Ring!RingNext]_Ring!bufferVars => [RP!RingNext]_RP!bufferVars
  BY DEF RP!RingNext, Ring!RingNext, RP!bufferVars, Ring!bufferVars, RP!ringVars,
         Ring!ringVars, RP!notifyVars, Ring!notifyVars, RP!Push, Ring!Push,
         RP!NotifyOne, Ring!NotifyOne, RP!WakeOne, Ring!WakeOne, RP!DiscardJobPings,
         Ring!DiscardJobPings, RP!WaitStart, Ring!WaitStart, RP!Expire, Ring!Expire,
         RP!WaiterStep, Ring!WaiterStep, RP!Drain, Ring!Drain, RP!FinalDrain,
         Ring!FinalDrain, RP!Absorb, Ring!Absorb, RP!Park, Ring!Park, RP!Wake,
         Ring!Wake, RP!SleepEnds, Ring!SleepEnds, RP!Waiting, Ring!Waiting, RP!Fresh,
         Ring!Fresh, RP!LesserOf, Ring!LesserOf, RP!LastN, Ring!LastN, RP!Picked,
         Ring!Picked, RP!AtOrAbove, Ring!AtOrAbove, RP!Below, Ring!Below, RP!Elems,
         Ring!Elems, RP!WakeFloor, Ring!WakeFloor, RP!InfoFloor, Ring!InfoFloor
<1>6. QED
  BY <1>1, <1>2, <1>3, <1>4, <1>5, MailboxIsTheRing, PTL DEF RP!RingSpec, Ring!RingSpec

-----------------------------------------------------------------------------
(* What is buffered and delivered. *)

\* A settled job's task is over and its ping gone.
SettledHolds == \A j \in settled : j \in Ids /\ task[j] = "ended" /\ PingsInRing(j) = {}
PingedOf(j) ==
  PingsInRing(j) # {} \/ \E w \in Waiters : \E r \in Ring!Elems(delivered[w]) : r.job = j
PingsInv == SettledHolds /\ PingsAreTrue

\* What an append puts into a sequence and a pop from the front takes out.
LEMMA AppendAdds ==
  ASSUME NEW S, NEW s \in Seq(S), NEW r \in S
  PROVE  /\ Ring!Elems(Append(s, r)) = Ring!Elems(s) \cup {r}
         /\ s # <<>> => Tail(s) \in Seq(S) /\ Ring!Elems(Tail(s)) \subseteq Ring!Elems(s)
<1>1. Ring!Elems(Append(s, r)) = Ring!Elems(s) \cup {r}
  BY DEF Ring!Elems
<1>2. ASSUME s # <<>> PROVE Tail(s) \in Seq(S) /\ Ring!Elems(Tail(s)) \subseteq Ring!Elems(s)
  BY <1>2 DEF Ring!Elems
<1>3. QED
  BY <1>1, <1>2

\* A concatenation holds what its two halves hold.
LEMMA ConcatAdds ==
  ASSUME NEW S, NEW s \in Seq(S), NEW t \in Seq(S)
  PROVE  Ring!Elems(s \o t) = Ring!Elems(s) \cup Ring!Elems(t)
<1>1. RP!Elems(s \o t) = RP!Elems(s) \cup RP!Elems(t)
  BY RP!ConcatIs, RingAssumed DEF RP!WakeFloor, Ring!WakeFloor
<1>2. QED
  BY <1>1, Zenon DEF RP!Elems, Ring!Elems

\* push adds one record, of the job it is given, and delivers none.
LEMMA PushAddsOne ==
  ASSUME Ring!RingTypeOK, NEW level \in Levels, NEW job \in Ids \cup {NoJob},
         Ring!Push(level, job)
  PROVE  /\ \A r \in Ring!Elems(ring') : r \in Ring!Elems(ring) \/ r.job = job
         /\ delivered' = delivered
<1> DEFINE record == [seq |-> pushed + 1, level |-> level, job |-> job]
           room == IF Len(ring) = RingCap THEN Tail(ring) ELSE ring
<1>1. ring \in Seq(Ring!Records) /\ pushed \in Nat /\ Len(ring) \in Nat /\ RingCap \in Nat \ {0}
  BY RingAssumed DEF Ring!RingTypeOK
<1>2. record \in Ring!Records /\ record.job = job
  BY <1>1 DEF Ring!Records
<1>3. ring' = Append(room, record) /\ delivered' = delivered
  BY DEF Ring!Push
<1> HIDE DEF record
<1>4. room \in Seq(Ring!Records) /\ Ring!Elems(room) \subseteq Ring!Elems(ring)
  <2>1. CASE Len(ring) = RingCap
    <3>1. ring # <<>>
      BY <1>1, <2>1
    <3>2. QED
      BY <1>1, <1>2, <2>1, <3>1, AppendAdds
  <2>2. CASE Len(ring) # RingCap
    BY <1>1, <2>2
  <2>3. QED
    BY <2>1, <2>2
<1> HIDE DEF room
<1>5. Ring!Elems(ring') = Ring!Elems(room) \cup {record}
  BY <1>2, <1>3, <1>4, AppendAdds
<1>6. QED
  BY <1>2, <1>3, <1>4, <1>5

\* discard_job_pings leaves no record of the job.
LEMMA DiscardTakes ==
  ASSUME Ring!RingTypeOK, NEW job \in Ids, Ring!DiscardJobPings(job)
  PROVE  /\ \A r \in Ring!Elems(ring') : r \in Ring!Elems(ring) /\ r.job # job
         /\ delivered' = delivered
<1> DEFINE at == {i \in 1..Len(ring) : ring[i].job # job}
<1>1. ring' = Ring!Picked(ring, at) /\ delivered' = delivered
  BY DEF Ring!DiscardJobPings
<1>2. ring \in Seq(Ring!Records) /\ at \in SUBSET (1..Len(ring))
  BY DEF Ring!RingTypeOK
<1> HIDE DEF at
<1>3. Ring!Elems(ring') = {ring[i] : i \in at}
  BY <1>1, <1>2, RingPicks
<1>4. QED
  BY <1>1, <1>3 DEF at, Ring!Elems

\* A drain only moves records from the ring to the waiter.
LEMMA AbsorbMoves ==
  ASSUME Ring!RingTypeOK, NEW w \in Waiters, NEW woken, NEW other, Ring!Absorb(w, woken, other)
  PROVE  /\ \A r \in Ring!Elems(ring') : r \in Ring!Elems(ring)
         /\ \A v \in Waiters : \A r \in Ring!Elems(delivered'[v]) :
              r \in Ring!Elems(delivered[v]) \/ r \in Ring!Elems(ring)
<1> DEFINE floor == call[w].drain
           up == {i \in 1..Len(ring) : ring[i].level >= floor}
           down == {i \in 1..Len(ring) : ring[i].level < floor}
           drained == Ring!Picked(ring, up)
<1>1. /\ ring' = Ring!Picked(ring, down)
      /\ delivered' = [delivered EXCEPT ![w] = delivered[w] \o drained]
  BY DEF Ring!Absorb, Ring!AtOrAbove, Ring!Below
<1>2. /\ ring \in Seq(Ring!Records) /\ up \in SUBSET (1..Len(ring))
      /\ down \in SUBSET (1..Len(ring)) /\ delivered \in [Waiters -> Seq(Ring!Records)]
  BY DEF Ring!RingTypeOK
<1>3. /\ {ring[i] : i \in up} \subseteq Ring!Elems(ring)
      /\ {ring[i] : i \in down} \subseteq Ring!Elems(ring)
  BY DEF Ring!Elems
<1> HIDE DEF up, down
<1>4. Ring!Elems(ring') \subseteq Ring!Elems(ring)
  BY <1>1, <1>2, <1>3, RingPicks
<1>5. drained \in Seq(Ring!Records) /\ Ring!Elems(drained) \subseteq Ring!Elems(ring)
  BY <1>2, <1>3, RingPicks
<1> HIDE DEF drained
<1>6. Ring!Elems(delivered[w] \o drained) = Ring!Elems(delivered[w]) \cup Ring!Elems(drained)
  BY <1>2, <1>5, ConcatAdds
<1>7. \A v \in Waiters : delivered'[v] = IF v = w THEN delivered[w] \o drained ELSE delivered[v]
  BY <1>1, <1>2
<1>8. QED
  BY <1>4, <1>5, <1>6, <1>7

-----------------------------------------------------------------------------
(* No step but its own brings a job's ping. *)

\* What a step may do to the pings, wherever they are: none appears but j's own.
NoneAppears(j) ==
  /\ \A r \in Ring!Elems(ring') : r.job = j => r \in Ring!Elems(ring)
  /\ \A w \in Waiters : \A r \in Ring!Elems(delivered'[w]) : r.job = j =>
       r \in Ring!Elems(ring) \/ \E v \in Waiters : r \in Ring!Elems(delivered[v])

\* A step that leaves the ring alone brings no ping.
LEMMA RingStays ==
  ASSUME UNCHANGED ringVars
  PROVE  \A j \in Ids : NoneAppears(j)
BY DEF ringVars, NoneAppears

\* job_wait's steps and notify_one bring no ping.
LEMMA RingMoves ==
  ASSUME Ring!RingTypeOK,
         Ring!NotifyOne \/ \E w \in Waiters : \/ Ring!Expire(w) \/ Ring!WaiterStep(w)
            \/ \E level \in WaitLevels, token \in BOOLEAN, limit \in Limits :
                 Ring!WaitStart(w, level, token, limit)
  PROVE  \A j \in Ids : NoneAppears(j)
<1>1. ASSUME NEW w \in Waiters, Ring!Drain(w) \/ Ring!FinalDrain(w)
      PROVE  \A j \in Ids : NoneAppears(j)
  <2>1. PICK other : Ring!Absorb(w, "returned", other)
    BY <1>1 DEF Ring!Drain, Ring!FinalDrain
  <2>2. QED
    BY <2>1, AbsorbMoves DEF NoneAppears
<1>2. ASSUME ring' = ring, delivered' = delivered PROVE \A j \in Ids : NoneAppears(j)
  BY <1>2 DEF NoneAppears
<1>3. CASE Ring!NotifyOne
  BY <1>2, <1>3 DEF Ring!NotifyOne, Ring!ringVars
<1>4. ASSUME NEW w \in Waiters, Ring!Expire(w) PROVE ring' = ring /\ delivered' = delivered
  BY <1>4 DEF Ring!Expire, Ring!ringVars
<1>5. ASSUME NEW w \in Waiters, NEW level, NEW token, NEW limit,
             Ring!WaitStart(w, level, token, limit)
      PROVE  ring' = ring /\ delivered' = delivered
  BY <1>5 DEF Ring!WaitStart, Ring!ringVars
<1>6. ASSUME NEW w \in Waiters, Ring!Park(w) \/ Ring!Wake(w) \/ Ring!SleepEnds(w)
      PROVE  ring' = ring /\ delivered' = delivered
  BY <1>6 DEF Ring!Park, Ring!Wake, Ring!SleepEnds, Ring!ringVars
<1>7. QED
  BY <1>1, <1>2, <1>3, <1>4, <1>5, <1>6 DEF Ring!WaiterStep

\* Where none of j's pings appears and its outcome stands, its pings stay true.
LEMMA NoneAppearsKeeps ==
  ASSUME PingsAreTrue, NEW j \in Ids, NoneAppears(j),
         cell[j] \in {"Done", "Failed"} => cell'[j] \in {"Done", "Failed"}
  PROVE  /\ PingedOf(j)' => cell'[j] \in {"Done", "Failed"}
         /\ PingsInRing(j) = {} => PingsInRing(j)' = {}
<1>1. PingedOf(j) => cell[j] \in {"Done", "Failed"}
  BY DEF PingsAreTrue, PingedOf
<1>2. PingedOf(j)' => PingedOf(j)
  BY DEF NoneAppears, PingedOf, PingsInRing
<1>3. PingsInRing(j) = {} => PingsInRing(j)' = {}
  BY DEF NoneAppears, PingsInRing
<1>4. QED
  BY <1>1, <1>2, <1>3

\* What the registry's own steps leave of a job: a landed cell and an ended task for good.
JobStands(j) ==
  /\ cell[j] \in {"Done", "Failed"} => cell'[j] \in {"Done", "Failed"}
  /\ task[j] = "ended" => task'[j] = "ended"

\* No handler takes a landed outcome back: job_cancel marks a Running cell only, and
\* submit mints an id nobody had.
LEMMA HandlersLeaveJobs ==
  ASSUME Store!IInv, NEW c \in Callers,
         Submit(c) \/ JobCancel(c) \/ JobGetSnapshot(c) \/ \E j \in Ids : JobGetLookup(c, j)
  PROVE  \A j \in Ids : JobStands(j)
<1>1. cell \in [Ids -> Store!CellStates] /\ task \in [Ids -> Store!TaskStates]
  BY DEF Store!IInv, Store!TypeOK, Store!Ids, Ids
<1>2. CASE Store!SubmitSpawn(c)
  <2>1. /\ cell' = [cell EXCEPT ![nextId] = "Running"] /\ nextId \in Ids
        /\ task' = [task EXCEPT ![nextId] = "spawned"]
    BY <1>2, AsyncJobsAssumption DEF Store!SubmitSpawn, Store!IInv, Store!TypeOK, Ids
  <2>2. cell[nextId] = "absent" /\ task[nextId] = "none"
    <3>1. ~(nextId < nextId)
      BY <2>1, AsyncJobsAssumption DEF Ids
    <3>2. QED
      BY <2>1, <3>1 DEF Store!IInv, Store!MintedInv, Store!Ids, Ids
  <2>3. QED
    BY <1>1, <2>1, <2>2 DEF JobStands
<1>3. CASE UNCHANGED <<cell, task>>
  BY <1>3 DEF JobStands
<1>4. ASSUME Store!CancelMark(c)
      PROVE  /\ UNCHANGED task
             /\ \A j \in Ids : cell[j] \in {"Done", "Failed"} => cell'[j] = cell[j]
  <2>1. CASE UNCHANGED cell
    BY <1>4, <2>1 DEF Store!CancelMark
  <2>2. CASE /\ cell[handler[c].job] = "Running"
             /\ cell' = [cell EXCEPT ![handler[c].job] = "Canceled"]
    BY <1>1, <1>4, <2>2 DEF Store!CancelMark
  <2>3. QED
    BY <1>4, <2>1, <2>2 DEF Store!CancelMark
<1>5. CASE Store!CancelMark(c)
  BY <1>4, <1>5 DEF JobStands
<1>6. ASSUME \/ Store!SubmitPut(c) \/ Store!GetSnapshot(c)
             \/ \E j \in Ids : JobGetLookup(c, j) \/ Store!CancelLookup(c, j)
      PROVE  UNCHANGED <<cell, task>>
  BY <1>6 DEF JobGetLookup, Store!SubmitPut, Store!GetSnapshot, Store!GetLookup,
              Store!CancelLookup, Store!Lookup, Store!taskVars
<1>7. QED
  BY <1>2, <1>3, <1>5, <1>6 DEF Submit, JobCancel, JobGetSnapshot

\* A task lands an outcome once and its end is final.
LEMMA TasksLand ==
  ASSUME Store!IInv, NEW k \in Ids, TaskRuns(k) \/ FutureEnds(k)
  PROVE  \A j \in Ids : JobStands(j)
<1>1. cell \in [Ids -> Store!CellStates] /\ task \in [Ids -> Store!TaskStates]
  BY DEF Store!IInv, Store!TypeOK, Store!Ids, Ids
<1>2. CASE Store!FirstPoll(k) \/ Store!AbortTakes(k) \/ Store!FuturePanics(k)
           \/ \E verdict \in {"returnedOk", "returnedErr"} : Store!FutureReturns(k, verdict)
  BY <1>1, <1>2 DEF Store!FirstPoll, Store!AbortTakes, Store!FuturePanics,
                   Store!FutureReturns, JobStands
<1>3. CASE Store!FinishGuardDrop(k)
  BY <1>1, <1>3 DEF Store!FinishGuardDrop, JobStands
<1>4. CASE Store!LandOutcome(k)
  BY <1>1, <1>4 DEF Store!LandOutcome, JobStands
<1>5. QED
  BY <1>2, <1>3, <1>4 DEF TaskRuns, FutureEnds

\* PingsInv of one job.
PingsOf(j) ==
  /\ PingedOf(j) => cell[j] \in {"Done", "Failed"}
  /\ j \in settled => task[j] = "ended" /\ PingsInRing(j) = {}

\* PingsInv, one job at a time.
LEMMA PingsInvIs ==
  /\ PingsInv <=> settled \subseteq Ids /\ \A j \in Ids : PingsOf(j)
  /\ PingsInv' <=> settled' \subseteq Ids /\ \A j \in Ids : PingsOf(j)'
BY DEF PingsInv, SettledHolds, PingsAreTrue, PingsOf, PingedOf

\* Nothing is buffered or collected at first.
LEMMA PingsInit == Init => PingsInv
<1> SUFFICES ASSUME Init PROVE PingsInv
  OBVIOUS
<1>1. ring = <<>> /\ delivered = [w \in Waiters |-> <<>>] /\ settled = {}
  BY DEF Init, Ring!RingInit
<1>2. Ring!Elems(<<>>) = {}
  BY DEF Ring!Elems
<1>3. QED
  BY <1>1, <1>2 DEF PingsInv, SettledHolds, PingsAreTrue, PingsInRing

\* A step that pings no job and collects none keeps PingsInv.
LEMMA QuietStep ==
  ASSUME PingsInv, \A j \in Ids : NoneAppears(j), \A j \in Ids : JobStands(j), settled' = settled
  PROVE  PingsInv'
<1>1. settled' \subseteq Ids
  BY PingsInvIs
<1>2. ASSUME NEW j \in Ids PROVE PingsOf(j)'
  <2>1. PingsOf(j)
    BY PingsInvIs
  <2>2. /\ PingedOf(j)' => cell'[j] \in {"Done", "Failed"}
        /\ PingsInRing(j) = {} => PingsInRing(j)' = {}
    BY NoneAppearsKeeps DEF PingsInv, JobStands
  <2>3. QED
    BY <2>1, <2>2 DEF PingsOf, JobStands
<1>3. QED
  BY <1>1, <1>2, PingsInvIs

\* A completion ping is pushed for a landed outcome, by a task that was not over before.
LEMMA CompletionStep ==
  ASSUME PingsInv, Store!IInv, Ring!RingTypeOK, NEW k \in Ids, CompletionPing(k)
  PROVE  PingsInv'
<1>1. /\ task[k] = "signalling" /\ cell' = cell /\ task' = [task EXCEPT ![k] = "ended"]
      /\ settled' = settled /\ Ring!Push(Ring!WakeFloor, k)
  BY DEF CompletionPing, Store!Signal, getVars
<1>2. cell[k] \in {"Done", "Failed"} /\ task \in [Ids -> Store!TaskStates]
  BY <1>1 DEF Store!IInv, Store!TaskInv, Store!TypeOK, Store!Ids, Ids, Store!Landed
<1>3. /\ \A r \in Ring!Elems(ring') : r \in Ring!Elems(ring) \/ r.job = k
      /\ delivered' = delivered
  BY <1>1, RingAssumed, PushAddsOne
<1>4. settled' \subseteq Ids
  BY <1>1, PingsInvIs
<1>5. ASSUME NEW j \in Ids PROVE PingsOf(j)'
  <2>1. PingsOf(j)
    BY PingsInvIs
  <2>2. CASE j = k
    <3>1. k \notin settled
      BY <1>1, <2>1, <2>2 DEF PingsOf
    <3>2. QED
      BY <1>1, <1>2, <2>2, <3>1 DEF PingsOf
  <2>3. CASE j # k
    <3>1. NoneAppears(j)
      BY <1>3, <2>3 DEF NoneAppears
    <3>2. JobStands(j)
      BY <1>1, <1>2, <2>3 DEF JobStands
    <3>3. /\ PingedOf(j)' => cell'[j] \in {"Done", "Failed"}
          /\ PingsInRing(j) = {} => PingsInRing(j)' = {}
      BY <3>1, <3>2, NoneAppearsKeeps DEF PingsInv, JobStands
    <3>4. QED
      BY <1>1, <2>1, <3>2, <3>3 DEF PingsOf, JobStands
  <2>4. QED
    BY <2>2, <2>3
<1>6. QED
  BY <1>4, <1>5, PingsInvIs

\* Narrative names no job.
LEMMA NarrateStep ==
  ASSUME PingsInv, Ring!RingTypeOK, NEW k \in Ids, NEW level \in Levels, Narrate(k, level)
  PROVE  PingsInv'
<1>1. Ring!Push(level, NoJob) /\ UNCHANGED <<cell, task, settled>>
  BY DEF Narrate, storeVars, getVars
<1>2. /\ \A r \in Ring!Elems(ring') : r \in Ring!Elems(ring) \/ r.job = NoJob
      /\ delivered' = delivered
  BY <1>1, PushAddsOne
<1>3. \A j \in Ids : NoneAppears(j)
  BY <1>2, RingAssumed DEF NoneAppears
<1>4. \A j \in Ids : JobStands(j)
  BY <1>1 DEF JobStands
<1>5. QED
  BY <1>1, <1>3, <1>4, QuietStep

\* job_get takes the job's ping with it when it counts the job as settled.
LEMMA DiscardStep ==
  ASSUME PingsInv, CollectTyped, Ring!RingTypeOK, NEW c \in Callers, JobGetDiscard(c)
  PROVE  PingsInv'
<1> DEFINE k == collecting[c]
<1>1. k \in Ids /\ Ring!DiscardJobPings(k) /\ UNCHANGED <<cell, task>>
  BY DEF JobGetDiscard, CollectTyped, storeVars
<1>2. settled' = settled \cup {j \in {k} : task[j] = "ended"}
  BY DEF JobGetDiscard
<1> HIDE DEF k
<1>3. /\ \A r \in Ring!Elems(ring') : r \in Ring!Elems(ring) /\ r.job # k
      /\ delivered' = delivered
  BY <1>1, DiscardTakes
<1>4. settled' \subseteq Ids
  BY <1>1, <1>2, PingsInvIs
<1>5. ASSUME NEW j \in Ids PROVE PingsOf(j)'
  <2>1. PingsOf(j)
    BY PingsInvIs
  <2>2. NoneAppears(j) /\ JobStands(j)
    BY <1>1, <1>3 DEF NoneAppears, JobStands
  <2>3. /\ PingedOf(j)' => cell'[j] \in {"Done", "Failed"}
        /\ PingsInRing(j) = {} => PingsInRing(j)' = {}
    BY <2>2, NoneAppearsKeeps DEF PingsInv, JobStands
  <2>4. j = k => PingsInRing(j)' = {}
    BY <1>3 DEF PingsInRing
  <2>5. j \in settled' => j \in settled \/ (j = k /\ task[j] = "ended")
    BY <1>2
  <2>6. QED
    BY <1>1, <2>1, <2>3, <2>4, <2>5 DEF PingsOf
<1>6. QED
  BY <1>4, <1>5, PingsInvIs

\* Every step keeps PingsInv.
LEMMA PingsStep ==
  PingsInv /\ Store!IInv /\ CollectTyped /\ Ring!RingTypeOK /\ [Next]_vars => PingsInv'
<1> SUFFICES ASSUME PingsInv, Store!IInv, CollectTyped, Ring!RingTypeOK, [Next]_vars
             PROVE  PingsInv'
  OBVIOUS
<1>1. ASSUME NEW c \in Callers,
             Submit(c) \/ JobCancel(c) \/ JobGetSnapshot(c) \/ \E j \in Ids : JobGetLookup(c, j)
      PROVE  PingsInv'
  <2>1. UNCHANGED ringVars /\ settled' = settled
    BY <1>1 DEF Submit, JobCancel, JobGetSnapshot, JobGetLookup, getVars
  <2>2. QED
    BY <1>1, <2>1, HandlersLeaveJobs, RingStays, QuietStep
<1>2. ASSUME NEW k \in Ids, TaskRuns(k) \/ FutureEnds(k) PROVE PingsInv'
  <2>1. UNCHANGED ringVars /\ settled' = settled
    BY <1>2 DEF TaskRuns, FutureEnds, getVars
  <2>2. QED
    BY <1>2, <2>1, TasksLand, RingStays, QuietStep
<1>3. CASE NotifyOne \/ \E w \in Waiters : JobWaitStart(w) \/ Deadline(w) \/ JobWaitStep(w)
  <2>1. UNCHANGED <<cell, task, settled>>
    BY <1>3 DEF NotifyOne, JobWaitStart, Deadline, JobWaitStep, storeVars, getVars
  <2>2. \A j \in Ids : JobStands(j)
    BY <2>1 DEF JobStands
  <2>3. \A j \in Ids : NoneAppears(j)
    BY <1>3, RingMoves DEF NotifyOne, JobWaitStart, Deadline, JobWaitStep
  <2>4. QED
    BY <2>1, <2>2, <2>3, QuietStep
<1>4. CASE UNCHANGED vars
  <2>1. UNCHANGED ringVars /\ UNCHANGED <<cell, task, settled>>
    BY <1>4 DEF vars, storeVars, getVars
  <2>2. \A j \in Ids : JobStands(j)
    BY <2>1 DEF JobStands
  <2>3. QED
    BY <2>1, <2>2, RingStays, QuietStep
<1>5. QED
  BY <1>1, <1>2, <1>3, <1>4, CompletionStep, NarrateStep, DiscardStep DEF Next

\* job_wait never announces a job that did not land, and a job collected after its task
\* ended leaves no ping behind, for every number of callers, waiters and jobs, and
\* whatever capacity the registry and the ring have.
THEOREM PingsTellTheTruth == Spec => []PingsAreSound
<1>1. Spec => []PingsInv
  BY PingsInit, PingsStep, StoreKeeps, CollectAlways, RingKeeps, PTL DEF Spec
<1>2. PingsInv => PingsAreSound
  BY DEF PingsInv, SettledHolds, PingsAreSound, SettledStaysQuiet
<1>3. QED
  BY <1>1, <1>2, PTL

-----------------------------------------------------------------------------
(* How a ping leaves. *)

\* Why the pings of j may be gone after this step.
Cause(j) ==
  \/ \E c \in Callers : collecting[c] = j /\ collecting'[c] = NoJob
  \/ \E w \in Waiters : \E r \in PingsInRing(j) : r \in Ring!Elems(delivered'[w])
  \/ pushed' > pushed /\ Len(ring) = RingCap /\ Head(ring).job = j

\* A push takes the oldest record of a full ring, and nothing else.
LEMMA PushDropsHead ==
  ASSUME Ring!RingTypeOK, NEW level \in Levels, NEW job \in Ids \cup {NoJob},
         Ring!Push(level, job), NEW j \in Ids, PingsInRing(j) # {}, PingsInRing(j)' = {}
  PROVE  Cause(j)
<1> DEFINE record == [seq |-> pushed + 1, level |-> level, job |-> job]
           room == IF Len(ring) = RingCap THEN Tail(ring) ELSE ring
<1>1. ring \in Seq(Ring!Records) /\ pushed \in Nat /\ Len(ring) \in Nat /\ RingCap \in Nat \ {0}
  BY RingAssumed DEF Ring!RingTypeOK
<1>2. record \in Ring!Records
  BY <1>1 DEF Ring!Records
<1>3. ring' = Append(room, record) /\ pushed' > pushed
  BY <1>1 DEF Ring!Push
<1> HIDE DEF record
<1>4. PICK i \in 1..Len(ring) : ring[i].job = j
  BY DEF PingsInRing, Ring!Elems
<1>5. CASE Len(ring) # RingCap
  <2>1. Ring!Elems(ring') = Ring!Elems(ring) \cup {record}
    BY <1>1, <1>2, <1>3, <1>5, AppendAdds
  <2>2. ring[i] \in Ring!Elems(ring')
    BY <2>1 DEF Ring!Elems
  <2>3. QED
    BY <1>4, <2>2 DEF PingsInRing
<1>6. CASE Len(ring) = RingCap
  <2>1. CASE i = 1
    BY <1>1, <1>3, <1>4, <1>6, <2>1 DEF Cause
  <2>2. CASE i # 1
    <3>1. /\ Tail(ring) \in Seq(Ring!Records) /\ i - 1 \in 1..Len(Tail(ring))
          /\ Tail(ring)[i - 1] = ring[i]
      BY <1>1, <2>2
    <3>2. Ring!Elems(ring') = Ring!Elems(Tail(ring)) \cup {record}
      BY <1>2, <1>3, <1>6, <3>1, AppendAdds
    <3>3. ring[i] \in Ring!Elems(ring')
      BY <3>1, <3>2 DEF Ring!Elems
    <3>4. QED
      BY <1>4, <3>3 DEF PingsInRing
  <2>3. QED
    BY <2>1, <2>2
<1>7. QED
  BY <1>5, <1>6

\* discard_job_pings leaves the other jobs' records.
LEMMA DiscardKeepsOthers ==
  ASSUME Ring!RingTypeOK, NEW job \in Ids, Ring!DiscardJobPings(job), NEW r \in Ring!Elems(ring),
         r.job # job
  PROVE  r \in Ring!Elems(ring')
<1> DEFINE at == {i \in 1..Len(ring) : ring[i].job # job}
<1>1. ring' = Ring!Picked(ring, at)
  BY DEF Ring!DiscardJobPings
<1>2. ring \in Seq(Ring!Records) /\ at \in SUBSET (1..Len(ring))
  BY DEF Ring!RingTypeOK
<1>3. PICK i \in at : r = ring[i]
  BY DEF Ring!Elems
<1> HIDE DEF at
<1>4. Ring!Elems(ring') = {ring[k] : k \in at}
  BY <1>1, <1>2, RingPicks
<1>5. QED
  BY <1>3, <1>4

\* What a drain takes from the ring, its waiter gets.
LEMMA AbsorbDelivers ==
  ASSUME Ring!RingTypeOK, NEW w \in Waiters, NEW woken, NEW other, Ring!Absorb(w, woken, other),
         NEW r \in Ring!Elems(ring)
  PROVE  r \in Ring!Elems(ring') \/ r \in Ring!Elems(delivered'[w])
<1> DEFINE floor == call[w].drain
           up == {i \in 1..Len(ring) : ring[i].level >= floor}
           down == {i \in 1..Len(ring) : ring[i].level < floor}
           drained == Ring!Picked(ring, up)
<1>1. /\ ring' = Ring!Picked(ring, down)
      /\ delivered' = [delivered EXCEPT ![w] = delivered[w] \o drained]
  BY DEF Ring!Absorb, Ring!AtOrAbove, Ring!Below
<1>2. /\ ring \in Seq(Ring!Records) /\ up \in SUBSET (1..Len(ring))
      /\ down \in SUBSET (1..Len(ring)) /\ delivered \in [Waiters -> Seq(Ring!Records)]
  BY DEF Ring!RingTypeOK
<1>3. PICK i \in 1..Len(ring) : r = ring[i]
  BY DEF Ring!Elems
<1>4. i \in up \/ i \in down
  <2>1. floor \in Nat
    <3>1. call[w] \in [pc : Ring!Pcs, drain : 0..7, sample : 0..7, limit : Nat,
                      tail : Seq(Ring!Records), woke : BOOLEAN]
      BY DEF Ring!RingTypeOK
    <3>2. call[w].drain \in 0..7
      BY ONLY <3>1
    <3>3. QED
      BY ONLY <3>2
  <2>2. ring[i] \in Ring!Records
    BY <1>2
  <2>3. ring[i].level \in Nat
    BY <2>2 DEF Ring!Records, Levels
  <2>4. QED
    BY <2>1, <2>3
<1> HIDE DEF up, down
<1>5. /\ drained \in Seq(Ring!Records) /\ Ring!Elems(drained) = {ring[k] : k \in up}
      /\ Ring!Elems(ring') = {ring[k] : k \in down}
  BY <1>1, <1>2, RingPicks
<1> HIDE DEF drained
<1>6. Ring!Elems(delivered[w] \o drained) = Ring!Elems(delivered[w]) \cup Ring!Elems(drained)
  BY <1>2, <1>5, ConcatAdds
<1>7. delivered'[w] = delivered[w] \o drained
  BY <1>1, <1>2
<1>8. QED
  BY <1>3, <1>4, <1>5, <1>6, <1>7

\* A ping leaves the ring by its job's collection, by delivery or by eviction.
LEMMA LeavesForCause ==
  ASSUME CollectTyped, Ring!RingTypeOK, [Next]_vars, NEW j \in Ids,
         PingsInRing(j) # {}, PingsInRing(j)' = {}
  PROVE  Cause(j)
<1>1. PICK r \in Ring!Elems(ring) : r.job = j
  BY DEF PingsInRing
<1>2. r \notin Ring!Elems(ring')
  BY <1>1 DEF PingsInRing
<1>3. ASSUME NEW c \in Callers, JobGetDiscard(c) PROVE Cause(j)
  <2>1. collecting[c] \in Ids /\ Ring!DiscardJobPings(collecting[c]) /\ collecting'[c] = NoJob
    BY <1>3 DEF JobGetDiscard, CollectTyped
  <2>2. collecting[c] = j
    BY <1>1, <1>2, <2>1, DiscardKeepsOthers
  <2>3. QED
    BY <2>1, <2>2 DEF Cause
<1>4. ASSUME NEW k \in Ids, CompletionPing(k) PROVE Cause(j)
  BY <1>4, RingAssumed, PushDropsHead DEF CompletionPing
<1>5. ASSUME NEW k \in Ids, NEW level \in Levels, Narrate(k, level) PROVE Cause(j)
  BY <1>5, PushDropsHead DEF Narrate
<1>6. ASSUME NEW w \in Waiters, Ring!Drain(w) \/ Ring!FinalDrain(w) PROVE Cause(j)
  <2>1. PICK other : Ring!Absorb(w, "returned", other)
    BY <1>6 DEF Ring!Drain, Ring!FinalDrain
  <2>2. r \in Ring!Elems(delivered'[w])
    BY <1>2, <2>1, AbsorbDelivers
  <2>3. QED
    BY <1>1, <2>2 DEF Cause, PingsInRing
<1>7. ASSUME NEW w \in Waiters,
             \/ Ring!Park(w) \/ Ring!Wake(w) \/ Ring!SleepEnds(w)
             \/ Deadline(w) \/ JobWaitStart(w)
      PROVE  ring' = ring
  BY <1>7 DEF Ring!Park, Ring!Wake, Ring!SleepEnds, Deadline, Ring!Expire, JobWaitStart,
              Ring!WaitStart, Ring!ringVars
<1>8. CASE NotifyOne \/ UNCHANGED vars
  BY <1>1, <1>2, <1>8 DEF NotifyOne, Ring!NotifyOne, Ring!ringVars, vars, ringVars
<1>9. ASSUME NEW c \in Callers,
             Submit(c) \/ JobCancel(c) \/ JobGetSnapshot(c) \/ \E k \in Ids : JobGetLookup(c, k)
      PROVE  ring' = ring
  BY <1>9 DEF Submit, JobCancel, JobGetSnapshot, JobGetLookup, ringVars
<1>10. ASSUME NEW k \in Ids, TaskRuns(k) \/ FutureEnds(k) PROVE ring' = ring
  BY <1>10 DEF TaskRuns, FutureEnds, ringVars
<1>11. QED
  BY <1>1, <1>2, <1>3, <1>4, <1>5, <1>6, <1>7, <1>8, <1>9, <1>10
  DEF Next, JobWaitStep, Ring!WaiterStep

\* An uncollected job's ping still wakes a later job_wait: it leaves the ring only into a
\* job_wait, by job_get of that very job, or pushed out of a full ring.
THEOREM PingsLeaveForCause == Spec => PingLeavesForCause
<1>1. CollectTyped /\ Ring!RingTypeOK /\ [Next]_vars
        => [\A j \in Ids : PingsInRing(j) # {} /\ PingsInRing(j)' = {} => Cause(j)]_vars
  BY LeavesForCause
<1>2. Spec => [][\A j \in Ids : PingsInRing(j) # {} /\ PingsInRing(j)' = {} => Cause(j)]_vars
  BY <1>1, CollectAlways, RingKeeps, PTL DEF Spec
<1>3. QED
  BY <1>2 DEF PingLeavesForCause, Cause

-----------------------------------------------------------------------------
(* The two doors: what a path minds and does. *)

Classes == {"usage", "setup", "params", "exit", "internal", "failed"}
IsPath(p) == (\E things : p \in Seq(things)) /\ \A n \in 1..Len(p) : p[n].class \in Classes
Minding == {"check", "spend", "keep"}
Costs == {"spend", "keep", "keep-dossier", "record", "turn", "job"}
Refusals == {"usage", "setup", "params", "exit"}

Minded(p) == {p[n].what : n \in {m \in 1..Len(p) : p[m].does \in Minding}}
Does(p) == {p[n].does : n \in 1..Len(p)}
Is(p, does, minded) == IsPath(p) /\ Does(p) = does /\ Minded(p) = minded

\* A refusal, for all but checks of some facts, comes before everything that costs; a
\* part of a path that costs nothing; one that refuses nothing but those facts.
Refusing(step, but) == step.class \in Refusals /\ ~(step.does = "check" /\ step.what \in but)
CostFree(p, but) ==
  \A n \in 1..Len(p) : Refusing(p[n], but) =>
    p[n].does # "spend" /\ \A m \in 1..(n - 1) : p[m].does \notin Costs
Cheap(p) == Does(p) \cap Costs = {}
Firm(p, but) == \A n \in 1..Len(p) : ~Refusing(p[n], but)

\* What does one of to comes after something that does one of by or minds one of of; after
\* nothing that does one of past.
Leads(step, by, of) == step.does \in by \/ (step.does \in Minding /\ step.what \in of)
Led(p, by, of, to) ==
  \A n \in 1..Len(p) : p[n].does \in to =>
    \E m \in 1..(n - 1) : Leads(p[m], by, of)
Clear(p, past, to) ==
  \A n \in 1..Len(p) : p[n].does \in to => \A m \in 1..(n - 1) : p[m].does \notin past

LEMMA PathIs ==
  ASSUME NEW s, NEW p, p \in Seq(s), \A n \in 1..Len(p) : p[n].class \in Classes
  PROVE  IsPath(p)
BY DEF IsPath

LEMMA JoinedAt ==
  ASSUME NEW a, IsPath(a), NEW b, IsPath(b)
  PROVE  /\ IsPath(a \o b) /\ Len(a \o b) = Len(a) + Len(b)
         /\ Len(a) \in Nat /\ Len(b) \in Nat
         /\ \A n \in 1..Len(a) : (a \o b)[n] = a[n]
         /\ \A n \in 1..Len(b) : (a \o b)[n + Len(a)] = b[n]
<1>1. PICK s : a \in Seq(s)
  BY DEF IsPath
<1>2. PICK t : b \in Seq(t)
  BY DEF IsPath
<1>3. a \in Seq(s \cup t) /\ b \in Seq(s \cup t)
  <2>1. /\ Len(a) \in Nat /\ a \in [1..Len(a) -> s \cup t]
        /\ Len(b) \in Nat /\ b \in [1..Len(b) -> s \cup t]
    BY <1>1, <1>2
  <2>2. QED
    BY <2>1, SeqDef
<1>4. a \o b \in Seq(s \cup t)
  BY <1>3
<1>5. /\ Len(a \o b) = Len(a) + Len(b) /\ Len(a) \in Nat /\ Len(b) \in Nat
      /\ \A n \in 1..Len(a) : (a \o b)[n] = a[n]
      /\ \A n \in 1..Len(b) : (a \o b)[n + Len(a)] = b[n]
  BY <1>3
<1>6. ASSUME NEW n \in 1..Len(a \o b) PROVE (a \o b)[n].class \in Classes
  <2>1. CASE n \in 1..Len(a)
    BY <1>5, <2>1 DEF IsPath
  <2>2. CASE n \notin 1..Len(a)
    <3>1. n - Len(a) \in 1..Len(b) /\ (n - Len(a)) + Len(a) = n
      BY <1>5, <2>2
    <3>2. QED
      BY <1>5, <3>1 DEF IsPath
  <2>3. QED
    BY <2>1, <2>2
<1>7. QED
  BY <1>4, <1>5, <1>6, PathIs

LEMMA JoinedPaths ==
  ASSUME NEW a, IsPath(a), NEW b, IsPath(b)
  PROVE  /\ IsPath(a \o b)
         /\ Minded(a \o b) = Minded(a) \cup Minded(b)
         /\ Does(a \o b) = Does(a) \cup Does(b)
<1> DEFINE c == a \o b
<1>1. /\ IsPath(c) /\ Len(c) = Len(a) + Len(b) /\ Len(a) \in Nat /\ Len(b) \in Nat
      /\ \A n \in 1..Len(a) : c[n] = a[n]
      /\ \A n \in 1..Len(b) : c[n + Len(a)] = b[n]
  BY JoinedAt
<1> HIDE DEF c
<1>2. ASSUME NEW n \in 1..Len(c)
      PROVE  \/ n \in 1..Len(a) /\ c[n] = a[n]
             \/ \E k \in 1..Len(b) : c[n] = b[k]
  <2>1. CASE n > Len(a)
    <3>1. n - Len(a) \in 1..Len(b) /\ (n - Len(a)) + Len(a) = n
      BY <1>1, <2>1
    <3>2. QED
      BY <1>1, <3>1
  <2>2. QED
    BY <1>1, <2>1
<1>3. \A n \in 1..Len(a) : n \in 1..Len(c)
  BY <1>1
<1>4. \A n \in 1..Len(b) : n + Len(a) \in 1..Len(c)
  BY <1>1
<1>5. Minded(c) = Minded(a) \cup Minded(b)
  <2>1. \A w \in Minded(c) : w \in Minded(a) \cup Minded(b)
    BY <1>2 DEF Minded
  <2>2. \A w \in Minded(a) : w \in Minded(c)
    BY <1>1, <1>3 DEF Minded
  <2>3. \A w \in Minded(b) : w \in Minded(c)
    BY <1>1, <1>4 DEF Minded
  <2>4. QED
    BY <2>1, <2>2, <2>3
<1>6. Does(c) = Does(a) \cup Does(b)
  <2>1. \A w \in Does(c) : w \in Does(a) \cup Does(b)
    BY <1>2 DEF Does
  <2>2. \A w \in Does(a) : w \in Does(c)
    BY <1>1, <1>3 DEF Does
  <2>3. \A w \in Does(b) : w \in Does(c)
    BY <1>1, <1>4 DEF Does
  <2>4. QED
    BY <2>1, <2>2, <2>3
<1>7. QED
  BY <1>1, <1>5, <1>6 DEF c

LEMMA JoinedIsFree ==
  ASSUME NEW a, IsPath(a), NEW b, IsPath(b), NEW but, CostFree(a, but),
         Firm(b, but) \/ (Cheap(a) /\ CostFree(b, but))
  PROVE  CostFree(a \o b, but)
<1> DEFINE c == a \o b
<1>1. /\ IsPath(c) /\ Len(c) = Len(a) + Len(b) /\ Len(a) \in Nat /\ Len(b) \in Nat
      /\ \A n \in 1..Len(a) : c[n] = a[n]
      /\ \A n \in 1..Len(b) : c[n + Len(a)] = b[n]
  BY JoinedAt
<1> HIDE DEF c
<1> SUFFICES ASSUME NEW n \in 1..Len(c), Refusing(c[n], but)
             PROVE  c[n].does # "spend" /\ \A m \in 1..(n - 1) : c[m].does \notin Costs
  BY DEF CostFree, c
<1>2. CASE n \in 1..Len(a)
  <2>1. c[n] = a[n] /\ \A m \in 1..(n - 1) : c[m] = a[m]
    BY <1>1, <1>2
  <2>2. QED
    BY <1>2, <2>1 DEF CostFree
<1>3. CASE n \notin 1..Len(a)
  <2> DEFINE k == n - Len(a)
  <2>1. k \in 1..Len(b) /\ c[n] = b[k] /\ n = k + Len(a)
    <3>1. k \in 1..Len(b) /\ k + Len(a) = n
      BY <1>1, <1>3
    <3>2. QED
      BY <1>1, <3>1
  <2>2. Cheap(a) /\ CostFree(b, but)
    BY <2>1 DEF Firm
  <2>3. ASSUME NEW m \in 1..(n - 1) PROVE c[m].does \notin Costs
    <3>1. CASE m \in 1..Len(a)
      BY <1>1, <2>2, <3>1 DEF Cheap, Does
    <3>2. CASE m \notin 1..Len(a)
      <4>1. m - Len(a) \in 1..(k - 1) /\ m - Len(a) \in 1..Len(b) /\ (m - Len(a)) + Len(a) = m
        BY <1>1, <2>1, <3>2
      <4>2. c[m] = b[m - Len(a)]
        BY <1>1, <4>1
      <4>3. QED
        BY <2>1, <2>2, <4>1, <4>2 DEF CostFree
    <3>3. QED
      BY <3>1, <3>2
  <2>4. QED
    BY <2>1, <2>2, <2>3 DEF CostFree
<1>4. QED
  BY <1>2, <1>3

LEMMA CheapIsFree == ASSUME NEW a, IsPath(a), Cheap(a), NEW but PROVE CostFree(a, but)
<1>1. \A n \in 1..Len(a) : a[n].does \notin Costs
  BY DEF Cheap, Does
<1>2. QED
  BY <1>1 DEF CostFree, Costs

LEMMA JoinedIsLed ==
  ASSUME NEW a, IsPath(a), NEW b, IsPath(b), NEW by, NEW of, NEW to, Led(a, by, of, to),
         Led(b, by, of, to) \/ Does(a) \cap by # {} \/ Minded(a) \cap of # {}
  PROVE  Led(a \o b, by, of, to)
<1> DEFINE c == a \o b
<1>1. /\ IsPath(c) /\ Len(c) = Len(a) + Len(b) /\ Len(a) \in Nat /\ Len(b) \in Nat
      /\ \A n \in 1..Len(a) : c[n] = a[n]
      /\ \A n \in 1..Len(b) : c[n + Len(a)] = b[n]
  BY JoinedAt
<1> HIDE DEF c
<1> SUFFICES ASSUME NEW n \in 1..Len(c), c[n].does \in to
             PROVE  \E m \in 1..(n - 1) : Leads(c[m], by, of)
  BY DEF Led, c
<1>2. CASE n \in 1..Len(a)
  <2>1. PICK m \in 1..(n - 1) : Leads(a[m], by, of)
    BY <1>1, <1>2 DEF Led
  <2>2. m \in 1..Len(a)
    BY <1>1, <1>2
  <2>3. QED
    BY <1>1, <2>1, <2>2
<1>3. CASE n \notin 1..Len(a)
  <2> DEFINE k == n - Len(a)
  <2>1. k \in 1..Len(b) /\ c[n] = b[k] /\ n = k + Len(a)
    <3>1. k \in 1..Len(b) /\ k + Len(a) = n
      BY <1>1, <1>3
    <3>2. QED
      BY <1>1, <3>1
  <2>2. CASE Does(a) \cap by # {} \/ Minded(a) \cap of # {}
    <3>1. PICK m \in 1..Len(a) : Leads(a[m], by, of)
      BY <2>2 DEF Does, Minded, Leads
    <3>2. m \in 1..(n - 1) /\ c[m] = a[m]
      BY <1>1, <2>1
    <3>3. QED
      BY <3>1, <3>2
  <2>3. CASE Led(b, by, of, to)
    <3>1. PICK m \in 1..(k - 1) : Leads(b[m], by, of)
      BY <2>1, <2>3 DEF Led
    <3>2. m \in 1..Len(b) /\ m + Len(a) \in 1..(n - 1)
      BY <1>1, <2>1
    <3>3. c[m + Len(a)] = b[m]
      BY <1>1, <3>2
    <3>4. QED
      BY <3>1, <3>2, <3>3
  <2>4. QED
    BY <2>2, <2>3
<1>4. QED
  BY <1>2, <1>3

LEMMA NoneIsLed ==
  ASSUME NEW a, IsPath(a), NEW by, NEW of, NEW to, Does(a) \cap to = {} PROVE Led(a, by, of, to)
BY DEF Led, Does

LEMMA OneCheck ==
  ASSUME NEW w, NEW c \in Classes
  PROVE  /\ IsPath(Check(w, c))
         /\ Minded(Check(w, c)) = {w} /\ Does(Check(w, c)) = {"check"}
         /\ Check(w, c)[1] = [does |-> "check", what |-> w, class |-> c] /\ Len(Check(w, c)) = 1
<1> DEFINE p == Check(w, c)
<1>1. /\ IsPath(p) /\ Len(p) = 1
      /\ p[1] = [does |-> "check", what |-> w, class |-> c]
  <2>1. p \in Seq({[does |-> "check", what |-> w, class |-> c]})
    BY DEF Check
  <2>2. Len(p) = 1 /\ p[1] = [does |-> "check", what |-> w, class |-> c]
    BY DEF Check
  <2>3. \A n \in 1..Len(p) : p[n].class \in Classes
    BY <2>2
  <2>4. QED
    BY <2>1, <2>2, <2>3, PathIs
<1> HIDE DEF p
<1>2. Minded(p) = {w} /\ Does(p) = {"check"}
  BY <1>1 DEF Minded, Does, Minding
<1>3. QED
  BY <1>1, <1>2 DEF p

LEMMA OneDo ==
  ASSUME NEW s, NEW w, NEW c \in Classes
  PROVE  /\ IsPath(Do(s, w, c))
         /\ Minded(Do(s, w, c)) = IF s \in Minding THEN {w} ELSE {}
         /\ Does(Do(s, w, c)) = {s}
         /\ Do(s, w, c)[1] = [does |-> s, what |-> w, class |-> c] /\ Len(Do(s, w, c)) = 1
<1> DEFINE p == Do(s, w, c)
<1>1. /\ IsPath(p) /\ Len(p) = 1
      /\ p[1] = [does |-> s, what |-> w, class |-> c]
  <2>1. p \in Seq({[does |-> s, what |-> w, class |-> c]})
    BY DEF Do
  <2>2. Len(p) = 1 /\ p[1] = [does |-> s, what |-> w, class |-> c]
    BY DEF Do
  <2>3. \A n \in 1..Len(p) : p[n].class \in Classes
    BY <2>2
  <2>4. QED
    BY <2>1, <2>2, <2>3, PathIs
<1> HIDE DEF p
<1>2. Minded(p) = (IF s \in Minding THEN {w} ELSE {}) /\ Does(p) = {s}
  BY <1>1 DEF Minded, Does
<1>3. QED
  BY <1>1, <1>2 DEF p

LEMMA AsLong == ASSUME NEW k \in Nat, NEW l \in Nat, k <= l, l <= k PROVE k = l
OBVIOUS

LEMMA SomeChecks ==
  ASSUME NEW things, NEW ws \in Seq(things), ws # << >>, NEW c \in Classes
  PROVE  /\ IsPath(Checks(ws, c))
         /\ Minded(Checks(ws, c)) = {ws[n] : n \in 1..Len(ws)}
         /\ Does(Checks(ws, c)) = {"check"}
<1> DEFINE p == Checks(ws, c)
<1>1. Len(ws) \in Nat /\ DOMAIN ws = 1..Len(ws) /\ Len(ws) >= 1
  BY EmptySeq
<1>2. p = [n \in 1..Len(ws) |-> [does |-> "check", what |-> ws[n], class |-> c]]
  BY <1>1, OneCheck DEF Checks
<1> HIDE DEF p
<1>3. ASSUME NEW n \in 1..Len(ws)
      PROVE  /\ p[n] = [does |-> "check", what |-> ws[n], class |-> c]
             /\ p[n].does = "check" /\ p[n].what = ws[n] /\ p[n].class \in Classes
  <2>1. p[n] = [does |-> "check", what |-> ws[n], class |-> c]
    BY <1>2
  <2>2. QED
    BY <2>1
<1>4. IsPath(p) /\ Len(p) = Len(ws)
  <2>1. p \in Seq({p[n] : n \in 1..Len(ws)})
    BY <1>1, <1>2
  <2>2. Len(p) \in Nat /\ DOMAIN p = 1..Len(p)
    BY <2>1
  <2>3. DOMAIN p = 1..Len(ws)
    BY <1>1, <1>2
  <2>4. \A n \in Nat : n \in 1..Len(p) <=> n \in 1..Len(ws)
    BY <2>2, <2>3
  <2>5. 1 <= Len(p) /\ Len(p) <= Len(ws) /\ Len(ws) <= Len(p)
    BY <1>1, <2>2, <2>4
  <2>6. Len(p) = Len(ws)
    BY <1>1, <2>2, <2>5, AsLong
  <2>7. QED
    BY <1>3, <2>1, <2>6, PathIs
<1>5. Minded(p) = {ws[n] : n \in 1..Len(ws)}
  BY <1>3, <1>4 DEF Minded, Minding
<1>6. Does(p) = {"check"}
  <2>1. 1 \in 1..Len(p)
    BY <1>1, <1>4
  <2>2. "check" \in Does(p) /\ \A s \in Does(p) : s = "check"
    BY <1>3, <1>4, <2>1 DEF Does
  <2>3. QED
    BY <2>2
<1>7. QED
  BY <1>4, <1>5, <1>6 DEF p

LEMMA LoneCheck ==
  ASSUME NEW u, NEW c \in Classes
  PROVE  /\ IsPath(Checks(<<u>>, c))
         /\ Minded(Checks(<<u>>, c)) = {u}
         /\ Does(Checks(<<u>>, c)) = {"check"}
<1> DEFINE ws == <<u>>
<1>1. ws \in Seq({u}) /\ ws # << >> /\ {ws[n] : n \in 1..Len(ws)} = {u}
  OBVIOUS
<1> HIDE DEF ws
<1>2. /\ IsPath(Checks(ws, c)) /\ Does(Checks(ws, c)) = {"check"}
      /\ Minded(Checks(ws, c)) = {ws[n] : n \in 1..Len(ws)}
  BY <1>1, SomeChecks
<1>3. QED
  BY <1>1, <1>2 DEF ws

LEMMA TwoChecks ==
  ASSUME NEW u, NEW v, NEW c \in Classes
  PROVE  /\ IsPath(Checks(<<u, v>>, c))
         /\ Minded(Checks(<<u, v>>, c)) = {u, v}
         /\ Does(Checks(<<u, v>>, c)) = {"check"}
<1> DEFINE ws == <<u, v>>
<1>1. ws \in Seq({u, v}) /\ ws # << >> /\ {ws[n] : n \in 1..Len(ws)} = {u, v}
  OBVIOUS
<1> HIDE DEF ws
<1>2. /\ IsPath(Checks(ws, c)) /\ Does(Checks(ws, c)) = {"check"}
      /\ Minded(Checks(ws, c)) = {ws[n] : n \in 1..Len(ws)}
  BY <1>1, SomeChecks
<1>3. QED
  BY <1>1, <1>2 DEF ws

LEMMA ThreeChecks ==
  ASSUME NEW u, NEW v, NEW w, NEW c \in Classes
  PROVE  /\ IsPath(Checks(<<u, v, w>>, c))
         /\ Minded(Checks(<<u, v, w>>, c)) = {u, v, w}
         /\ Does(Checks(<<u, v, w>>, c)) = {"check"}
<1> DEFINE ws == <<u, v, w>>
<1>1. ws \in Seq({u, v, w}) /\ ws # << >> /\ {ws[n] : n \in 1..Len(ws)} = {u, v, w}
  OBVIOUS
<1> HIDE DEF ws
<1>2. /\ IsPath(Checks(ws, c)) /\ Does(Checks(ws, c)) = {"check"}
      /\ Minded(Checks(ws, c)) = {ws[n] : n \in 1..Len(ws)}
  BY <1>1, SomeChecks
<1>3. QED
  BY <1>1, <1>2 DEF ws

LEMMA FourChecks ==
  ASSUME NEW u, NEW v, NEW w, NEW x, NEW c \in Classes
  PROVE  /\ IsPath(Checks(<<u, v, w, x>>, c))
         /\ Minded(Checks(<<u, v, w, x>>, c)) = {u, v, w, x}
         /\ Does(Checks(<<u, v, w, x>>, c)) = {"check"}
<1> DEFINE ws == <<u, v, w, x>>
<1>1. ws \in Seq({u, v, w, x}) /\ ws # << >> /\ {ws[n] : n \in 1..Len(ws)} = {u, v, w, x}
  OBVIOUS
<1> HIDE DEF ws
<1>2. /\ IsPath(Checks(ws, c)) /\ Does(Checks(ws, c)) = {"check"}
      /\ Minded(Checks(ws, c)) = {ws[n] : n \in 1..Len(ws)}
  BY <1>1, SomeChecks
<1>3. QED
  BY <1>1, <1>2 DEF ws

LEMMA FiveChecks ==
  ASSUME NEW u, NEW v, NEW w, NEW x, NEW y, NEW c \in Classes
  PROVE  /\ IsPath(Checks(<<u, v, w, x, y>>, c))
         /\ Minded(Checks(<<u, v, w, x, y>>, c)) = {u, v, w, x, y}
         /\ Does(Checks(<<u, v, w, x, y>>, c)) = {"check"}
<1> DEFINE ws == <<u, v, w, x, y>>
<1>1. ws \in Seq({u, v, w, x, y}) /\ ws # << >> /\ {ws[n] : n \in 1..Len(ws)} = {u, v, w, x, y}
  OBVIOUS
<1> HIDE DEF ws
<1>2. /\ IsPath(Checks(ws, c)) /\ Does(Checks(ws, c)) = {"check"}
      /\ Minded(Checks(ws, c)) = {ws[n] : n \in 1..Len(ws)}
  BY <1>1, SomeChecks
<1>3. QED
  BY <1>1, <1>2 DEF ws

LEMMA SixChecks ==
  ASSUME NEW u, NEW v, NEW w, NEW x, NEW y, NEW z, NEW c \in Classes
  PROVE  /\ IsPath(Checks(<<u, v, w, x, y, z>>, c))
         /\ Minded(Checks(<<u, v, w, x, y, z>>, c)) = {u, v, w, x, y, z}
         /\ Does(Checks(<<u, v, w, x, y, z>>, c)) = {"check"}
<1> DEFINE ws == <<u, v, w, x, y, z>>
<1>1. ws \in Seq({u, v, w, x, y, z}) /\ ws # << >> /\ {ws[n] : n \in 1..Len(ws)} = {u, v, w, x, y, z}
  OBVIOUS
<1> HIDE DEF ws
<1>2. /\ IsPath(Checks(ws, c)) /\ Does(Checks(ws, c)) = {"check"}
      /\ Minded(Checks(ws, c)) = {ws[n] : n \in 1..Len(ws)}
  BY <1>1, SomeChecks
<1>3. QED
  BY <1>1, <1>2 DEF ws

LEMMA JoinedIsClear ==
  ASSUME NEW a, IsPath(a), NEW b, IsPath(b), NEW past, NEW to, Clear(a, past, to), Clear(b, past, to),
         Does(a) \cap past = {} \/ Does(b) \cap to = {}
  PROVE  Clear(a \o b, past, to)
<1> DEFINE c == a \o b
<1>1. /\ IsPath(c) /\ Len(c) = Len(a) + Len(b) /\ Len(a) \in Nat /\ Len(b) \in Nat
      /\ \A n \in 1..Len(a) : c[n] = a[n]
      /\ \A n \in 1..Len(b) : c[n + Len(a)] = b[n]
  BY JoinedAt
<1> HIDE DEF c
<1> SUFFICES ASSUME NEW n \in 1..Len(c), c[n].does \in to, NEW m \in 1..(n - 1)
             PROVE  c[m].does \notin past
  BY DEF Clear, c
<1>2. CASE n \in 1..Len(a)
  <2>1. c[n] = a[n] /\ c[m] = a[m]
    BY <1>1, <1>2
  <2>2. QED
    BY <1>2, <2>1 DEF Clear
<1>3. CASE n \notin 1..Len(a)
  <2> DEFINE k == n - Len(a)
  <2>1. k \in 1..Len(b) /\ c[n] = b[k] /\ n = k + Len(a)
    <3>1. k \in 1..Len(b) /\ k + Len(a) = n
      BY <1>1, <1>3
    <3>2. QED
      BY <1>1, <3>1
  <2>2. Does(a) \cap past = {}
    BY <2>1 DEF Does
  <2>3. CASE m \in 1..Len(a)
    BY <1>1, <2>2, <2>3 DEF Does
  <2>4. CASE m \notin 1..Len(a)
    <3>1. m - Len(a) \in 1..(k - 1) /\ m - Len(a) \in 1..Len(b) /\ (m - Len(a)) + Len(a) = m
      BY <1>1, <2>1, <2>4
    <3>2. c[m] = b[m - Len(a)]
      BY <1>1, <3>1
    <3>3. QED
      BY <2>1, <3>1, <3>2 DEF Clear
  <2>5. QED
    BY <2>3, <2>4
<1>4. QED
  BY <1>2, <1>3

LEMMA NoneIsClear ==
  ASSUME NEW a, IsPath(a), NEW past, NEW to, Does(a) \cap past = {} \/ Does(a) \cap to = {}
  PROVE  Clear(a, past, to)
<1>1. CASE Does(a) \cap to = {}
  BY <1>1 DEF Clear, Does
<1>2. CASE Does(a) \cap past = {}
  <2>1. \A n \in 1..Len(a) : \A m \in 1..(n - 1) : m \in 1..Len(a)
    BY JoinedAt
  <2>2. QED
    BY <1>2, <2>1 DEF Clear, Does
<1>3. QED
  BY <1>1, <1>2

LEMMA OneIsFree ==
  ASSUME NEW s, NEW w, NEW c \in Classes, NEW but
  PROVE  /\ s # "spend" \/ c \notin Refusals => CostFree(Do(s, w, c), but)
         /\ c \notin Refusals => Firm(Do(s, w, c), but)
         /\ c \notin Refusals \/ w \in but => Firm(Check(w, c), but)
<1>1. /\ Len(Do(s, w, c)) = 1 /\ Do(s, w, c)[1] = [does |-> s, what |-> w, class |-> c]
      /\ Len(Check(w, c)) = 1 /\ Check(w, c)[1] = [does |-> "check", what |-> w, class |-> c]
  BY OneCheck, OneDo
<1>2. QED
  BY <1>1 DEF CostFree, Firm, Refusing

LEMMA JoinedIsFirm ==
  ASSUME NEW a, IsPath(a), NEW b, IsPath(b), NEW but, Firm(a, but), Firm(b, but)
  PROVE  Firm(a \o b, but)
<1> DEFINE c == a \o b
<1>1. /\ IsPath(c) /\ Len(c) = Len(a) + Len(b) /\ Len(a) \in Nat /\ Len(b) \in Nat
      /\ \A n \in 1..Len(a) : c[n] = a[n]
      /\ \A n \in 1..Len(b) : c[n + Len(a)] = b[n]
  BY JoinedAt
<1> HIDE DEF c
<1> SUFFICES ASSUME NEW n \in 1..Len(c) PROVE ~Refusing(c[n], but)
  BY DEF Firm, c
<1>2. CASE n \in 1..Len(a)
  BY <1>1, <1>2 DEF Firm
<1>3. CASE n \notin 1..Len(a)
  <2>1. n - Len(a) \in 1..Len(b) /\ (n - Len(a)) + Len(a) = n
    BY <1>1, <1>3
  <2>2. QED
    BY <1>1, <2>1 DEF Firm
<1>4. QED
  BY <1>2, <1>3

LEMMA PartsAre ==
  ASSUME NEW c \in Classes, NEW s
  PROVE  /\ \A u : Is(Check(u, c), {"check"}, {u})
         /\ \A u : Is(Do(s, u, c), {s}, IF s \in Minding THEN {u} ELSE {})
         /\ \A u : Is(Checks(<<u>>, c), {"check"}, {u})
         /\ \A u, v : Is(Checks(<<u, v>>, c), {"check"}, {u, v})
         /\ \A u, v, w : Is(Checks(<<u, v, w>>, c), {"check"}, {u, v, w})
         /\ \A u, v, w, x : Is(Checks(<<u, v, w, x>>, c), {"check"}, {u, v, w, x})
         /\ \A u, v, w, x, y : Is(Checks(<<u, v, w, x, y>>, c), {"check"}, {u, v, w, x, y})
         /\ \A u, v, w, x, y, z :
              Is(Checks(<<u, v, w, x, y, z>>, c), {"check"}, {u, v, w, x, y, z})
<1>1. ASSUME NEW u PROVE Is(Check(u, c), {"check"}, {u})
  BY OneCheck DEF Is
<1>0. ASSUME NEW u PROVE Is(Do(s, u, c), {s}, IF s \in Minding THEN {u} ELSE {})
  BY OneDo DEF Is
<1>2. ASSUME NEW u PROVE Is(Checks(<<u>>, c), {"check"}, {u})
  BY LoneCheck DEF Is
<1>3. ASSUME NEW u, NEW v PROVE Is(Checks(<<u, v>>, c), {"check"}, {u, v})
  BY TwoChecks DEF Is
<1>4. ASSUME NEW u, NEW v, NEW w PROVE Is(Checks(<<u, v, w>>, c), {"check"}, {u, v, w})
  BY ThreeChecks DEF Is
<1>5. ASSUME NEW u, NEW v, NEW w, NEW x
      PROVE  Is(Checks(<<u, v, w, x>>, c), {"check"}, {u, v, w, x})
  BY FourChecks DEF Is
<1>6. ASSUME NEW u, NEW v, NEW w, NEW x, NEW y
      PROVE  Is(Checks(<<u, v, w, x, y>>, c), {"check"}, {u, v, w, x, y})
  BY FiveChecks DEF Is
<1>7. ASSUME NEW u, NEW v, NEW w, NEW x, NEW y, NEW z
      PROVE  Is(Checks(<<u, v, w, x, y, z>>, c), {"check"}, {u, v, w, x, y, z})
  BY SixChecks DEF Is
<1>8. QED
  BY <1>0, <1>1, <1>2, <1>3, <1>4, <1>5, <1>6, <1>7

LEMMA JoinIs ==
  ASSUME NEW a, NEW b, NEW d, NEW e, NEW m, NEW n, Is(a, d, m), Is(b, e, n)
  PROVE  Is(a \o b, d \cup e, m \cup n)
BY JoinedPaths DEF Is

LEMMA ServeIs ==
  Is(Serve, {"check", "serve", "open-media"},
     {"file", "telemetry", "all-off", "default-cast", "builtins", "resolver", "no-tools"})
<1> DEFINE a == Check("file", "usage")
           b == Checks(<<"telemetry", "all-off", "default-cast", "builtins", "resolver",
                   "no-tools">>, "exit")
           c == Do("serve", "state-db", "exit")
           d == Do("open-media", "media-dir", "exit")
<1>1. Serve = ((a \o b) \o c) \o d
  BY DEF Serve
<1>2. /\ Is(a, {"check"}, {"file"})
      /\ Is(b, {"check"}, {"telemetry", "all-off", "default-cast", "builtins", "resolver",
                               "no-tools"})
      /\ Is(c, {"serve"}, {})
      /\ Is(d, {"open-media"}, {})
  BY PartsAre DEF Minding, Classes
<1> HIDE DEF a, b, c, d
<1>3. QED
  BY <1>1, <1>2, JoinedPaths DEF Is

LEMMA CliStartIs == Is(CliStart, {"check"}, {"telemetry", "file", "resolver"})
<1> DEFINE a == Check("telemetry", "exit")
           b == Check("file", "usage")
           c == Check("resolver", "setup")
<1>1. CliStart = (a \o b) \o c
  BY DEF CliStart
<1>2. /\ Is(a, {"check"}, {"telemetry"})
      /\ Is(b, {"check"}, {"file"})
      /\ Is(c, {"check"}, {"resolver"})
  BY PartsAre DEF Classes
<1> HIDE DEF a, b, c
<1>3. QED
  BY <1>1, <1>2, JoinedPaths DEF Is

LEMMA GatedIs == Is(Gated, {"check"}, {"gated"})
BY PartsAre DEF Gated, Classes

LEMMA EnabledIs == Is(Enabled, {"check"}, {"gated"})
BY PartsAre DEF Enabled, Classes

LEMMA ConsultChecksIs ==
  Is(ConsultChecks, {"check"},
     {"gated", "root", "cast", "lane", "override", "solo", "explorer-key", "key", "attach",
       "image", "rules", "artifacts"})
<1> DEFINE a == Gated
           b == Checks(<<"root", "cast", "lane", "override", "solo">>, "params")
           c == Checks(<<"explorer-key", "key">>, "internal")
           d == Checks(<<"attach", "image">>, "params")
           e == Check("rules", "internal")
           f == Check("artifacts", "params")
<1>1. ConsultChecks = ((((a \o b) \o c) \o d) \o e) \o f
  BY DEF ConsultChecks
<1>2. /\ Is(a, {"check"}, {"gated"})
      /\ Is(b, {"check"}, {"root", "cast", "lane", "override", "solo"})
      /\ Is(c, {"check"}, {"explorer-key", "key"})
      /\ Is(d, {"check"}, {"attach", "image"})
      /\ Is(e, {"check"}, {"rules"})
      /\ Is(f, {"check"}, {"artifacts"})
  BY GatedIs, PartsAre DEF Classes
<1> HIDE DEF a, b, c, d, e, f
<1>3. QED
  BY <1>1, <1>2, JoinedPaths DEF Is

LEMMA ConsultCallIs ==
  Is(ConsultCall, {"check", "spend", "turn"},
     {"gated", "root", "cast", "lane", "override", "solo", "explorer-key", "key", "attach",
       "image", "rules", "artifacts", "provider"})
<1> DEFINE a == ConsultChecks
           b == Do("spend", "provider", "failed")
           c == Do("turn", "none", "failed")
<1>1. ConsultCall = (a \o b) \o c
  BY DEF ConsultCall
<1>2. /\ Is(a, {"check"}, {"gated", "root", "cast", "lane", "override", "solo",
                               "explorer-key", "key", "attach", "image", "rules", "artifacts"})
      /\ Is(b, {"spend"}, {"provider"})
      /\ Is(c, {"turn"}, {})
  BY ConsultChecksIs, PartsAre DEF Minding, Classes
<1> HIDE DEF a, b, c
<1>3. QED
  BY <1>1, <1>2, JoinedPaths DEF Is

LEMMA ConsultSubmitCallIs ==
  Is(ConsultSubmitCall, {"check", "job"},
     {"gated", "root", "cast", "lane", "override", "solo", "explorer-key", "key", "attach",
       "image", "rules", "artifacts"})
<1> DEFINE a == ConsultChecks
           b == Do("job", "none", "failed")
<1>1. ConsultSubmitCall = a \o b
  BY DEF ConsultSubmitCall
<1>2. /\ Is(a, {"check"}, {"gated", "root", "cast", "lane", "override", "solo",
                               "explorer-key", "key", "attach", "image", "rules", "artifacts"})
      /\ Is(b, {"job"}, {})
  BY ConsultChecksIs, PartsAre DEF Minding, Classes
<1> HIDE DEF a, b
<1>3. QED
  BY <1>1, <1>2, JoinedPaths DEF Is

LEMMA ExploreCallIs ==
  Is(ExploreCall, {"check", "spend"},
     {"gated", "root", "cast", "override", "key", "attach", "rules", "provider"})
<1> DEFINE a == Gated
           b == Checks(<<"root", "cast", "override">>, "params")
           c == Check("key", "internal")
           d == Check("attach", "params")
           e == Check("rules", "internal")
           f == Do("spend", "provider", "failed")
<1>1. ExploreCall = ((((a \o b) \o c) \o d) \o e) \o f
  BY DEF ExploreCall
<1>2. /\ Is(a, {"check"}, {"gated"})
      /\ Is(b, {"check"}, {"root", "cast", "override"})
      /\ Is(c, {"check"}, {"key"})
      /\ Is(d, {"check"}, {"attach"})
      /\ Is(e, {"check"}, {"rules"})
      /\ Is(f, {"spend"}, {"provider"})
  BY GatedIs, PartsAre DEF Minding, Classes
<1> HIDE DEF a, b, c, d, e, f
<1>3. QED
  BY <1>1, <1>2, JoinedPaths DEF Is

LEMMA OneshotCallIs ==
  Is(OneshotCall, {"check", "spend"},
     {"gated", "cast", "lane", "override", "key", "attach", "image", "provider"})
<1> DEFINE a == Gated
           b == Checks(<<"cast", "lane", "override">>, "params")
           c == Check("key", "internal")
           d == Checks(<<"attach", "image">>, "params")
           e == Do("spend", "provider", "failed")
<1>1. OneshotCall = (((a \o b) \o c) \o d) \o e
  BY DEF OneshotCall
<1>2. /\ Is(a, {"check"}, {"gated"})
      /\ Is(b, {"check"}, {"cast", "lane", "override"})
      /\ Is(c, {"check"}, {"key"})
      /\ Is(d, {"check"}, {"attach", "image"})
      /\ Is(e, {"spend"}, {"provider"})
  BY GatedIs, PartsAre DEF Minding, Classes
<1> HIDE DEF a, b, c, d, e
<1>3. QED
  BY <1>1, <1>2, JoinedPaths DEF Is

LEMMA DecideCallIs ==
  Is(DecideCall, {"check", "spend"},
     {"gated", "cast", "slot", "backend", "question", "key", "provider"})
<1> DEFINE a == Gated
           b == Checks(<<"cast", "slot">>, "params")
           c == Check("backend", "internal")
           d == Checks(<<"question", "key">>, "params")
           e == Do("spend", "provider", "failed")
<1>1. DecideCall = (((a \o b) \o c) \o d) \o e
  BY DEF DecideCall
<1>2. /\ Is(a, {"check"}, {"gated"})
      /\ Is(b, {"check"}, {"cast", "slot"})
      /\ Is(c, {"check"}, {"backend"})
      /\ Is(d, {"check"}, {"question", "key"})
      /\ Is(e, {"spend"}, {"provider"})
  BY GatedIs, PartsAre DEF Minding, Classes
<1> HIDE DEF a, b, c, d, e
<1>3. QED
  BY <1>1, <1>2, JoinedPaths DEF Is

LEMMA DeliberateChecksIs ==
  Is(DeliberateChecks, {"check"},
     {"gated", "inert", "root", "cast", "lane", "override"})
<1> DEFINE a == Gated
           b == Checks(<<"inert", "root", "cast", "lane", "override">>, "params")
<1>1. DeliberateChecks = a \o b
  BY DEF DeliberateChecks
<1>2. /\ Is(a, {"check"}, {"gated"})
      /\ Is(b, {"check"}, {"inert", "root", "cast", "lane", "override"})
  BY GatedIs, PartsAre DEF Classes
<1> HIDE DEF a, b
<1>3. QED
  BY <1>1, <1>2, JoinedPaths DEF Is

LEMMA SweepCallIs ==
  Is(SweepCall, {"check", "spend", "keep-dossier"},
     {"key", "attach", "rules", "provider"})
<1> DEFINE a == Check("key", "internal")
           b == Check("attach", "params")
           c == Check("rules", "internal")
           d == Do("spend", "provider", "failed")
           e == Do("keep-dossier", "none", "failed")
<1>1. SweepCall = (((a \o b) \o c) \o d) \o e
  BY DEF SweepCall
<1>2. /\ Is(a, {"check"}, {"key"})
      /\ Is(b, {"check"}, {"attach"})
      /\ Is(c, {"check"}, {"rules"})
      /\ Is(d, {"spend"}, {"provider"})
      /\ Is(e, {"keep-dossier"}, {})
  BY PartsAre DEF Minding, Classes
<1> HIDE DEF a, b, c, d, e
<1>3. QED
  BY <1>1, <1>2, JoinedPaths DEF Is

LEMMA DeliberateBatchCallIs ==
  Is(DeliberateBatchCall, {"check", "spend", "record"},
     {"synth-key", "synth"})
<1> DEFINE a == Check("synth-key", "params")
           b == Do("spend", "synth", "internal")
           c == Do("record", "none", "failed")
<1>1. DeliberateBatchCall = (a \o b) \o c
  BY DEF DeliberateBatchCall
<1>2. /\ Is(a, {"check"}, {"synth-key"})
      /\ Is(b, {"spend"}, {"synth"})
      /\ Is(c, {"record"}, {})
  BY PartsAre DEF Minding, Classes
<1> HIDE DEF a, b, c
<1>3. QED
  BY <1>1, <1>2, JoinedPaths DEF Is

LEMMA DeliberateDirectCallIs == Is(DeliberateDirectCall, {"check", "job"}, {"synth-key"})
<1> DEFINE a == Check("synth-key", "internal")
           b == Do("job", "none", "failed")
<1>1. DeliberateDirectCall = a \o b
  BY DEF DeliberateDirectCall
<1>2. /\ Is(a, {"check"}, {"synth-key"})
      /\ Is(b, {"job"}, {})
  BY PartsAre DEF Minding, Classes
<1> HIDE DEF a, b
<1>3. QED
  BY <1>1, <1>2, JoinedPaths DEF Is

LEMMA GenerateCallIs ==
  Is(GenerateCall, {"check", "spend", "keep"},
     {"gated", "media-off", "cast", "slot", "backend", "key", "field", "input", "provider",
       "media-full"})
<1> DEFINE a == Gated
           b == Checks(<<"media-off", "cast", "slot">>, "params")
           c == Check("backend", "internal")
           d == Checks(<<"key", "field", "input">>, "params")
           e == Do("spend", "provider", "failed")
           f == Do("keep", "media-full", "failed")
<1>1. GenerateCall = ((((a \o b) \o c) \o d) \o e) \o f
  BY DEF GenerateCall
<1>2. /\ Is(a, {"check"}, {"gated"})
      /\ Is(b, {"check"}, {"media-off", "cast", "slot"})
      /\ Is(c, {"check"}, {"backend"})
      /\ Is(d, {"check"}, {"key", "field", "input"})
      /\ Is(e, {"spend"}, {"provider"})
      /\ Is(f, {"keep"}, {"media-full"})
  BY GatedIs, PartsAre DEF Minding, Classes
<1> HIDE DEF a, b, c, d, e, f
<1>3. QED
  BY <1>1, <1>2, JoinedPaths DEF Is

LEMMA RunKaishCallIs == Is(RunKaishCall, {"check"}, {"gated", "root", "shell", "worker"})
<1> DEFINE a == Gated
           b == Checks(<<"root">>, "params")
           c == Check("shell", "internal")
           d == Check("worker", "internal")
<1>1. RunKaishCall = ((a \o b) \o c) \o d
  BY DEF RunKaishCall
<1>2. /\ Is(a, {"check"}, {"gated"})
      /\ Is(b, {"check"}, {"root"})
      /\ Is(c, {"check"}, {"shell"})
      /\ Is(d, {"check"}, {"worker"})
  BY GatedIs, PartsAre DEF Classes
<1> HIDE DEF a, b, c, d
<1>3. QED
  BY <1>1, <1>2, JoinedPaths DEF Is

LEMMA BatchSubmitCallIs ==
  Is(BatchSubmitCall, {"check", "spend", "record"},
     {"gated", "prompts", "cast", "lane", "override", "attach", "image", "key", "provider"})
<1> DEFINE a == Gated
           b == Checks(<<"prompts", "cast", "lane", "override", "attach", "image">>, "params")
           c == Check("key", "internal")
           d == Do("spend", "provider", "internal")
           e == Do("record", "none", "failed")
<1>1. BatchSubmitCall = (((a \o b) \o c) \o d) \o e
  BY DEF BatchSubmitCall
<1>2. /\ Is(a, {"check"}, {"gated"})
      /\ Is(b, {"check"}, {"prompts", "cast", "lane", "override", "attach", "image"})
      /\ Is(c, {"check"}, {"key"})
      /\ Is(d, {"spend"}, {"provider"})
      /\ Is(e, {"record"}, {})
  BY GatedIs, PartsAre DEF Minding, Classes
<1> HIDE DEF a, b, c, d, e
<1>3. QED
  BY <1>1, <1>2, JoinedPaths DEF Is

LEMMA BatchGetCallIs ==
  Is(BatchGetCall, {"check", "spend"},
     {"handle", "gated", "backend", "no-lane", "key", "provider"})
<1> DEFINE a == Check("handle", "params")
           b == Enabled
           c == Checks(<<"backend", "no-lane", "key">>, "params")
           d == Do("spend", "provider", "internal")
<1>1. BatchGetCall = ((a \o b) \o c) \o d
  BY DEF BatchGetCall
<1>2. /\ Is(a, {"check"}, {"handle"})
      /\ Is(b, {"check"}, {"gated"})
      /\ Is(c, {"check"}, {"backend", "no-lane", "key"})
      /\ Is(d, {"spend"}, {"provider"})
  BY PartsAre, EnabledIs DEF Minding, Classes
<1> HIDE DEF a, b, c, d
<1>3. QED
  BY <1>1, <1>2, JoinedPaths DEF Is

LEMMA BatchListCallIs == Is(BatchListCall, {"check", "spend"}, {"gated", "none"})
<1> DEFINE a == Gated
           b == Do("spend", "none", "failed")
<1>1. BatchListCall = a \o b
  BY DEF BatchListCall
<1>2. /\ Is(a, {"check"}, {"gated"})
      /\ Is(b, {"spend"}, {"none"})
  BY GatedIs, PartsAre DEF Minding, Classes
<1> HIDE DEF a, b
<1>3. QED
  BY <1>1, <1>2, JoinedPaths DEF Is

LEMMA ListModelsCallIs == Is(ListModelsCall, {"check", "spend"}, {"gated", "backend", "none"})
<1> DEFINE a == Gated
           b == Checks(<<"backend">>, "params")
           c == Do("spend", "none", "failed")
<1>1. ListModelsCall = (a \o b) \o c
  BY DEF ListModelsCall
<1>2. /\ Is(a, {"check"}, {"gated"})
      /\ Is(b, {"check"}, {"backend"})
      /\ Is(c, {"spend"}, {"none"})
  BY GatedIs, PartsAre DEF Minding, Classes
<1> HIDE DEF a, b, c
<1>3. QED
  BY <1>1, <1>2, JoinedPaths DEF Is

LEMMA WriteCasCallIs ==
  Is(WriteCasCall, {"check", "keep"},
     {"media-off", "outside", "content", "media-full"})
<1> DEFINE a == Checks(<<"media-off", "outside", "content">>, "params")
           b == Do("keep", "media-full", "internal")
<1>1. WriteCasCall = a \o b
  BY DEF WriteCasCall
<1>2. /\ Is(a, {"check"}, {"media-off", "outside", "content"})
      /\ Is(b, {"keep"}, {"media-full"})
  BY PartsAre DEF Minding, Classes
<1> HIDE DEF a, b
<1>3. Is(WriteCasCall, {"check"} \cup {"keep"},
         {"media-off", "outside", "content"} \cup {"media-full"})
  BY <1>1, <1>2, JoinIs
<1>4. QED
  BY <1>3

LEMMA ReadCasCallIs == Is(ReadCasCall, {"check"}, {"media-off", "digest", "absent", "range"})
<1> DEFINE a == Checks(<<"media-off", "digest", "absent">>, "params")
           b == Check("range", "params")
<1>1. ReadCasCall = a \o b
  BY DEF ReadCasCall
<1>2. /\ Is(a, {"check"}, {"media-off", "digest", "absent"})
      /\ Is(b, {"check"}, {"range"})
  BY PartsAre DEF Classes
<1> HIDE DEF a, b
<1>3. QED
  BY <1>1, <1>2, JoinedPaths DEF Is

LEMMA ConsultVerbIs ==
  Is(ConsultVerb, {"check", "open-sessions", "spend", "turn"},
     {"root", "cast", "lane", "override", "solo", "explorer-key", "key", "attach", "image",
       "rules", "provider"})
<1> DEFINE a == Check("root", "setup")
           b == Checks(<<"cast", "lane", "override", "solo", "explorer-key">>, "usage")
           c == Checks(<<"key", "attach">>, "setup")
           d == Check("image", "usage")
           e == Do("open-sessions", "state-db", "setup")
           f == Check("rules", "setup")
           g == Do("spend", "provider", "failed")
           h == Do("turn", "none", "failed")
<1>1. ConsultVerb = ((((((a \o b) \o c) \o d) \o e) \o f) \o g) \o h
  BY DEF ConsultVerb
<1>2. /\ Is(a, {"check"}, {"root"})
      /\ Is(b, {"check"}, {"cast", "lane", "override", "solo", "explorer-key"})
      /\ Is(c, {"check"}, {"key", "attach"})
      /\ Is(d, {"check"}, {"image"})
      /\ Is(e, {"open-sessions"}, {})
      /\ Is(f, {"check"}, {"rules"})
      /\ Is(g, {"spend"}, {"provider"})
      /\ Is(h, {"turn"}, {})
  BY PartsAre DEF Minding, Classes
<1> HIDE DEF a, b, c, d, e, f, g, h
<1> DEFINE p == ((a \o b) \o c) \o d
<1>3. ConsultVerb = (((p \o e) \o f) \o g) \o h
  BY <1>1
<1>4. Is(p, {"check"}, {"root", "cast", "lane", "override", "solo", "explorer-key", "key", "attach",
                     "image"})
  BY <1>2, JoinedPaths DEF Is
<1> HIDE DEF p
<1>5. QED
  BY <1>2, <1>3, <1>4, JoinedPaths DEF Is

LEMMA ExploreVerbIs ==
  Is(ExploreVerb, {"check", "spend"},
     {"root", "cast", "override", "key", "attach", "rules", "provider"})
<1> DEFINE a == Check("root", "setup")
           b == Checks(<<"cast", "override">>, "usage")
           c == Checks(<<"key", "attach", "rules">>, "setup")
           d == Do("spend", "provider", "failed")
<1>1. ExploreVerb = ((a \o b) \o c) \o d
  BY DEF ExploreVerb
<1>2. /\ Is(a, {"check"}, {"root"})
      /\ Is(b, {"check"}, {"cast", "override"})
      /\ Is(c, {"check"}, {"key", "attach", "rules"})
      /\ Is(d, {"spend"}, {"provider"})
  BY PartsAre DEF Minding, Classes
<1> HIDE DEF a, b, c, d
<1>3. QED
  BY <1>1, <1>2, JoinedPaths DEF Is

LEMMA PipedIs == Is(Piped, {"check"}, {"stdin"})
BY PartsAre DEF Piped, Classes

LEMMA OneshotVerbIs ==
  Is(OneshotVerb, {"check", "spend"},
     {"cast", "lane", "override", "key", "attach", "image", "stdin", "provider"})
<1> DEFINE a == Checks(<<"cast", "lane", "override">>, "usage")
           b == Checks(<<"key", "attach">>, "setup")
           c == Check("image", "usage")
           d == Piped
           e == Do("spend", "provider", "failed")
<1>1. OneshotVerb = (((a \o b) \o c) \o d) \o e
  BY DEF OneshotVerb
<1>2. /\ Is(a, {"check"}, {"cast", "lane", "override"})
      /\ Is(b, {"check"}, {"key", "attach"})
      /\ Is(c, {"check"}, {"image"})
      /\ Is(d, {"check"}, {"stdin"})
      /\ Is(e, {"spend"}, {"provider"})
  BY PartsAre, PipedIs DEF Minding, Classes
<1> HIDE DEF a, b, c, d, e
<1>3. QED
  BY <1>1, <1>2, JoinedPaths DEF Is

LEMMA OpenStoresIs == Is(OpenStores, {"open-batches", "open-media"}, {})
<1> DEFINE a == Do("open-batches", "none", "failed")
           b == Do("open-media", "media-dir", "setup")
<1>1. OpenStores = a \o b
  BY DEF OpenStores
<1>2. /\ Is(a, {"open-batches"}, {})
      /\ Is(b, {"open-media"}, {})
  BY PartsAre DEF Minding, Classes
<1> HIDE DEF a, b
<1>3. Is(OpenStores, {"open-batches"} \cup {"open-media"}, {} \cup {})
  BY <1>1, <1>2, JoinIs
<1>4. QED
  BY <1>3

LEMMA DeliberateStartIs ==
  Is(DeliberateStart, {"check", "open-batches", "open-media"},
     {"inert", "root", "cast", "lane", "override"})
<1> DEFINE a == Check("inert", "usage")
           b == Check("root", "setup")
           c == Checks(<<"cast", "lane", "override">>, "usage")
           d == OpenStores
<1>1. DeliberateStart = ((a \o b) \o c) \o d
  BY DEF DeliberateStart
<1>2. /\ Is(a, {"check"}, {"inert"})
      /\ Is(b, {"check"}, {"root"})
      /\ Is(c, {"check"}, {"cast", "lane", "override"})
      /\ Is(d, {"open-batches", "open-media"}, {})
  BY PartsAre, OpenStoresIs DEF Classes
<1> HIDE DEF a, b, c, d
<1>3. QED
  BY <1>1, <1>2, JoinedPaths DEF Is

LEMMA SweepVerbIs ==
  Is(SweepVerb, {"check", "spend", "keep-dossier"},
     {"key", "attach", "rules", "provider"})
<1> DEFINE a == Checks(<<"key", "attach", "rules">>, "setup")
           b == Do("spend", "provider", "failed")
           c == Do("keep-dossier", "none", "failed")
<1>1. SweepVerb = (a \o b) \o c
  BY DEF SweepVerb
<1>2. /\ Is(a, {"check"}, {"key", "attach", "rules"})
      /\ Is(b, {"spend"}, {"provider"})
      /\ Is(c, {"keep-dossier"}, {})
  BY PartsAre DEF Minding, Classes
<1> HIDE DEF a, b, c
<1>3. QED
  BY <1>1, <1>2, JoinedPaths DEF Is

LEMMA DeliberateBatchVerbIs ==
  Is(DeliberateBatchVerb, {"check", "spend", "record"},
     {"synth-key", "synth"})
<1> DEFINE a == Check("synth-key", "setup")
           b == Do("spend", "synth", "failed")
           c == Do("record", "none", "failed")
<1>1. DeliberateBatchVerb = (a \o b) \o c
  BY DEF DeliberateBatchVerb
<1>2. /\ Is(a, {"check"}, {"synth-key"})
      /\ Is(b, {"spend"}, {"synth"})
      /\ Is(c, {"record"}, {})
  BY PartsAre DEF Minding, Classes
<1> HIDE DEF a, b, c
<1>3. QED
  BY <1>1, <1>2, JoinedPaths DEF Is

LEMMA DeliberateDirectVerbIs ==
  Is(DeliberateDirectVerb, {"check", "spend"},
     {"synth-key", "synth"})
<1> DEFINE a == Check("synth-key", "setup")
           b == Do("spend", "synth", "failed")
<1>1. DeliberateDirectVerb = a \o b
  BY DEF DeliberateDirectVerb
<1>2. /\ Is(a, {"check"}, {"synth-key"})
      /\ Is(b, {"spend"}, {"synth"})
  BY PartsAre DEF Minding, Classes
<1> HIDE DEF a, b
<1>3. QED
  BY <1>1, <1>2, JoinedPaths DEF Is

LEMMA GenerateVerbIs ==
  Is(GenerateVerb, {"check", "open-batches", "open-media", "spend", "keep"},
     {"cast", "slot", "backend", "key", "field", "media-off", "provider", "media-full"})
<1> DEFINE a == Checks(<<"cast", "slot">>, "usage")
           b == Checks(<<"backend", "key">>, "setup")
           c == Check("field", "usage")
           d == OpenStores
           e == Check("media-off", "usage")
           f == Do("spend", "provider", "failed")
           g == Do("keep", "media-full", "failed")
<1>1. GenerateVerb = (((((a \o b) \o c) \o d) \o e) \o f) \o g
  BY DEF GenerateVerb
<1>2. /\ Is(a, {"check"}, {"cast", "slot"})
      /\ Is(b, {"check"}, {"backend", "key"})
      /\ Is(c, {"check"}, {"field"})
      /\ Is(d, {"open-batches", "open-media"}, {})
      /\ Is(e, {"check"}, {"media-off"})
      /\ Is(f, {"spend"}, {"provider"})
      /\ Is(g, {"keep"}, {"media-full"})
  BY PartsAre, OpenStoresIs DEF Minding, Classes
<1> HIDE DEF a, b, c, d, e, f, g
<1> DEFINE p == ((a \o b) \o c) \o d
<1>3. GenerateVerb = ((p \o e) \o f) \o g
  BY <1>1
<1>4. Is(p, {"check", "open-batches", "open-media"}, {"cast", "slot", "backend", "key", "field"})
  BY <1>2, JoinedPaths DEF Is
<1> HIDE DEF p
<1>5. QED
  BY <1>2, <1>3, <1>4, JoinedPaths DEF Is

LEMMA KaishVerbIs == Is(KaishVerb, {"check"}, {"root", "shell", "worker"})
<1> DEFINE a == Checks(<<"root", "shell">>, "setup")
           b == Check("worker", "failed")
<1>1. KaishVerb = a \o b
  BY DEF KaishVerb
<1>2. /\ Is(a, {"check"}, {"root", "shell"})
      /\ Is(b, {"check"}, {"worker"})
  BY PartsAre DEF Classes
<1> HIDE DEF a, b
<1>3. QED
  BY <1>1, <1>2, JoinedPaths DEF Is

LEMMA BatchSubmitVerbIs ==
  Is(BatchSubmitVerb, {"check", "spend", "open-batches", "record"},
     {"prompts", "cast", "lane", "override", "attach", "image", "key", "provider"})
<1> DEFINE a == Checks(<<"prompts", "cast", "lane", "override">>, "usage")
           b == Check("attach", "setup")
           c == Check("image", "usage")
           d == Check("key", "setup")
           e == Do("spend", "provider", "failed")
           f == Do("open-batches", "none", "failed")
           g == Do("record", "none", "failed")
<1>1. BatchSubmitVerb = (((((a \o b) \o c) \o d) \o e) \o f) \o g
  BY DEF BatchSubmitVerb
<1>2. /\ Is(a, {"check"}, {"prompts", "cast", "lane", "override"})
      /\ Is(b, {"check"}, {"attach"})
      /\ Is(c, {"check"}, {"image"})
      /\ Is(d, {"check"}, {"key"})
      /\ Is(e, {"spend"}, {"provider"})
      /\ Is(f, {"open-batches"}, {})
      /\ Is(g, {"record"}, {})
  BY PartsAre DEF Minding, Classes
<1> HIDE DEF a, b, c, d, e, f, g
<1> DEFINE p == ((a \o b) \o c) \o d
<1>3. BatchSubmitVerb = ((p \o e) \o f) \o g
  BY <1>1
<1>4. Is(p, {"check"}, {"prompts", "cast", "lane", "override", "attach", "image", "key"})
  BY <1>2, JoinedPaths DEF Is
<1> HIDE DEF p
<1>5. QED
  BY <1>2, <1>3, <1>4, JoinedPaths DEF Is

LEMMA BatchGetVerbIs ==
  Is(BatchGetVerb, {"check", "open-batches", "spend"},
     {"handle", "backend", "no-lane", "key", "provider"})
<1> DEFINE a == Checks(<<"handle", "backend">>, "usage")
           b == Checks(<<"no-lane", "key">>, "setup")
           c == Do("open-batches", "none", "failed")
           d == Do("spend", "provider", "failed")
<1>1. BatchGetVerb = ((a \o b) \o c) \o d
  BY DEF BatchGetVerb
<1>2. /\ Is(a, {"check"}, {"handle", "backend"})
      /\ Is(b, {"check"}, {"no-lane", "key"})
      /\ Is(c, {"open-batches"}, {})
      /\ Is(d, {"spend"}, {"provider"})
  BY PartsAre DEF Minding, Classes
<1> HIDE DEF a, b, c, d
<1> DEFINE p == a \o b
<1>3. BatchGetVerb = (p \o c) \o d
  BY <1>1
<1>4. Is(p, {"check"}, {"handle", "backend", "no-lane", "key"})
  BY <1>2, JoinedPaths DEF Is
<1> HIDE DEF p
<1>5. QED
  BY <1>2, <1>3, <1>4, JoinedPaths DEF Is

LEMMA BatchCancelVerbIs ==
  Is(BatchCancelVerb, {"check", "spend"},
     {"handle", "backend", "no-lane", "key", "provider"})
<1> DEFINE a == Checks(<<"handle", "backend", "no-lane">>, "usage")
           b == Check("key", "setup")
           c == Do("spend", "provider", "failed")
<1>1. BatchCancelVerb = (a \o b) \o c
  BY DEF BatchCancelVerb
<1>2. /\ Is(a, {"check"}, {"handle", "backend", "no-lane"})
      /\ Is(b, {"check"}, {"key"})
      /\ Is(c, {"spend"}, {"provider"})
  BY PartsAre DEF Minding, Classes
<1> HIDE DEF a, b, c
<1>3. QED
  BY <1>1, <1>2, JoinedPaths DEF Is

LEMMA BatchListVerbIs ==
  Is(BatchListVerb, {"check", "spend", "open-batches"},
     {"backend", "no-lane", "none"})
<1> DEFINE a == Checks(<<"backend", "no-lane">>, "usage")
           b == Do("spend", "none", "failed")
           c == Do("open-batches", "none", "failed")
<1>1. BatchListVerb = (a \o b) \o c
  BY DEF BatchListVerb
<1>2. /\ Is(a, {"check"}, {"backend", "no-lane"})
      /\ Is(b, {"spend"}, {"none"})
      /\ Is(c, {"open-batches"}, {})
  BY PartsAre DEF Minding, Classes
<1> HIDE DEF a, b, c
<1>3. QED
  BY <1>1, <1>2, JoinedPaths DEF Is

LEMMA ModelsVerbIs == Is(ModelsVerb, {"check", "spend"}, {"backend", "provider"})
<1> DEFINE a == Check("backend", "usage")
           b == Do("spend", "provider", "failed")
<1>1. ModelsVerb = a \o b
  BY DEF ModelsVerb
<1>2. /\ Is(a, {"check"}, {"backend"})
      /\ Is(b, {"spend"}, {"provider"})
  BY PartsAre DEF Minding, Classes
<1> HIDE DEF a, b
<1>3. QED
  BY <1>1, <1>2, JoinedPaths DEF Is

LEMMA CasWriteVerbIs ==
  Is(CasWriteVerb, {"open-batches", "open-media", "check", "durable", "keep"},
     {"media-off", "content", "media-full"})
<1> DEFINE a == OpenStores
           b == Check("media-off", "usage")
           c == Do("durable", "none", "setup")
           d == Check("content", "usage")
           e == Do("keep", "media-full", "setup")
<1>1. CasWriteVerb = (((a \o b) \o c) \o d) \o e
  BY DEF CasWriteVerb
<1>2. /\ Is(a, {"open-batches", "open-media"}, {})
      /\ Is(b, {"check"}, {"media-off"})
      /\ Is(c, {"durable"}, {})
      /\ Is(d, {"check"}, {"content"})
      /\ Is(e, {"keep"}, {"media-full"})
  BY OpenStoresIs, PartsAre DEF Minding, Classes
<1> HIDE DEF a, b, c, d, e
<1>3. QED
  BY <1>1, <1>2, JoinedPaths DEF Is

LEMMA CasReadVerbIs ==
  Is(CasReadVerb, {"open-batches", "open-media", "check", "durable"},
     {"media-off", "digest", "absent", "range"})
<1> DEFINE a == OpenStores
           b == Check("media-off", "usage")
           c == Do("durable", "none", "setup")
           d == Checks(<<"digest", "absent", "range">>, "usage")
<1>1. CasReadVerb = ((a \o b) \o c) \o d
  BY DEF CasReadVerb
<1>2. /\ Is(a, {"open-batches", "open-media"}, {})
      /\ Is(b, {"check"}, {"media-off"})
      /\ Is(c, {"durable"}, {})
      /\ Is(d, {"check"}, {"digest", "absent", "range"})
  BY OpenStoresIs, PartsAre DEF Minding, Classes
<1> HIDE DEF a, b, c, d
<1>3. QED
  BY <1>1, <1>2, JoinedPaths DEF Is

-----------------------------------------------------------------------------
(* The two doors: every refusal is free, and a store is opened in its turn. *)

LEMMA Grows ==
  ASSUME NEW a, IsPath(a), NEW b, IsPath(b), NEW but
  PROVE  /\ IsPath(a \o b)
         /\ Cheap(a) => CostFree(a, but)
         /\ Cheap(a) /\ Cheap(b) => Cheap(a \o b)
         /\ CostFree(a, but) /\ Firm(b, but) => CostFree(a \o b, but)
         /\ Cheap(a) /\ CostFree(b, but) => CostFree(a \o b, but)
         /\ Firm(a, but) /\ Firm(b, but) => Firm(a \o b, but)
<1>1. IsPath(a \o b) /\ Does(a \o b) = Does(a) \cup Does(b)
  BY JoinedPaths
<1>2. Cheap(a) => CostFree(a, but)
  BY CheapIsFree
<1>3. Cheap(a) /\ Cheap(b) => Cheap(a \o b)
  BY <1>1 DEF Cheap
<1>4. CostFree(a, but) /\ Firm(b, but) => CostFree(a \o b, but)
  BY JoinedIsFree
<1>5. Cheap(a) /\ CostFree(b, but) => CostFree(a \o b, but)
  BY <1>2, JoinedIsFree
<1>6. Firm(a, but) /\ Firm(b, but) => Firm(a \o b, but)
  BY JoinedIsFirm
<1>7. QED
  BY <1>1, <1>2, <1>3, <1>4, <1>5, <1>6

LEMMA CheapJoins ==
  ASSUME NEW a, IsPath(a), NEW b, IsPath(b), Cheap(a), Cheap(b)
  PROVE  IsPath(a \o b) /\ Cheap(a \o b)
BY Grows

LEMMA PartsGrow ==
  ASSUME NEW c \in Classes, NEW s, NEW but
  PROVE  /\ \A w : /\ IsPath(Check(w, c)) /\ Cheap(Check(w, c))
                   /\ c \notin Refusals \/ w \in but => Firm(Check(w, c), but)
         /\ \A w : /\ IsPath(Do(s, w, c)) /\ (s \notin Costs => Cheap(Do(s, w, c)))
                   /\ c \notin Refusals => Firm(Do(s, w, c), but)
                   /\ s # "spend" => CostFree(Do(s, w, c), but)
         /\ \A ws : Is(Checks(ws, c), {"check"}, Minded(Checks(ws, c))) =>
              IsPath(Checks(ws, c)) /\ Cheap(Checks(ws, c))
<1>1. "check" \notin Costs
  BY DEF Costs
<1>2. ASSUME NEW w
      PROVE  /\ IsPath(Check(w, c)) /\ Cheap(Check(w, c))
             /\ c \notin Refusals \/ w \in but => Firm(Check(w, c), but)
  BY <1>1, OneCheck, OneIsFree DEF Cheap
<1>3. ASSUME NEW w
      PROVE  /\ IsPath(Do(s, w, c)) /\ (s \notin Costs => Cheap(Do(s, w, c)))
             /\ c \notin Refusals => Firm(Do(s, w, c), but)
             /\ s # "spend" => CostFree(Do(s, w, c), but)
  <2>1. IsPath(Do(s, w, c)) /\ Does(Do(s, w, c)) = {s}
    BY OneDo
  <2>2. s \notin Costs => Cheap(Do(s, w, c))
    BY <2>1 DEF Cheap
  <2>3. QED
    BY <2>1, <2>2, OneIsFree
<1>4. ASSUME NEW ws, Is(Checks(ws, c), {"check"}, Minded(Checks(ws, c)))
      PROVE  IsPath(Checks(ws, c)) /\ Cheap(Checks(ws, c))
  BY <1>1, <1>4 DEF Is, Cheap
<1>5. QED
  BY <1>2, <1>3, <1>4

LEMMA CheapParts ==
  ASSUME NEW a, NEW d, NEW m, Is(a, d, m), d \cap Costs = {}
  PROVE  IsPath(a) /\ Cheap(a)
BY DEF Is, Cheap

LEMMA ConsultCallFree == \A but : CostFree(ConsultCall, but)
<1> DEFINE a == ConsultChecks
           b == Do("spend", "provider", "failed")
           c == Do("turn", "none", "failed")
<1>1. ConsultCall = (a \o b) \o c
  BY DEF ConsultCall
<1>2. /\ Is(a, {"check"}, {"gated", "root", "cast", "lane", "override", "solo",
                               "explorer-key", "key", "attach", "image", "rules", "artifacts"})
  BY ConsultChecksIs
<1>3. ASSUME NEW but PROVE IsPath(b) /\ Firm(b, but) /\ IsPath(c) /\ Firm(c, but)
  BY PartsGrow DEF Classes, Refusals
<1> HIDE DEF a, b, c
<1>4. IsPath(a) /\ Cheap(a)
  BY <1>2, CheapParts DEF Costs
<1>5. QED
  BY <1>1, <1>3, <1>4, Grows

LEMMA ConsultSubmitCallFree == \A but : CostFree(ConsultSubmitCall, but)
<1> DEFINE a == ConsultChecks
           b == Do("job", "none", "failed")
<1>1. ConsultSubmitCall = a \o b
  BY DEF ConsultSubmitCall
<1>2. /\ Is(a, {"check"}, {"gated", "root", "cast", "lane", "override", "solo",
                               "explorer-key", "key", "attach", "image", "rules", "artifacts"})
  BY ConsultChecksIs
<1>3. ASSUME NEW but PROVE IsPath(b) /\ Firm(b, but)
  BY PartsGrow DEF Classes, Refusals
<1> HIDE DEF a, b
<1>4. IsPath(a) /\ Cheap(a)
  BY <1>2, CheapParts DEF Costs
<1>5. QED
  BY <1>1, <1>3, <1>4, Grows

LEMMA ExploreCallFree == \A but : CostFree(ExploreCall, but)
<1> DEFINE a == Gated
           b == Checks(<<"root", "cast", "override">>, "params")
           c == Check("key", "internal")
           d == Check("attach", "params")
           e == Check("rules", "internal")
           f == Do("spend", "provider", "failed")
<1>1. ExploreCall = ((((a \o b) \o c) \o d) \o e) \o f
  BY DEF ExploreCall
<1>2. /\ Is(a, {"check"}, {"gated"})
      /\ Is(b, {"check"}, {"root", "cast", "override"})
      /\ Is(c, {"check"}, {"key"})
      /\ Is(d, {"check"}, {"attach"})
      /\ Is(e, {"check"}, {"rules"})
  BY GatedIs, PartsAre DEF Minding, Classes
<1>3. ASSUME NEW but PROVE IsPath(f) /\ Firm(f, but)
  BY PartsGrow DEF Classes, Refusals
<1> HIDE DEF a, b, c, d, e, f
<1>4. /\ IsPath(a) /\ Cheap(a) /\ IsPath(b) /\ Cheap(b) /\ IsPath(c) /\ Cheap(c) /\ IsPath(d)
      /\ Cheap(d) /\ IsPath(e) /\ Cheap(e)
  BY <1>2, CheapParts DEF Costs
<1> DEFINE p == (((a \o b) \o c) \o d) \o e
<1>5. IsPath(p) /\ Cheap(p) /\ ExploreCall = p \o f
  BY <1>1, <1>4, CheapJoins
<1> HIDE DEF p
<1>6. QED
  BY <1>3, <1>5, Grows

LEMMA OneshotCallFree == \A but : CostFree(OneshotCall, but)
<1> DEFINE a == Gated
           b == Checks(<<"cast", "lane", "override">>, "params")
           c == Check("key", "internal")
           d == Checks(<<"attach", "image">>, "params")
           e == Do("spend", "provider", "failed")
<1>1. OneshotCall = (((a \o b) \o c) \o d) \o e
  BY DEF OneshotCall
<1>2. /\ Is(a, {"check"}, {"gated"})
      /\ Is(b, {"check"}, {"cast", "lane", "override"})
      /\ Is(c, {"check"}, {"key"})
      /\ Is(d, {"check"}, {"attach", "image"})
  BY GatedIs, PartsAre DEF Minding, Classes
<1>3. ASSUME NEW but PROVE IsPath(e) /\ Firm(e, but)
  BY PartsGrow DEF Classes, Refusals
<1> HIDE DEF a, b, c, d, e
<1>4. /\ IsPath(a) /\ Cheap(a) /\ IsPath(b) /\ Cheap(b) /\ IsPath(c) /\ Cheap(c) /\ IsPath(d)
      /\ Cheap(d)
  BY <1>2, CheapParts DEF Costs
<1> DEFINE p == ((a \o b) \o c) \o d
<1>5. IsPath(p) /\ Cheap(p) /\ OneshotCall = p \o e
  BY <1>1, <1>4, CheapJoins
<1> HIDE DEF p
<1>6. QED
  BY <1>3, <1>5, Grows

LEMMA DecideCallFree == \A but : CostFree(DecideCall, but)
<1> DEFINE a == Gated
           b == Checks(<<"cast", "slot">>, "params")
           c == Check("backend", "internal")
           d == Checks(<<"question", "key">>, "params")
           e == Do("spend", "provider", "failed")
<1>1. DecideCall = (((a \o b) \o c) \o d) \o e
  BY DEF DecideCall
<1>2. /\ Is(a, {"check"}, {"gated"})
      /\ Is(b, {"check"}, {"cast", "slot"})
      /\ Is(c, {"check"}, {"backend"})
      /\ Is(d, {"check"}, {"question", "key"})
  BY GatedIs, PartsAre DEF Minding, Classes
<1>3. ASSUME NEW but PROVE IsPath(e) /\ Firm(e, but)
  BY PartsGrow DEF Classes, Refusals
<1> HIDE DEF a, b, c, d, e
<1>4. /\ IsPath(a) /\ Cheap(a) /\ IsPath(b) /\ Cheap(b) /\ IsPath(c) /\ Cheap(c) /\ IsPath(d)
      /\ Cheap(d)
  BY <1>2, CheapParts DEF Costs
<1> DEFINE p == ((a \o b) \o c) \o d
<1>5. IsPath(p) /\ Cheap(p) /\ DecideCall = p \o e
  BY <1>1, <1>4, CheapJoins
<1> HIDE DEF p
<1>6. QED
  BY <1>3, <1>5, Grows

LEMMA SweepCallFree == \A but : CostFree(SweepCall, but)
<1> DEFINE a == Check("key", "internal")
           b == Check("attach", "params")
           c == Check("rules", "internal")
           d == Do("spend", "provider", "failed")
           e == Do("keep-dossier", "none", "failed")
<1>1. SweepCall = (((a \o b) \o c) \o d) \o e
  BY DEF SweepCall
<1>2. /\ Is(a, {"check"}, {"key"})
      /\ Is(b, {"check"}, {"attach"})
      /\ Is(c, {"check"}, {"rules"})
  BY PartsAre DEF Minding, Classes
<1>3. ASSUME NEW but PROVE IsPath(d) /\ Firm(d, but) /\ IsPath(e) /\ Firm(e, but)
  BY PartsGrow DEF Classes, Refusals
<1> HIDE DEF a, b, c, d, e
<1>4. IsPath(a) /\ Cheap(a) /\ IsPath(b) /\ Cheap(b) /\ IsPath(c) /\ Cheap(c)
  BY <1>2, CheapParts DEF Costs
<1> DEFINE p == (a \o b) \o c
<1>5. IsPath(p) /\ Cheap(p) /\ SweepCall = (p \o d) \o e
  BY <1>1, <1>4, CheapJoins
<1> HIDE DEF p
<1>6. QED
  BY <1>3, <1>5, Grows

LEMMA DeliberateBatchCallFree == \A but : CostFree(DeliberateBatchCall, but)
<1> DEFINE a == Check("synth-key", "params")
           b == Do("spend", "synth", "internal")
           c == Do("record", "none", "failed")
<1>1. DeliberateBatchCall = (a \o b) \o c
  BY DEF DeliberateBatchCall
<1>2. /\ Is(a, {"check"}, {"synth-key"})
  BY PartsAre DEF Minding, Classes
<1>3. ASSUME NEW but PROVE IsPath(b) /\ Firm(b, but) /\ IsPath(c) /\ Firm(c, but)
  BY PartsGrow DEF Classes, Refusals
<1> HIDE DEF a, b, c
<1>4. IsPath(a) /\ Cheap(a)
  BY <1>2, CheapParts DEF Costs
<1>5. QED
  BY <1>1, <1>3, <1>4, Grows

LEMMA DeliberateDirectCallFree == \A but : CostFree(DeliberateDirectCall, but)
<1> DEFINE a == Check("synth-key", "internal")
           b == Do("job", "none", "failed")
<1>1. DeliberateDirectCall = a \o b
  BY DEF DeliberateDirectCall
<1>2. /\ Is(a, {"check"}, {"synth-key"})
  BY PartsAre DEF Minding, Classes
<1>3. ASSUME NEW but PROVE IsPath(b) /\ Firm(b, but)
  BY PartsGrow DEF Classes, Refusals
<1> HIDE DEF a, b
<1>4. IsPath(a) /\ Cheap(a)
  BY <1>2, CheapParts DEF Costs
<1>5. QED
  BY <1>1, <1>3, <1>4, Grows

LEMMA GenerateCallFree == \A but : CostFree(GenerateCall, but)
<1> DEFINE a == Gated
           b == Checks(<<"media-off", "cast", "slot">>, "params")
           c == Check("backend", "internal")
           d == Checks(<<"key", "field", "input">>, "params")
           e == Do("spend", "provider", "failed")
           f == Do("keep", "media-full", "failed")
<1>1. GenerateCall = ((((a \o b) \o c) \o d) \o e) \o f
  BY DEF GenerateCall
<1>2. /\ Is(a, {"check"}, {"gated"})
      /\ Is(b, {"check"}, {"media-off", "cast", "slot"})
      /\ Is(c, {"check"}, {"backend"})
      /\ Is(d, {"check"}, {"key", "field", "input"})
  BY GatedIs, PartsAre DEF Minding, Classes
<1>3. ASSUME NEW but PROVE IsPath(e) /\ Firm(e, but) /\ IsPath(f) /\ Firm(f, but)
  BY PartsGrow DEF Classes, Refusals
<1> HIDE DEF a, b, c, d, e, f
<1>4. /\ IsPath(a) /\ Cheap(a) /\ IsPath(b) /\ Cheap(b) /\ IsPath(c) /\ Cheap(c) /\ IsPath(d)
      /\ Cheap(d)
  BY <1>2, CheapParts DEF Costs
<1> DEFINE p == ((a \o b) \o c) \o d
<1>5. IsPath(p) /\ Cheap(p) /\ GenerateCall = (p \o e) \o f
  BY <1>1, <1>4, CheapJoins
<1> HIDE DEF p
<1>6. QED
  BY <1>3, <1>5, Grows

LEMMA BatchSubmitCallFree == \A but : CostFree(BatchSubmitCall, but)
<1> DEFINE a == Gated
           b == Checks(<<"prompts", "cast", "lane", "override", "attach", "image">>, "params")
           c == Check("key", "internal")
           d == Do("spend", "provider", "internal")
           e == Do("record", "none", "failed")
<1>1. BatchSubmitCall = (((a \o b) \o c) \o d) \o e
  BY DEF BatchSubmitCall
<1>2. /\ Is(a, {"check"}, {"gated"})
      /\ Is(b, {"check"}, {"prompts", "cast", "lane", "override", "attach", "image"})
      /\ Is(c, {"check"}, {"key"})
  BY GatedIs, PartsAre DEF Minding, Classes
<1>3. ASSUME NEW but PROVE IsPath(d) /\ Firm(d, but) /\ IsPath(e) /\ Firm(e, but)
  BY PartsGrow DEF Classes, Refusals
<1> HIDE DEF a, b, c, d, e
<1>4. IsPath(a) /\ Cheap(a) /\ IsPath(b) /\ Cheap(b) /\ IsPath(c) /\ Cheap(c)
  BY <1>2, CheapParts DEF Costs
<1> DEFINE p == (a \o b) \o c
<1>5. IsPath(p) /\ Cheap(p) /\ BatchSubmitCall = (p \o d) \o e
  BY <1>1, <1>4, CheapJoins
<1> HIDE DEF p
<1>6. QED
  BY <1>3, <1>5, Grows

LEMMA BatchGetCallFree == \A but : CostFree(BatchGetCall, but)
<1> DEFINE a == Check("handle", "params")
           b == Enabled
           c == Checks(<<"backend", "no-lane", "key">>, "params")
           d == Do("spend", "provider", "internal")
<1>1. BatchGetCall = ((a \o b) \o c) \o d
  BY DEF BatchGetCall
<1>2. /\ Is(a, {"check"}, {"handle"})
      /\ Is(b, {"check"}, {"gated"})
      /\ Is(c, {"check"}, {"backend", "no-lane", "key"})
  BY PartsAre, EnabledIs DEF Minding, Classes
<1>3. ASSUME NEW but PROVE IsPath(d) /\ Firm(d, but)
  BY PartsGrow DEF Classes, Refusals
<1> HIDE DEF a, b, c, d
<1>4. IsPath(a) /\ Cheap(a) /\ IsPath(b) /\ Cheap(b) /\ IsPath(c) /\ Cheap(c)
  BY <1>2, CheapParts DEF Costs
<1> DEFINE p == (a \o b) \o c
<1>5. IsPath(p) /\ Cheap(p) /\ BatchGetCall = p \o d
  BY <1>1, <1>4, CheapJoins
<1> HIDE DEF p
<1>6. QED
  BY <1>3, <1>5, Grows

LEMMA BatchListCallFree == \A but : CostFree(BatchListCall, but)
<1> DEFINE a == Gated
           b == Do("spend", "none", "failed")
<1>1. BatchListCall = a \o b
  BY DEF BatchListCall
<1>2. /\ Is(a, {"check"}, {"gated"})
  BY GatedIs
<1>3. ASSUME NEW but PROVE IsPath(b) /\ Firm(b, but)
  BY PartsGrow DEF Classes, Refusals
<1> HIDE DEF a, b
<1>4. IsPath(a) /\ Cheap(a)
  BY <1>2, CheapParts DEF Costs
<1>5. QED
  BY <1>1, <1>3, <1>4, Grows

LEMMA ListModelsCallFree == \A but : CostFree(ListModelsCall, but)
<1> DEFINE a == Gated
           b == Checks(<<"backend">>, "params")
           c == Do("spend", "none", "failed")
<1>1. ListModelsCall = (a \o b) \o c
  BY DEF ListModelsCall
<1>2. /\ Is(a, {"check"}, {"gated"})
      /\ Is(b, {"check"}, {"backend"})
  BY GatedIs, PartsAre DEF Minding, Classes
<1>3. ASSUME NEW but PROVE IsPath(c) /\ Firm(c, but)
  BY PartsGrow DEF Classes, Refusals
<1> HIDE DEF a, b, c
<1>4. IsPath(a) /\ Cheap(a) /\ IsPath(b) /\ Cheap(b)
  BY <1>2, CheapParts DEF Costs
<1> DEFINE p == a \o b
<1>5. IsPath(p) /\ Cheap(p) /\ ListModelsCall = p \o c
  BY <1>1, <1>4, CheapJoins
<1> HIDE DEF p
<1>6. QED
  BY <1>3, <1>5, Grows

LEMMA WriteCasCallFree == \A but : CostFree(WriteCasCall, but)
<1> DEFINE a == Checks(<<"media-off", "outside", "content">>, "params")
           b == Do("keep", "media-full", "internal")
<1>1. WriteCasCall = a \o b
  BY DEF WriteCasCall
<1>2. /\ Is(a, {"check"}, {"media-off", "outside", "content"})
  BY PartsAre DEF Minding, Classes
<1>3. ASSUME NEW but PROVE IsPath(b) /\ Firm(b, but)
  BY PartsGrow DEF Classes, Refusals
<1> HIDE DEF a, b
<1>4. IsPath(a) /\ Cheap(a)
  BY <1>2, CheapParts DEF Costs
<1>5. QED
  BY <1>1, <1>3, <1>4, Grows

LEMMA ConsultVerbFree == \A but : CostFree(ConsultVerb, but)
<1> DEFINE a == Check("root", "setup")
           b == Checks(<<"cast", "lane", "override", "solo", "explorer-key">>, "usage")
           c == Checks(<<"key", "attach">>, "setup")
           d == Check("image", "usage")
           e == Do("open-sessions", "state-db", "setup")
           f == Check("rules", "setup")
           g == Do("spend", "provider", "failed")
           h == Do("turn", "none", "failed")
<1>1. ConsultVerb = ((((((a \o b) \o c) \o d) \o e) \o f) \o g) \o h
  BY DEF ConsultVerb
<1>2. /\ Is(a, {"check"}, {"root"})
      /\ Is(b, {"check"}, {"cast", "lane", "override", "solo", "explorer-key"})
      /\ Is(c, {"check"}, {"key", "attach"})
      /\ Is(d, {"check"}, {"image"})
      /\ Is(e, {"open-sessions"}, {})
      /\ Is(f, {"check"}, {"rules"})
  BY PartsAre DEF Minding, Classes
<1>3. ASSUME NEW but PROVE IsPath(g) /\ Firm(g, but) /\ IsPath(h) /\ Firm(h, but)
  BY PartsGrow DEF Classes, Refusals
<1> HIDE DEF a, b, c, d, e, f, g, h
<1>4. /\ IsPath(a) /\ Cheap(a) /\ IsPath(b) /\ Cheap(b) /\ IsPath(c) /\ Cheap(c) /\ IsPath(d)
      /\ Cheap(d) /\ IsPath(e) /\ Cheap(e) /\ IsPath(f) /\ Cheap(f)
  BY <1>2, CheapParts DEF Costs
<1> DEFINE p == ((((a \o b) \o c) \o d) \o e) \o f
<1>5. IsPath(p) /\ Cheap(p) /\ ConsultVerb = (p \o g) \o h
  BY <1>1, <1>4, CheapJoins
<1> HIDE DEF p
<1>6. QED
  BY <1>3, <1>5, Grows

LEMMA ExploreVerbFree == \A but : CostFree(ExploreVerb, but)
<1> DEFINE a == Check("root", "setup")
           b == Checks(<<"cast", "override">>, "usage")
           c == Checks(<<"key", "attach", "rules">>, "setup")
           d == Do("spend", "provider", "failed")
<1>1. ExploreVerb = ((a \o b) \o c) \o d
  BY DEF ExploreVerb
<1>2. /\ Is(a, {"check"}, {"root"})
      /\ Is(b, {"check"}, {"cast", "override"})
      /\ Is(c, {"check"}, {"key", "attach", "rules"})
  BY PartsAre DEF Minding, Classes
<1>3. ASSUME NEW but PROVE IsPath(d) /\ Firm(d, but)
  BY PartsGrow DEF Classes, Refusals
<1> HIDE DEF a, b, c, d
<1>4. IsPath(a) /\ Cheap(a) /\ IsPath(b) /\ Cheap(b) /\ IsPath(c) /\ Cheap(c)
  BY <1>2, CheapParts DEF Costs
<1> DEFINE p == (a \o b) \o c
<1>5. IsPath(p) /\ Cheap(p) /\ ExploreVerb = p \o d
  BY <1>1, <1>4, CheapJoins
<1> HIDE DEF p
<1>6. QED
  BY <1>3, <1>5, Grows

LEMMA OneshotVerbFree == \A but : CostFree(OneshotVerb, but)
<1> DEFINE a == Checks(<<"cast", "lane", "override">>, "usage")
           b == Checks(<<"key", "attach">>, "setup")
           c == Check("image", "usage")
           d == Piped
           e == Do("spend", "provider", "failed")
<1>1. OneshotVerb = (((a \o b) \o c) \o d) \o e
  BY DEF OneshotVerb
<1>2. /\ Is(a, {"check"}, {"cast", "lane", "override"})
      /\ Is(b, {"check"}, {"key", "attach"})
      /\ Is(c, {"check"}, {"image"})
      /\ Is(d, {"check"}, {"stdin"})
  BY PartsAre, PipedIs DEF Minding, Classes
<1>3. ASSUME NEW but PROVE IsPath(e) /\ Firm(e, but)
  BY PartsGrow DEF Classes, Refusals
<1> HIDE DEF a, b, c, d, e
<1>4. /\ IsPath(a) /\ Cheap(a) /\ IsPath(b) /\ Cheap(b) /\ IsPath(c) /\ Cheap(c) /\ IsPath(d)
      /\ Cheap(d)
  BY <1>2, CheapParts DEF Costs
<1> DEFINE p == ((a \o b) \o c) \o d
<1>5. IsPath(p) /\ Cheap(p) /\ OneshotVerb = p \o e
  BY <1>1, <1>4, CheapJoins
<1> HIDE DEF p
<1>6. QED
  BY <1>3, <1>5, Grows

LEMMA SweepVerbFree == \A but : CostFree(SweepVerb, but)
<1> DEFINE a == Checks(<<"key", "attach", "rules">>, "setup")
           b == Do("spend", "provider", "failed")
           c == Do("keep-dossier", "none", "failed")
<1>1. SweepVerb = (a \o b) \o c
  BY DEF SweepVerb
<1>2. /\ Is(a, {"check"}, {"key", "attach", "rules"})
  BY PartsAre DEF Minding, Classes
<1>3. ASSUME NEW but PROVE IsPath(b) /\ Firm(b, but) /\ IsPath(c) /\ Firm(c, but)
  BY PartsGrow DEF Classes, Refusals
<1> HIDE DEF a, b, c
<1>4. IsPath(a) /\ Cheap(a)
  BY <1>2, CheapParts DEF Costs
<1>5. QED
  BY <1>1, <1>3, <1>4, Grows

LEMMA DeliberateBatchVerbFree == \A but : CostFree(DeliberateBatchVerb, but)
<1> DEFINE a == Check("synth-key", "setup")
           b == Do("spend", "synth", "failed")
           c == Do("record", "none", "failed")
<1>1. DeliberateBatchVerb = (a \o b) \o c
  BY DEF DeliberateBatchVerb
<1>2. /\ Is(a, {"check"}, {"synth-key"})
  BY PartsAre DEF Minding, Classes
<1>3. ASSUME NEW but PROVE IsPath(b) /\ Firm(b, but) /\ IsPath(c) /\ Firm(c, but)
  BY PartsGrow DEF Classes, Refusals
<1> HIDE DEF a, b, c
<1>4. IsPath(a) /\ Cheap(a)
  BY <1>2, CheapParts DEF Costs
<1>5. QED
  BY <1>1, <1>3, <1>4, Grows

LEMMA DeliberateDirectVerbFree == \A but : CostFree(DeliberateDirectVerb, but)
<1> DEFINE a == Check("synth-key", "setup")
           b == Do("spend", "synth", "failed")
<1>1. DeliberateDirectVerb = a \o b
  BY DEF DeliberateDirectVerb
<1>2. /\ Is(a, {"check"}, {"synth-key"})
  BY PartsAre DEF Minding, Classes
<1>3. ASSUME NEW but PROVE IsPath(b) /\ Firm(b, but)
  BY PartsGrow DEF Classes, Refusals
<1> HIDE DEF a, b
<1>4. IsPath(a) /\ Cheap(a)
  BY <1>2, CheapParts DEF Costs
<1>5. QED
  BY <1>1, <1>3, <1>4, Grows

LEMMA GenerateVerbFree == \A but : CostFree(GenerateVerb, but)
<1> DEFINE a == Checks(<<"cast", "slot">>, "usage")
           b == Checks(<<"backend", "key">>, "setup")
           c == Check("field", "usage")
           d == OpenStores
           e == Check("media-off", "usage")
           f == Do("spend", "provider", "failed")
           g == Do("keep", "media-full", "failed")
<1>1. GenerateVerb = (((((a \o b) \o c) \o d) \o e) \o f) \o g
  BY DEF GenerateVerb
<1>2. /\ Is(a, {"check"}, {"cast", "slot"})
      /\ Is(b, {"check"}, {"backend", "key"})
      /\ Is(c, {"check"}, {"field"})
      /\ Is(d, {"open-batches", "open-media"}, {})
      /\ Is(e, {"check"}, {"media-off"})
  BY PartsAre, OpenStoresIs DEF Minding, Classes
<1>3. ASSUME NEW but PROVE IsPath(f) /\ Firm(f, but) /\ IsPath(g) /\ Firm(g, but)
  BY PartsGrow DEF Classes, Refusals
<1> HIDE DEF a, b, c, d, e, f, g
<1>4. /\ IsPath(a) /\ Cheap(a) /\ IsPath(b) /\ Cheap(b) /\ IsPath(c) /\ Cheap(c) /\ IsPath(d)
      /\ Cheap(d) /\ IsPath(e) /\ Cheap(e)
  BY <1>2, CheapParts DEF Costs
<1> DEFINE p == (((a \o b) \o c) \o d) \o e
<1>5. IsPath(p) /\ Cheap(p) /\ GenerateVerb = (p \o f) \o g
  BY <1>1, <1>4, CheapJoins
<1> HIDE DEF p
<1>6. QED
  BY <1>3, <1>5, Grows

LEMMA BatchSubmitVerbFree == \A but : CostFree(BatchSubmitVerb, but)
<1> DEFINE a == Checks(<<"prompts", "cast", "lane", "override">>, "usage")
           b == Check("attach", "setup")
           c == Check("image", "usage")
           d == Check("key", "setup")
           e == Do("spend", "provider", "failed")
           f == Do("open-batches", "none", "failed")
           g == Do("record", "none", "failed")
<1>1. BatchSubmitVerb = (((((a \o b) \o c) \o d) \o e) \o f) \o g
  BY DEF BatchSubmitVerb
<1>2. /\ Is(a, {"check"}, {"prompts", "cast", "lane", "override"})
      /\ Is(b, {"check"}, {"attach"})
      /\ Is(c, {"check"}, {"image"})
      /\ Is(d, {"check"}, {"key"})
  BY PartsAre DEF Minding, Classes
<1>3. ASSUME NEW but
      PROVE  /\ IsPath(e) /\ Firm(e, but) /\ IsPath(f) /\ Firm(f, but) /\ IsPath(g)
             /\ Firm(g, but)
  BY PartsGrow DEF Classes, Refusals
<1> HIDE DEF a, b, c, d, e, f, g
<1>4. /\ IsPath(a) /\ Cheap(a) /\ IsPath(b) /\ Cheap(b) /\ IsPath(c) /\ Cheap(c) /\ IsPath(d)
      /\ Cheap(d)
  BY <1>2, CheapParts DEF Costs
<1> DEFINE p == ((a \o b) \o c) \o d
<1>5. IsPath(p) /\ Cheap(p) /\ BatchSubmitVerb = ((p \o e) \o f) \o g
  BY <1>1, <1>4, CheapJoins
<1> HIDE DEF p
<1>6. QED
  BY <1>3, <1>5, Grows

LEMMA BatchGetVerbFree == \A but : CostFree(BatchGetVerb, but)
<1> DEFINE a == Checks(<<"handle", "backend">>, "usage")
           b == Checks(<<"no-lane", "key">>, "setup")
           c == Do("open-batches", "none", "failed")
           d == Do("spend", "provider", "failed")
<1>1. BatchGetVerb = ((a \o b) \o c) \o d
  BY DEF BatchGetVerb
<1>2. /\ Is(a, {"check"}, {"handle", "backend"})
      /\ Is(b, {"check"}, {"no-lane", "key"})
      /\ Is(c, {"open-batches"}, {})
  BY PartsAre DEF Minding, Classes
<1>3. ASSUME NEW but PROVE IsPath(d) /\ Firm(d, but)
  BY PartsGrow DEF Classes, Refusals
<1> HIDE DEF a, b, c, d
<1>4. IsPath(a) /\ Cheap(a) /\ IsPath(b) /\ Cheap(b) /\ IsPath(c) /\ Cheap(c)
  BY <1>2, CheapParts DEF Costs
<1> DEFINE p == (a \o b) \o c
<1>5. IsPath(p) /\ Cheap(p) /\ BatchGetVerb = p \o d
  BY <1>1, <1>4, CheapJoins
<1> HIDE DEF p
<1>6. QED
  BY <1>3, <1>5, Grows

LEMMA BatchCancelVerbFree == \A but : CostFree(BatchCancelVerb, but)
<1> DEFINE a == Checks(<<"handle", "backend", "no-lane">>, "usage")
           b == Check("key", "setup")
           c == Do("spend", "provider", "failed")
<1>1. BatchCancelVerb = (a \o b) \o c
  BY DEF BatchCancelVerb
<1>2. /\ Is(a, {"check"}, {"handle", "backend", "no-lane"})
      /\ Is(b, {"check"}, {"key"})
  BY PartsAre DEF Minding, Classes
<1>3. ASSUME NEW but PROVE IsPath(c) /\ Firm(c, but)
  BY PartsGrow DEF Classes, Refusals
<1> HIDE DEF a, b, c
<1>4. IsPath(a) /\ Cheap(a) /\ IsPath(b) /\ Cheap(b)
  BY <1>2, CheapParts DEF Costs
<1> DEFINE p == a \o b
<1>5. IsPath(p) /\ Cheap(p) /\ BatchCancelVerb = p \o c
  BY <1>1, <1>4, CheapJoins
<1> HIDE DEF p
<1>6. QED
  BY <1>3, <1>5, Grows

LEMMA BatchListVerbFree == \A but : CostFree(BatchListVerb, but)
<1> DEFINE a == Checks(<<"backend", "no-lane">>, "usage")
           b == Do("spend", "none", "failed")
           c == Do("open-batches", "none", "failed")
<1>1. BatchListVerb = (a \o b) \o c
  BY DEF BatchListVerb
<1>2. /\ Is(a, {"check"}, {"backend", "no-lane"})
  BY PartsAre DEF Minding, Classes
<1>3. ASSUME NEW but PROVE IsPath(b) /\ Firm(b, but) /\ IsPath(c) /\ Firm(c, but)
  BY PartsGrow DEF Classes, Refusals
<1> HIDE DEF a, b, c
<1>4. IsPath(a) /\ Cheap(a)
  BY <1>2, CheapParts DEF Costs
<1>5. QED
  BY <1>1, <1>3, <1>4, Grows

LEMMA ModelsVerbFree == \A but : CostFree(ModelsVerb, but)
<1> DEFINE a == Check("backend", "usage")
           b == Do("spend", "provider", "failed")
<1>1. ModelsVerb = a \o b
  BY DEF ModelsVerb
<1>2. /\ Is(a, {"check"}, {"backend"})
  BY PartsAre DEF Minding, Classes
<1>3. ASSUME NEW but PROVE IsPath(b) /\ Firm(b, but)
  BY PartsGrow DEF Classes, Refusals
<1> HIDE DEF a, b
<1>4. IsPath(a) /\ Cheap(a)
  BY <1>2, CheapParts DEF Costs
<1>5. QED
  BY <1>1, <1>3, <1>4, Grows

LEMMA CasWriteVerbFree == \A but : CostFree(CasWriteVerb, but)
<1> DEFINE a == OpenStores
           b == Check("media-off", "usage")
           c == Do("durable", "none", "setup")
           d == Check("content", "usage")
           e == Do("keep", "media-full", "setup")
<1>1. CasWriteVerb = (((a \o b) \o c) \o d) \o e
  BY DEF CasWriteVerb
<1>2. /\ Is(a, {"open-batches", "open-media"}, {})
      /\ Is(b, {"check"}, {"media-off"})
      /\ Is(c, {"durable"}, {})
      /\ Is(d, {"check"}, {"content"})
  BY OpenStoresIs, PartsAre DEF Minding, Classes
<1>3. ASSUME NEW but PROVE IsPath(e) /\ CostFree(e, but)
  BY PartsGrow DEF Classes, Refusals
<1> HIDE DEF a, b, c, d, e
<1>4. /\ IsPath(a) /\ Cheap(a) /\ IsPath(b) /\ Cheap(b) /\ IsPath(c) /\ Cheap(c) /\ IsPath(d)
      /\ Cheap(d)
  BY <1>2, CheapParts DEF Costs
<1> DEFINE p == ((a \o b) \o c) \o d
<1>5. IsPath(p) /\ Cheap(p) /\ CasWriteVerb = p \o e
  BY <1>1, <1>4, CheapJoins
<1> HIDE DEF p
<1>6. QED
  BY <1>3, <1>5, Grows

LEMMA NothingIs == Is(<< >>, {}, {}) /\ \A but : CostFree(<< >>, but)
<1>1. << >> \in Seq({}) /\ Len(<< >>) = 0
  OBVIOUS
<1>2. IsPath(<< >>)
  <2>1. \A n \in 1..Len(<< >>) : << >>[n].class \in Classes
    BY <1>1
  <2>2. QED
    BY <1>1, <2>1, PathIs
<1>3. QED
  BY <1>1, <1>2 DEF Is, Does, Minded, CostFree

\* A deliberation looks at the synth's key once the sweep is paid.
LEMMA SynthsAreFirm ==
  /\ Firm(DeliberateBatchCall, {"synth-key"}) /\ Firm(DeliberateDirectCall, {"synth-key"})
  /\ Firm(DeliberateBatchVerb, {"synth-key"}) /\ Firm(DeliberateDirectVerb, {"synth-key"})
<1>1. \A c \in Classes : /\ IsPath(Check("synth-key", c))
                         /\ Firm(Check("synth-key", c), {"synth-key"})
  BY PartsGrow
<1>2. \A s, w : \A c \in {"internal", "failed"} :
        IsPath(Do(s, w, c)) /\ Firm(Do(s, w, c), {"synth-key"})
  BY PartsGrow DEF Classes, Refusals
<1>3. Firm(DeliberateBatchCall, {"synth-key"})
  BY <1>1, <1>2, Grows DEF DeliberateBatchCall, Classes
<1>4. Firm(DeliberateDirectCall, {"synth-key"})
  BY <1>1, <1>2, Grows DEF DeliberateDirectCall, Classes
<1>5. Firm(DeliberateBatchVerb, {"synth-key"})
  BY <1>1, <1>2, Grows DEF DeliberateBatchVerb, Classes
<1>6. Firm(DeliberateDirectVerb, {"synth-key"})
  BY <1>1, <1>2, Grows DEF DeliberateDirectVerb, Classes
<1>7. QED
  BY <1>3, <1>4, <1>5, <1>6

\* A path opens sessions before its media store, that before it asks whether it lasts,
\* and none of them again later.
Storing == Openings \cup {"open-media", "durable"}
Tidy(p) ==
  /\ Led(p, Openings, {}, {"open-media", "durable"}) /\ Led(p, {"open-media"}, {}, {"durable"})
  /\ Clear(p, {"open-media"}, Openings) /\ Clear(p, {"durable"}, {"open-media"})

LEMMA TidyJoins ==
  ASSUME NEW a, IsPath(a), NEW b, IsPath(b)
  PROVE  /\ Does(a) \cap {"open-media", "durable"} = {} => Tidy(a)
         /\ Tidy(a) /\ Does(b) \cap Storing = {} => Tidy(a \o b)
         /\ Does(a) \cap Storing = {} /\ Tidy(b) => Tidy(a \o b)
         /\ Tidy(a) /\ {"open-batches", "open-media"} \subseteq Does(a) /\ Does(b) = {"durable"} =>
              Tidy(a \o b)
<1>1. ASSUME NEW p, IsPath(p), Does(p) \cap {"open-media", "durable"} = {} PROVE Tidy(p)
  <2>1. Led(p, Openings, {}, {"open-media", "durable"}) /\ Led(p, {"open-media"}, {}, {"durable"})
    BY <1>1, NoneIsLed
  <2>2. Clear(p, {"open-media"}, Openings) /\ Clear(p, {"durable"}, {"open-media"})
    BY <1>1, NoneIsClear
  <2>3. QED
    BY <2>1, <2>2 DEF Tidy
<1>2. ASSUME Tidy(a), Does(b) \cap Storing = {} PROVE Tidy(a \o b)
  <2>1. Tidy(b)
    BY <1>1, <1>2 DEF Storing
  <2>2. /\ Led(a \o b, Openings, {}, {"open-media", "durable"})
        /\ Led(a \o b, {"open-media"}, {}, {"durable"})
    BY <1>2, <2>1, JoinedIsLed DEF Tidy
  <2>3. Clear(a \o b, {"open-media"}, Openings) /\ Clear(a \o b, {"durable"}, {"open-media"})
    BY <1>2, <2>1, JoinedIsClear DEF Tidy, Storing
  <2>4. QED
    BY <2>2, <2>3 DEF Tidy
<1>3. ASSUME Does(a) \cap Storing = {}, Tidy(b) PROVE Tidy(a \o b)
  <2>1. Tidy(a)
    BY <1>1, <1>3 DEF Storing
  <2>2. /\ Led(a \o b, Openings, {}, {"open-media", "durable"})
        /\ Led(a \o b, {"open-media"}, {}, {"durable"})
    BY <1>3, <2>1, JoinedIsLed DEF Tidy
  <2>3. Clear(a \o b, {"open-media"}, Openings) /\ Clear(a \o b, {"durable"}, {"open-media"})
    BY <1>3, <2>1, JoinedIsClear DEF Tidy, Storing
  <2>4. QED
    BY <2>2, <2>3 DEF Tidy
<1>4. ASSUME Tidy(a), {"open-batches", "open-media"} \subseteq Does(a), Does(b) = {"durable"}
      PROVE  Tidy(a \o b)
  <2>1. Clear(b, {"open-media"}, Openings) /\ Clear(b, {"durable"}, {"open-media"})
    BY <1>4, NoneIsClear DEF Openings
  <2>2. /\ Led(a \o b, Openings, {}, {"open-media", "durable"})
        /\ Led(a \o b, {"open-media"}, {}, {"durable"})
    BY <1>4, JoinedIsLed DEF Tidy, Openings
  <2>3. Clear(a \o b, {"open-media"}, Openings) /\ Clear(a \o b, {"durable"}, {"open-media"})
    BY <1>4, <2>1, JoinedIsClear DEF Tidy, Openings
  <2>4. QED
    BY <2>2, <2>3 DEF Tidy
<1>5. Does(a) \cap {"open-media", "durable"} = {} => Tidy(a)
  BY <1>1
<1>6. QED
  BY <1>2, <1>3, <1>4, <1>5

LEMMA StoresAreTidy ==
  Tidy(OpenStores) /\ Tidy(GenerateVerb) /\ Tidy(CasWriteVerb) /\ Tidy(CasReadVerb)
<1> DEFINE s == OpenStores
           f == Check("media-off", "usage")
           l == Do("durable", "none", "setup")
<1>1. /\ Is(s, {"open-batches", "open-media"}, {}) /\ Is(f, {"check"}, {"media-off"})
      /\ Is(l, {"durable"}, {})
  BY PartsAre, OpenStoresIs DEF Minding, Classes
<1>2. Tidy(s)
  <2> DEFINE a == Do("open-batches", "none", "failed")
             b == Do("open-media", "media-dir", "setup")
  <2>1. Is(a, {"open-batches"}, {}) /\ Is(b, {"open-media"}, {}) /\ s = a \o b
    BY PartsAre DEF Minding, Classes, OpenStores
  <2> HIDE DEF a, b, s
  <2>2. Tidy(a)
    BY <2>1, TidyJoins DEF Is
  <2>3. Clear(b, {"open-media"}, Openings) /\ Clear(b, {"durable"}, {"open-media"})
    BY <2>1, NoneIsClear DEF Is, Openings
  <2>4. Led(b, {"open-media"}, {}, {"durable"})
    BY <2>1, NoneIsLed DEF Is
  <2>5. /\ Led(s, Openings, {}, {"open-media", "durable"})
        /\ Led(s, {"open-media"}, {}, {"durable"})
    BY <2>1, <2>2, <2>4, JoinedIsLed DEF Tidy, Is, Openings
  <2>6. Clear(s, {"open-media"}, Openings) /\ Clear(s, {"durable"}, {"open-media"})
    BY <2>1, <2>2, <2>3, JoinedIsClear DEF Tidy, Is
  <2>7. QED
    BY <2>5, <2>6 DEF Tidy
<1> DEFINE n == (s \o f) \o l
<1>3. Is(n, {"open-batches", "open-media", "check", "durable"}, {"media-off"}) /\ Tidy(n)
  <2> HIDE DEF s, f, l
  <2>1. Is(s \o f, {"open-batches", "open-media", "check"}, {"media-off"})
    BY <1>1, JoinedPaths DEF Is
  <2>2. Tidy(s \o f)
    BY <1>1, <1>2, TidyJoins DEF Is, Storing, Openings
  <2>3. Tidy(n)
    BY <1>1, <2>1, <2>2, TidyJoins DEF Is
  <2>4. QED
    BY <1>1, <2>1, <2>3, JoinedPaths DEF Is
<1>4. Tidy(CasReadVerb)
  <2> DEFINE d == Checks(<<"digest", "absent", "range">>, "usage")
  <2>1. Is(d, {"check"}, {"digest", "absent", "range"}) /\ CasReadVerb = n \o d
    BY PartsAre DEF Classes, CasReadVerb
  <2> HIDE DEF d, n
  <2>2. QED
    BY <1>3, <2>1, TidyJoins DEF Is, Storing, Openings
<1>5. Tidy(CasWriteVerb)
  <2> DEFINE c == Check("content", "usage")
             k == Do("keep", "media-full", "setup")
  <2>1. /\ Is(c, {"check"}, {"content"}) /\ Is(k, {"keep"}, {"media-full"})
        /\ CasWriteVerb = (n \o c) \o k
    BY PartsAre DEF Classes, Minding, CasWriteVerb
  <2> HIDE DEF c, k, n
  <2>2. Tidy(n \o c) /\ IsPath(n \o c)
    BY <1>3, <2>1, TidyJoins, JoinedPaths DEF Is, Storing, Openings
  <2>3. QED
    BY <2>1, <2>2, TidyJoins DEF Is, Storing, Openings
<1>6. Tidy(GenerateVerb)
  <2> DEFINE a == Checks(<<"cast", "slot">>, "usage")
             b == Checks(<<"backend", "key">>, "setup")
             c == Check("field", "usage")
             p == Do("spend", "provider", "failed")
             k == Do("keep", "media-full", "failed")
  <2>1. /\ Is(a, {"check"}, {"cast", "slot"}) /\ Is(b, {"check"}, {"backend", "key"})
        /\ Is(c, {"check"}, {"field"}) /\ Is(p, {"spend"}, {"provider"})
        /\ Is(k, {"keep"}, {"media-full"})
    BY PartsAre DEF Classes, Minding
  <2>2. GenerateVerb = (((((a \o b) \o c) \o s) \o f) \o p) \o k
    BY DEF GenerateVerb
  <2> HIDE DEF a, b, c, p, k, s, f
  <2>3. Is((a \o b) \o c, {"check"}, {"cast", "slot", "backend", "key", "field"})
    BY <2>1, JoinedPaths DEF Is
  <2> DEFINE x == ((a \o b) \o c) \o s
  <2>4. IsPath(x) /\ Tidy(x)
    BY <1>1, <1>2, <2>3, TidyJoins, JoinedPaths DEF Is, Storing, Openings
  <2> HIDE DEF x
  <2>5. IsPath(x \o f) /\ Tidy(x \o f)
    BY <1>1, <2>4, TidyJoins, JoinedPaths DEF Is, Storing, Openings
  <2>6. IsPath((x \o f) \o p) /\ Tidy((x \o f) \o p)
    BY <2>1, <2>5, TidyJoins, JoinedPaths DEF Is, Storing, Openings
  <2>7. Tidy(((x \o f) \o p) \o k)
    BY <2>1, <2>6, TidyJoins DEF Is, Storing, Openings
  <2>8. QED
    BY <2>2, <2>7 DEF x
<1>7. QED
  BY <1>2, <1>4, <1>5, <1>6

LEMMA StartIsTidy == Tidy(DeliberateStart)
<1> DEFINE a == Check("inert", "usage")
           b == Check("root", "setup")
           c == Checks(<<"cast", "lane", "override">>, "usage")
<1>1. /\ Is(a, {"check"}, {"inert"}) /\ Is(b, {"check"}, {"root"})
      /\ Is(c, {"check"}, {"cast", "lane", "override"})
  BY PartsAre DEF Classes
<1>2. DeliberateStart = ((a \o b) \o c) \o OpenStores
  BY DEF DeliberateStart
<1> HIDE DEF a, b, c
<1>3. Is((a \o b) \o c, {"check"}, {"inert", "root", "cast", "lane", "override"})
  BY <1>1, JoinedPaths DEF Is
<1>4. QED
  BY <1>2, <1>3, OpenStoresIs, StoresAreTidy, TidyJoins DEF Is, Storing, Openings

But(v) == IF v \in {"deliberate", "direct"} THEN {"synth-key"} ELSE {}

LEMMA CallsAre ==
  ASSUME NEW v \in DOMAIN CallOf
  PROVE  IsPath(CallOf[v]) /\ Does(CallOf[v]) \cap Storing = {} /\ CostFree(CallOf[v], But(v))
<1>1. CASE v = "consult"
  BY <1>1, ConsultCallIs, ConsultCallFree DEF CallOf, Is, Storing, Openings
<1>2. CASE v = "submit"
  BY <1>2, ConsultSubmitCallIs, ConsultSubmitCallFree DEF CallOf, Is, Storing, Openings
<1>3. CASE v = "explore"
  BY <1>3, ExploreCallIs, ExploreCallFree DEF CallOf, Is, Storing, Openings
<1>4. CASE v = "oneshot"
  BY <1>4, OneshotCallIs, OneshotCallFree DEF CallOf, Is, Storing, Openings
<1>5. CASE v = "decide"
  BY <1>5, DecideCallIs, DecideCallFree DEF CallOf, Is, Storing, Openings
<1>6. CASE v = "deliberate"
  <2>1. IsPath(DeliberateChecks \o SweepCall) /\ CostFree(DeliberateChecks \o SweepCall, But(v))
        /\ Does(DeliberateChecks \o SweepCall) = {"check", "spend", "keep-dossier"}
    BY DeliberateChecksIs, SweepCallIs, SweepCallFree, Grows, JoinedPaths DEF Is, Cheap, Costs
  <2>2. CallOf[v] = (DeliberateChecks \o SweepCall) \o DeliberateBatchCall
    BY <1>6 DEF CallOf
  <2>3. QED
    BY <1>6, <2>1, <2>2, DeliberateBatchCallIs, SynthsAreFirm, Grows, JoinedPaths DEF Is, But,
       Storing, Openings
<1>7. CASE v = "again"
  <2> DEFINE c == Check("dossier", "params")
  <2>1. Is(c, {"check"}, {"dossier"})
    BY PartsAre DEF Classes
  <2>2. CallOf[v] = (DeliberateChecks \o c) \o DeliberateBatchCall
    BY <1>7 DEF CallOf
  <2> HIDE DEF c
  <2>3. IsPath(DeliberateChecks \o c) /\ Cheap(DeliberateChecks \o c)
    BY <2>1, DeliberateChecksIs, Grows DEF Is, Cheap, Costs
  <2>4. Does(DeliberateChecks \o c) = {"check"}
    BY <2>1, DeliberateChecksIs, JoinedPaths DEF Is
  <2>5. QED
    BY <2>2, <2>3, <2>4, DeliberateBatchCallIs, DeliberateBatchCallFree, Grows, JoinedPaths
       DEF Is, Storing, Openings
<1>8. CASE v = "direct"
  <2>1. IsPath(DeliberateChecks \o SweepCall) /\ CostFree(DeliberateChecks \o SweepCall, But(v))
        /\ Does(DeliberateChecks \o SweepCall) = {"check", "spend", "keep-dossier"}
    BY DeliberateChecksIs, SweepCallIs, SweepCallFree, Grows, JoinedPaths DEF Is, Cheap, Costs
  <2>2. CallOf[v] = (DeliberateChecks \o SweepCall) \o DeliberateDirectCall
    BY <1>8 DEF CallOf
  <2>3. QED
    BY <1>8, <2>1, <2>2, DeliberateDirectCallIs, SynthsAreFirm, Grows, JoinedPaths DEF Is, But,
       Storing, Openings
<1>9. CASE v = "generate"
  BY <1>9, GenerateCallIs, GenerateCallFree DEF CallOf, Is, Storing, Openings
<1>10. CASE v = "kaish"
  BY <1>10, RunKaishCallIs, CheapIsFree DEF CallOf, Is, Cheap, Costs, Storing, Openings
<1>11. CASE v = "batch"
  BY <1>11, BatchSubmitCallIs, BatchSubmitCallFree DEF CallOf, Is, Storing, Openings
<1>12. CASE v = "get"
  BY <1>12, BatchGetCallIs, BatchGetCallFree DEF CallOf, Is, Storing, Openings
<1>13. CASE v = "cancel"
  BY <1>13, BatchGetCallIs, BatchGetCallFree DEF CallOf, Is, Storing, Openings
<1>14. CASE v = "list"
  BY <1>14, BatchListCallIs, BatchListCallFree DEF CallOf, Is, Storing, Openings
<1>15. CASE v = "models"
  BY <1>15, ListModelsCallIs, ListModelsCallFree DEF CallOf, Is, Storing, Openings
<1>16. CASE v = "write"
  BY <1>16, WriteCasCallIs, WriteCasCallFree DEF CallOf, Is, Storing, Openings
<1>17. CASE v = "read"
  BY <1>17, ReadCasCallIs, CheapIsFree DEF CallOf, Is, Cheap, Costs, Storing, Openings
<1>18. CASE v = "config"
  BY <1>18, NothingIs DEF CallOf, Is
<1>19. QED
  BY <1>1, <1>2, <1>3, <1>4, <1>5, <1>6, <1>7, <1>8, <1>9, <1>10, <1>11, <1>12, <1>13, <1>14,
     <1>15, <1>16, <1>17, <1>18 DEF CallOf

LEMMA VerbsAre ==
  ASSUME NEW v \in DOMAIN CallOf
  PROVE  /\ IsPath(VerbOf[v]) /\ CostFree(VerbOf[v], But(v)) /\ Tidy(VerbOf[v])
         /\ ~({"turn", "open-batches"} \subseteq Does(VerbOf[v])) /\ "serve" \notin Does(VerbOf[v])
         /\ v \in {"read", "write"} \/ "durable" \notin Does(VerbOf[v])
<1>1. CASE v = "consult"
  BY <1>1, ConsultVerbIs, ConsultVerbFree, TidyJoins DEF VerbOf, Is, Storing, Openings
<1>2. CASE v = "submit"
  BY <1>2, ConsultVerbIs, ConsultVerbFree, TidyJoins DEF VerbOf, Is, Storing, Openings
<1>3. CASE v = "explore"
  BY <1>3, ExploreVerbIs, ExploreVerbFree, TidyJoins DEF VerbOf, Is, Storing, Openings
<1>4. CASE v = "oneshot"
  BY <1>4, OneshotVerbIs, OneshotVerbFree, TidyJoins DEF VerbOf, Is, Storing, Openings
<1>5. CASE v = "decide"
  BY <1>5, NothingIs, TidyJoins DEF VerbOf, Is
<1>6. CASE v = "deliberate"
  <2> DEFINE s == DeliberateStart \o SweepVerb
  <2>1. VerbOf[v] = s \o DeliberateBatchVerb
    BY <1>6 DEF VerbOf
  <2>3. IsPath(s) /\ Does(s) = {"check", "open-batches", "open-media", "spend", "keep-dossier"}
    BY DeliberateStartIs, SweepVerbIs, JoinedPaths DEF Is
  <2>4. CostFree(s, But(v))
    BY DeliberateStartIs, SweepVerbIs, SweepVerbFree, Grows DEF Is, Cheap, Costs
  <2>5. Tidy(s)
    BY DeliberateStartIs, SweepVerbIs, StartIsTidy, TidyJoins DEF Is, Storing, Openings
  <2> HIDE DEF s
  <2>6. IsPath(VerbOf[v]) /\ Does(VerbOf[v]) = Does(s) \cup Does(DeliberateBatchVerb)
    BY <2>1, <2>3, DeliberateBatchVerbIs, JoinedPaths DEF Is
  <2>7. CostFree(VerbOf[v], But(v))
    BY <1>6, <2>1, <2>3, <2>4, DeliberateBatchVerbIs, SynthsAreFirm, Grows DEF Is, But
  <2>8. Tidy(VerbOf[v])
    BY <2>1, <2>3, <2>5, DeliberateBatchVerbIs, TidyJoins DEF Is, Storing, Openings
  <2>9. QED
    BY <2>3, <2>6, <2>7, <2>8, DeliberateBatchVerbIs DEF Is
<1>7. CASE v = "again"
  <2> DEFINE c == Check("dossier", "usage")
  <2> DEFINE s == DeliberateStart \o c
  <2>1. VerbOf[v] = s \o DeliberateBatchVerb
    BY <1>7 DEF VerbOf
  <2>2. Is(c, {"check"}, {"dossier"})
    BY PartsAre DEF Classes
  <2> HIDE DEF c
  <2>3. IsPath(s) /\ Does(s) = {"check", "open-batches", "open-media"}
    BY DeliberateStartIs, <2>2, JoinedPaths DEF Is
  <2>4. Cheap(s) /\ CostFree(s, But(v))
    BY <2>3, CheapIsFree DEF Cheap, Costs
  <2>5. Tidy(s)
    BY DeliberateStartIs, <2>2, StartIsTidy, TidyJoins DEF Is, Storing, Openings
  <2> HIDE DEF s
  <2>6. IsPath(VerbOf[v]) /\ Does(VerbOf[v]) = Does(s) \cup Does(DeliberateBatchVerb)
    BY <2>1, <2>3, DeliberateBatchVerbIs, JoinedPaths DEF Is
  <2>7. CostFree(VerbOf[v], But(v))
    BY <2>1, <2>3, <2>4, DeliberateBatchVerbIs, DeliberateBatchVerbFree, Grows DEF Is
  <2>8. Tidy(VerbOf[v])
    BY <2>1, <2>3, <2>5, DeliberateBatchVerbIs, TidyJoins DEF Is, Storing, Openings
  <2>9. QED
    BY <2>3, <2>6, <2>7, <2>8, DeliberateBatchVerbIs DEF Is
<1>8. CASE v = "direct"
  <2> DEFINE s == DeliberateStart \o SweepVerb
  <2>1. VerbOf[v] = s \o DeliberateDirectVerb
    BY <1>8 DEF VerbOf
  <2>3. IsPath(s) /\ Does(s) = {"check", "open-batches", "open-media", "spend", "keep-dossier"}
    BY DeliberateStartIs, SweepVerbIs, JoinedPaths DEF Is
  <2>4. CostFree(s, But(v))
    BY DeliberateStartIs, SweepVerbIs, SweepVerbFree, Grows DEF Is, Cheap, Costs
  <2>5. Tidy(s)
    BY DeliberateStartIs, SweepVerbIs, StartIsTidy, TidyJoins DEF Is, Storing, Openings
  <2> HIDE DEF s
  <2>6. IsPath(VerbOf[v]) /\ Does(VerbOf[v]) = Does(s) \cup Does(DeliberateDirectVerb)
    BY <2>1, <2>3, DeliberateDirectVerbIs, JoinedPaths DEF Is
  <2>7. CostFree(VerbOf[v], But(v))
    BY <1>8, <2>1, <2>3, <2>4, DeliberateDirectVerbIs, SynthsAreFirm, Grows DEF Is, But
  <2>8. Tidy(VerbOf[v])
    BY <2>1, <2>3, <2>5, DeliberateDirectVerbIs, TidyJoins DEF Is, Storing, Openings
  <2>9. QED
    BY <2>3, <2>6, <2>7, <2>8, DeliberateDirectVerbIs DEF Is
<1>9. CASE v = "generate"
  BY <1>9, GenerateVerbIs, GenerateVerbFree, StoresAreTidy DEF VerbOf, Is, Storing, Openings
<1>10. CASE v = "kaish"
  BY <1>10, KaishVerbIs, CheapIsFree, TidyJoins DEF VerbOf, Is, Cheap, Costs, Storing, Openings
<1>11. CASE v = "batch"
  BY <1>11, BatchSubmitVerbIs, BatchSubmitVerbFree, TidyJoins DEF VerbOf, Is, Storing, Openings
<1>12. CASE v = "get"
  BY <1>12, BatchGetVerbIs, BatchGetVerbFree, TidyJoins DEF VerbOf, Is, Storing, Openings
<1>13. CASE v = "cancel"
  BY <1>13, BatchCancelVerbIs, BatchCancelVerbFree, TidyJoins DEF VerbOf, Is, Storing, Openings
<1>14. CASE v = "list"
  BY <1>14, BatchListVerbIs, BatchListVerbFree, TidyJoins DEF VerbOf, Is, Storing, Openings
<1>15. CASE v = "models"
  BY <1>15, ModelsVerbIs, ModelsVerbFree, TidyJoins DEF VerbOf, Is, Storing, Openings
<1>16. CASE v = "write"
  BY <1>16, CasWriteVerbIs, CasWriteVerbFree, StoresAreTidy DEF VerbOf, Is, Storing, Openings
<1>17. CASE v = "read"
  BY <1>17, CasReadVerbIs, CheapIsFree, StoresAreTidy DEF VerbOf, Is, Cheap, Costs, Storing,
     Openings
<1>18. CASE v = "config"
  BY <1>18, NothingIs, TidyJoins DEF VerbOf, Is, ConfigVerb
<1>19. QED
  BY <1>1, <1>2, <1>3, <1>4, <1>5, <1>6, <1>7, <1>8, <1>9, <1>10, <1>11, <1>12, <1>13, <1>14,
     <1>15, <1>16, <1>17, <1>18 DEF CallOf

LEMMA ServeIsTidy == Tidy(Serve)
<1> DEFINE a == Check("file", "usage")
           b == Checks(<<"telemetry", "all-off", "default-cast", "builtins", "resolver",
                         "no-tools">>, "exit")
           c == Do("serve", "state-db", "exit")
           e == Do("open-media", "media-dir", "exit")
<1>1. /\ Is(a, {"check"}, {"file"}) /\ Is(c, {"serve"}, {}) /\ Is(e, {"open-media"}, {})
      /\ Is(b, {"check"}, {"telemetry", "all-off", "default-cast", "builtins", "resolver",
                           "no-tools"})
  BY PartsAre DEF Minding, Classes
<1>2. Serve = ((a \o b) \o c) \o e
  BY DEF Serve
<1> HIDE DEF a, b, c, e
<1>3. IsPath(a \o b) /\ Does(a \o b) = {"check"}
  BY <1>1, JoinedPaths DEF Is
<1> DEFINE s == (a \o b) \o c
<1>4. IsPath(s) /\ Does(s) = {"check", "serve"}
  BY <1>1, <1>3, JoinedPaths DEF Is
<1> HIDE DEF s
<1>5. Tidy(s)
  BY <1>4, TidyJoins
<1>6. /\ Clear(e, {"open-media"}, Openings) /\ Clear(e, {"durable"}, {"open-media"})
      /\ Led(e, {"open-media"}, {}, {"durable"})
  BY <1>1, NoneIsClear, NoneIsLed DEF Is, Openings
<1>7. /\ Led(s \o e, Openings, {}, {"open-media", "durable"})
      /\ Led(s \o e, {"open-media"}, {}, {"durable"})
  BY <1>1, <1>4, <1>5, <1>6, JoinedIsLed DEF Is, Tidy, Openings
<1>8. Clear(s \o e, {"open-media"}, Openings) /\ Clear(s \o e, {"durable"}, {"open-media"})
  BY <1>1, <1>4, <1>5, <1>6, JoinedIsClear DEF Is, Tidy
<1>9. QED
  BY <1>2, <1>7, <1>8 DEF Tidy, s

\* A file is stored once the store is open, there, and known to last.
LEMMA WritesAreLed ==
  /\ \A by \in {{"durable"}, {"open-media"}} : Led(CasWriteVerb, by, {}, {"keep"})
  /\ Led(CasWriteVerb, {}, {"media-off"}, {"keep"})
<1> DEFINE s == OpenStores
           f == Check("media-off", "usage")
           l == Do("durable", "none", "setup")
           c == Check("content", "usage")
           k == Do("keep", "media-full", "setup")
<1>1. /\ Is(s, {"open-batches", "open-media"}, {}) /\ Is(f, {"check"}, {"media-off"})
      /\ Is(l, {"durable"}, {}) /\ Is(c, {"check"}, {"content"}) /\ Is(k, {"keep"}, {"media-full"})
  BY PartsAre, OpenStoresIs DEF Minding, Classes
<1>2. CasWriteVerb = (((s \o f) \o l) \o c) \o k
  BY DEF CasWriteVerb
<1> HIDE DEF s, f, l, c, k
<1> DEFINE n == ((s \o f) \o l) \o c
<1>3. Is(n, {"open-batches", "open-media", "check", "durable"}, {"media-off", "content"})
  BY <1>1, JoinedPaths DEF Is
<1> HIDE DEF n
<1>4. \A by, of : Led(n, by, of, {"keep"})
  BY <1>3, NoneIsLed DEF Is
<1>5. \A by \in {{"durable"}, {"open-media"}} : Led(n \o k, by, {}, {"keep"})
  BY <1>1, <1>3, <1>4, JoinedIsLed DEF Is
<1>6. Led(n \o k, {}, {"media-off"}, {"keep"})
  BY <1>1, <1>3, <1>4, JoinedIsLed DEF Is
<1>7. QED
  BY <1>2, <1>5, <1>6 DEF n

\* What holds of the path of a door, whatever it is asked.
Fit(d, p) ==
  /\ IsPath(p) /\ CostFree(p, But(verb)) /\ Tidy(p)
  /\ d = "cli" => "serve" \notin Does(p) /\ ~({"turn", "open-batches"} \subseteq Does(p))
  /\ d = "cli" /\ verb = "write" =>
       /\ \A by \in {{"durable"}, {"open-media"}} : Led(p, by, {}, {"keep"})
       /\ Led(p, {}, {"media-off"}, {"keep"})
       /\ Does(p) \cap {"keep-dossier", "record", "turn", "job"} = {}

LEMMA PathsFit == ASSUME verb \in DOMAIN CallOf, NEW d \in Doors PROVE Fit(d, Path(d))
<1>1. CASE d = "mcp"
  <2> DEFINE c == CallOf[verb]
  <2>1. IsPath(c) /\ Does(c) \cap Storing = {} /\ CostFree(c, But(verb))
    BY CallsAre
  <2> HIDE DEF c
  <2>2. IsPath(Serve \o c) /\ Tidy(Serve \o c)
    BY <2>1, ServeIs, ServeIsTidy, TidyJoins, JoinedPaths DEF Is
  <2>3. CostFree(Serve \o c, But(verb))
    BY <2>1, ServeIs, Grows DEF Is, Cheap, Costs
  <2>4. QED
    BY <1>1, <2>2, <2>3 DEF Fit, Path, c
<1>2. CASE d = "cli"
  <2> DEFINE c == VerbOf[verb]
  <2>1. /\ IsPath(c) /\ CostFree(c, But(verb)) /\ Tidy(c)
        /\ ~({"turn", "open-batches"} \subseteq Does(c))
        /\ "serve" \notin Does(c)
    BY VerbsAre
  <2>2. verb = "write" => c = CasWriteVerb
    BY DEF VerbOf
  <2> HIDE DEF c
  <2>3. IsPath(CliStart \o c) /\ Tidy(CliStart \o c) /\ Does(CliStart \o c) = {"check"} \cup Does(c)
    BY <2>1, CliStartIs, TidyJoins, JoinedPaths DEF Is, Storing, Openings
  <2>4. CostFree(CliStart \o c, But(verb))
    BY <2>1, CliStartIs, Grows DEF Is, Cheap, Costs
  <2>5. ASSUME verb = "write", NEW by, NEW of, Led(CasWriteVerb, by, of, {"keep"})
        PROVE  Led(CliStart \o c, by, of, {"keep"})
    <3>1. Led(CliStart, by, of, {"keep"})
      BY CliStartIs, NoneIsLed DEF Is
    <3>2. Led(c, by, of, {"keep"})
      BY <2>2, <2>5
    <3>3. QED
      BY <2>1, <3>1, <3>2, CliStartIs, JoinedIsLed DEF Is
  <2>6. verb = "write" => Does(CliStart \o c) \cap {"keep-dossier", "record", "turn", "job"} = {}
    BY <2>2, <2>3, CasWriteVerbIs DEF Is
  <2>7. QED
    BY <1>2, <2>1, <2>3, <2>4, <2>5, <2>6, WritesAreLed DEF Fit, Path, c
<1>3. QED
  BY <1>1, <1>2 DEF Doors

-----------------------------------------------------------------------------
(* The two doors: they mind the same. *)

Mode == MediaMode(IF asks.persistence THEN "db" ELSE "memory")

\* What a path lacks while no other process turns the database: it is refused for it.
Lacks(p) ==
  \/ Minded(p) \cap wrong # {}
  \/ "open-media" \in Does(p) /\ Mode = "disk" /\ "media-dir" \in wrong
  \/ "durable" \in Does(p) /\ Mode = "memory"

LEMMA OwnIs ==
  /\ {"all-off", "default-cast", "builtins", "no-tools", "gated", "artifacts", "input", "outside",
      "stdin"} \subseteq Own
  /\ verb = "list" => {"backend", "no-lane"} \subseteq Own
  /\ verb \in {"models", "submit"} => "provider" \in Own
  /\ verb = "direct" => "synth" \in Own
  /\ "open-media" \in {Path("cli")[n].does : n \in DOMAIN Path("cli")} \/ "media-dir" \in Own
BY DEF Own

LEMMA MindedAlike ==
  ASSUME verb \in DOMAIN CallOf \ {"decide", "config"}, NEW w \in wrong \ {"none"}, w \notin Own
  PROVE  w \in Minded(Serve \o CallOf[verb]) <=> w \in Minded(CliStart \o VerbOf[verb])
<1> DEFINE c == CallOf[verb]
           l == VerbOf[verb]
<1>1. /\ w \in Minded(Serve \o c) <=> w \in Minded(Serve) \/ w \in Minded(c)
      /\ w \in Minded(CliStart \o l) <=> w \in Minded(CliStart) \/ w \in Minded(l)
  BY CallsAre, VerbsAre, ServeIs, CliStartIs, JoinedPaths DEF Is
<1> SUFFICES w \in Minded(Serve) \/ w \in Minded(c) <=> w \in Minded(CliStart) \/ w \in Minded(l)
  BY <1>1
<1>2. CASE verb = "consult"
  <2>1. c = ConsultCall /\ l = ConsultVerb
    BY <1>2 DEF CallOf, VerbOf
  <2>2. QED
    BY <1>2, <2>1, ServeIs, CliStartIs, ConsultCallIs, ConsultVerbIs, OwnIs DEF Is
<1>3. CASE verb = "submit"
  <2>1. c = ConsultSubmitCall /\ l = ConsultVerb
    BY <1>3 DEF CallOf, VerbOf
  <2>2. QED
    BY <1>3, <2>1, ServeIs, CliStartIs, ConsultSubmitCallIs, ConsultVerbIs, OwnIs DEF Is
<1>4. CASE verb = "explore"
  <2>1. c = ExploreCall /\ l = ExploreVerb
    BY <1>4 DEF CallOf, VerbOf
  <2>2. QED
    BY <1>4, <2>1, ServeIs, CliStartIs, ExploreCallIs, ExploreVerbIs, OwnIs DEF Is
<1>5. CASE verb = "oneshot"
  <2>1. c = OneshotCall /\ l = OneshotVerb
    BY <1>5 DEF CallOf, VerbOf
  <2>2. QED
    BY <1>5, <2>1, ServeIs, CliStartIs, OneshotCallIs, OneshotVerbIs, OwnIs DEF Is
<1>6. CASE verb = "deliberate"
  <2>2. /\ c = (DeliberateChecks \o SweepCall) \o DeliberateBatchCall
        /\ l = (DeliberateStart \o SweepVerb) \o DeliberateBatchVerb
    BY <1>6 DEF CallOf, VerbOf
  <2> HIDE DEF c, l
  <2>3. /\ IsPath(DeliberateChecks \o SweepCall)
        /\ Minded(DeliberateChecks \o SweepCall) =
             {"gated", "inert", "root", "cast", "lane", "override", "key", "attach", "rules", "provider"}
    BY SweepCallIs, SweepVerbIs, DeliberateChecksIs, JoinedPaths DEF Is
  <2>4. /\ IsPath(DeliberateStart \o SweepVerb)
        /\ Minded(DeliberateStart \o SweepVerb) = {"inert", "root", "cast", "lane", "override", "key",
           "attach", "rules", "provider"}
    BY SweepCallIs, SweepVerbIs, DeliberateStartIs, JoinedPaths DEF Is
  <2>5. /\ Minded(c) = Minded(DeliberateChecks \o SweepCall) \cup Minded(DeliberateBatchCall)
        /\ Minded(l) = Minded(DeliberateStart \o SweepVerb) \cup Minded(DeliberateBatchVerb)
    BY <2>2, <2>3, <2>4, DeliberateBatchCallIs, DeliberateBatchVerbIs, JoinedPaths DEF Is
  <2>6. QED
    BY <1>6, <2>3, <2>4, <2>5, DeliberateBatchCallIs, DeliberateBatchVerbIs, ServeIs, CliStartIs,
       OwnIs DEF Is
<1>7. CASE verb = "again"
  <2> DEFINE f == Check("dossier", "params")
             g == Check("dossier", "usage")
  <2>1. Is(f, {"check"}, {"dossier"}) /\ Is(g, {"check"}, {"dossier"})
    BY PartsAre DEF Classes
  <2>2. /\ c = (DeliberateChecks \o f) \o DeliberateBatchCall
        /\ l = (DeliberateStart \o g) \o DeliberateBatchVerb
    BY <1>7 DEF CallOf, VerbOf
  <2> HIDE DEF c, l
  <2> HIDE DEF f, g
  <2>3. /\ IsPath(DeliberateChecks \o f)
        /\ Minded(DeliberateChecks \o f) = {"gated", "inert", "root", "cast", "lane", "override",
           "dossier"}
    BY <2>1, DeliberateChecksIs, JoinedPaths DEF Is
  <2>4. /\ IsPath(DeliberateStart \o g)
        /\ Minded(DeliberateStart \o g) = {"inert", "root", "cast", "lane", "override", "dossier"}
    BY <2>1, DeliberateStartIs, JoinedPaths DEF Is
  <2>5. /\ Minded(c) = Minded(DeliberateChecks \o f) \cup Minded(DeliberateBatchCall)
        /\ Minded(l) = Minded(DeliberateStart \o g) \cup Minded(DeliberateBatchVerb)
    BY <2>2, <2>3, <2>4, DeliberateBatchCallIs, DeliberateBatchVerbIs, JoinedPaths DEF Is
  <2>6. QED
    BY <1>7, <2>3, <2>4, <2>5, DeliberateBatchCallIs, DeliberateBatchVerbIs, ServeIs, CliStartIs,
       OwnIs DEF Is
<1>8. CASE verb = "direct"
  <2>2. /\ c = (DeliberateChecks \o SweepCall) \o DeliberateDirectCall
        /\ l = (DeliberateStart \o SweepVerb) \o DeliberateDirectVerb
    BY <1>8 DEF CallOf, VerbOf
  <2> HIDE DEF c, l
  <2>3. /\ IsPath(DeliberateChecks \o SweepCall)
        /\ Minded(DeliberateChecks \o SweepCall) =
             {"gated", "inert", "root", "cast", "lane", "override", "key", "attach", "rules", "provider"}
    BY SweepCallIs, SweepVerbIs, DeliberateChecksIs, JoinedPaths DEF Is
  <2>4. /\ IsPath(DeliberateStart \o SweepVerb)
        /\ Minded(DeliberateStart \o SweepVerb) = {"inert", "root", "cast", "lane", "override", "key",
           "attach", "rules", "provider"}
    BY SweepCallIs, SweepVerbIs, DeliberateStartIs, JoinedPaths DEF Is
  <2>5. /\ Minded(c) = Minded(DeliberateChecks \o SweepCall) \cup Minded(DeliberateDirectCall)
        /\ Minded(l) = Minded(DeliberateStart \o SweepVerb) \cup Minded(DeliberateDirectVerb)
    BY <2>2, <2>3, <2>4, DeliberateDirectCallIs, DeliberateDirectVerbIs, JoinedPaths DEF Is
  <2>6. QED
    BY <1>8, <2>3, <2>4, <2>5, DeliberateDirectCallIs, DeliberateDirectVerbIs, ServeIs,
       CliStartIs, OwnIs DEF Is
<1>9. CASE verb = "generate"
  <2>1. c = GenerateCall /\ l = GenerateVerb
    BY <1>9 DEF CallOf, VerbOf
  <2>2. QED
    BY <1>9, <2>1, ServeIs, CliStartIs, GenerateCallIs, GenerateVerbIs, OwnIs DEF Is
<1>10. CASE verb = "kaish"
  <2>1. c = RunKaishCall /\ l = KaishVerb
    BY <1>10 DEF CallOf, VerbOf
  <2>2. QED
    BY <1>10, <2>1, ServeIs, CliStartIs, RunKaishCallIs, KaishVerbIs, OwnIs DEF Is
<1>11. CASE verb = "batch"
  <2>1. c = BatchSubmitCall /\ l = BatchSubmitVerb
    BY <1>11 DEF CallOf, VerbOf
  <2>2. QED
    BY <1>11, <2>1, ServeIs, CliStartIs, BatchSubmitCallIs, BatchSubmitVerbIs, OwnIs DEF Is
<1>12. CASE verb = "get"
  <2>1. c = BatchGetCall /\ l = BatchGetVerb
    BY <1>12 DEF CallOf, VerbOf
  <2>2. QED
    BY <1>12, <2>1, ServeIs, CliStartIs, BatchGetCallIs, BatchGetVerbIs, OwnIs DEF Is
<1>13. CASE verb = "cancel"
  <2>1. c = BatchGetCall /\ l = BatchCancelVerb
    BY <1>13 DEF CallOf, VerbOf
  <2>2. QED
    BY <1>13, <2>1, ServeIs, CliStartIs, BatchGetCallIs, BatchCancelVerbIs, OwnIs DEF Is
<1>14. CASE verb = "list"
  <2>1. c = BatchListCall /\ l = BatchListVerb
    BY <1>14 DEF CallOf, VerbOf
  <2>2. QED
    BY <1>14, <2>1, ServeIs, CliStartIs, BatchListCallIs, BatchListVerbIs, OwnIs DEF Is
<1>15. CASE verb = "models"
  <2>1. c = ListModelsCall /\ l = ModelsVerb
    BY <1>15 DEF CallOf, VerbOf
  <2>2. QED
    BY <1>15, <2>1, ServeIs, CliStartIs, ListModelsCallIs, ModelsVerbIs, OwnIs DEF Is
<1>16. CASE verb = "write"
  <2>1. c = WriteCasCall /\ l = CasWriteVerb
    BY <1>16 DEF CallOf, VerbOf
  <2>2. QED
    BY <1>16, <2>1, ServeIs, CliStartIs, WriteCasCallIs, CasWriteVerbIs, OwnIs DEF Is
<1>17. CASE verb = "read"
  <2>1. c = ReadCasCall /\ l = CasReadVerb
    BY <1>17 DEF CallOf, VerbOf
  <2>2. QED
    BY <1>17, <2>1, ServeIs, CliStartIs, ReadCasCallIs, CasReadVerbIs, OwnIs DEF Is
<1>18. QED
  BY <1>2, <1>3, <1>4, <1>5, <1>6, <1>7, <1>8, <1>9, <1>10, <1>11, <1>12, <1>13, <1>14, <1>15,
     <1>16, <1>17 DEF CallOf

LEMMA LackAlike ==
  ASSUME verb \in DOMAIN CallOf \ {"decide", "config"}, wrong \cap Own = {}, "none" \notin wrong,
         verb \in {"read", "write"} => asks.persistence /\ asks.dir
  PROVE  Lacks(Path("mcp")) <=> Lacks(Path("cli"))
<1> DEFINE m == Path("mcp")
           l == Path("cli")
<1>1. Minded(m) \cap wrong # {} <=> Minded(l) \cap wrong # {}
  BY MindedAlike DEF Path
<1>2. "open-media" \in Does(m) /\ "durable" \notin Does(m)
  <2>1. IsPath(CallOf[verb]) /\ Does(CallOf[verb]) \cap Storing = {}
    BY CallsAre
  <2>2. Does(m) = Does(Serve) \cup Does(CallOf[verb])
    BY <2>1, ServeIs, JoinedPaths DEF Is, Path
  <2>3. QED
    BY <2>1, <2>2, ServeIs DEF Is, Storing
<1>3. "open-media" \in Does(l) \/ "media-dir" \in Own
  <2>1. IsPath(l)
    BY PathsFit DEF Fit, Doors
  <2>2. DOMAIN l = 1..Len(l)
    BY <2>1 DEF IsPath
  <2>3. QED
    BY <2>2, OwnIs DEF Does
<1>4. "durable" \in Does(l) => Mode # "memory"
  <2>1. Does(l) = Does(CliStart) \cup Does(VerbOf[verb])
    BY VerbsAre, CliStartIs, JoinedPaths DEF Is, Path
  <2>2. "durable" \in Does(l) => verb \in {"read", "write"}
    BY <2>1, VerbsAre, CliStartIs DEF Is
  <2>3. QED
    BY <2>2 DEF Mode, MediaMode
<1>5. QED
  BY <1>1, <1>2, <1>3, <1>4 DEF Lacks

-----------------------------------------------------------------------------
(* The two doors: the invariant. *)

Past(p, k) == {p[n].does : n \in 1..k}

\* While no other process turns the database, what a process opened follows from what the
\* operator configured.
Timely(p, k, h) ==
  /\ Past(p, k) \cap Openings # {} => h.sessions = IF asks.persistence THEN "db" ELSE "memory"
  /\ "open-media" \in Past(p, k) =>
       h.media = Mode /\ ~(Mode = "disk" /\ "media-dir" \in wrong)
Frugal(how, cost, remains) ==
  how \in Refusals /\ ~(verb \in {"deliberate", "direct"} /\ "synth-key" \in wrong) =>
    cost = 0 /\ remains = {}
Lasts(d, remains) ==
  /\ <<"turn", "memory">> \in remains /\ asks.persistence => d = "mcp" /\ turns > 0
  /\ d = "cli" /\ verb = "write" => remains \subseteq {<<"artifact", "disk">>}

\* A door k steps past on path p: what it looked at was right, what it opened follows the
\* configuration, and what it spent and left came of a step that costs.
Runs(d, p, k, how, h, cost, remains) ==
  /\ k \in 0..Len(p) /\ cost \in Nat
  /\ \A n \in 1..k : p[n].does \in Minding => p[n].what \notin wrong
  /\ h.media = "disk" => h.sessions = "db" /\ "media-off" \notin wrong
  /\ "open-media" \notin Past(p, k) => h.media = "none"
  /\ h.media \in {"none", "memory", "disk"}
  /\ "open-media" \in Past(p, k) => h.media # "none" \/ "media-off" \in wrong
  /\ "durable" \in Past(p, k) => h.media # "memory"
  /\ h.sessions = "memory" /\ asks.persistence =>
       turns > 0 /\ (d = "cli" => "open-batches" \in Does(p))
  /\ turns = 0 => Timely(p, k, h)
  /\ how = "answered" => k = Len(p)
  /\ turns = 0 /\ how \notin {Unanswered, "answered"} => Lacks(p)
  /\ how = Unanswered /\ ~(cost = 0 /\ remains = {}) => Past(p, k) \cap Costs # {}
  /\ Frugal(how, cost, remains) /\ Lasts(d, remains)

DoorsInv ==
  /\ verb \in DOMAIN CallOf /\ asks \in [persistence : BOOLEAN, dir : BOOLEAN]
  /\ "none" \notin wrong /\ turns \in Nat /\ (db # "opens" => turns > 0)
  /\ DOMAIN passed = Doors /\ DOMAIN outcome = Doors /\ DOMAIN holds = Doors
  /\ DOMAIN spent = Doors /\ DOMAIN left = Doors
  /\ \A d \in Doors : Runs(d, Path(d), passed[d], outcome[d], holds[d], spent[d], left[d])

LEMMA PastGrows ==
  ASSUME NEW p, NEW k \in Nat
  PROVE  Past(p, k + 1) = Past(p, k) \cup {p[k + 1].does}
<1>1. \A n : n \in 1..(k + 1) <=> n \in 1..k \/ n = k + 1
  OBVIOUS
<1>2. QED
  BY <1>1 DEF Past

LEMMA FitsPast ==
  ASSUME NEW d, NEW p, Fit(d, p), NEW k \in Nat, k + 1 \in 1..Len(p)
  PROVE  LET s == p[k + 1] IN
         /\ s.does \in {"open-media", "durable"} => Past(p, k) \cap Openings # {}
         /\ s.does = "durable" => "open-media" \in Past(p, k)
         /\ s.does \in Openings => "open-media" \notin Past(p, k)
         /\ s.does = "open-media" => "durable" \notin Past(p, k)
         /\ Refusing(s, But(verb)) => s.does # "spend" /\ Past(p, k) \cap Costs = {}
         /\ s.class \in Classes /\ s.does \in Does(p) /\ (s.does \in Minding => s.what \in Minded(p))
<1> DEFINE s == p[k + 1]
<1>1. (k + 1) - 1 = k
  OBVIOUS
<1>3. \A m \in 1..k : p[m].does \in Past(p, k)
  BY DEF Past
<1>4. Led(p, Openings, {}, {"open-media", "durable"}) /\ Led(p, {"open-media"}, {}, {"durable"})
  BY DEF Fit, Tidy
<1>5. s.does \in {"open-media", "durable"} => \E m \in 1..k : Leads(p[m], Openings, {})
  BY <1>1, <1>4 DEF Led
<1>6. s.does = "durable" => \E m \in 1..k : Leads(p[m], {"open-media"}, {})
  BY <1>1, <1>4 DEF Led
<1>7. Clear(p, {"open-media"}, Openings) /\ Clear(p, {"durable"}, {"open-media"})
  BY DEF Fit, Tidy
<1>8. s.does \in Openings => "open-media" \notin Past(p, k)
  BY <1>1, <1>7 DEF Clear, Past
<1>9. s.does = "open-media" => "durable" \notin Past(p, k)
  BY <1>1, <1>7 DEF Clear, Past
<1>10. Refusing(s, But(verb)) => s.does # "spend" /\ \A m \in 1..k : p[m].does \notin Costs
  BY <1>1 DEF Fit, CostFree
<1>11. Past(p, k) = {p[m].does : m \in 1..k}
  BY DEF Past
<1>12. s.class \in Classes /\ s.does \in Does(p) /\ (s.does \in Minding => s.what \in Minded(p))
  BY DEF Fit, IsPath, Does, Minded
<1>13. QED
  BY <1>3, <1>5, <1>6, <1>8, <1>9, <1>10, <1>11, <1>12 DEF Leads

\* A request that a step ends: what was wrong is lacking, and where it is refused nothing
\* has been spent.
LEMMA EndsRun ==
  ASSUME NEW d, NEW p, Fit(d, p), NEW k \in Nat, k + 1 \in 1..Len(p), NEW h, NEW cost,
         NEW remains,
         Runs(d, p, k, Unanswered, h, cost, remains), turns = 0 => Lacks(p),
         NEW paid \in {0, 1}, paid = 1 => p[k + 1].does = "spend",
         p[k + 1].does = "check" => p[k + 1].what \in wrong
  PROVE  Runs(d, p, k, p[k + 1].class, h, cost + paid, remains)
<1> DEFINE s == p[k + 1]
           how == s.class
<1>1. how \notin {Unanswered, "answered"}
  BY FitsPast DEF Classes, Unanswered
<1>2. ASSUME how \in Refusals, ~(verb \in {"deliberate", "direct"} /\ "synth-key" \in wrong)
      PROVE  cost + paid = 0 /\ remains = {}
  <2>1. Refusing(s, But(verb))
    BY <1>2 DEF Refusing, But
  <2>2. s.does # "spend" /\ Past(p, k) \cap Costs = {}
    BY <2>1, FitsPast
  <2>3. cost = 0 /\ remains = {}
    BY <2>2 DEF Runs
  <2>4. QED
    BY <2>2, <2>3
<1>3. Frugal(how, cost + paid, remains)
  BY <1>2 DEF Frugal
<1>4. cost + paid \in Nat
  BY DEF Runs
<1> HIDE DEF how
<1>5. Runs(d, p, k, how, h, cost + paid, remains)
  BY <1>1, <1>3, <1>4 DEF Runs
<1>6. QED
  BY <1>5 DEF how

\* A step that opens nothing is passed: what it looked at is right.
LEMMA PassesRun ==
  ASSUME NEW d, NEW p, Fit(d, p), NEW k \in Nat, k + 1 \in 1..Len(p), NEW h, NEW cost,
         NEW remains,
         Runs(d, p, k, Unanswered, h, cost, remains), p[k + 1].does \notin Storing,
         p[k + 1].does \in Minding => p[k + 1].what \notin wrong,
         NEW more \in Nat, NEW left1, (more = cost /\ left1 = remains) \/ p[k + 1].does \in Costs,
         Lasts(d, left1)
  PROVE  Runs(d, p, k + 1, Unanswered, h, more, left1)
<1> DEFINE s == p[k + 1]
           o == Past(p, k)
           q == Past(p, k + 1)
<1>1. q = o \cup {s.does} /\ s.does \notin Storing
  BY PastGrows
<1>2. k + 1 \in 0..Len(p)
  BY DEF Fit, IsPath
<1>3. \A n \in 1..(k + 1) : p[n].does \in Minding => p[n].what \notin wrong
  <2>1. \A n \in 1..(k + 1) : n \in 1..k \/ n = k + 1
    OBVIOUS
  <2>2. QED
    BY <2>1 DEF Runs
<1>4. /\ "open-media" \in q <=> "open-media" \in o
      /\ "durable" \in q <=> "durable" \in o
      /\ q \cap Openings # {} <=> o \cap Openings # {}
  BY <1>1 DEF Storing
<1>5. turns = 0 => Timely(p, k + 1, h)
  BY <1>4 DEF Runs, Timely
<1>6. Frugal(Unanswered, more, left1) /\ Unanswered # "answered"
  BY DEF Frugal, Unanswered, Refusals
<1>7. ~(more = 0 /\ left1 = {}) => q \cap Costs # {}
  BY <1>1 DEF Runs
<1> HIDE DEF o, q
<1>8. /\ "open-media" \in Past(p, k + 1) <=> "open-media" \in Past(p, k)
      /\ "durable" \in Past(p, k + 1) <=> "durable" \in Past(p, k)
  BY <1>4 DEF o, q
<1>9. QED
  BY <1>2, <1>3, <1>5, <1>6, <1>7, <1>8 DEF Runs, q

\* A database is opened: there was no media store before it.
LEMMA OpensRun ==
  ASSUME NEW d \in Doors, NEW p, Fit(d, p), NEW k \in Nat, k + 1 \in 1..Len(p), NEW h, NEW cost,
         NEW remains,
         Runs(d, p, k, Unanswered, h, cost, remains), p[k + 1].does \in Openings,
         NEW sessions, NEW h1, h1.sessions = sessions, h1.media = h.media, db # "opens" => turns > 0,
         asks.persistence \in BOOLEAN, turns \in Nat,
         sessions = IF asks.persistence /\ db = "opens" THEN "db" ELSE "memory",
         asks.persistence /\ db # "opens" => p[k + 1].does # "open-sessions"
  PROVE  Runs(d, p, k + 1, Unanswered, h1, cost, remains)
<1> DEFINE s == p[k + 1]
           o == Past(p, k)
           q == Past(p, k + 1)
<1>1. q = o \cup {s.does} /\ "open-media" \notin o
  BY PastGrows, FitsPast
<1>2. k + 1 \in 0..Len(p)
  BY DEF Fit, IsPath
<1>3. s.does \notin Minding /\ s.does \notin {"open-media", "durable"} /\ s.does \notin Costs
  BY DEF Openings, Minding, Costs
<1>4. \A n \in 1..(k + 1) : p[n].does \in Minding => p[n].what \notin wrong
  <2>1. \A n \in 1..(k + 1) : n \in 1..k \/ n = k + 1
    OBVIOUS
  <2>2. QED
    BY <1>3, <2>1 DEF Runs
<1>5. "open-media" \notin q /\ ("durable" \in q => "durable" \in o)
  BY <1>1, <1>3
<1>6. h.media = "none" /\ h1.media = "none"
  BY <1>1 DEF Runs
<1>7. turns = 0 => sessions = IF asks.persistence THEN "db" ELSE "memory"
  OBVIOUS
<1>8. turns = 0 => Timely(p, k + 1, h1)
  BY <1>5, <1>7 DEF Timely
<1>9. sessions = "memory" /\ asks.persistence =>
        turns > 0 /\ (d = "cli" => "open-batches" \in Does(p))
  <2>1. ASSUME sessions = "memory", asks.persistence, d = "cli" PROVE "open-batches" \in Does(p)
    <3>1. s.does \in Does(p) /\ "serve" \notin Does(p)
      BY <2>1, FitsPast DEF Fit
    <3>2. s.does # "open-sessions"
      BY <2>1
    <3>3. QED
      BY <3>1, <3>2 DEF Openings
  <2>2. QED
    BY <2>1
<1>10. Frugal(Unanswered, cost, remains) /\ Unanswered # "answered"
  BY DEF Frugal, Unanswered, Refusals
<1>11. ~(cost = 0 /\ remains = {}) => q \cap Costs # {}
  BY <1>1 DEF Runs
<1> HIDE DEF o, q
<1>12. /\ "open-media" \notin Past(p, k + 1)
       /\ ("durable" \in Past(p, k + 1) => "durable" \in Past(p, k))
  BY <1>5 DEF o, q
<1>13. QED
  BY <1>2, <1>4, <1>6, <1>8, <1>9, <1>10, <1>11, <1>12 DEF Runs, q

\* The media store is opened beside the sessions.
LEMMA OpensMediaRun ==
  ASSUME NEW d \in Doors, NEW p, Fit(d, p), NEW k \in Nat, k + 1 \in 1..Len(p), NEW h, NEW cost,
         NEW remains,
         Runs(d, p, k, Unanswered, h, cost, remains), p[k + 1].does = "open-media",
         NEW h1, h1.sessions = h.sessions, h1.media = MediaMode(h.sessions),
         ~(h1.media = "disk" /\ "media-dir" \in wrong)
  PROVE  Runs(d, p, k + 1, Unanswered, h1, cost, remains)
<1> DEFINE s == p[k + 1]
           o == Past(p, k)
           q == Past(p, k + 1)
<1>1. q = o \cup {s.does} /\ o \cap Openings # {} /\ "durable" \notin o
  BY PastGrows, FitsPast
<1>2. k + 1 \in 0..Len(p)
  BY DEF Fit, IsPath
<1>3. s.does \notin Minding /\ s.does \notin Costs /\ s.does \notin Openings
  BY DEF Openings, Minding, Costs
<1>4. \A n \in 1..(k + 1) : p[n].does \in Minding => p[n].what \notin wrong
  <2>1. \A n \in 1..(k + 1) : n \in 1..k \/ n = k + 1
    OBVIOUS
  <2>2. QED
    BY <1>3, <2>1 DEF Runs
<1>5. "open-media" \in q /\ "durable" \notin q /\ q \cap Openings # {}
  BY <1>1
<1>6. /\ h1.media \in {"none", "memory", "disk"}
      /\ h1.media = "none" <=> "media-off" \in wrong
      /\ h1.media = "disk" => h1.sessions = "db"
  BY DEF MediaMode
<1>7. turns = 0 => Timely(p, k + 1, h1)
  <2>1. turns = 0 => h.sessions = IF asks.persistence THEN "db" ELSE "memory"
    BY <1>1 DEF Runs, Timely
  <2>2. turns = 0 => h1.media = Mode
    BY <2>1 DEF Mode
  <2>3. QED
    BY <2>1, <2>2 DEF Timely
<1>8. Frugal(Unanswered, cost, remains) /\ Unanswered # "answered"
  BY DEF Frugal, Unanswered, Refusals
<1>9. ~(cost = 0 /\ remains = {}) => q \cap Costs # {}
  BY <1>1 DEF Runs
<1> HIDE DEF o, q
<1>10. "open-media" \in Past(p, k + 1) /\ "durable" \notin Past(p, k + 1)
  BY <1>5 DEF q
<1>11. QED
  BY <1>2, <1>4, <1>6, <1>7, <1>8, <1>9, <1>10 DEF Runs, q

\* A store that lasts is no store of the process alone.
LEMMA LastsRun ==
  ASSUME NEW d \in Doors, NEW p, Fit(d, p), NEW k \in Nat, k + 1 \in 1..Len(p), NEW h, NEW cost,
         NEW remains,
         Runs(d, p, k, Unanswered, h, cost, remains), p[k + 1].does = "durable", h.media # "memory"
  PROVE  Runs(d, p, k + 1, Unanswered, h, cost, remains)
<1> DEFINE s == p[k + 1]
           o == Past(p, k)
           q == Past(p, k + 1)
<1>1. q = o \cup {s.does} /\ "open-media" \in o
  BY PastGrows, FitsPast
<1>2. k + 1 \in 0..Len(p)
  BY DEF Fit, IsPath
<1>3. s.does \notin Minding /\ s.does \notin Costs /\ s.does \notin Openings
  BY DEF Openings, Minding, Costs
<1>4. \A n \in 1..(k + 1) : p[n].does \in Minding => p[n].what \notin wrong
  <2>1. \A n \in 1..(k + 1) : n \in 1..k \/ n = k + 1
    OBVIOUS
  <2>2. QED
    BY <1>3, <2>1 DEF Runs
<1>5. "open-media" \in q /\ (q \cap Openings # {} <=> o \cap Openings # {})
  BY <1>1, <1>3
<1>6. turns = 0 => Timely(p, k + 1, h)
  BY <1>1, <1>5 DEF Runs, Timely
<1>7. Frugal(Unanswered, cost, remains) /\ Unanswered # "answered"
  BY DEF Frugal, Unanswered, Refusals
<1>8. ~(cost = 0 /\ remains = {}) => q \cap Costs # {}
  BY <1>1 DEF Runs
<1> HIDE DEF o, q
<1>9. "open-media" \in Past(p, k + 1) /\ "open-media" \in Past(p, k)
  BY <1>1, <1>5 DEF q, o
<1>10. QED
  BY <1>2, <1>4, <1>6, <1>7, <1>8, <1>9 DEF Runs, q

-----------------------------------------------------------------------------
(* The two doors: every step keeps the invariant. *)

LEMMA RunsStay ==
  ASSUME UNCHANGED <<verb, wrong, asks>>, turns \in Nat, turns' \in {turns, turns + 1}
  PROVE  /\ \A d : Path(d)' = Path(d)
         /\ \A d, p, k, how, h, cost, remains :
              Runs(d, p, k, how, h, cost, remains) => Runs(d, p, k, how, h, cost, remains)'
<1>1. \A d : Path(d)' = Path(d)
  BY DEF Path
<1>2. ASSUME NEW d, NEW p, NEW k, NEW how, NEW h, NEW cost,
         NEW remains,
         Runs(d, p, k, how, h, cost, remains)
      PROVE  Runs(d, p, k, how, h, cost, remains)'
  <2>1. Mode' = Mode /\ Lacks(p)' = Lacks(p)
    BY DEF Lacks, Mode, MediaMode
  <2>2. Timely(p, k, h)' = Timely(p, k, h)
    BY <2>1 DEF Timely
  <2>3. Frugal(how, cost, remains)' = Frugal(how, cost, remains)
    BY DEF Frugal
  <2>4. Lasts(d, remains) => Lasts(d, remains)'
    BY DEF Lasts
  <2>5. QED
    BY <1>2, <2>1, <2>2, <2>3, <2>4 DEF Runs
<1>3. QED
  BY <1>1, <1>2

\* What is told of a door is v now, and of the other door what it was.
Now(old, new, d, v) == DOMAIN new = Doors /\ \A e \in Doors : new[e] = IF e = d THEN v ELSE old[e]

LEMMA Becomes ==
  ASSUME NEW d \in Doors, NEW old, DOMAIN old = Doors, NEW v
  PROVE  Now(old, [old EXCEPT ![d] = v], d, v) /\ Now(old, old, d, old[d])
BY DEF Now

LEMMA OneDoor ==
  ASSUME DoorsInv, Same, NEW d \in Doors, NEW k, NEW how, NEW h, NEW cost,
         NEW remains,
         Now(passed, passed', d, k), Now(outcome, outcome', d, how), Now(holds, holds', d, h),
         Now(spent, spent', d, cost), Now(left, left', d, remains),
         Runs(d, Path(d), k, how, h, cost, remains)
  PROVE  DoorsInv'
<1>1. /\ turns \in Nat /\ turns' = turns /\ UNCHANGED <<verb, wrong, asks>>
  BY DEF DoorsInv, Same
<1>2. /\ \A e : Path(e)' = Path(e)
      /\ \A e, p, n, o, g, c, r : Runs(e, p, n, o, g, c, r) => Runs(e, p, n, o, g, c, r)'
  BY <1>1, RunsStay
<1>3. ASSUME NEW e \in Doors
      PROVE  Runs(e, Path(e), passed'[e], outcome'[e], holds'[e], spent'[e], left'[e])
  <2>1. CASE e = d
    BY <2>1 DEF Now
  <2>2. CASE e # d
    BY <2>2 DEF Now, DoorsInv
  <2>3. QED
    BY <2>1, <2>2
<1>4. \A e \in Doors :
        Runs(e, Path(e), passed[e], outcome[e], holds[e], spent[e], left[e])'
  BY <1>2, <1>3
<1>5. QED
  BY <1>4 DEF DoorsInv, Same, Now

LEMMA Advances ==
  ASSUME DoorsInv, NEW d \in Doors, Going(d)
  PROVE  /\ Fit(d, Path(d)) /\ passed[d] \in Nat /\ passed[d] + 1 \in 1..Len(Path(d))
         /\ Runs(d, Path(d), passed[d], Unanswered, holds[d], spent[d], left[d])
         /\ DOMAIN passed = Doors /\ DOMAIN outcome = Doors /\ DOMAIN holds = Doors
         /\ DOMAIN spent = Doors /\ DOMAIN left = Doors
         /\ Step(d) = Path(d)[passed[d] + 1]
<1> DEFINE p == Path(d)
<1>1. Fit(d, p) /\ Len(p) \in Nat
  BY PathsFit, JoinedAt DEF DoorsInv, Fit
<1>2. Runs(d, p, passed[d], Unanswered, holds[d], spent[d], left[d])
  BY DEF DoorsInv, Going
<1>3. passed[d] \in 0..Len(p) /\ passed[d] < Len(p)
  BY <1>2 DEF Runs, Going
<1> HIDE DEF p
<1>4. passed[d] \in Nat /\ passed[d] + 1 \in 1..Len(p)
  BY <1>1, <1>3
<1>5. QED
  BY <1>1, <1>2, <1>4 DEF p, DoorsInv, Step

\* A request ends at a step that refuses it.
LEMMA EndsWell ==
  ASSUME DoorsInv, NEW d \in Doors, Going(d), Same, End(d, Step(d).class),
         UNCHANGED <<passed, holds, left>>,
         turns = 0 => Lacks(Path(d)), Step(d).does = "check" => Step(d).what \in wrong,
         NEW paid \in {0, 1}, paid = 1 => Step(d).does = "spend",
         Now(spent, spent', d, spent[d] + paid)
  PROVE  DoorsInv'
<1> DEFINE p == Path(d)
           k == passed[d]
<1>1. /\ Fit(d, p) /\ k \in Nat /\ k + 1 \in 1..Len(p) /\ Step(d) = p[k + 1]
      /\ Runs(d, p, k, Unanswered, holds[d], spent[d], left[d])
  BY Advances
<1>2. /\ DOMAIN passed = Doors /\ DOMAIN outcome = Doors /\ DOMAIN holds = Doors
      /\ DOMAIN left = Doors
  BY Advances
<1>3. turns = 0 => Lacks(p)
  OBVIOUS
<1>4. /\ Now(passed, passed', d, k) /\ Now(outcome, outcome', d, Step(d).class)
      /\ Now(holds, holds', d, holds[d]) /\ Now(left, left', d, left[d])
  BY <1>2, Becomes DEF End
<1> HIDE DEF p, k
<1>5. Runs(d, p, k, p[k + 1].class, holds[d], spent[d] + paid, left[d])
  BY <1>1, <1>3, EndsRun
<1>6. Runs(d, p, k, Step(d).class, holds[d], spent[d] + paid, left[d])
  BY <1>1, <1>5
<1> USE DEF p
<1>7. QED
  BY <1>4, <1>6, OneDoor

\* A door gets past a step with what it then holds, has spent and left.
LEMMA PassesWell ==
  ASSUME DoorsInv, NEW d \in Doors, Going(d), Same, Pass(d), UNCHANGED outcome,
         NEW h, NEW cost,
         NEW remains,
         Now(holds, holds', d, h), Now(spent, spent', d, cost), Now(left, left', d, remains),
         Runs(d, Path(d), passed[d] + 1, Unanswered, h, cost, remains)
  PROVE  DoorsInv'
<1>1. DOMAIN passed = Doors /\ DOMAIN outcome = Doors
  BY Advances
<1>2. Now(passed, passed', d, passed[d] + 1) /\ Now(outcome, outcome', d, outcome[d])
  BY <1>1, Becomes DEF Pass
<1>3. outcome[d] = Unanswered
  BY DEF Going
<1>4. QED
  BY <1>2, <1>3, OneDoor

LEMMA LacksAt ==
  ASSUME NEW d, NEW p, Fit(d, p), NEW k \in Nat, k + 1 \in 1..Len(p),
         p[k + 1].does \in Minding, p[k + 1].what \in wrong
  PROVE  Lacks(p)
BY FitsPast DEF Lacks

LEMMA LookKeeps == ASSUME DoorsInv, NEW d \in Doors, Look(d) PROVE DoorsInv'
<1> DEFINE p == Path(d)
           k == passed[d]
<1>1. /\ Fit(d, p) /\ k \in Nat /\ k + 1 \in 1..Len(p) /\ Step(d) = p[k + 1]
      /\ Runs(d, p, k, Unanswered, holds[d], spent[d], left[d])
      /\ DOMAIN holds = Doors /\ DOMAIN spent = Doors /\ DOMAIN left = Doors
      /\ spent[d] \in Nat /\ Lasts(d, left[d])
  BY Advances DEF Look, Runs
<1>2. /\ Going(d) /\ Same /\ UNCHANGED <<holds, spent, left>>
      /\ Step(d).does = "check" /\ Step(d).does \in Minding /\ Step(d).does \notin Storing
  BY DEF Look, Minding, Storing, Openings
<1>3. CASE Step(d).what \in wrong
  <2>1. End(d, Step(d).class) /\ UNCHANGED passed
    BY <1>3 DEF Look
  <2>2. Lacks(p)
    BY <1>1, <1>2, <1>3, LacksAt
  <2>3. Now(spent, spent', d, spent[d] + 0)
    BY <1>1, <1>2 DEF Now
  <2>4. QED
    BY <1>2, <1>3, <2>1, <2>2, <2>3, EndsWell
<1>4. CASE Step(d).what \notin wrong
  <2>1. Pass(d) /\ UNCHANGED outcome
    BY <1>4 DEF Look
  <2> HIDE DEF p, k
  <2>2. Runs(d, p, k + 1, Unanswered, holds[d], spent[d], left[d])
    BY <1>1, <1>2, <1>4, PassesRun
  <2>3. /\ Now(holds, holds', d, holds[d]) /\ Now(spent, spent', d, spent[d])
        /\ Now(left, left', d, left[d])
    BY <1>1, <1>2, Becomes
  <2>4. QED
    BY <1>2, <2>1, <2>2, <2>3, PassesWell DEF p, k
<1>5. QED
  BY <1>3, <1>4

LEMMA SpendKeeps == ASSUME DoorsInv, NEW d \in Doors, Spend(d) PROVE DoorsInv'
<1> DEFINE p == Path(d)
           k == passed[d]
<1>1. /\ Fit(d, p) /\ k \in Nat /\ k + 1 \in 1..Len(p) /\ Step(d) = p[k + 1]
      /\ Runs(d, p, k, Unanswered, holds[d], spent[d], left[d])
      /\ DOMAIN holds = Doors /\ DOMAIN spent = Doors /\ DOMAIN left = Doors
      /\ spent[d] \in Nat /\ Lasts(d, left[d])
  BY Advances DEF Spend, Runs
<1>2. /\ Going(d) /\ Same /\ UNCHANGED <<holds, left>> /\ Step(d).does = "spend"
      /\ Step(d).does \in Minding /\ Step(d).does \notin Storing /\ Step(d).does \in Costs
  BY DEF Spend, Minding, Storing, Openings, Costs
<1>3. Now(spent, spent', d, spent[d] + 1)
  BY <1>1, Becomes DEF Spend
<1>4. CASE Step(d).what \in wrong
  <2>1. End(d, Step(d).class) /\ UNCHANGED passed
    BY <1>4 DEF Spend
  <2>2. Lacks(p)
    BY <1>1, <1>2, <1>4, LacksAt
  <2>3. QED
    BY <1>2, <1>3, <2>1, <2>2, EndsWell
<1>5. CASE Step(d).what \notin wrong
  <2>1. Pass(d) /\ UNCHANGED outcome
    BY <1>5 DEF Spend
  <2> HIDE DEF p, k
  <2>2. Runs(d, p, k + 1, Unanswered, holds[d], spent[d] + 1, left[d])
    BY <1>1, <1>2, <1>5, PassesRun
  <2>3. Now(holds, holds', d, holds[d]) /\ Now(left, left', d, left[d])
    BY <1>1, <1>2, Becomes
  <2>4. QED
    BY <1>2, <1>3, <2>1, <2>2, <2>3, PassesWell DEF p, k
<1>6. QED
  BY <1>4, <1>5

LEMMA OpenDbKeeps == ASSUME DoorsInv, NEW d \in Doors, OpenDb(d) PROVE DoorsInv'
<1> DEFINE p == Path(d)
           k == passed[d]
           opens == asks.persistence /\ db = "opens"
           refused == /\ asks.persistence
                      /\ \/ Step(d).does = "serve" /\ db = "broken"
                         \/ Step(d).does = "open-sessions" /\ db # "opens"
           sessions == IF opens THEN "db" ELSE "memory"
           h1 == [sessions |-> sessions, media |-> holds[d].media]
<1>1. /\ Fit(d, p) /\ k \in Nat /\ k + 1 \in 1..Len(p) /\ Step(d) = p[k + 1]
      /\ Runs(d, p, k, Unanswered, holds[d], spent[d], left[d])
      /\ DOMAIN holds = Doors /\ DOMAIN spent = Doors /\ DOMAIN left = Doors
      /\ spent[d] \in Nat
  BY Advances DEF OpenDb, Runs
<1>2. Going(d) /\ Same /\ UNCHANGED <<spent, left>> /\ Step(d).does \in Openings
  BY DEF OpenDb
<1>3. asks.persistence \in BOOLEAN /\ turns \in Nat /\ (db # "opens" => turns > 0)
  BY DEF DoorsInv
<1>4. Now(left, left', d, left[d])
  BY <1>1, <1>2, Becomes
<1>5. CASE refused
  <2>1. End(d, Step(d).class) /\ UNCHANGED <<passed, holds>>
    BY <1>5 DEF OpenDb
  <2>2. turns = 0 => Lacks(p)
    BY <1>3, <1>5
  <2>3. Now(spent, spent', d, spent[d] + 0) /\ Step(d).does # "check"
    BY <1>1, <1>2 DEF Now, Openings
  <2>4. QED
    BY <1>2, <2>1, <2>2, <2>3, EndsWell
<1>6. CASE ~refused
  <2>1. Pass(d) /\ UNCHANGED outcome /\ Hold(d, sessions, holds[d].media)
    BY <1>6 DEF OpenDb
  <2>2. Now(holds, holds', d, h1)
    BY <1>1, <2>1, Becomes DEF Hold
  <2>3. asks.persistence /\ db # "opens" => Step(d).does # "open-sessions"
    BY <1>6
  <2>4. sessions = IF asks.persistence /\ db = "opens" THEN "db" ELSE "memory"
    OBVIOUS
  <2>5. h1.sessions = sessions /\ h1.media = holds[d].media
    OBVIOUS
  <2> HIDE DEF p, k, refused, h1, sessions
  <2>6. Runs(d, p, k + 1, Unanswered, h1, spent[d], left[d])
    BY <1>1, <1>2, <1>3, <2>3, <2>4, <2>5, OpensRun
  <2>7. Now(spent, spent', d, spent[d])
    BY <1>1, <1>2, Becomes
  <2>8. QED
    BY <1>2, <1>4, <2>1, <2>2, <2>6, <2>7, PassesWell DEF p, k
<1>7. QED
  BY <1>5, <1>6

LEMMA OpenMediaKeeps == ASSUME DoorsInv, NEW d \in Doors, OpenMedia(d) PROVE DoorsInv'
<1> DEFINE p == Path(d)
           k == passed[d]
           mode == MediaMode(holds[d].sessions)
           h1 == [sessions |-> holds[d].sessions, media |-> mode]
<1>1. /\ Fit(d, p) /\ k \in Nat /\ k + 1 \in 1..Len(p) /\ Step(d) = p[k + 1]
      /\ Runs(d, p, k, Unanswered, holds[d], spent[d], left[d])
      /\ DOMAIN holds = Doors /\ DOMAIN spent = Doors /\ DOMAIN left = Doors
      /\ spent[d] \in Nat
  BY Advances DEF OpenMedia, Runs
<1>2. Going(d) /\ Same /\ UNCHANGED <<spent, left>> /\ Step(d).does = "open-media"
  BY DEF OpenMedia
<1>3. Now(left, left', d, left[d])
  BY <1>1, <1>2, Becomes
<1>4. CASE mode = "disk" /\ "media-dir" \in wrong
  <2>1. End(d, Step(d).class) /\ UNCHANGED <<passed, holds>>
    BY <1>4 DEF OpenMedia
  <2>2. turns = 0 => Lacks(p)
    <3> SUFFICES ASSUME turns = 0 PROVE Lacks(p)
      OBVIOUS
    <3>1. Past(p, k) \cap Openings # {} /\ Timely(p, k, holds[d]) /\ "open-media" \in Does(p)
      BY <1>1, <1>2, FitsPast DEF Runs
    <3>2. mode = Mode
      BY <3>1 DEF Timely, Mode
    <3>3. QED
      BY <1>4, <3>1, <3>2 DEF Lacks
  <2>3. Now(spent, spent', d, spent[d] + 0) /\ Step(d).does # "check"
    BY <1>1, <1>2 DEF Now
  <2>4. QED
    BY <1>2, <2>1, <2>2, <2>3, EndsWell
<1>5. CASE ~(mode = "disk" /\ "media-dir" \in wrong)
  <2>1. Pass(d) /\ UNCHANGED outcome /\ Hold(d, holds[d].sessions, mode)
    BY <1>5 DEF OpenMedia
  <2>2. Now(holds, holds', d, h1)
    BY <1>1, <2>1, Becomes DEF Hold
  <2>3. /\ h1.sessions = holds[d].sessions /\ h1.media = MediaMode(holds[d].sessions)
        /\ ~(h1.media = "disk" /\ "media-dir" \in wrong)
    BY <1>5
  <2> HIDE DEF p, k, mode, h1
  <2>4. Runs(d, p, k + 1, Unanswered, h1, spent[d], left[d])
    BY <1>1, <1>2, <2>3, OpensMediaRun
  <2>5. Now(spent, spent', d, spent[d])
    BY <1>1, <1>2, Becomes
  <2>6. QED
    BY <1>2, <1>3, <2>1, <2>2, <2>4, <2>5, PassesWell DEF p, k
<1>6. QED
  BY <1>4, <1>5

LEMMA DurableKeeps == ASSUME DoorsInv, NEW d \in Doors, Durable(d) PROVE DoorsInv'
<1> DEFINE p == Path(d)
           k == passed[d]
<1>1. /\ Fit(d, p) /\ k \in Nat /\ k + 1 \in 1..Len(p) /\ Step(d) = p[k + 1]
      /\ Runs(d, p, k, Unanswered, holds[d], spent[d], left[d])
      /\ DOMAIN holds = Doors /\ DOMAIN spent = Doors /\ DOMAIN left = Doors
      /\ spent[d] \in Nat
  BY Advances DEF Durable, Runs
<1>2. Going(d) /\ Same /\ UNCHANGED <<holds, spent, left>> /\ Step(d).does = "durable"
  BY DEF Durable
<1>3. CASE holds[d].media = "memory"
  <2>1. End(d, Step(d).class) /\ UNCHANGED passed
    BY <1>3 DEF Durable
  <2>2. turns = 0 => Lacks(p)
    <3> SUFFICES ASSUME turns = 0 PROVE Lacks(p)
      OBVIOUS
    <3>1. "open-media" \in Past(p, k) /\ Timely(p, k, holds[d]) /\ "durable" \in Does(p)
      BY <1>1, <1>2, FitsPast DEF Runs
    <3>2. QED
      BY <1>3, <3>1 DEF Lacks, Timely
  <2>3. Now(spent, spent', d, spent[d] + 0) /\ Step(d).does # "check"
    BY <1>1, <1>2 DEF Now
  <2>4. QED
    BY <1>2, <2>1, <2>2, <2>3, EndsWell
<1>4. CASE holds[d].media # "memory"
  <2>1. Pass(d) /\ UNCHANGED outcome
    BY <1>4 DEF Durable
  <2>2. /\ Now(holds, holds', d, holds[d]) /\ Now(spent, spent', d, spent[d])
        /\ Now(left, left', d, left[d])
    BY <1>1, <1>2, Becomes
  <2> HIDE DEF p, k
  <2>3. Runs(d, p, k + 1, Unanswered, holds[d], spent[d], left[d])
    BY <1>1, <1>2, <1>4, LastsRun
  <2>4. QED
    BY <1>2, <2>1, <2>2, <2>3, PassesWell DEF p, k
<1>5. QED
  BY <1>3, <1>4

\* What the command line keeps of a file is on disk: its store was opened and lasts.
LEMMA KeptLasts ==
  ASSUME NEW d \in Doors, NEW p, Fit(d, p), NEW k \in Nat, k + 1 \in 1..Len(p), NEW h, NEW cost,
         NEW remains,
         Runs(d, p, k, Unanswered, h, cost, remains), p[k + 1].does = "keep"
  PROVE  Lasts(d, remains \cup {<<"artifact", h.media>>})
<1>1. ASSUME d = "cli", verb = "write" PROVE h.media = "disk"
  <2>1. /\ Led(p, {"durable"}, {}, {"keep"}) /\ Led(p, {"open-media"}, {}, {"keep"})
        /\ Led(p, {}, {"media-off"}, {"keep"})
    BY <1>1 DEF Fit
  <2>2. (k + 1) - 1 = k
    OBVIOUS
  <2>3. PICK m \in 1..k : Leads(p[m], {"durable"}, {})
    BY <2>1, <2>2 DEF Led
  <2>4. PICK n \in 1..k : Leads(p[n], {"open-media"}, {})
    BY <2>1, <2>2 DEF Led
  <2>5. PICK o \in 1..k : Leads(p[o], {}, {"media-off"})
    BY <2>1, <2>2 DEF Led
  <2>6. "durable" \in Past(p, k) /\ "open-media" \in Past(p, k)
    BY <2>3, <2>4 DEF Leads, Past
  <2>7. "media-off" \notin wrong
    BY <2>5 DEF Leads, Runs
  <2>8. QED
    BY <2>6, <2>7 DEF Runs
<1>2. Lasts(d, remains)
  BY DEF Runs
<1>3. QED
  BY <1>1, <1>2 DEF Lasts

LEMMA KeepKeeps == ASSUME DoorsInv, NEW d \in Doors, Keep(d) PROVE DoorsInv'
<1> DEFINE p == Path(d)
           k == passed[d]
           more == left[d] \cup {<<"artifact", holds[d].media>>}
<1>1. /\ Fit(d, p) /\ k \in Nat /\ k + 1 \in 1..Len(p) /\ Step(d) = p[k + 1]
      /\ Runs(d, p, k, Unanswered, holds[d], spent[d], left[d])
      /\ DOMAIN holds = Doors /\ DOMAIN spent = Doors /\ DOMAIN left = Doors
      /\ spent[d] \in Nat
  BY Advances DEF Keep, Runs
<1>2. /\ Going(d) /\ Same /\ UNCHANGED <<holds, spent>> /\ Step(d).does = "keep"
      /\ Step(d).does \in Minding /\ Step(d).does \notin Storing /\ Step(d).does \in Costs
  BY DEF Keep, Minding, Storing, Openings, Costs
<1>3. CASE Step(d).what \in wrong
  <2>1. End(d, Step(d).class) /\ UNCHANGED <<passed, left>>
    BY <1>3 DEF Keep
  <2>2. Lacks(p)
    BY <1>1, <1>2, <1>3, LacksAt
  <2>3. Now(spent, spent', d, spent[d] + 0) /\ Step(d).does # "check"
    BY <1>1, <1>2 DEF Now
  <2>4. QED
    BY <1>2, <2>1, <2>2, <2>3, EndsWell
<1>4. CASE Step(d).what \notin wrong
  <2>1. Pass(d) /\ UNCHANGED outcome
    BY <1>4 DEF Keep
  <2>2. Now(left, left', d, more)
    <3>1. left' = [left EXCEPT ![d] = more]
      BY <1>4 DEF Keep
    <3> HIDE DEF more
    <3>2. QED
      BY <1>1, <3>1, Becomes
  <2>3. Now(holds, holds', d, holds[d]) /\ Now(spent, spent', d, spent[d])
    BY <1>1, <1>2, Becomes
  <2>4. Lasts(d, more)
    BY <1>1, <1>2, KeptLasts
  <2> HIDE DEF p, k, more
  <2>5. Runs(d, p, k + 1, Unanswered, holds[d], spent[d], more)
    BY <1>1, <1>2, <1>4, <2>4, PassesRun
  <2>6. QED
    BY <1>2, <2>1, <2>2, <2>3, <2>5, PassesWell DEF p, k
<1>5. QED
  BY <1>3, <1>4

LEMMA LeaveKeeps == ASSUME DoorsInv, NEW d \in Doors, Leave(d) PROVE DoorsInv'
<1> DEFINE p == Path(d)
           k == passed[d]
<1>1. /\ Fit(d, p) /\ k \in Nat /\ k + 1 \in 1..Len(p) /\ Step(d) = p[k + 1]
      /\ Runs(d, p, k, Unanswered, holds[d], spent[d], left[d])
      /\ DOMAIN holds = Doors /\ DOMAIN spent = Doors /\ DOMAIN left = Doors
      /\ spent[d] \in Nat /\ Lasts(d, left[d])
  BY Advances DEF Leave, Runs
<1>2. /\ Going(d) /\ Same /\ Pass(d) /\ UNCHANGED <<outcome, holds, spent>>
      /\ Step(d).does \in {"keep-dossier", "record", "turn", "job"}
      /\ Step(d).does \notin Minding /\ Step(d).does \notin Storing /\ Step(d).does \in Costs
  BY DEF Leave, Minding, Storing, Openings, Costs
<1>3. PICK remains \in Lasting(d) : left' = [left EXCEPT ![d] = @ \cup remains]
  BY DEF Leave
<1> DEFINE more == left[d] \cup remains
<1>4. Now(left, left', d, more)
  BY <1>1, <1>3, Becomes
<1>5. Now(holds, holds', d, holds[d]) /\ Now(spent, spent', d, spent[d])
  BY <1>1, <1>2, Becomes
<1>6. Step(d).does \in Does(p)
  BY <1>1, FitsPast
<1>7. <<"turn", "memory">> \in remains => Step(d).does = "turn" /\ holds[d].sessions = "memory"
  BY <1>2 DEF Lasting
<1>8. holds[d].sessions = "memory" /\ asks.persistence =>
        turns > 0 /\ (d = "cli" => "open-batches" \in Does(p))
  BY <1>1 DEF Runs
<1>9. ~(d = "cli" /\ {"turn", "open-batches"} \subseteq Does(p))
  BY <1>1 DEF Fit
<1>10. ~(d = "cli" /\ verb = "write")
  BY <1>1, <1>2, <1>6 DEF Fit
<1>11. Lasts(d, more)
  BY <1>1, <1>6, <1>7, <1>8, <1>9, <1>10 DEF Lasts, Doors
<1> HIDE DEF p, k, more
<1>12. Runs(d, p, k + 1, Unanswered, holds[d], spent[d], more)
  BY <1>1, <1>2, <1>11, PassesRun
<1>13. QED
  BY <1>2, <1>4, <1>5, <1>12, PassesWell DEF p, k

LEMMA AnswerKeeps == ASSUME DoorsInv, NEW d \in Doors, Answer(d) PROVE DoorsInv'
<1> DEFINE p == Path(d)
           k == passed[d]
<1>1. /\ Runs(d, p, k, Unanswered, holds[d], spent[d], left[d]) /\ k = Len(p)
      /\ DOMAIN passed = Doors /\ DOMAIN outcome = Doors /\ DOMAIN holds = Doors
      /\ DOMAIN spent = Doors /\ DOMAIN left = Doors
  BY DEF Answer, DoorsInv
<1>2. Same /\ UNCHANGED <<passed, holds, spent, left>> /\ End(d, "answered")
  BY DEF Answer
<1>3. /\ Now(passed, passed', d, k) /\ Now(outcome, outcome', d, "answered")
      /\ Now(holds, holds', d, holds[d]) /\ Now(spent, spent', d, spent[d])
      /\ Now(left, left', d, left[d])
  BY <1>1, <1>2, Becomes DEF End
<1>4. Frugal("answered", spent[d], left[d]) /\ "answered" # Unanswered
  BY DEF Frugal, Refusals, Unanswered
<1> HIDE DEF p, k
<1>5. Runs(d, p, k, "answered", holds[d], spent[d], left[d])
  BY <1>1, <1>4 DEF Runs
<1>6. QED
  BY <1>2, <1>3, <1>5, OneDoor DEF p

LEMMA DbTurnsKeeps == ASSUME DoorsInv, NEW to, DbTurns(to) PROVE DoorsInv'
<1>1. turns \in Nat /\ turns' = turns + 1 /\ UNCHANGED <<verb, wrong, asks>>
  BY DEF DoorsInv, DbTurns
<1>2. UNCHANGED <<passed, outcome, holds, spent, left>>
  BY DEF DbTurns
<1>3. /\ \A e : Path(e)' = Path(e)
      /\ \A e, p, n, o, g, c, r : Runs(e, p, n, o, g, c, r) => Runs(e, p, n, o, g, c, r)'
  BY <1>1, RunsStay
<1>4. \A e \in Doors : Runs(e, Path(e), passed[e], outcome[e], holds[e], spent[e], left[e])
  BY DEF DoorsInv
<1>5. \A e \in Doors : Runs(e, Path(e), passed[e], outcome[e], holds[e], spent[e], left[e])'
  BY <1>2, <1>3, <1>4
<1>6. QED
  BY <1>1, <1>2, <1>5 DEF DoorsInv

-----------------------------------------------------------------------------
(* The two doors: the theorem. *)

LEMMA DoorsInit == ASSUME VerbsAssumption, FrontInit PROVE DoorsInv
<1>1. verb \in DOMAIN CallOf
  BY DEF VerbsAssumption, FrontInit
<1>2. "none" \notin wrong
  <2>1. "none" \notin Facts(verb)
    BY DEF Facts, Looks
  <2>2. wrong = {} \/ \E w \in [1..MaxWrong -> Facts(verb)] : wrong = {w[n] : n \in DOMAIN w}
    BY DEF FrontInit
  <2>3. QED
    BY <2>1, <2>2
<1>3. ASSUME NEW d \in Doors
      PROVE  Runs(d, Path(d), passed[d], outcome[d], holds[d], spent[d], left[d])
  <2> DEFINE p == Path(d)
  <2>1. /\ passed[d] = 0 /\ outcome[d] = Unanswered /\ spent[d] = 0 /\ left[d] = {}
        /\ holds[d] = [sessions |-> "none", media |-> "none"] /\ turns = 0
    BY DEF FrontInit, Closed
  <2>2. Len(p) \in Nat
    BY <1>1, PathsFit, JoinedAt DEF Fit
  <2> HIDE DEF p
  <2>3. 0 \in 0..Len(p)
    BY <2>2
  <2>4. Past(p, 0) = {}
    BY DEF Past
  <2>5. Timely(p, 0, holds[d])
    BY <2>4 DEF Timely
  <2>6. Frugal(Unanswered, 0, {}) /\ Lasts(d, {}) /\ Unanswered # "answered"
    BY DEF Frugal, Lasts, Unanswered, Refusals
  <2>7. /\ holds[d].media = "none" /\ holds[d].sessions = "none"
        /\ \A n \in 1..0 : FALSE
    BY <2>1
  <2>8. Runs(d, p, 0, Unanswered, holds[d], 0, {})
    BY <2>1, <2>3, <2>4, <2>5, <2>6, <2>7 DEF Runs
  <2>9. QED
    BY <2>1, <2>8 DEF p
<1>4. asks \in [persistence : BOOLEAN, dir : BOOLEAN] /\ db = "opens" /\ turns = 0
  BY DEF FrontInit
<1>5. /\ DOMAIN passed = Doors /\ DOMAIN outcome = Doors /\ DOMAIN holds = Doors
      /\ DOMAIN spent = Doors /\ DOMAIN left = Doors
  BY DEF FrontInit
<1>6. QED
  BY <1>1, <1>2, <1>3, <1>4, <1>5 DEF DoorsInv

LEMMA DoorsKeep == ASSUME DoorsInv, [FrontNext]_frontVars PROVE DoorsInv'
<1>1. ASSUME NEW d \in Doors,
             \/ Look(d) \/ Spend(d) \/ OpenDb(d) \/ OpenMedia(d)
             \/ Durable(d) \/ Keep(d) \/ Leave(d) \/ Answer(d)
      PROVE  DoorsInv'
  BY <1>1, LookKeeps, SpendKeeps, OpenDbKeeps, OpenMediaKeeps, DurableKeeps, KeepKeeps, LeaveKeeps,
     AnswerKeeps
<1>2. ASSUME NEW to, DbTurns(to) PROVE DoorsInv'
  BY <1>2, DbTurnsKeeps
<1>3. CASE UNCHANGED frontVars
  <2>1. /\ turns \in Nat /\ turns' = turns /\ UNCHANGED <<verb, wrong, asks>>
        /\ UNCHANGED <<db, passed, outcome, holds, spent, left>>
    BY <1>3 DEF DoorsInv, frontVars
  <2>2. /\ \A e : Path(e)' = Path(e)
        /\ \A e, p, n, o, g, c, r : Runs(e, p, n, o, g, c, r) => Runs(e, p, n, o, g, c, r)'
    BY <2>1, RunsStay
  <2>3. \A e \in Doors : Runs(e, Path(e), passed[e], outcome[e], holds[e], spent[e], left[e])
    BY DEF DoorsInv
  <2>4. \A e \in Doors : Runs(e, Path(e), passed[e], outcome[e], holds[e], spent[e], left[e])'
    BY <2>1, <2>2, <2>3
  <2>5. QED
    BY <2>1, <2>4 DEF DoorsInv
<1>4. QED
  BY <1>1, <1>2, <1>3 DEF FrontNext

\* While the database is left alone, a door answers what lacks nothing and nothing else.
LEMMA AnsweredLacks ==
  ASSUME DoorsInv, turns = 0, NEW d \in Doors, outcome[d] # Unanswered
  PROVE  outcome[d] = "answered" <=> ~Lacks(Path(d))
<1> DEFINE p == Path(d)
<1>1. Runs(d, p, passed[d], outcome[d], holds[d], spent[d], left[d])
  BY DEF DoorsInv
<1> HIDE DEF p
<1>2. outcome[d] # "answered" => Lacks(p)
  BY <1>1 DEF Runs
<1>3. ASSUME outcome[d] = "answered" PROVE ~Lacks(p)
  <2>1. passed[d] = Len(p) /\ Timely(p, Len(p), holds[d])
    BY <1>1, <1>3 DEF Runs
  <2>2. Past(p, Len(p)) = Does(p)
    BY DEF Past, Does
  <2>3. \A n \in 1..Len(p) : p[n].does \in Minding => p[n].what \notin wrong
    BY <1>1, <2>1 DEF Runs
  <2>4. Minded(p) \cap wrong = {}
    BY <2>3 DEF Minded
  <2>5. "open-media" \in Does(p) => ~(Mode = "disk" /\ "media-dir" \in wrong)
    BY <2>1, <2>2 DEF Timely
  <2>6. "durable" \in Does(p) => "open-media" \in Does(p) /\ holds[d].media # "memory"
    <3>1. "durable" \in Does(p) => holds[d].media # "memory"
      BY <1>1, <2>1, <2>2 DEF Runs
    <3>2. Led(p, {"open-media"}, {}, {"durable"}) /\ Len(p) \in Nat
      BY PathsFit, JoinedAt DEF p, DoorsInv, Fit, Tidy
    <3>3. ASSUME NEW n \in 1..Len(p), p[n].does = "durable" PROVE "open-media" \in Does(p)
      <4>1. PICK m \in 1..(n - 1) : Leads(p[m], {"open-media"}, {})
        BY <3>2, <3>3 DEF Led
      <4>2. m \in 1..Len(p)
        BY <3>2
      <4>3. QED
        BY <4>1, <4>2 DEF Leads, Does
    <3>4. QED
      BY <3>1, <3>3 DEF Does
  <2>7. "durable" \in Does(p) => Mode # "memory"
    BY <2>1, <2>2, <2>6 DEF Timely
  <2>8. QED
    BY <2>4, <2>5, <2>7 DEF Lacks
<1>4. QED
  BY <1>2, <1>3 DEF p

LEMMA DoorsInvKeepsFaith == ASSUME DoorsInv PROVE DoorsKeepFaith
<1>1. DoorsAgree
  <2> SUFFICES ASSUME \A d \in Doors : outcome[d] # Unanswered, verb \notin {"decide", "config"},
                      wrong \cap Own = {}, turns = 0,
                      verb \in {"read", "write"} => asks.persistence /\ asks.dir
               PROVE  outcome["mcp"] = "answered" <=> outcome["cli"] = "answered"
    BY DEF DoorsAgree
  <2>1. Lacks(Path("mcp")) <=> Lacks(Path("cli"))
    BY LackAlike DEF DoorsInv
  <2>2. \A d \in Doors : outcome[d] = "answered" <=> ~Lacks(Path(d))
    BY AnsweredLacks
  <2>3. "mcp" \in Doors /\ "cli" \in Doors
    BY DEF Doors
  <2>4. QED
    BY <2>1, <2>2, <2>3
<1>2. RefusedIsFree
  BY DEF DoorsInv, Runs, Frugal, RefusedIsFree, Refusals
<1>3. LastingLasts
  BY DEF DoorsInv, Runs, Lasts, LastingLasts
<1>4. QED
  BY <1>1, <1>2, <1>3 DEF DoorsKeepFaith

\* For every set of verbs the two doors share, whatever is wrong, and however often
\* another process turns the database: they answer the same requests, what is refused has
\* cost nothing, and what was asked to last does.
THEOREM DoorsAlwaysKeepFaith == FrontSpec => []DoorsKeepFaith
<1>1. FrontInit => DoorsInv
  BY VerbsAssumption, DoorsInit
<1>2. DoorsInv /\ [FrontNext]_frontVars => DoorsInv'
  BY DoorsKeep
<1>3. DoorsInv => DoorsKeepFaith
  BY DoorsInvKeepsFaith
<1>4. QED
  BY <1>1, <1>2, <1>3, PTL DEF FrontSpec
=============================================================================
