--------------------------- MODULE JobStore_proofs ---------------------------
(***************************************************************************)
(* Proofs about JobStore for every number of callers, ids and slots.       *)
(***************************************************************************)
EXTENDS JobStore, SequenceTheorems, TLAPS

\* What LruCache::get does to the recency order: the entry at position i comes
\* first, those before it move down one place, the others stay.
LEMMA PromoteMoves ==
  ASSUME NEW S, NEW q \in Seq(S), NEW i \in 1..Len(q)
  PROVE  /\ Promote(q, i) \in Seq(S)
         /\ Len(Promote(q, i)) = Len(q)
         /\ \A k \in 1..Len(q) :
              Promote(q, i)[k] = IF k = 1 THEN q[i]
                                 ELSE IF k <= i THEN q[k - 1] ELSE q[k]
<1> DEFINE front == SubSeq(q, 1, i - 1)
           back == SubSeq(q, i + 1, Len(q))
           first == <<q[i]>> \o front
<1>0. Len(q) \in Nat /\ q[i] \in S /\ \A k \in 1..Len(q) : q[k] \in S
  BY LenProperties, ElementOfSeq
<1>1. /\ front \in Seq(S) /\ Len(front) = i - 1
      /\ \A k \in 1..(i - 1) : front[k] = q[k]
  <2>1. \A k \in 1..(i - 1) : q[k] \in S
    BY <1>0
  <2>2. QED
    BY <2>1, <1>0, SubSeqProperties, i - 1 \in Int
<1>2. /\ back \in Seq(S) /\ Len(back) = Len(q) - i
      /\ \A k \in 1..(Len(q) - i) : back[k] = q[i + k]
  <2>1. \A k \in (i + 1)..Len(q) : q[k] \in S
    BY <1>0
  <2>2. QED
    BY <2>1, <1>0, SubSeqProperties, i + 1 \in Int
<1>3. <<q[i]>> \in Seq(S) /\ Len(<<q[i]>>) = 1 /\ <<q[i]>>[1] = q[i]
  BY <1>0
<1>4. /\ first \in Seq(S) /\ Len(first) = i
      /\ first[1] = q[i] /\ \A k \in 2..i : first[k] = q[k - 1]
  <2> HIDE DEF front
  <2>1. /\ first \in Seq(S) /\ Len(first) = i
        /\ \A k \in 1..i : first[k] = IF k <= 1 THEN <<q[i]>>[k] ELSE front[k - 1]
    BY <1>1, <1>3, ConcatProperties
  <2>2. QED
    BY <2>1, <1>1, <1>3
<1>5. QED
  <2> HIDE DEF first, back
  <2>1. /\ first \o back \in Seq(S) /\ Len(first \o back) = Len(q)
        /\ \A k \in 1..Len(q) :
             (first \o back)[k] = IF k <= i THEN first[k] ELSE back[k - i]
    BY <1>0, <1>2, <1>4, ConcatProperties
  <2>2. Promote(q, i) = first \o back
    <3>1. first \o back = (<<q[i]>> \o front) \o back
      BY DEF first
    <3>2. QED
      BY <3>1 DEF Promote, back
  <2>3. QED
    BY <2>1, <2>2, <1>0, <1>2, <1>4

\* The map after SubmitPut: the new id first, then the entries kept.
LEMMA PutKeeps ==
  ASSUME NEW S, NEW q \in Seq(S), NEW j \in S, NEW n \in Nat, n <= Len(q)
  PROVE  /\ <<j>> \o SubSeq(q, 1, n) \in Seq(S)
         /\ Len(<<j>> \o SubSeq(q, 1, n)) = n + 1
         /\ \A k \in 1..(n + 1) :
              (<<j>> \o SubSeq(q, 1, n))[k] = IF k = 1 THEN j ELSE q[k - 1]
<1> DEFINE kept == SubSeq(q, 1, n)
<1>1. Len(q) \in Nat /\ \A k \in 1..Len(q) : q[k] \in S
  BY LenProperties, ElementOfSeq
<1>2. /\ kept \in Seq(S) /\ Len(kept) = n
      /\ \A k \in 1..n : kept[k] = q[k]
  BY <1>1, SubSeqProperties
<1>3. <<j>> \in Seq(S) /\ Len(<<j>>) = 1 /\ <<j>>[1] = j
  OBVIOUS
<1> HIDE DEF kept
<1>4. /\ <<j>> \o kept \in Seq(S) /\ Len(<<j>> \o kept) = 1 + n
      /\ \A k \in 1..(1 + n) :
           (<<j>> \o kept)[k] = IF k <= 1 THEN <<j>>[k] ELSE kept[k - 1]
  BY <1>2, <1>3, ConcatProperties
<1>5. QED
  BY <1>1, <1>2, <1>3, <1>4 DEF kept
-----------------------------------------------------------------------------
(***************************************************************************)
(* Type correctness.                                                       *)
(***************************************************************************)

\* Ids are minted from 1 up.
LEMMA IdsAreNumbers == Ids \subseteq Nat \ {0}
  BY JobStoreAssumption DEF Ids

\* JobStore::new leaves every variable in its type.
LEMMA InitTypeOK == Init => TypeOK
<1> USE JobStoreAssumption
<1> SUFFICES ASSUME Init
             PROVE  TypeOK
  OBVIOUS
<1>1. nextId \in 1..(MaxJobs + 1)
  BY DEF Init
<1>2. lru \in Seq(Ids) /\ Len(lru) <= Capacity /\ listing \in Seq(Ids)
  BY EmptySeq DEF Init
<1>3. QED
  BY <1>1, <1>2 DEF Init, TypeOK, Idle, CellStates, TaskStates

\* A handler past its lookup names an id, and lets go of at most that job.
LEMMA HandlerNames ==
  ASSUME TypeOK, NEW c \in Callers, handler[c].pc \in {"put", "get", "cancel"}
  PROVE  handler[c].job \in Ids /\ Release(c) \subseteq Ids
<1>1. handler[c].job \in Ids
  BY DEF TypeOK
<1>2. QED
  BY <1>1 DEF Release

\* Each action keeps every variable in its type (submit, get, cancel, list and
\* the tail of the task).
LEMMA NextTypeOK == TypeOK /\ [Next]_vars => TypeOK'
<1> USE JobStoreAssumption, IdsAreNumbers DEF TypeOK
<1> SUFFICES ASSUME TypeOK, [Next]_vars
             PROVE  TypeOK'
  OBVIOUS
<1>1. ASSUME NEW c \in Callers, SubmitSpawn(c)
      PROVE  TypeOK'
  <2>1. nextId \in Ids /\ nextId + 1 \in 1..(MaxJobs + 1)
    BY <1>1 DEF SubmitSpawn, Ids
  <2>2. QED
    BY <1>1, <2>1 DEF SubmitSpawn, CellStates, TaskStates
<1>2. ASSUME NEW c \in Callers, SubmitPut(c)
      PROVE  TypeOK'
  <2>1. handler[c].job \in Ids
    BY <1>2 DEF SubmitPut
  <2>2. lru' \in Seq(Ids) /\ Len(lru') <= Capacity
    <3>1. CASE Len(lru) = Capacity
      <4>1. lru' = <<handler[c].job>> \o SubSeq(lru, 1, Capacity - 1)
        BY <1>2, <3>1 DEF SubmitPut
      <4>2. QED
        BY <2>1, <3>1, <4>1, PutKeeps, Capacity - 1 \in Nat
    <3>2. CASE Len(lru) # Capacity
      <4>1. lru' = <<handler[c].job>> \o lru
        BY <1>2, <3>2 DEF SubmitPut
      <4>2. QED
        BY <2>1, <3>2, <4>1, ConcatProperties, LenProperties
    <3>3. QED
      BY <3>1, <3>2
  <2>3. QED
    BY <1>2, <2>2 DEF SubmitPut, Idle
<1>3. ASSUME NEW c \in Callers, ListBegin(c)
      PROVE  TypeOK'
  BY <1>3 DEF ListBegin, taskVars
<1>4. ASSUME NEW c \in Callers, ListRow(c)
      PROVE  TypeOK'
  BY <1>4, HeadTailProperties, ZenonT(60) DEF ListRow, taskVars
<1>5. ASSUME NEW c \in Callers, ListEnd(c)
      PROVE  TypeOK'
  BY <1>5 DEF ListEnd, taskVars, Idle
<1>6. ASSUME NEW c \in Callers, GetSnapshot(c)
      PROVE  TypeOK'
  <2>1. handler[c].job \in Ids /\ Release(c) \subseteq Ids
    BY <1>6, HandlerNames DEF GetSnapshot
  <2>2. QED
    BY <1>6, <2>1 DEF GetSnapshot, storeVars, Idle
<1>7. ASSUME NEW c \in Callers, CancelMark(c)
      PROVE  TypeOK'
  <2>1. handler[c].job \in Ids /\ Release(c) \subseteq Ids
    BY <1>7, HandlerNames DEF CancelMark
  <2>2. QED
    BY <1>7, <2>1, ZenonT(60) DEF CancelMark, storeVars, Idle, CellStates, Terminal
<1>8. ASSUME NEW c \in Callers, NEW j \in Ids, NEW pc \in {"get", "cancel"}, Lookup(c, j, pc)
      PROVE  TypeOK'
  <2>1. lru' \in Seq(Ids) /\ Len(lru') <= Capacity
    BY <1>8, PromoteMoves DEF Lookup
  <2>2. QED
    BY <1>8, <2>1 DEF Lookup, taskVars
<1>9. ASSUME NEW j \in Ids, TaskStep(j)
      PROVE  TypeOK'
  <2>1. CASE FirstPoll(j)
    BY <2>1 DEF FirstPoll, storeVars, TaskStates
  <2>2. CASE AbortTakes(j)
    BY <2>2 DEF AbortTakes, storeVars, TaskStates
  <2>3. CASE LandOutcome(j)
    <3>1. cell' \in [Ids -> CellStates] /\ task' \in [Ids -> TaskStates]
      BY <2>3, SMTT(30) DEF LandOutcome, CellStates, Terminal, Landed, TaskStates
    <3>2. QED
      BY <2>3, <3>1 DEF LandOutcome, storeVars
  <2>4. CASE Signal(j)
    BY <2>4 DEF Signal, storeVars, TaskStates
  <2>5. CASE FinishGuardDrop(j)
    <3>1. cell' \in [Ids -> CellStates] /\ task' \in [Ids -> TaskStates]
      BY <2>5 DEF FinishGuardDrop, CellStates, Terminal, Landed, TaskStates
    <3>2. QED
      BY <2>5, <3>1 DEF FinishGuardDrop, storeVars
  <2>6. QED
    BY <1>9, <2>1, <2>2, <2>3, <2>4, <2>5 DEF TaskStep
<1>10. ASSUME NEW j \in Ids, FuturePanics(j)
       PROVE  TypeOK'
  BY <1>10 DEF FuturePanics, storeVars, TaskStates
<1>11. ASSUME NEW j \in Ids, NEW verdict \in {"returnedOk", "returnedErr"},
              FutureReturns(j, verdict)
       PROVE  TypeOK'
  BY <1>11 DEF FutureReturns, storeVars, TaskStates
<1>12. ASSUME UNCHANGED vars
       PROVE  TypeOK'
  BY <1>12 DEF vars, storeVars, taskVars
<1>13. QED
  BY <1>1, <1>2, <1>3, <1>4, <1>5, <1>6, <1>7, <1>8, <1>9, <1>10, <1>11, <1>12
  DEF Next, HandlerStep, GetLookup, CancelLookup

\* Every variable keeps its type, and the map never exceeds its capacity,
\* whatever the number of callers, ids and slots (JobStore::new, submit).
THEOREM TypeCorrect == Spec => []TypeOK
  BY InitTypeOK, NextTypeOK, PTL DEF Spec
-----------------------------------------------------------------------------
(***************************************************************************)
(* The inductive invariant.                                                *)
(***************************************************************************)

\* An empty registry satisfies the invariant (JobStore::new).
LEMMA InitIInv == Init => IInv
<1> USE JobStoreAssumption, IdsAreNumbers
<1> SUFFICES ASSUME Init
             PROVE  IInv
  OBVIOUS
<1>1. TypeOK
  BY InitTypeOK
<1>2. MintedInv
  BY DEF Init, MintedInv, Ids
<1>3. StoreInv
  BY DEF Init, StoreInv
<1>4. HandlerInv /\ TaskInv
  BY DEF Init, HandlerInv, TaskInv, Idle
<1>5. AbortIsDeserved
  BY DEF Init, AbortIsDeserved
<1>6. QED
  BY <1>1, <1>2, <1>3, <1>4, <1>5 DEF IInv

\* Reachability depends on the map and the handlers alone.
LEMMA ReachableUnchanged ==
  ASSUME UNCHANGED <<lru, handler>>, NEW j
  PROVE  /\ InStore(j)' <=> InStore(j)
         /\ Reachable(j)' <=> Reachable(j)
  BY DEF InStore, Reachable, Holds

\* What only moves a task on, and may resolve its cell, disturbs no handler.
LEMMA TaskStepIInv ==
  ASSUME IInv, NEW j \in Ids,
         \/ TaskStep(j)
         \/ FuturePanics(j)
         \/ \E verdict \in {"returnedOk", "returnedErr"} : FutureReturns(j, verdict)
  PROVE  (MintedInv /\ StoreInv /\ HandlerInv /\ TaskInv /\ AbortIsDeserved)'
<1> USE JobStoreAssumption, IdsAreNumbers DEF IInv, TypeOK
<1>1. UNCHANGED <<nextId, lru, listing, handler, aborted>>
  BY DEF TaskStep, FirstPoll, AbortTakes, LandOutcome, Signal, FinishGuardDrop,
         FuturePanics, FutureReturns, storeVars
<1>2. /\ task[j] \notin {"none", "ended"} /\ task' = [task EXCEPT ![j] = task'[j]]
      /\ task'[j] # "none"
      /\ cell' = [cell EXCEPT ![j] = cell'[j]]
      /\ cell[j] = "Running" \/ cell'[j] = cell[j]
      /\ cell'[j] \in {"Running"} \cup Landed \/ cell'[j] = cell[j]
  BY DEF TaskStep, FirstPoll, AbortTakes, LandOutcome, Signal, FinishGuardDrop,
         FuturePanics, FutureReturns, Landed
<1>3. MintedInv'
  BY <1>1, <1>2 DEF MintedInv, Landed
<1>4. StoreInv'
  BY <1>1 DEF StoreInv
<1>5. HandlerInv'
  BY <1>1, ReachableUnchanged DEF HandlerInv
<1>6. TaskInv'
  <2>1. CASE FirstPoll(j)
    BY <2>1 DEF FirstPoll, TaskInv
  <2>2. CASE AbortTakes(j)
    BY <2>2 DEF AbortTakes, TaskInv
  <2>3. CASE LandOutcome(j)
    BY <2>3 DEF LandOutcome, TaskInv, Landed
  <2>4. CASE Signal(j)
    BY <2>4 DEF Signal, TaskInv, Landed
  <2>5. CASE FinishGuardDrop(j)
    BY <2>5 DEF FinishGuardDrop, TaskInv, Landed
  <2>6. CASE FuturePanics(j)
    BY <2>6 DEF FuturePanics, TaskInv
  <2>7. CASE \E verdict \in {"returnedOk", "returnedErr"} : FutureReturns(j, verdict)
    BY <2>7 DEF FutureReturns, TaskInv
  <2>8. QED
    BY <2>1, <2>2, <2>3, <2>4, <2>5, <2>6, <2>7 DEF TaskStep
<1>7. AbortIsDeserved'
  <2>1. \A k \in Ids : cell'[k] = "Running" => cell[k] = "Running"
    BY <1>2
  <2>2. QED
    BY <1>1, <2>1, ReachableUnchanged DEF AbortIsDeserved
<1>8. QED
  BY <1>3, <1>4, <1>5, <1>6, <1>7

\* A handler's reply: it lets go of its clone, and the job is aborted only if
\* that was the last reference.
LEMMA ReleaseIsLast ==
  ASSUME IInv, NEW c \in Callers, handler[c].pc \in {"get", "cancel"},
         lru' = lru, handler' = [handler EXCEPT ![c] = Idle],
         NEW j \in Ids, Reachable(j)'
  PROVE  Reachable(j) /\ j \notin Release(c)
<1> USE DEF IInv, TypeOK
<1>1. InStore(j)' <=> InStore(j)
  BY DEF InStore
<1>2. \A d \in Callers : handler'[d] = IF d = c THEN Idle ELSE handler[d]
  OBVIOUS
<1>3. ASSUME NEW d \in Callers, handler'[d].pc \in {"put", "get", "cancel"}
      PROVE  d # c /\ handler'[d] = handler[d]
  BY <1>2, <1>3 DEF Idle
<1>4. Reachable(j)
  BY <1>1, <1>3 DEF Reachable, Holds
<1>5. CASE InStore(j)
  BY <1>4, <1>5 DEF Release
<1>6. CASE \E d \in Callers : Holds(d, j)'
  BY <1>3, <1>4, <1>6 DEF Release, HeldByOther, Holds
<1>7. CASE \E d \in Callers : handler'[d].pc = "put" /\ handler'[d].job = j
  <2>1. PICK d \in Callers : handler'[d].pc = "put" /\ handler'[d].job = j
    BY <1>7
  <2>2. d # c /\ handler[d].pc = "put" /\ handler[d].job = j
    BY <1>3, <2>1
  <2>3. handler[c].job # j
    BY <2>2 DEF HandlerInv
  <2>4. QED
    BY <1>4, <2>3 DEF Release
<1>8. QED
  BY <1>1, <1>5, <1>6, <1>7 DEF Reachable, Holds

\* What the invariant says of the types, in the form the proofs below use.
LEMMA IInvFacts ==
  ASSUME IInv
  PROVE  /\ MintedInv /\ StoreInv /\ HandlerInv /\ TaskInv /\ AbortIsDeserved
         /\ nextId \in Nat \ {0} /\ Capacity \in Nat \ {0}
         /\ aborted \subseteq Ids
         /\ lru \in Seq(Ids) /\ Len(lru) \in Nat /\ listing \in Seq(Ids)
         /\ \A i \in 1..Len(lru) : lru[i] \in Ids
         /\ \A i \in 1..Len(listing) : listing[i] \in Ids
         /\ Ids \subseteq Nat
         /\ cell \in [Ids -> CellStates] /\ task \in [Ids -> TaskStates]
         /\ handler = [d \in Callers |-> handler[d]]
         /\ \A d \in Callers :
              /\ handler[d].job \in Nat
              /\ handler[d].pc \in {"idle", "list"} => handler[d].job = 0
              /\ handler[d].pc \in {"put", "get", "cancel"} => handler[d].job \in Ids
              /\ handler[d].pc \in {"idle", "list", "put", "get", "cancel"}
<1> USE JobStoreAssumption, IdsAreNumbers
<1>1. TypeOK
  BY DEF IInv
<1>2. lru \in Seq(Ids) /\ Len(lru) \in Nat /\ \A i \in 1..Len(lru) : lru[i] \in Ids
  BY <1>1, LenProperties, ElementOfSeq DEF TypeOK
<1>3. /\ nextId \in Nat \ {0} /\ aborted \subseteq Ids /\ listing \in Seq(Ids)
      /\ \A i \in 1..Len(listing) : listing[i] \in Ids
  BY <1>1, ElementOfSeq DEF TypeOK
<1>4. handler = [d \in Callers |-> handler[d]]
  BY <1>1 DEF TypeOK
<1>5. ASSUME NEW d \in Callers
      PROVE  /\ handler[d].job \in Nat
             /\ handler[d].pc \in {"idle", "list"} => handler[d].job = 0
             /\ handler[d].pc \in {"put", "get", "cancel"} => handler[d].job \in Ids
             /\ handler[d].pc \in {"idle", "list", "put", "get", "cancel"}
  <2>1. handler[d] \in [pc : {"idle", "list"}, job : {0}]
                        \cup [pc : {"put", "get", "cancel"}, job : Ids]
    BY <1>1 DEF TypeOK
  <2>2. CASE handler[d] \in [pc : {"idle", "list"}, job : {0}]
    BY <2>2
  <2>3. CASE handler[d] \in [pc : {"put", "get", "cancel"}, job : Ids]
    BY <2>3
  <2>4. QED
    BY <2>1, <2>2, <2>3
<1>6. QED
  BY <1>1, <1>2, <1>3, <1>4, <1>5 DEF IInv, TypeOK

\* submit, up to its spawn: the new id is in nobody else's hands.
LEMMA SpawnIInv ==
  ASSUME IInv, NEW c \in Callers, SubmitSpawn(c)
  PROVE  (MintedInv /\ StoreInv /\ HandlerInv /\ TaskInv /\ AbortIsDeserved)'
<1>inv. MintedInv /\ StoreInv /\ HandlerInv /\ TaskInv /\ AbortIsDeserved
  BY IInvFacts
<1>typ. /\ nextId \in Nat \ {0} /\ Capacity \in Nat \ {0} /\ Ids \subseteq Nat
        /\ aborted \subseteq Ids
        /\ lru \in Seq(Ids) /\ Len(lru) \in Nat /\ listing \in Seq(Ids)
        /\ \A i \in 1..Len(lru) : lru[i] \in Ids
        /\ \A i \in 1..Len(listing) : listing[i] \in Ids
  BY IInvFacts
<1>fun. /\ cell \in [Ids -> CellStates] /\ task \in [Ids -> TaskStates]
        /\ handler = [d \in Callers |-> handler[d]]
  BY IInvFacts
<1>hdl. \A d \in Callers :
          /\ handler[d].job \in Nat
          /\ handler[d].pc \in {"idle", "list"} => handler[d].job = 0
          /\ handler[d].pc \in {"put", "get", "cancel"} => handler[d].job \in Ids
          /\ handler[d].pc \in {"idle", "list", "put", "get", "cancel"}
  BY IInvFacts
<1>1. /\ nextId \in Ids /\ nextId' = nextId + 1
      /\ cell' = [cell EXCEPT ![nextId] = "Running"]
      /\ task' = [task EXCEPT ![nextId] = "spawned"]
      /\ handler[c] = Idle
      /\ handler' = [handler EXCEPT ![c] = [pc |-> "put", job |-> nextId]]
      /\ UNCHANGED <<lru, listing, aborted, pings>>
  BY <1>typ, JobStoreAssumption DEF SubmitSpawn, Ids
<1>2. MintedInv'
  BY <1>inv, <1>typ, <1>fun, <1>1 DEF MintedInv
<1>3. StoreInv'
  <2>1. /\ \A i \in 1..Len(lru) : lru[i] \in Nat
        /\ \A i \in 1..Len(listing) : listing[i] \in Nat
    BY <1>typ, ElementOfSeq
  <2>2. QED
    BY <1>inv, <1>typ, <1>1, <2>1 DEF StoreInv
<1>4. ~InStore(nextId)
  BY <1>inv, <1>typ, <1>1 DEF InStore, StoreInv
<1>5. \A d \in Callers \ {c} : handler'[d] = handler[d]
  BY <1>typ, <1>1
<1>6. \A d \in Callers : handler[d].job # nextId
  <2> TAKE d \in Callers
  <2>1. handler[d].pc \in {"idle", "list"} => handler[d].job = 0
    BY <1>hdl
  <2>2. handler[d].pc \in {"put", "get", "cancel"} => handler[d].job < nextId
    BY <1>inv, <1>hdl DEF HandlerInv
  <2>3. QED
    BY <1>typ, <1>hdl, <1>1, <2>1, <2>2
<1>7. HandlerInv'
  <2> SUFFICES ASSUME NEW d \in Callers
               PROVE  /\ handler'[d].pc \in {"put", "get", "cancel"} =>
                           handler'[d].job < nextId'
                      /\ handler'[d].pc = "put" =>
                           /\ ~InStore(handler[d].job)'
                           /\ \A e \in Callers \ {d} : handler'[e].job # handler'[d].job
    BY <1>inv, <1>hdl DEF HandlerInv
  <2>1. \A k : InStore(k)' <=> InStore(k)
    BY <1>typ, <1>1 DEF InStore
  <2>2. CASE d = c
    <3>1. handler'[c] = [pc |-> "put", job |-> nextId]
      BY <1>fun, <1>1
    <3>2. ~InStore(handler[c].job)'
      BY <1>1, <1>4, <3>1 DEF InStore
    <3>3. QED
      BY <1>typ, <1>1, <1>5, <1>6, <2>2, <3>1, <3>2
  <2>3. CASE d # c
    <3>1. handler'[d] = handler[d] /\ handler'[c].job = nextId
      BY <1>typ, <1>fun, <1>1, <1>5, <2>3
    <3>2. handler'[d].pc \in {"put", "get", "cancel"} => handler'[d].job < nextId'
      BY <1>inv, <1>typ, <1>hdl, <1>1, <3>1 DEF HandlerInv
    <3>3. handler'[d].pc = "put" =>
            \A e \in Callers \ {d} : handler'[e].job # handler'[d].job
      BY <1>inv, <1>hdl, <1>5, <1>6, <3>1 DEF HandlerInv
    <3>4. QED
      BY <1>inv, <1>hdl, <2>1, <3>1, <3>2, <3>3 DEF HandlerInv
  <2>4. QED
    BY <1>typ, <2>2, <2>3
<1>8. TaskInv'
  BY <1>inv, <1>typ, <1>fun, <1>1 DEF TaskInv, MintedInv
<1>9. AbortIsDeserved'
  <2> SUFFICES ASSUME NEW j \in aborted', cell'[j] = "Running"
               PROVE  ~Reachable(j)'
    BY <1>inv DEF AbortIsDeserved
  <2>1. j \in Ids /\ j # nextId /\ cell[j] = "Running" /\ j \in aborted
    BY <1>inv, <1>typ, <1>fun, <1>1 DEF MintedInv
  <2>2. ~Reachable(j)
    BY <1>inv, <2>1 DEF AbortIsDeserved
  <2>3. QED
    BY <1>typ, <1>fun, <1>hdl, <1>1, <1>5, <2>1, <2>2 DEF Reachable, InStore, Holds
<1>10. QED
  BY <1>typ, <1>hdl, <1>2, <1>3, <1>7, <1>8, <1>9

\* submit's put: the evicted job is aborted only if no handler owns a clone.
LEMMA PutIInv ==
  ASSUME IInv, NEW c \in Callers, SubmitPut(c)
  PROVE  (MintedInv /\ StoreInv /\ HandlerInv /\ TaskInv /\ AbortIsDeserved)'
<1>inv. MintedInv /\ StoreInv /\ HandlerInv /\ TaskInv /\ AbortIsDeserved
  BY IInvFacts
<1>typ. /\ nextId \in Nat \ {0} /\ Capacity \in Nat \ {0} /\ Ids \subseteq Nat
        /\ aborted \subseteq Ids
        /\ lru \in Seq(Ids) /\ Len(lru) \in Nat /\ listing \in Seq(Ids)
        /\ \A i \in 1..Len(lru) : lru[i] \in Ids
        /\ \A i \in 1..Len(listing) : listing[i] \in Ids
  BY IInvFacts
<1>fun. /\ cell \in [Ids -> CellStates] /\ task \in [Ids -> TaskStates]
        /\ handler = [d \in Callers |-> handler[d]]
  BY IInvFacts
<1>hdl. \A d \in Callers :
          /\ handler[d].job \in Nat
          /\ handler[d].pc \in {"idle", "list"} => handler[d].job = 0
          /\ handler[d].pc \in {"put", "get", "cancel"} => handler[d].job \in Ids
          /\ handler[d].pc \in {"idle", "list", "put", "get", "cancel"}
  BY IInvFacts
<1> DEFINE n == IF Len(lru) = Capacity THEN Capacity - 1 ELSE Len(lru)
           new == handler[c].job
<1>1. /\ handler[c].pc = "put" /\ new \in Ids /\ new < nextId /\ ~InStore(new)
      /\ \A d \in Callers \ {c} : handler[d].job # new
      /\ handler' = [handler EXCEPT ![c] = Idle]
      /\ UNCHANGED <<nextId, listing, cell, task, pings>>
  BY <1>inv, <1>fun, <1>hdl DEF SubmitPut, HandlerInv
<1>2. n \in Nat /\ n <= Len(lru) /\ Len(lru) \in Nat
  BY <1>typ, LenProperties
<1>3. lru' = <<new>> \o SubSeq(lru, 1, n)
  <2>1. CASE Len(lru) = Capacity
    BY <1>fun, <2>1 DEF SubmitPut
  <2>2. CASE Len(lru) # Capacity
    <3>1. SubSeq(lru, 1, Len(lru)) = lru
      BY <1>typ, SubSeqFull
    <3>2. QED
      BY <1>fun, <2>2, <3>1 DEF SubmitPut
  <2>3. QED
    BY <1>typ, <2>1, <2>2
<1>4. /\ Len(lru') = n + 1
      /\ \A k \in 1..(n + 1) : lru'[k] = IF k = 1 THEN new ELSE lru[k - 1]
  BY <1>typ, <1>1, <1>2, <1>3, PutKeeps
<1> HIDE DEF n
<1>5. \A j : InStore(j)' <=> j = new \/ \E i \in 1..n : lru[i] = j
  <2> TAKE j
  <2>1. InStore(j)' => j = new \/ \E i \in 1..n : lru[i] = j
    <3> SUFFICES ASSUME NEW k \in 1..(n + 1), lru'[k] = j, k # 1
                 PROVE  \E i \in 1..n : lru[i] = j
      BY <1>typ, <1>2, <1>4 DEF InStore
    <3>1. k - 1 \in 1..n /\ lru[k - 1] = j
      BY <1>typ, <1>2, <1>4
    <3>2. QED
      BY <1>typ, <3>1
  <2>2. j = new => InStore(j)'
    BY <1>typ, <1>2, <1>4 DEF InStore
  <2>3. ASSUME NEW i \in 1..n, lru[i] = j
        PROVE  InStore(j)'
    <3>1. i + 1 \in 1..(n + 1) /\ lru'[i + 1] = j
      BY <1>typ, <1>2, <1>4, <2>3
    <3>2. QED
      BY <1>typ, <1>4, <3>1 DEF InStore
  <2>4. QED
    BY <1>typ, <2>1, <2>2, <2>3
<1>6. MintedInv'
  <2>1. aborted' \ aborted \subseteq {j \in Ids : InStore(j)}
    <3>1. aborted' \ aborted \subseteq {j \in Ids : Len(lru) = Capacity /\ j = lru[Capacity]}
      BY <1>fun DEF SubmitPut
    <3>2. QED
      BY <1>typ, <3>1 DEF InStore
  <2>2. \A j \in Ids : InStore(j) => j < nextId
    BY <1>inv, <1>typ DEF InStore, StoreInv
  <2>3. QED
    BY <1>inv, <1>typ, <1>fun, <1>1, <2>1, <2>2 DEF MintedInv
<1>7. StoreInv'
  <2>1. \A i \in 1..Len(lru') : lru'[i] < nextId'
    BY <1>inv, <1>typ, <1>1, <1>2, <1>4 DEF StoreInv
  <2>2. ASSUME NEW i \in 1..Len(lru'), NEW k \in 1..Len(lru'), lru'[i] = lru'[k]
        PROVE  i = k
    <3>1. \A m \in 1..Len(lru') : m # 1 => m - 1 \in 1..Len(lru) /\ lru'[m] = lru[m - 1]
      BY <1>typ, <1>2, <1>4
    <3>2. lru'[1] = new /\ \A m \in 1..Len(lru) : lru[m] # new
      BY <1>1, <1>2, <1>4 DEF InStore
    <3>3. i = 1 <=> k = 1
      BY <2>2, <3>1, <3>2
    <3>4. CASE i # 1 /\ k # 1
      <4>1. i - 1 = k - 1
        BY <1>inv, <2>2, <3>1, <3>4 DEF StoreInv
      <4>2. QED
        BY <4>1, <1>2, <1>4
    <3>5. QED
      BY <3>3, <3>4
  <2>3. QED
    BY <1>inv, <1>typ, <1>1, <2>1, <2>2 DEF StoreInv
<1>8. \A j : InStore(j)' => j = new \/ InStore(j)
  <2>1. \A i \in 1..n : i \in 1..Len(lru)
    BY <1>2
  <2>2. QED
    BY <1>5, <2>1 DEF InStore
<1>9. \A d \in Callers : handler'[d] = IF d = c THEN Idle ELSE handler[d]
  BY <1>fun, <1>1
<1>10. HandlerInv'
  <2> SUFFICES ASSUME NEW d \in Callers, handler'[d].pc \in {"put", "get", "cancel"}
               PROVE  /\ handler'[d].job < nextId'
                      /\ handler'[d].pc = "put" =>
                           /\ ~InStore(handler[d].job)'
                           /\ \A e \in Callers \ {d} : handler'[e].job # handler'[d].job
    BY <1>inv, <1>hdl DEF HandlerInv
  <2>1. d # c /\ handler'[d] = handler[d] /\ handler[d].job \in Ids
    BY <1>hdl, <1>9 DEF Idle
  <2>2. handler[d].job # new
    BY <1>typ, <1>1, <2>1
  <2>3. handler'[c].job = 0
    BY <1>hdl, <1>9 DEF Idle
  <2>4. handler'[d].job < nextId'
    BY <1>inv, <1>1, <2>1 DEF HandlerInv
  <2>5. ASSUME handler'[d].pc = "put"
        PROVE  /\ ~InStore(handler[d].job)'
               /\ \A e \in Callers \ {d} : handler'[e].job # handler'[d].job
    <3>1. handler[d].pc = "put" /\ ~InStore(handler[d].job)
      BY <1>inv, <2>1, <2>5 DEF HandlerInv
    <3>2. \A e \in Callers \ {d} : handler'[e].job # handler'[d].job
      BY <1>inv, <1>typ, <1>9, <2>1, <2>3, <3>1 DEF HandlerInv, Ids
    <3>3. handler'[d].job = handler[d].job
      BY <2>1
    <3>4. QED
      BY <1>8, <2>2, <3>1, <3>2, <3>3
  <2>6. QED
    BY <2>4, <2>5
<1>11. TaskInv'
  BY <1>inv, <1>fun, <1>1 DEF TaskInv, SubmitPut
<1>12. AbortIsDeserved'
  <2> SUFFICES ASSUME NEW j \in aborted', cell'[j] = "Running"
               PROVE  ~Reachable(j)'
    BY <1>inv DEF AbortIsDeserved
  <2>1. \A d \in Callers : handler'[d].pc = "put" =>
          d # c /\ handler[d].pc = "put" /\ handler'[d].job = handler[d].job
    BY <1>hdl, <1>9 DEF Idle
  <2>2. \A d \in Callers : Holds(d, j)' => d # c /\ Holds(d, j)
    BY <1>hdl, <1>9 DEF Idle, Holds
  <2>3. CASE j \in aborted
    <3>1. ~Reachable(j) /\ cell[j] = "Running"
      BY <1>inv, <1>1, <2>3 DEF AbortIsDeserved
    <3>2. j # new
      BY <1>1, <3>1 DEF Reachable
    <3>3. QED
      BY <1>hdl, <1>8, <2>1, <2>2, <3>1, <3>2 DEF Reachable
  <2>4. CASE j \notin aborted
    <3>1. Len(lru) = Capacity /\ j = lru[Capacity] /\ ~HeldByOther(c, j)
      BY <1>fun, <2>4 DEF SubmitPut
    <3>2. j # new /\ InStore(j)
      BY <1>typ, <1>1, <3>1 DEF InStore
    <3>3. ~InStore(j)'
      BY <1>inv, <1>typ, <1>2, <1>5, <3>1, <3>2 DEF StoreInv, n
    <3>4. QED
      BY <1>inv, <1>hdl, <2>1, <2>2, <3>1, <3>2, <3>3 DEF Reachable, HeldByOther, HandlerInv
  <2>5. QED
    BY <1>typ, <2>3, <2>4
<1>13. QED
  BY <1>typ, <1>6, <1>7, <1>10, <1>11, <1>12

\* The lookup of get and cancel: only the order of the map changes.
LEMMA LookupIInv ==
  ASSUME IInv, NEW c \in Callers, NEW j \in Ids, NEW pc \in {"get", "cancel"},
         Lookup(c, j, pc)
  PROVE  (MintedInv /\ StoreInv /\ HandlerInv /\ TaskInv /\ AbortIsDeserved)'
<1>inv. MintedInv /\ StoreInv /\ HandlerInv /\ TaskInv /\ AbortIsDeserved
  BY IInvFacts
<1>typ. /\ nextId \in Nat \ {0} /\ Capacity \in Nat \ {0} /\ Ids \subseteq Nat
        /\ aborted \subseteq Ids
        /\ lru \in Seq(Ids) /\ Len(lru) \in Nat /\ listing \in Seq(Ids)
        /\ \A i \in 1..Len(lru) : lru[i] \in Ids
        /\ \A i \in 1..Len(listing) : listing[i] \in Ids
  BY IInvFacts
<1>fun. /\ cell \in [Ids -> CellStates] /\ task \in [Ids -> TaskStates]
        /\ handler = [d \in Callers |-> handler[d]]
  BY IInvFacts
<1>hdl. \A d \in Callers :
          /\ handler[d].job \in Nat
          /\ handler[d].pc \in {"idle", "list"} => handler[d].job = 0
          /\ handler[d].pc \in {"put", "get", "cancel"} => handler[d].job \in Ids
          /\ handler[d].pc \in {"idle", "list", "put", "get", "cancel"}
  BY IInvFacts
<1>1. PICK i \in 1..Len(lru) : lru[i] = j /\ lru' = Promote(lru, i)
  BY <1>fun DEF Lookup
<1>2. /\ Len(lru) \in Nat /\ Len(lru') = Len(lru)
      /\ \A k \in 1..Len(lru) :
           lru'[k] = IF k = 1 THEN lru[i] ELSE IF k <= i THEN lru[k - 1] ELSE lru[k]
  BY <1>typ, <1>1, PromoteMoves, LenProperties
<1>3. /\ handler' = [handler EXCEPT ![c] = [pc |-> pc, job |-> j]]
      /\ handler[c] = Idle
      /\ UNCHANGED <<nextId, listing, cell, task, aborted, pings>>
  BY <1>fun DEF Lookup, taskVars
<1>4. InStore(j) /\ j < nextId
  BY <1>inv, <1>typ, <1>1 DEF InStore, StoreInv
<1>5. \A k : InStore(k)' => InStore(k)
  <2> SUFFICES ASSUME NEW k, NEW p \in 1..Len(lru), lru'[p] = k
               PROVE  InStore(k)
    BY <1>typ, <1>2 DEF InStore
  <2>1. \E q \in 1..Len(lru) : lru'[p] = lru[q]
    <3>1. CASE p = 1
      BY <1>typ, <1>2, <3>1
    <3>2. CASE p # 1 /\ p <= i
      BY <1>typ, <1>2, <3>2, p - 1 \in 1..Len(lru)
    <3>3. CASE p # 1 /\ p > i
      BY <1>typ, <1>2, <3>3
    <3>4. QED
      BY <1>typ, <3>1, <3>2, <3>3
  <2>2. QED
    BY <1>typ, <2>1 DEF InStore
<1>6. MintedInv'
  BY <1>inv, <1>typ, <1>fun, <1>3 DEF MintedInv
<1>7. StoreInv'
  <2>1. ASSUME NEW k \in 1..Len(lru')
        PROVE  lru'[k] < nextId'
    <3>1. PICK id : id = lru'[k]
      OBVIOUS
    <3>2. InStore(id)'
      BY <2>1, <3>1 DEF InStore
    <3>3. InStore(id)
      BY <1>5, <3>2
    <3>4. QED
      BY <1>inv, <1>3, <3>1, <3>3 DEF StoreInv, InStore
  <2>2. \A k, m \in 1..Len(lru') : lru'[k] = lru'[m] => k = m
    <3> DEFINE at(k) == IF k = 1 THEN i ELSE IF k <= i THEN k - 1 ELSE k
    <3>1. \A k \in 1..Len(lru) : at(k) \in 1..Len(lru) /\ lru'[k] = lru[at(k)]
      BY <1>typ, <1>2
    <3>2. \A k, m \in 1..Len(lru) : at(k) = at(m) => k = m
      BY <1>typ, <1>2
    <3>3. \A k, m \in 1..Len(lru) : lru[k] = lru[m] => k = m
      BY <1>inv DEF StoreInv
    <3> HIDE DEF at
    <3>4. ASSUME NEW k \in 1..Len(lru), NEW m \in 1..Len(lru), lru'[k] = lru'[m]
          PROVE  k = m
      <4>1. lru[at(k)] = lru[at(m)] /\ at(k) \in 1..Len(lru) /\ at(m) \in 1..Len(lru)
        BY <3>1, <3>4
      <4>2. at(k) = at(m)
        BY <3>3, <4>1
      <4>3. QED
        BY <3>2, <4>2
    <3>5. QED
      BY <1>2, <3>4
  <2>3. QED
    BY <1>inv, <1>typ, <1>3, <2>1, <2>2 DEF StoreInv
<1>8. \A d \in Callers : handler'[d] = IF d = c THEN [pc |-> pc, job |-> j] ELSE handler[d]
  BY <1>fun, <1>3
<1>9. HandlerInv'
  <2> SUFFICES ASSUME NEW d \in Callers, handler'[d].pc \in {"put", "get", "cancel"}
               PROVE  /\ handler'[d].job < nextId'
                      /\ handler'[d].pc = "put" =>
                           /\ ~InStore(handler[d].job)'
                           /\ \A e \in Callers \ {d} : handler'[e].job # handler'[d].job
    BY <1>inv, <1>hdl DEF HandlerInv
  <2>1. CASE d = c
    BY <1>typ, <1>hdl, <1>3, <1>4, <1>8, <2>1
  <2>2. CASE d # c
    <3>1. handler'[d] = handler[d]
      BY <1>typ, <1>hdl, <1>8, <2>2
    <3>2. handler[d].pc = "put" => handler[d].job # j
      BY <1>inv, <1>hdl, <1>4 DEF HandlerInv
    <3>3. QED
      BY <1>inv, <1>hdl, <1>3, <1>5, <1>8, <3>1, <3>2 DEF HandlerInv
  <2>3. QED
    BY <1>typ, <2>1, <2>2
<1>10. TaskInv'
  BY <1>inv, <1>fun, <1>3 DEF TaskInv
<1>11. AbortIsDeserved'
  <2> SUFFICES ASSUME NEW k \in aborted', cell'[k] = "Running"
               PROVE  ~Reachable(k)'
    BY <1>inv DEF AbortIsDeserved
  <2>1. ~Reachable(k)
    BY <1>inv, <1>3 DEF AbortIsDeserved
  <2>2. k # j
    BY <1>4, <2>1 DEF Reachable
  <2>3. QED
    BY <1>hdl, <1>5, <1>8, <2>1, <2>2 DEF Reachable, Holds
<1>12. QED
  BY <1>typ, <1>hdl, <1>6, <1>7, <1>9, <1>10, <1>11

\* A reply: the handler is idle again and lets go of its clone; the cell may
\* have become Canceled, and then the task was aborted with it.
LEMMA ReplyIInv ==
  ASSUME IInv, NEW c \in Callers, GetSnapshot(c) \/ CancelMark(c)
  PROVE  (MintedInv /\ StoreInv /\ HandlerInv /\ TaskInv /\ AbortIsDeserved)'
<1> DEFINE job == handler[c].job
<1>inv. MintedInv /\ StoreInv /\ HandlerInv /\ TaskInv /\ AbortIsDeserved
  BY IInvFacts
<1>typ. nextId \in Nat \ {0} /\ Ids \subseteq Nat /\ aborted \subseteq Ids
  BY IInvFacts
<1>fun. /\ cell \in [Ids -> CellStates] /\ task \in [Ids -> TaskStates]
        /\ handler = [d \in Callers |-> handler[d]]
  BY IInvFacts
<1>1. /\ handler[c].pc \in {"get", "cancel"}
      /\ handler' = [handler EXCEPT ![c] = Idle]
      /\ UNCHANGED <<nextId, lru, listing, task, pings>>
  BY DEF GetSnapshot, CancelMark, storeVars
<1>2. job \in Ids /\ job < nextId /\ Release(c) \subseteq {job}
  <2>1. job \in Ids
    BY <1>1, IInvFacts
  <2>2. QED
    BY <1>inv, <1>1, <2>1 DEF HandlerInv, Release
<1>3. \/ cell' = cell /\ aborted' = aborted \cup Release(c)
      \/ /\ cell[job] = "Running"
         /\ cell' = [cell EXCEPT ![job] = "Canceled"]
         /\ aborted' = aborted \cup {job}
  BY DEF GetSnapshot, CancelMark
<1> HIDE DEF job
<1>4. MintedInv'
  BY <1>inv, <1>typ, <1>fun, <1>1, <1>2, <1>3 DEF MintedInv
<1>5. StoreInv'
  BY <1>inv, <1>1 DEF StoreInv
<1>6. \A d \in Callers : handler'[d] = IF d = c THEN Idle ELSE handler[d]
  BY <1>fun, <1>1
<1>7. HandlerInv'
  <2> SUFFICES ASSUME NEW d \in Callers, handler'[d].pc \in {"put", "get", "cancel"}
               PROVE  /\ handler'[d].job < nextId'
                      /\ handler'[d].pc = "put" =>
                           /\ ~InStore(handler[d].job)'
                           /\ \A e \in Callers \ {d} : handler'[e].job # handler'[d].job
    BY DEF HandlerInv
  <2>1. d # c /\ handler'[d] = handler[d] /\ handler[d].job \in Ids
    BY <1>6, IInvFacts DEF Idle
  <2>2. handler'[c].job = 0 /\ 0 \notin Ids
    BY <1>6, IdsAreNumbers DEF Idle
  <2>3. handler'[d].job < nextId'
    BY <1>inv, <1>1, <2>1 DEF HandlerInv
  <2>4. ASSUME handler'[d].pc = "put"
        PROVE  /\ ~InStore(handler[d].job)'
               /\ \A e \in Callers \ {d} : handler'[e].job # handler'[d].job
    <3>1. handler[d].pc = "put" /\ ~InStore(handler[d].job)
      BY <1>inv, <2>1, <2>4 DEF HandlerInv
    <3>2. \A e \in Callers \ {d} : handler'[e].job # handler'[d].job
      BY <1>inv, <1>6, <2>1, <2>2, <3>1 DEF HandlerInv
    <3>3. InStore(handler[d].job)' => InStore(handler[d].job)
      BY <1>1, <2>1 DEF InStore
    <3>4. QED
      BY <3>1, <3>2, <3>3
  <2>5. QED
    BY <2>3, <2>4
<1>8. TaskInv'
  BY <1>inv, <1>typ, <1>fun, <1>1, <1>2, <1>3 DEF TaskInv, Landed
<1>9. AbortIsDeserved'
  <2> SUFFICES ASSUME NEW k \in aborted', cell'[k] = "Running"
               PROVE  ~Reachable(k)'
    BY DEF AbortIsDeserved
  <2>1. cell[k] = "Running" /\ k \in aborted \cup Release(c) /\ k \in Ids
    BY <1>typ, <1>fun, <1>2, <1>3
  <2>2. Reachable(k)' => Reachable(k) /\ k \notin Release(c)
    BY <1>1, <2>1, ReleaseIsLast
  <2>3. k \in aborted => ~Reachable(k)
    BY <1>inv, <2>1 DEF AbortIsDeserved
  <2>4. QED
    BY <2>1, <2>2, <2>3
<1>10. QED
  BY <1>4, <1>5, <1>7, <1>8, <1>9

\* list reads: it moves no entry and resolves no job.
LEMMA ListIInv ==
  ASSUME IInv, NEW c \in Callers, ListBegin(c) \/ ListRow(c) \/ ListEnd(c)
  PROVE  (MintedInv /\ StoreInv /\ HandlerInv /\ TaskInv /\ AbortIsDeserved)'
<1>inv. MintedInv /\ StoreInv /\ HandlerInv /\ TaskInv /\ AbortIsDeserved
  BY IInvFacts
<1>fun. handler = [d \in Callers |-> handler[d]]
  BY IInvFacts
<1>1. UNCHANGED <<nextId, lru, cell, task, aborted, pings>>
  BY DEF ListBegin, ListRow, ListEnd, taskVars
<1>2. handler' = handler \/ (\E h \in {Idle, [pc |-> "list", job |-> 0]} :
                               handler' = [handler EXCEPT ![c] = h])
  BY DEF ListBegin, ListRow, ListEnd
<1>3. \A d \in Callers : \/ handler'[d] = handler[d]
                         \/ handler'[d].pc \in {"idle", "list"} /\ handler'[d].job = 0
  BY <1>fun, <1>2 DEF Idle
<1>4. MintedInv' /\ TaskInv'
  BY <1>inv, <1>1 DEF MintedInv, TaskInv
<1>5. StoreInv'
  <2>1. \A i \in 1..Len(listing') : listing'[i] < nextId
    <3>1. CASE ListBegin(c)
      BY <1>inv, <3>1 DEF ListBegin, StoreInv
    <3>2. CASE ListRow(c)
      <4>1. /\ listing' = Tail(listing) /\ Len(Tail(listing)) = Len(listing) - 1
            /\ \A i \in 1..Len(Tail(listing)) : Tail(listing)[i] = listing[i + 1]
        BY <3>2, HeadTailProperties, IInvFacts DEF ListRow
      <4>2. Len(listing) \in Nat
        BY IInvFacts, LenProperties
      <4>3. QED
        BY <1>inv, <4>1, <4>2 DEF StoreInv
    <3>3. CASE ListEnd(c)
      BY <1>inv, <3>3 DEF ListEnd, StoreInv
    <3>4. QED
      BY <3>1, <3>2, <3>3
  <2>2. QED
    BY <1>inv, <1>1, <2>1 DEF StoreInv
<1>6. HandlerInv'
  <2> SUFFICES ASSUME NEW d \in Callers, handler'[d].pc \in {"put", "get", "cancel"}
               PROVE  /\ handler'[d].job < nextId'
                      /\ handler'[d].pc = "put" =>
                           /\ ~InStore(handler[d].job)'
                           /\ \A e \in Callers \ {d} : handler'[e].job # handler'[d].job
    BY DEF HandlerInv
  <2>1. handler'[d] = handler[d] /\ handler[d].job \in Ids
    BY <1>3, IInvFacts
  <2>2. 0 \notin Ids
    BY IdsAreNumbers
  <2>3. handler'[d].job < nextId'
    BY <1>inv, <1>1, <2>1 DEF HandlerInv
  <2>4. ASSUME handler'[d].pc = "put"
        PROVE  /\ ~InStore(handler[d].job)'
               /\ \A e \in Callers \ {d} : handler'[e].job # handler'[d].job
    <3>1. handler[d].pc = "put" /\ ~InStore(handler[d].job)
      BY <1>inv, <2>1, <2>4 DEF HandlerInv
    <3>2. \A e \in Callers \ {d} : handler'[e].job # handler'[d].job
      BY <1>inv, <1>3, <2>1, <2>2, <3>1 DEF HandlerInv
    <3>3. InStore(handler[d].job)' => InStore(handler[d].job)
      BY <1>1, <2>1 DEF InStore
    <3>4. QED
      BY <3>1, <3>2, <3>3
  <2>5. QED
    BY <2>3, <2>4
<1>7. AbortIsDeserved'
  <2> SUFFICES ASSUME NEW k \in aborted', cell'[k] = "Running"
               PROVE  ~Reachable(k)'
    BY DEF AbortIsDeserved
  <2>1. ~Reachable(k)
    BY <1>inv, <1>1 DEF AbortIsDeserved
  <2>2. QED
    BY <1>1, <1>3, <2>1 DEF Reachable, InStore, Holds
<1>8. QED
  BY <1>4, <1>5, <1>6, <1>7

\* Every step of the registry keeps the invariant.
LEMMA NextIInv == IInv /\ [Next]_vars => IInv'
<1> SUFFICES ASSUME IInv, [Next]_vars
             PROVE  IInv'
  OBVIOUS
<1>1. TypeOK'
  BY NextTypeOK DEF IInv
<1>2. (MintedInv /\ StoreInv /\ HandlerInv /\ TaskInv /\ AbortIsDeserved)'
  <2>1. ASSUME NEW c \in Callers, SubmitSpawn(c)
        PROVE  (MintedInv /\ StoreInv /\ HandlerInv /\ TaskInv /\ AbortIsDeserved)'
    BY <2>1, SpawnIInv
  <2>2. ASSUME NEW c \in Callers, SubmitPut(c)
        PROVE  (MintedInv /\ StoreInv /\ HandlerInv /\ TaskInv /\ AbortIsDeserved)'
    BY <2>2, PutIInv
  <2>3. ASSUME NEW c \in Callers, GetSnapshot(c) \/ CancelMark(c)
        PROVE  (MintedInv /\ StoreInv /\ HandlerInv /\ TaskInv /\ AbortIsDeserved)'
    BY <2>3, ReplyIInv
  <2>4. ASSUME NEW c \in Callers, ListBegin(c) \/ ListRow(c) \/ ListEnd(c)
        PROVE  (MintedInv /\ StoreInv /\ HandlerInv /\ TaskInv /\ AbortIsDeserved)'
    BY <2>4, ListIInv
  <2>5. ASSUME NEW c \in Callers, NEW j \in Ids, GetLookup(c, j) \/ CancelLookup(c, j)
        PROVE  (MintedInv /\ StoreInv /\ HandlerInv /\ TaskInv /\ AbortIsDeserved)'
    BY <2>5, LookupIInv DEF GetLookup, CancelLookup
  <2>6. ASSUME NEW j \in Ids,
               \/ TaskStep(j)
               \/ FuturePanics(j)
               \/ \E verdict \in {"returnedOk", "returnedErr"} : FutureReturns(j, verdict)
        PROVE  (MintedInv /\ StoreInv /\ HandlerInv /\ TaskInv /\ AbortIsDeserved)'
    BY <2>6, TaskStepIInv
  <2>7. CASE UNCHANGED vars
    <3>1. UNCHANGED <<nextId, cell, task, aborted, lru, listing, handler, pings>>
      BY <2>7 DEF vars, storeVars, taskVars
    <3>2. QED
      BY <3>1 DEF IInv, MintedInv, StoreInv, HandlerInv, TaskInv, AbortIsDeserved,
                  Reachable, InStore, Holds
  <2>8. QED
    BY <2>1, <2>2, <2>3, <2>4, <2>5, <2>6, <2>7 DEF Next, HandlerStep
<1>3. QED
  BY <1>1, <1>2 DEF IInv

\* The invariant holds of every reachable state.
LEMMA Invariance == Spec => []IInv
  BY InitIInv, NextIInv, PTL DEF Spec

\* job_cancel and Job::drop never stop work a caller could still collect.
THEOREM AbortCorrect == Spec => []AbortIsDeserved
<1>1. IInv => AbortIsDeserved
  BY DEF IInv
<1>2. QED
  BY <1>1, Invariance, PTL

\* No job is shown running once its task is gone (FinishGuard).
THEOREM EndCorrect == Spec => []NoEternalRunning
<1>1. IInv => NoEternalRunning
  <2> SUFFICES ASSUME IInv, NEW j \in Ids, task[j] = "ended", Reachable(j)
               PROVE  cell[j] \in Terminal
    BY DEF NoEternalRunning
  <2>1. cell[j] \in CellStates /\ MintedInv /\ TaskInv /\ AbortIsDeserved
    BY IInvFacts
  <2>2. cell[j] # "absent"
    BY <2>1 DEF MintedInv
  <2>3. cell[j] # "Running"
    BY <2>1 DEF TaskInv, AbortIsDeserved
  <2>4. QED
    BY <2>1, <2>2, <2>3 DEF CellStates
<1>2. QED
  BY <1>1, Invariance, PTL

\* A step that moves one task on keeps outcomes and pings together.
LEMMA TaskStepLanding ==
  ASSUME IInv, LandingInv, NEW j \in Ids,
         \/ TaskStep(j)
         \/ FuturePanics(j)
         \/ \E verdict \in {"returnedOk", "returnedErr"} : FutureReturns(j, verdict)
  PROVE  LandingInv'
<1>1. /\ cell \in [Ids -> CellStates] /\ task \in [Ids -> TaskStates]
      /\ pings \in [Ids -> Nat] /\ TaskInv
  BY DEF IInv, TypeOK
<1> USE DEF LandingInv, DoneIsPinged
<1>2. CASE FirstPoll(j)
  BY <1>1, <1>2 DEF FirstPoll
<1>3. CASE AbortTakes(j)
  BY <1>1, <1>3 DEF AbortTakes
<1>4. CASE LandOutcome(j)
  BY <1>1, <1>4 DEF LandOutcome
<1>5. CASE Signal(j)
  BY <1>1, <1>5 DEF Signal, TaskInv
<1>6. CASE FinishGuardDrop(j)
  BY <1>1, <1>6 DEF FinishGuardDrop
<1>7. CASE FuturePanics(j)
  BY <1>1, <1>7 DEF FuturePanics
<1>8. CASE \E verdict \in {"returnedOk", "returnedErr"} : FutureReturns(j, verdict)
  BY <1>1, <1>8 DEF FutureReturns
<1>9. QED
  BY <1>2, <1>3, <1>4, <1>5, <1>6, <1>7, <1>8 DEF TaskStep

\* A handler only ever creates a job or turns a Running cell into Canceled.
LEMMA HandlerLanding ==
  ASSUME IInv, LandingInv, UNCHANGED pings,
         \/ task' = task /\ cell' = cell
         \/ /\ nextId \in Ids
            /\ cell' = [cell EXCEPT ![nextId] = "Running"]
            /\ task' = [task EXCEPT ![nextId] = "spawned"]
         \/ \E j \in Ids : /\ cell[j] = "Running" /\ task' = task
                           /\ cell' = [cell EXCEPT ![j] = "Canceled"]
  PROVE  LandingInv'
<1>1. cell \in [Ids -> CellStates] /\ task \in [Ids -> TaskStates]
  BY DEF IInv, TypeOK
<1>2. QED
  BY <1>1 DEF LandingInv, DoneIsPinged

\* A job that is Done once its task is over has pinged (submit).
THEOREM PingCorrect == Spec => []DoneIsPinged
<1>1. Init => LandingInv
  BY DEF Init, LandingInv, DoneIsPinged
<1>2. IInv /\ LandingInv /\ [Next]_vars => LandingInv'
  <2> SUFFICES ASSUME IInv, LandingInv, [Next]_vars
               PROVE  LandingInv'
    OBVIOUS
  <2>1. ASSUME NEW c \in Callers, SubmitSpawn(c)
        PROVE  LandingInv'
    <3>1. nextId \in Ids
      BY <2>1, IInvFacts, JobStoreAssumption DEF SubmitSpawn, Ids
    <3>2. QED
      BY <2>1, <3>1, HandlerLanding DEF SubmitSpawn
  <2>2. ASSUME NEW c \in Callers, CancelMark(c)
        PROVE  LandingInv'
    <3>1. handler[c].job \in Ids
      BY <2>2, IInvFacts DEF CancelMark
    <3>2. QED
      BY <2>2, <3>1, HandlerLanding DEF CancelMark
  <2>3. ASSUME NEW c \in Callers,
               SubmitPut(c) \/ GetSnapshot(c) \/ ListBegin(c) \/ ListRow(c) \/ ListEnd(c)
        PROVE  LandingInv'
    BY <2>3, HandlerLanding
       DEF SubmitPut, GetSnapshot, ListBegin, ListRow, ListEnd, taskVars
  <2>4. ASSUME NEW c \in Callers, NEW j \in Ids, GetLookup(c, j) \/ CancelLookup(c, j)
        PROVE  LandingInv'
    BY <2>4, HandlerLanding DEF GetLookup, CancelLookup, Lookup, taskVars
  <2>5. CASE UNCHANGED vars
    BY <2>5, HandlerLanding DEF vars, taskVars
  <2>6. QED
    BY <2>1, <2>2, <2>3, <2>4, <2>5, TaskStepLanding DEF Next, HandlerStep
<1>3. LandingInv => DoneIsPinged
  BY DEF LandingInv
<1>4. QED
  BY <1>1, <1>2, <1>3, Invariance, PTL DEF Spec
-----------------------------------------------------------------------------
(***************************************************************************)
(* The registry implements JobLifecycle, with the status cell as state.    *)
(***************************************************************************)

\* A registry step that leaves cells, reports and pings alone is a stutter.
LEMMA StutterRefines ==
  ASSUME UNCHANGED <<cell, told, pings>>
  PROVE  [Lifecycle!Next]_(Lifecycle!lcVars)
  BY DEF Lifecycle!lcVars

\* The tail of a task resolves its job once, from Running, and pings after
\* (submit, FinishGuard::drop).
LEMMA TaskStepRefines ==
  ASSUME IInv, NEW j \in Ids, TaskStep(j)
  PROVE  [Lifecycle!Next]_(Lifecycle!lcVars)
<1> USE DEF TypeOK
<1>1. TypeOK /\ TaskInv
  BY DEF IInv
<1>2. CASE FirstPoll(j) \/ AbortTakes(j)
  BY <1>2, StutterRefines DEF FirstPoll, AbortTakes
<1>3. CASE LandOutcome(j)
  <2>1. CASE cell[j] = "Running"
    <3>1. PICK s \in {"Done", "Failed"} : cell' = [cell EXCEPT ![j] = s]
      BY <1>3, <2>1 DEF LandOutcome
    <3>2. Lifecycle!Resolve(j, s)
      BY <1>3, <2>1, <3>1 DEF LandOutcome, Lifecycle!Resolve
    <3>3. QED
      BY <3>2 DEF Lifecycle!Next, Lifecycle!Landed
  <2>2. CASE cell[j] # "Running"
    BY <1>3, <2>2, StutterRefines DEF LandOutcome
  <2>3. QED
    BY <2>1, <2>2
<1>4. CASE Signal(j)
  <2>1. cell[j] \in {"Done", "Failed"} /\ pings[j] = 0
    BY <1>1, <1>4 DEF Signal, TaskInv, Landed
  <2>2. Lifecycle!Ping(j)
    BY <1>1, <1>4, <2>1 DEF Signal, Lifecycle!Ping, Lifecycle!Landed
  <2>3. QED
    BY <2>2 DEF Lifecycle!Next
<1>5. CASE FinishGuardDrop(j)
  <2>1. CASE cell[j] = "Running"
    <3>1. Lifecycle!Resolve(j, "Failed")
      BY <1>5, <2>1 DEF FinishGuardDrop, Lifecycle!Resolve
    <3>2. QED
      BY <3>1 DEF Lifecycle!Next, Lifecycle!Landed
  <2>2. CASE cell[j] # "Running"
    BY <1>1, <1>5, <2>2, StutterRefines DEF FinishGuardDrop
  <2>3. QED
    BY <2>1, <2>2
<1>6. QED
  BY <1>2, <1>3, <1>4, <1>5 DEF TaskStep

\* What a caller is shown of a job is the state of its cell at that instant:
\* get and list report it, cancel resolves a running job as it reports.
LEMMA HandlerRefines ==
  ASSUME IInv, NEW c \in Callers, HandlerStep(c)
  PROVE  [Lifecycle!Next]_(Lifecycle!lcVars)
<1> DEFINE job == handler[c].job
<1>1. MintedInv /\ HandlerInv /\ StoreInv /\ cell \in [Ids -> CellStates]
      /\ listing \in Seq(Ids)
  BY IInvFacts
<1>2. handler[c].pc \in {"get", "cancel"} => job \in Ids /\ cell[job] # "absent"
  BY <1>1, IInvFacts DEF HandlerInv, MintedInv
<1>3. ASSUME NEW j \in Ids, cell[j] # "absent", UNCHANGED <<cell, pings>>,
             told' = [told EXCEPT ![j] = cell[j]]
      PROVE  Lifecycle!Next
  <2>1. Lifecycle!Report(j)
    BY <1>3 DEF Lifecycle!Report
  <2>2. QED
    BY <2>1 DEF Lifecycle!Next
<1>4. CASE SubmitPut(c)
  BY <1>4, StutterRefines DEF SubmitPut
<1>5. CASE GetSnapshot(c)
  BY <1>2, <1>3, <1>5 DEF GetSnapshot
<1>6. CASE CancelMark(c)
  <2>1. handler[c].pc = "cancel" /\ UNCHANGED pings
    BY <1>6 DEF CancelMark
  <2>2. CASE cell[job] = "Running"
    <3>1. Lifecycle!CancelAndReport(job)
      BY <1>6, <2>1, <2>2 DEF CancelMark, Landed, Lifecycle!CancelAndReport
    <3>2. QED
      BY <1>2, <2>1, <3>1 DEF Lifecycle!Next
  <2>3. CASE cell[job] = "Canceled"
    BY <1>2, <1>3, <1>6, <2>1, <2>3 DEF CancelMark, Landed
  <2>4. CASE cell[job] \in Landed
    BY <1>6, <2>1, <2>4, StutterRefines DEF CancelMark, Landed
  <2>5. QED
    BY <1>6, <2>2, <2>3, <2>4 DEF CancelMark
<1>7. CASE ListRow(c)
  <2>1. listing # <<>> /\ Len(listing) \in Nat /\ Head(listing) = listing[1] /\ 1 \in 1..Len(listing)
    BY <1>1, <1>7, HeadTailProperties, LenProperties, EmptySeq DEF ListRow
  <2>2. Head(listing) \in Ids /\ Head(listing) < nextId
    BY <1>1, <2>1, IInvFacts DEF StoreInv
  <2>3. cell[Head(listing)] # "absent"
    BY <1>1, <2>2 DEF MintedInv
  <2>4. QED
    BY <1>3, <1>7, <2>2, <2>3 DEF ListRow, taskVars
<1>8. CASE ListEnd(c)
  BY <1>8, StutterRefines DEF ListEnd, taskVars
<1>9. QED
  BY <1>4, <1>5, <1>6, <1>7, <1>8 DEF HandlerStep

\* The registry, with every interleaving of tasks, handlers and eviction, is a
\* set of jobs that resolve once and are reported truthfully (JobLifecycle).
THEOREM Refinement == Spec => LifecycleSpec
<1>1. Init => Lifecycle!Init
  BY DEF Init, Lifecycle!Init
<1>2. IInv /\ [Next]_vars => [Lifecycle!Next]_(Lifecycle!lcVars)
  <2> SUFFICES ASSUME IInv, [Next]_vars
               PROVE  [Lifecycle!Next]_(Lifecycle!lcVars)
    OBVIOUS
  <2>1. CASE UNCHANGED vars
    BY <2>1, StutterRefines DEF vars, taskVars
  <2>2. ASSUME NEW c \in Callers, SubmitSpawn(c)
        PROVE  [Lifecycle!Next]_(Lifecycle!lcVars)
    <3>1. nextId \in Ids /\ cell[nextId] = "absent"
      <4>1. nextId \in Ids
        BY <2>2, IInvFacts, JobStoreAssumption DEF SubmitSpawn, Ids
      <4>2. MintedInv /\ ~(nextId < nextId)
        BY IInvFacts
      <4>3. QED
        BY <4>1, <4>2 DEF MintedInv
    <3>2. Lifecycle!Submit(nextId)
      BY <2>2, <3>1 DEF SubmitSpawn, Lifecycle!Submit
    <3>3. QED
      BY <3>1, <3>2 DEF Lifecycle!Next
  <2>3. ASSUME NEW c \in Callers, ListBegin(c)
        PROVE  [Lifecycle!Next]_(Lifecycle!lcVars)
    BY <2>3, StutterRefines DEF ListBegin, taskVars
  <2>4. ASSUME NEW c \in Callers, NEW j \in Ids, GetLookup(c, j) \/ CancelLookup(c, j)
        PROVE  [Lifecycle!Next]_(Lifecycle!lcVars)
    BY <2>4, StutterRefines DEF GetLookup, CancelLookup, Lookup, taskVars
  <2>5. ASSUME NEW j \in Ids,
               \/ FuturePanics(j)
               \/ \E verdict \in {"returnedOk", "returnedErr"} : FutureReturns(j, verdict)
        PROVE  [Lifecycle!Next]_(Lifecycle!lcVars)
    BY <2>5, StutterRefines DEF FuturePanics, FutureReturns
  <2>6. QED
    BY <2>1, <2>2, <2>3, <2>4, <2>5, TaskStepRefines, HandlerRefines DEF Next
<1>3. QED
  BY <1>1, <1>2, Invariance, PTL DEF Spec, LifecycleSpec, Lifecycle!Spec
=============================================================================
