--------------------------- MODULE Consult_proofs ---------------------------
(***************************************************************************)
(* Proofs about the parts of one consult: the loop of a phase (PhaseLoop)   *)
(* and its transcript (PhaseTranscript), the attachments of a sweep         *)
(* (SweepAttach), the sink of its artifacts (Artifacts) and the call around *)
(* it (ConsultCall), deliberate (Deliberate), the requests of one           *)
(* completion (Transport), the turns of its sessions (SessionTurns), the    *)
(* kernel its tools share (Explorer), the map it is shown (Orientation) and *)
(* what each model is told (Prompts), for every number of turns, calls,     *)
(* saves, sweeps, deliberations, sessions, scripts and contents, and every  *)
(* cap.                                                                     *)
(***************************************************************************)
EXTENDS PhaseLoop, SweepAttach, ConsultCall, Deliberate, Transport, SessionTurns,
        Explorer, Orientation, Prompts, PhaseTranscript,
        FunctionTheorems, FiniteSetTheorems, SequenceTheorems, FiniteSums, TLAPS

-----------------------------------------------------------------------------
(* The loop of a phase, with and without image breaks. *)

\* The invariant: what each run's turns were spent on, and that every message
\* carried over a break has paid for the repeats of its run.
THEOREM PhaseInvariance == Spec => []IInv
<1>1. Init => IInv
  <2> SUFFICES ASSUME Init
               PROVE  IInv
    OBVIOUS
  <2>1. ~sawToolImage /\ sawToolImage \in BOOLEAN /\ imageInTool \in BOOLEAN
    BY Zenon DEF Init
  <2>2. TypeOK
    BY <2>1 DEF Init, TypeOK, Outcomes
  <2>3. Accounts
    BY <2>1, TurnsAssumption DEF Init, Accounts, MalformedRetries
  <2>4. ForcedHasEvidence
    BY DEF Init, ForcedHasEvidence
  <2>5. QED
    BY <2>2, <2>3, <2>4 DEF IInv
<1>2. IInv /\ [Next]_vars => IInv'
  <2> SUFFICES ASSUME IInv, [Next]_vars
               PROVE  IInv'
    OBVIOUS
  <2> USE TurnsAssumption, BreaksAssumption
      DEF IInv, TypeOK, Accounts, ForcedHasEvidence, MalformedRetries, Remaining,
          HasToolResults, Outcomes, vars
  <2>1. CASE StartRun
    <3>1. TypeOK'
      BY <2>1 DEF StartRun
    <3>2. Accounts'
      <4>1. ~sawToolImage'
        BY <2>1, Zenon DEF StartRun
      <4>2. QED
        BY <4>1, <2>1 DEF StartRun
    <3>3. ForcedHasEvidence'
      BY <2>1 DEF StartRun
    <3>4. QED
      BY <3>1, <3>2, <3>3
  <2>2. CASE SpentOnBreaks
    BY <2>2 DEF SpentOnBreaks
  <2>3. CASE ToolTurn
    BY <2>3 DEF ToolTurn, Completion
  <2>4. CASE RepeatTurn
    BY <2>4 DEF RepeatTurn, Completion
  <2>5. CASE Answers
    BY <2>5 DEF Answers, Completion, End
  <2>6. CASE WroteNothing
    BY <2>6 DEF WroteNothing, Completion, End
  <2>7. CASE CallFails
    BY <2>7 DEF CallFails, Completion, End
  <2>8. CASE TurnCap
    BY <2>8 DEF TurnCap
  <2>9. CASE ImageBreak
    <3>1. TypeOK'
      <4>1. imageInTool' \in BOOLEAN /\ sawToolImage' \in BOOLEAN
        BY <2>9, Zenon DEF ImageBreak
      <4>2. QED
        BY <4>1, <2>9 DEF ImageBreak
    <3>2. Accounts'
      <4>1. inRun > 0
        <5>1. sawToolImage /\ at = "run"
          BY <2>9, Zenon DEF ImageBreak
        <5>2. QED
          BY <5>1
      <4>2. runTurns = inRun + repeated
        BY <2>9 DEF ImageBreak
      <4>3. QED
        BY <4>1, <4>2, <2>9 DEF ImageBreak
    <3>3. ForcedHasEvidence'
      BY <2>9 DEF ImageBreak
    <3>4. QED
      BY <3>1, <3>2, <3>3
  <2>10. CASE ForcedFinish
    BY <2>10 DEF ForcedFinish, End
  <2>11. CASE CallDeadline
    BY <2>11 DEF CallDeadline, End
  <2>12. CASE UNCHANGED vars
    BY <2>12
  <2>13. QED
    BY <2>1, <2>2, <2>3, <2>4, <2>5, <2>6, <2>7, <2>8, <2>9, <2>10, <2>11, <2>12
       DEF Next, Progress, Turn, Done
<1>3. QED
  BY <1>1, <1>2, PTL DEF Spec

\* A phase asks for at most three completions a turn before its forced one,
\* whatever the model does with tools, images and malformed turns.
THEOREM WorkBounded == Spec => []WorkIsBounded
<1>1. IInv => WorkIsBounded
  BY TurnsAssumption DEF IInv, TypeOK, Accounts, WorkIsBounded, MalformedRetries
<1>2. QED
  BY <1>1, PhaseInvariance, PTL

\* With more turns than repeats, the forced turn has tool results to write up.
THEOREM ForcedCorrect == Spec => []ForcedHasEvidence
<1>1. IInv => ForcedHasEvidence
  BY DEF IInv
<1>2. QED
  BY <1>1, PhaseInvariance, PTL

-----------------------------------------------------------------------------
(* The attach tool of a sweep. *)

\* A function on 1..k is a sequence of that length.
LEMMA FunctionIsSeq ==
  ASSUME NEW S, NEW k \in Nat, NEW f \in [1..k -> S]
  PROVE  f \in Seq(S) /\ Len(f) = k
<1>1. f \in UNION {[1..n -> S] : n \in Nat}
  BY Zenon
<1>2. f \in Seq(S)
  BY <1>1, SeqDef
<1>3. DOMAIN f = 1..k /\ DOMAIN f = 1..Len(f) /\ Len(f) \in Nat
  BY <1>2, LenProperties
<1>4. QED
  BY <1>2, <1>3

\* The slots held are finitely many.
LEMMA LiveIsFinite ==
  ASSUME AttachTypeOK
  PROVE  IsFiniteSet(Live) /\ Cardinality(Live) \in Nat
<1>1. DOMAIN slots = 1..Len(slots) /\ Len(slots) \in Nat
  BY DEF AttachTypeOK
<1>2. IsFiniteSet(1..Len(slots))
  BY <1>1, FS_Interval
<1>3. Live \subseteq 1..Len(slots)
  BY <1>1 DEF Live
<1> QED BY <1>2, <1>3, FS_Subset, FS_CardinalityType

\* The empty sink satisfies the invariant.
LEMMA InitInv == AttachInit => AttachInv
<1> SUFFICES ASSUME AttachInit PROVE AttachInv
  OBVIOUS
<1> USE DEF AttachInit, NotDrained
<1>1. AttachTypeOK
  BY DEF AttachTypeOK
<1>2. Live = {} /\ Ready = {}
  BY DEF Live, Ready
<1>3. AttachBudgetHolds
  BY <1>2, FS_EmptySet, BudgetAssumption DEF AttachBudgetHolds
<1>4. ReadersInv /\ PendingInv /\ SeenInv /\ DrainedInv
  BY DEF ReadersInv, PendingInv, SeenInv, DrainedInv
<1>5. ToldInv
  BY <1>2 DEF ToldInv
<1> QED BY <1>1, <1>3, <1>4, <1>5 DEF AttachInv

\* What a step that touches neither a slot nor its reader leaves as it was, when it
\* tells of nothing that was attached.
LEMMA SlotsKept ==
  ASSUME AttachInv, UNCHANGED <<slots, seen, reading>>,
         \A p : <<p, "attached">> \in receipts' <=> <<p, "attached">> \in receipts
  PROVE  /\ AttachBudgetHolds' /\ PendingInv' /\ SeenInv' /\ ToldInv'
<1> USE DEF AttachInv
<1>1. Live' = Live /\ Ready' = Ready
  BY DEF Live, Ready
<1> QED BY <1>1 DEF AttachBudgetHolds, PendingInv, SeenInv, ToldInv

\* A call or a path that takes no slot.
LEMMA StepWithoutSlot ==
  ASSUME AttachInv, NEW c \in AttachCallers, AttachCall(c) \/ Unresolved(c) \/ NotReserved(c)
  PROVE  AttachInv'
<1> USE DEF AttachInv
<1>0. UNCHANGED <<slots, seen, reading, delivery>> /\ ~delivery.done
      /\ attaching' \in [AttachCallers -> Seq(AttachPaths)] /\ reading[c] = 0
      /\ \A d \in AttachCallers \ {c} : attaching'[d] = attaching[d]
  <2>1. CASE AttachCall(c)
    <3>1. reading[c] = 0
      BY <2>1 DEF AttachCall, ReadersInv
    <3>2. PICK paths \in {<<p>> : p \in AttachPaths} \cup (AttachPaths \X AttachPaths) :
            attaching' = [attaching EXCEPT ![c] = paths]
      BY <2>1 DEF AttachCall
    <3>3. paths \in Seq(AttachPaths)
      <4>1. CASE \E p \in AttachPaths : paths = <<p>>
        BY <4>1
      <4>2. CASE \E p, q \in AttachPaths : paths = <<p, q>>
        BY <4>2
      <4> QED BY <3>2, <4>1, <4>2
    <3>4. UNCHANGED <<slots, seen, reading, delivery>> /\ ~delivery.done
      BY <2>1 DEF AttachCall
    <3> QED BY <3>1, <3>2, <3>3, <3>4 DEF AttachTypeOK
  <2>2. CASE Unresolved(c) \/ NotReserved(c)
    <3>1. ~delivery.done
      BY <2>2 DEF Unresolved, NotReserved, AtNextPath, DrainedInv
    <3>2. attaching[c] \in Seq(AttachPaths) /\ attaching[c] # <<>>
      BY <2>2 DEF Unresolved, NotReserved, AtNextPath, AttachTypeOK
    <3>3. Tail(attaching[c]) \in Seq(AttachPaths)
      BY <3>2
    <3>4. /\ UNCHANGED <<slots, seen, reading, delivery>> /\ reading[c] = 0
          /\ attaching' = [attaching EXCEPT ![c] = Tail(@)]
      BY <2>2 DEF Unresolved, NotReserved, AtNextPath, PathDone
    <3> QED BY <3>1, <3>3, <3>4 DEF AttachTypeOK
  <2> QED BY <2>1, <2>2
<1>1. /\ \A p : <<p, "attached">> \in receipts' <=> <<p, "attached">> \in receipts
      /\ receipts' \subseteq AttachPaths \X Receipts
      /\ demotions' \subseteq AttachPaths /\ attachCalls' \in Nat
  <2>1. CASE AttachCall(c)
    BY <2>1 DEF AttachCall, AttachTypeOK
  <2>2. CASE Unresolved(c) \/ NotReserved(c)
    <3>1. Head(attaching[c]) \in AttachPaths
      BY <2>2 DEF Unresolved, NotReserved, AtNextPath, AttachTypeOK
    <3> QED BY <2>2, <3>1 DEF Unresolved, NotReserved, Tell, Receipts, AttachTypeOK
  <2> QED BY <2>1, <2>2
<1>2. AttachTypeOK'
  BY <1>0, <1>1 DEF AttachTypeOK
<1>3. ReadersInv'
  BY <1>0 DEF ReadersInv, AttachTypeOK
<1>4. DrainedInv'
  BY <1>0 DEF DrainedInv
<1> QED BY <1>0, <1>1, <1>2, <1>3, <1>4, SlotsKept

\* A path takes a slot.
LEMMA StepReserve ==
  ASSUME AttachInv, NEW c \in AttachCallers, Reserve(c)
  PROVE  AttachInv'
<1> USE DEF AttachInv
<1> DEFINE p == Head(attaching[c])
           n == Len(slots) + 1
<1>1. /\ p \in AttachPaths /\ p \notin seen /\ reading[c] = 0 /\ attaching[c] # <<>>
      /\ slots' = Append(slots, [path |-> p, state |-> "pending"])
      /\ seen' = seen \cup {p}
      /\ UNCHANGED <<demotions, attaching, receipts, attachCalls, delivery>>
  BY DEF Reserve, AtNextPath, AttachTypeOK
<1>2. /\ Len(slots) \in Nat /\ Len(slots') = n
      /\ DOMAIN slots = 1..Len(slots) /\ DOMAIN slots' = 1..n
      /\ \A i \in 1..Len(slots) : slots'[i] = slots[i]
      /\ slots'[n] = [path |-> p, state |-> "pending"]
  BY <1>1 DEF AttachTypeOK
<1>3. reading' = [reading EXCEPT ![c] = n]
  BY <1>2 DEF Reserve
<1>4. AttachTypeOK'
  <2>1. slots' \in Seq([path : AttachPaths, state : {"pending", "ready", "released"}])
    BY <1>1 DEF AttachTypeOK
  <2>2. reading' \in [AttachCallers -> 0..n]
    BY <1>2, <1>3 DEF AttachTypeOK
  <2> QED BY <1>1, <1>2, <2>1, <2>2 DEF AttachTypeOK
<1>5. AttachBudgetHolds'
  <2>1. Live' = Live \cup {n} /\ n \notin Live
    BY <1>2 DEF Live
  <2>2. Cardinality(Live') = Cardinality(Live) + 1
    BY <2>1, LiveIsFinite, FS_AddElement
  <2>3. Cardinality(Live) < MaxAttachments
    BY DEF Reserve
  <2>4. Cardinality(Live') <= MaxAttachments
    BY <2>2, <2>3, LiveIsFinite, BudgetAssumption
  <2>5. ASSUME NEW i \in DOMAIN slots', NEW j \in DOMAIN slots', slots'[i].path = slots'[j].path
        PROVE  i = j
    <3>1. \A k \in 1..Len(slots) : slots[k].path # p
      BY <1>1, <1>2 DEF SeenInv
    <3>2. \A k, m \in 1..Len(slots) : slots[k].path = slots[m].path => k = m
      BY <1>2 DEF AttachBudgetHolds
    <3> QED BY <1>2, <2>5, <3>1, <3>2
  <2> QED BY <2>4, <2>5 DEF AttachBudgetHolds
<1>6. ReadersInv'
  <2> SUFFICES ASSUME NEW d \in AttachCallers, reading'[d] # 0
      PROVE  /\ attaching'[d] # <<>>
             /\ slots'[reading'[d]].state = "pending"
             /\ slots'[reading'[d]].path = Head(attaching'[d])
             /\ \A e \in AttachCallers : reading'[e] = reading'[d] => e = d
    BY DEF ReadersInv
  <2>1. \A e \in AttachCallers : reading[e] \in 0..Len(slots) /\ reading[e] # n
    BY <1>2 DEF AttachTypeOK
  <2>2. CASE d = c
    BY <1>1, <1>2, <1>3, <2>1, <2>2 DEF AttachTypeOK
  <2>3. CASE d # c
    <3>1. reading'[d] = reading[d] /\ reading[d] \in 1..Len(slots)
      BY <1>3, <2>1, <2>3 DEF AttachTypeOK
    <3>2. slots'[reading[d]] = slots[reading[d]]
      BY <1>2, <3>1
    <3>3. \A e \in AttachCallers : reading'[e] = reading[d] => e = d
      BY <1>3, <2>1, <2>3, <3>1 DEF AttachTypeOK, ReadersInv
    <3> QED BY <1>1, <3>1, <3>2, <3>3 DEF ReadersInv
  <2> QED BY <2>2, <2>3
<1>7. PendingInv'
  <2> SUFFICES ASSUME NEW i \in 1..n, slots'[i].state = "pending"
      PROVE  \E d \in AttachCallers : reading'[d] = i
    BY <1>2 DEF PendingInv
  <2>1. CASE i = n
    BY <1>3, <2>1 DEF AttachTypeOK
  <2>2. CASE i # n
    <3>1. i \in 1..Len(slots)
      BY <1>2, <2>2
    <3>2. PICK d \in AttachCallers : reading[d] = i
      BY <1>2, <3>1 DEF PendingInv
    <3> QED BY <1>1, <1>3, <3>1, <3>2 DEF AttachTypeOK
  <2> QED BY <2>1, <2>2
<1>8. SeenInv'
  <2> SUFFICES ASSUME NEW i \in 1..n PROVE slots'[i].path \in seen'
    BY <1>2 DEF SeenInv
  <2>1. CASE i = n
    BY <1>1, <1>2, <2>1
  <2>2. CASE i # n
    BY <1>1, <1>2, <2>2 DEF SeenInv
  <2> QED BY <2>1, <2>2
<1>9. Ready' = Ready /\ \A i \in Ready : slots'[i] = slots[i]
  BY <1>2 DEF Ready
<1>10. ToldInv'
  BY <1>1, <1>9 DEF ToldInv
<1>11. DrainedInv'
  BY <1>1 DEF DrainedInv
<1> QED BY <1>4, <1>5, <1>6, <1>7, <1>8, <1>10, <1>11

\* A call fills or frees the slot it read for, and tells of it.
LEMMA StepFill ==
  ASSUME AttachInv, NEW c \in AttachCallers, NEW content \in Contents,
         Commit(c, content) \/ ReleaseSlot(c, content)
  PROVE  AttachInv'
<1> USE DEF AttachInv
<1> DEFINE p == Head(attaching[c])
           n == reading[c]
<1>1. PICK s \in {"ready", "released"} : Fill(c, s)
        /\ Tell(p, IF s = "ready" THEN "attached" ELSE "refused")
  <2>1. CASE Commit(c, content)
    BY <2>1 DEF Commit
  <2>2. CASE ReleaseSlot(c, content)
    BY <2>2 DEF ReleaseSlot
  <2> QED BY <2>1, <2>2
<1>2. /\ n \in 1..Len(slots) /\ Len(slots) \in Nat /\ DOMAIN slots = 1..Len(slots)
      /\ attaching[c] # <<>> /\ p \in AttachPaths
      /\ slots[n].state = "pending" /\ slots[n].path = p
      /\ \A d \in AttachCallers : reading[d] = n => d = c
  BY <1>1 DEF Fill, ReadersInv, AttachTypeOK
<1>3. /\ slots' = [slots EXCEPT ![n].state = s]
      /\ reading' = [reading EXCEPT ![c] = 0]
      /\ attaching' = [attaching EXCEPT ![c] = Tail(@)]
      /\ receipts' = receipts \cup {<<p, IF s = "ready" THEN "attached" ELSE "refused">>}
      /\ UNCHANGED <<seen, demotions, attachCalls, delivery>>
  BY <1>1 DEF Fill, PathDone, Tell
<1>4. /\ DOMAIN slots' = 1..Len(slots) /\ Len(slots') = Len(slots)
      /\ \A i \in 1..Len(slots) : i # n => slots'[i] = slots[i]
      /\ slots'[n].state = s /\ slots'[n].path = p
      /\ slots' \in Seq([path : AttachPaths, state : {"pending", "ready", "released"}])
  <2>1. slots \in [1..Len(slots) -> [path : AttachPaths, state : {"pending", "ready", "released"}]]
    <3>1. slots \in Seq([path : AttachPaths, state : {"pending", "ready", "released"}])
      BY DEF AttachTypeOK
    <3> QED BY ONLY <3>1, LenProperties
  <2>2. slots' \in [1..Len(slots) -> [path : AttachPaths, state : {"pending", "ready", "released"}]]
    BY <1>2, <1>3, <2>1
  <2>3. slots' \in Seq([path : AttachPaths, state : {"pending", "ready", "released"}])
    BY ONLY <1>2, <2>2, FunctionIsSeq
  <2>4. Len(slots') = Len(slots)
    <3>1. DOMAIN slots' = 1..Len(slots) /\ DOMAIN slots' = 1..Len(slots') /\ Len(slots') \in Nat
      BY <2>2, <2>3, LenProperties
    <3> QED BY <1>2, <3>1
  <2>5. slots' = [i \in 1..Len(slots) |->
                   IF i = n THEN [slots[n] EXCEPT !.state = s] ELSE slots[i]]
    BY <1>2, <1>3, <2>1
  <2>6. /\ slots[n] \in [path : AttachPaths, state : {"pending", "ready", "released"}]
        /\ slots[n].path = p
    BY <1>2, <2>1
  <2>7. \A i \in 1..Len(slots) : i # n => slots'[i] = slots[i]
    BY <2>5
  <2>8. slots'[n] = [slots[n] EXCEPT !.state = s]
    BY <1>2, <2>5
  <2>9. slots'[n].state = s /\ slots'[n].path = p
    BY <2>6, <2>8
  <2> QED BY <1>2, <2>2, <2>3, <2>4, <2>7, <2>9
<1>5. ~delivery.done
  <2>1. attaching[c] # <<>>
    BY <1>2
  <2> QED BY <2>1 DEF DrainedInv, AttachTypeOK
<1>6. AttachTypeOK'
  <2>1. attaching' \in [AttachCallers -> Seq(AttachPaths)]
    <3>1. attaching[c] \in Seq(AttachPaths) /\ Tail(attaching[c]) \in Seq(AttachPaths)
      BY <1>2 DEF AttachTypeOK
    <3> QED BY <1>3, <3>1 DEF AttachTypeOK
  <2>2. reading' \in [AttachCallers -> 0..Len(slots')]
    BY <1>2, <1>3, <1>4 DEF AttachTypeOK
  <2>3. receipts' \subseteq AttachPaths \X Receipts
    BY <1>2, <1>3 DEF AttachTypeOK, Receipts
  <2> QED BY <1>3, <1>4, <2>1, <2>2, <2>3 DEF AttachTypeOK
<1>7. AttachBudgetHolds'
  <2>1. Live' \subseteq Live
    BY <1>2, <1>4 DEF Live
  <2>2. Cardinality(Live') <= Cardinality(Live) /\ Cardinality(Live') \in Nat
    BY <2>1, LiveIsFinite, FS_Subset, FS_CardinalityType
  <2>3. Cardinality(Live') <= MaxAttachments
    BY <2>2, LiveIsFinite, BudgetAssumption DEF AttachBudgetHolds
  <2>4. \A i \in 1..Len(slots) : slots'[i].path = slots[i].path
    BY <1>2, <1>4
  <2> QED BY <1>2, <1>4, <2>3, <2>4 DEF AttachBudgetHolds
<1>8. ReadersInv'
  <2> SUFFICES ASSUME NEW d \in AttachCallers, reading'[d] # 0
      PROVE  /\ attaching'[d] # <<>>
             /\ slots'[reading'[d]].state = "pending"
             /\ slots'[reading'[d]].path = Head(attaching'[d])
             /\ \A e \in AttachCallers : reading'[e] = reading'[d] => e = d
    BY DEF ReadersInv
  <2>1. d # c /\ reading'[d] = reading[d] /\ attaching'[d] = attaching[d]
    BY <1>3 DEF AttachTypeOK
  <2>2. reading[d] \in 1..Len(slots) /\ reading[d] # n
    BY <1>2, <2>1 DEF AttachTypeOK
  <2>3. slots'[reading[d]] = slots[reading[d]]
    BY <1>4, <2>2
  <2>4. \A e \in AttachCallers : reading'[e] = reading[d] => e = d
    BY <1>3, <2>1, <2>2 DEF AttachTypeOK, ReadersInv
  <2> QED BY <2>1, <2>3, <2>4 DEF ReadersInv
<1>9. PendingInv'
  <2> SUFFICES ASSUME NEW i \in 1..Len(slots), slots'[i].state = "pending"
      PROVE  \E d \in AttachCallers : reading'[d] = i
    BY <1>4 DEF PendingInv
  <2>1. i # n
    BY <1>4
  <2>2. PICK d \in AttachCallers : reading[d] = i
    BY <1>2, <1>4, <2>1 DEF PendingInv
  <2> QED BY <1>3, <2>1, <2>2 DEF AttachTypeOK
<1>10. SeenInv'
  BY <1>2, <1>3, <1>4 DEF SeenInv
<1>11. ToldInv'
  <2> SUFFICES ASSUME NEW q \in AttachPaths
      PROVE  <<q, "attached">> \in receipts' <=> \E i \in Ready' : slots'[i].path = q
    BY DEF ToldInv
  <2>1. Ready' = IF s = "ready" THEN Ready \cup {n} ELSE Ready
    BY <1>2, <1>4 DEF Ready
  <2>2. n \notin Ready /\ \A i \in Ready : slots'[i] = slots[i]
    BY <1>2, <1>4 DEF Ready
  <2>3. CASE s = "ready"
    <3>1. <<q, "attached">> \in receipts' <=> <<q, "attached">> \in receipts \/ q = p
      BY <1>3, <2>3
    <3> QED BY <1>4, <2>1, <2>2, <2>3, <3>1 DEF ToldInv
  <2>4. CASE s = "released"
    <3>1. <<q, "attached">> \in receipts' <=> <<q, "attached">> \in receipts
      BY <1>3, <2>4
    <3> QED BY <2>1, <2>2, <2>4, <3>1 DEF ToldInv
  <2> QED BY <2>3, <2>4
<1>12. DrainedInv'
  BY <1>3, <1>5 DEF DrainedInv
<1> QED BY <1>6, <1>7, <1>8, <1>9, <1>10, <1>11, <1>12

\* The sweep ends.
LEMMA StepDrain == AttachInv /\ Drain => AttachInv'
<1> SUFFICES ASSUME AttachInv, Drain PROVE AttachInv'
  OBVIOUS
<1> USE DEF AttachInv
<1>1. /\ UNCHANGED <<slots, seen, demotions, attaching, reading, receipts, attachCalls>>
      /\ \A c \in AttachCallers : attaching[c] = <<>>
      /\ delivery'.done = TRUE /\ delivery'.paths = [i \in Ready |-> slots[i].path]
  BY DEF Drain, SweepReturned
<1>2. Ready' = Ready
  BY <1>1 DEF Ready
<1>3. AttachTypeOK'
  BY <1>1 DEF AttachTypeOK
<1>4. ReadersInv'
  BY <1>1 DEF ReadersInv
<1>5. DrainedInv'
  BY <1>1, <1>2 DEF DrainedInv
<1> QED BY <1>1, <1>3, <1>4, <1>5, SlotsKept

\* The invariant is inductive.
THEOREM AttachInvariance == AttachSpec => []AttachInv
<1>1. ASSUME AttachInv, [AttachNext]_attachVars PROVE AttachInv'
  <2>1. ASSUME NEW c \in AttachCallers, AttachCall(c) \/ Unresolved(c) \/ NotReserved(c)
        PROVE  AttachInv'
    BY <1>1, <2>1, StepWithoutSlot
  <2>2. ASSUME NEW c \in AttachCallers, Reserve(c) PROVE AttachInv'
    BY <1>1, <2>2, StepReserve
  <2>3. ASSUME NEW c \in AttachCallers, NEW content \in Contents,
               Commit(c, content) \/ ReleaseSlot(c, content)
        PROVE  AttachInv'
    BY <1>1, <2>3, StepFill
  <2>4. CASE Drain
    BY <1>1, <2>4, StepDrain
  <2>5. CASE UNCHANGED attachVars
    <3>1. UNCHANGED <<slots, seen, demotions, attaching, reading, receipts, attachCalls, delivery>>
      BY <2>5 DEF attachVars
    <3>2. Ready' = Ready
      BY <3>1 DEF Ready
    <3>3. AttachTypeOK' /\ ReadersInv' /\ DrainedInv'
      BY <1>1, <3>1, <3>2 DEF AttachInv, AttachTypeOK, ReadersInv, DrainedInv
    <3> QED BY <1>1, <3>1, <3>3, SlotsKept DEF AttachInv
  <2> QED BY <1>1, <2>1, <2>2, <2>3, <2>4, <2>5 DEF AttachNext
<1> QED BY <1>1, InitInv, PTL DEF AttachSpec

\* However the attach calls of a sweep interleave: the budget holds, no file takes two
\* slots, none is stranded, and what is delivered is what the explorer was told.
THEOREM AttachmentsCorrect == AttachSpec => []AttachmentsAreAccounted
<1>1. ASSUME AttachInv PROVE AttachmentsAreAccounted
  <2> USE <1>1 DEF AttachInv
  <2>1. DeliveryMatchesReceipts
    <3> SUFFICES ASSUME delivery.done, NEW p \in AttachPaths
        PROVE  (\E i \in DOMAIN delivery.paths : delivery.paths[i] = p)
                 <=> <<p, "attached">> \in receipts
      BY DEF DeliveryMatchesReceipts
    <3>1. delivery.paths = [i \in Ready |-> slots[i].path]
      BY DEF DrainedInv
    <3> QED BY <3>1 DEF ToldInv
  <2>2. NoSlotStranded
    <3> SUFFICES ASSUME delivery.done, NEW i \in DOMAIN slots, slots[i].state = "pending"
        PROVE  FALSE
      BY DEF NoSlotStranded
    <3>1. PICK c \in AttachCallers : reading[c] = i
      BY DEF PendingInv
    <3>2. i # 0
      BY DEF AttachTypeOK
    <3> QED BY <3>1, <3>2 DEF ReadersInv, DrainedInv
  <2> QED BY <2>1, <2>2 DEF AttachmentsAreAccounted
<1> QED BY <1>1, AttachInvariance, PTL

-----------------------------------------------------------------------------
(* The invariant of a sink of artifacts. *)

Kinds == BlobFormats \cup {"text"}
Entries == [blob : Blobs, format : Kinds, noSidecar : BOOLEAN]
SavingStates ==
  [at : {"idle"}]
    \cup [at : {"wait", "admit"}, blob : Blobs, format : Kinds]
    \cup [at : {"stored"}, blob : Blobs, format : Kinds, sidecar : BOOLEAN]

SinkTypeOK ==
  /\ casFormat \in [Blobs -> Kinds \cup {"none"}]
  /\ ledger \in Seq(Entries)
  /\ spent \in Nat
  /\ sinkLock \in Savers \cup {"free"}
  /\ saving \in [Savers -> SavingStates]
  /\ mine \subseteq Blobs

\* The mutex over the ledger: held by the one save between its checks and its entry.
LedgerIsLocked == \A c \in Savers : sinkLock = c <=> saving[c].at \in {"admit", "stored"}

\* What this call stored is held, and what its ledger names is what it stored.
LedgerIsMine ==
  /\ \A b \in mine : casFormat[b] # "none"
  /\ \A c \in Savers : saving[c].at = "stored" => saving[c].blob \in mine
  /\ \A i \in DOMAIN ledger : ledger[i].blob \in mine

SinkInv ==
  /\ SinkTypeOK /\ LedgerIsLocked /\ LedgerIsMine /\ FooterFormatIsStored /\ StoredIsInLedger

\* The running sum of the sizes of the entries of l.
IsSum(sum, l) ==
  sum = [n \in 0..Len(l) |-> IF n = 0 THEN 0 ELSE sum[n - 1] + BlobBytes[l[n].blob]]

\* The caps, with the room a save was admitted to.
CapsInv ==
  /\ \E sum : IsSum(sum, ledger) /\ sum[Len(ledger)] = spent
  /\ Len(ledger) <= ArtifactsPerCall /\ spent <= CallBytesCap
  /\ \A c \in Savers : saving[c].at = "stored" => Admitted(c)
  /\ \A c \in Savers : saving[c].at # "idle" => BlobBytes[saving[c].blob] <= ArtifactBytesCap
  /\ \A i \in DOMAIN ledger : BlobBytes[ledger[i].blob] <= ArtifactBytesCap

-----------------------------------------------------------------------------
(* Lists and functions that change at one place. *)

\* What appending one entry to a list adds and leaves.
LEMMA ListGrows ==
  ASSUME NEW S, NEW l \in Seq(S), NEW e \in S
  PROVE  /\ Append(l, e) \in Seq(S)
         /\ Len(Append(l, e)) = Len(l) + 1
         /\ \A i \in DOMAIN l : i \in DOMAIN Append(l, e) /\ Append(l, e)[i] = l[i]
         /\ Len(l) + 1 \in DOMAIN Append(l, e) /\ Append(l, e)[Len(l) + 1] = e
         /\ \A i \in DOMAIN Append(l, e) : i \in DOMAIN l \/ i = Len(l) + 1
OBVIOUS

\* A save of c moves to x; every other is where it was.
Moves(c, x) == saving' = [saving EXCEPT ![c] = x]

\* One save moves and every other stays where it is.
LEMMA SaveMoves ==
  ASSUME SinkTypeOK, NEW c \in Savers, NEW x \in SavingStates, Moves(c, x)
  PROVE  /\ saving' \in [Savers -> SavingStates]
         /\ saving'[c] = x
         /\ \A d \in Savers : d # c => saving'[d] = saving[d]
BY DEF SinkTypeOK, Moves

\* What a state of a save holds.
LEMMA SaveHolds ==
  ASSUME NEW x \in SavingStates
  PROVE  /\ x.at \in {"idle", "wait", "admit", "stored"}
         /\ x.at # "idle" => x.blob \in Blobs /\ x.format \in Kinds
         /\ x.at = "idle" => x = NotSaving
         /\ x.at = "wait" => [x EXCEPT !.at = "admit"] = [at |-> "admit", blob |-> x.blob, format |-> x.format]
         /\ x.at = "admit" => x = [at |-> "admit", blob |-> x.blob, format |-> x.format]
<1>1. CASE x \in [at : {"idle"}]
  BY <1>1 DEF NotSaving
<1>2. CASE x \in [at : {"wait", "admit"}, blob : Blobs, format : Kinds]
  BY <1>2
<1>3. CASE x \in [at : {"stored"}, blob : Blobs, format : Kinds, sidecar : BOOLEAN]
  BY <1>3
<1>4. QED
  BY <1>1, <1>2, <1>3 DEF SavingStates

\* The records a save is given are states of a save.
LEMMA SavesAre ==
  /\ NotSaving \in SavingStates
  /\ \A b \in Blobs, f \in Kinds :
       /\ [at |-> "wait", blob |-> b, format |-> f] \in SavingStates
       /\ [at |-> "admit", blob |-> b, format |-> f] \in SavingStates
       /\ \A sidecar \in BOOLEAN :
            [at |-> "stored", blob |-> b, format |-> f, sidecar |-> sidecar] \in SavingStates
<1>1. NotSaving \in [at : {"idle"}]
  BY DEF NotSaving
<1>2. ASSUME NEW b \in Blobs, NEW f \in Kinds
      PROVE  /\ [at |-> "wait", blob |-> b, format |-> f]
                  \in [at : {"wait", "admit"}, blob : Blobs, format : Kinds]
             /\ [at |-> "admit", blob |-> b, format |-> f]
                  \in [at : {"wait", "admit"}, blob : Blobs, format : Kinds]
             /\ \A sidecar \in BOOLEAN :
                  [at |-> "stored", blob |-> b, format |-> f, sidecar |-> sidecar]
                    \in [at : {"stored"}, blob : Blobs, format : Kinds, sidecar : BOOLEAN]
  OBVIOUS
<1>3. QED
  BY <1>1, <1>2 DEF SavingStates

-----------------------------------------------------------------------------
(* The sink of a call. *)

\* A call's sink starts with an empty ledger nobody holds.
LEMMA SinkInvInit == ArtifactsInit => SinkInv
<1> SUFFICES ASSUME ArtifactsInit
             PROVE  SinkInv
  OBVIOUS
<1>1. SinkTypeOK
  BY SavesAre DEF ArtifactsInit, SinkTypeOK
<1>2. \A c \in Savers : saving[c].at = "idle"
  BY DEF ArtifactsInit, NotSaving
<1>3. QED
  BY <1>1, <1>2, WordsAssumption
  DEF ArtifactsInit, SinkInv, LedgerIsLocked, LedgerIsMine, FooterFormatIsStored, StoredIsInLedger

\* A save that was asked for touches neither store nor ledger.
LEMMA SaveKeeps ==
  ASSUME SinkInv, NEW c \in Savers, Save(c) PROVE SinkInv'
<1> USE DEF SinkInv, SinkTypeOK, LedgerIsLocked, LedgerIsMine, FooterFormatIsStored, StoredIsInLedger
<1>1. PICK b \in Blobs, want \in BlobFormats \cup {"unknown"} :
        /\ BlobBytes[b] <= ArtifactBytesCap
        /\ saving' = [saving EXCEPT ![c] = [at |-> "wait", blob |-> b, format |-> Resolved(want)]]
  BY Zenon DEF Save
<1> DEFINE x == [at |-> "wait", blob |-> b, format |-> Resolved(want)]
<1>2. x \in SavingStates /\ x.at = "wait"
  BY SavesAre DEF Resolved, Kinds
<1> HIDE DEF x
<1>3. /\ saving' \in [Savers -> SavingStates] /\ saving'[c].at = "wait"
      /\ \A d \in Savers : d # c => saving'[d] = saving[d]
  BY <1>1, <1>2, SaveMoves DEF x, Moves
<1>4. saving[c].at = "idle"
  BY DEF Save
<1>5. /\ UNCHANGED <<casFormat, ledger, spent, sinkLock, mine>>
  BY DEF Save
<1>6. QED
  BY <1>3, <1>4, <1>5

\* The ledger is taken by one save, and only when no other is past its checks.
LEMMA LockKeeps ==
  ASSUME SinkInv, NEW c \in Savers, LockLedger(c) PROVE SinkInv'
<1> USE DEF SinkInv, SinkTypeOK, LedgerIsLocked, LedgerIsMine, FooterFormatIsStored, StoredIsInLedger
<1>1. saving[c] \in SavingStates /\ saving[c].at = "wait" /\ sinkLock = "free"
  BY DEF LockLedger
<1> DEFINE x == [at |-> "admit", blob |-> saving[c].blob, format |-> saving[c].format]
<1>2. x \in SavingStates /\ x.at = "admit" /\ [saving[c] EXCEPT !.at = "admit"] = x
  BY <1>1, SavesAre, SaveHolds
<1>3. Moves(c, x)
  BY <1>2 DEF LockLedger, Moves
<1> HIDE DEF x
<1>4. /\ saving' \in [Savers -> SavingStates] /\ saving'[c].at = "admit"
      /\ \A d \in Savers : d # c => saving'[d] = saving[d]
  BY <1>2, <1>3, SaveMoves
<1>5. /\ UNCHANGED <<casFormat, ledger, spent, mine>> /\ sinkLock' = c
  BY DEF LockLedger
<1>6. \A d \in Savers : saving[d].at \notin {"admit", "stored"}
  BY <1>1, WordsAssumption, ZenonT(60)
<1>7. SinkTypeOK' /\ LedgerIsLocked'
  BY <1>4, <1>5, <1>6
<1>8. LedgerIsMine' /\ FooterFormatIsStored' /\ StoredIsInLedger'
  BY <1>4, <1>5, <1>6
<1>9. QED
  BY <1>7, <1>8

\* A save that ends with nothing stored frees the ledger it held.
LEMMA UnsavedKeeps ==
  ASSUME SinkInv, NEW c \in Savers, saving[c].at = "admit", Moves(c, NotSaving),
         sinkLock' = "free", UNCHANGED <<casFormat, ledger, spent, mine>>
  PROVE  SinkInv'
<1> USE DEF SinkInv, SinkTypeOK, LedgerIsLocked, LedgerIsMine, FooterFormatIsStored, StoredIsInLedger
<1>1. /\ saving' \in [Savers -> SavingStates] /\ saving'[c].at = "idle"
      /\ \A d \in Savers : d # c => saving'[d] = saving[d]
  BY SavesAre, SaveMoves DEF NotSaving
<1>2. QED
  BY <1>1, WordsAssumption

\* Bytes put in the store are this call's, under the format the store had or now has.
LEMMA StoredKeeps ==
  ASSUME SinkInv, NEW c \in Savers, saving[c].at = "admit", NEW sidecar \in BOOLEAN,
         Moves(c, [at |-> "stored", blob |-> saving[c].blob, format |-> saving[c].format,
                   sidecar |-> sidecar]),
         casFormat' = [casFormat EXCEPT ![saving[c].blob] =
                         IF @ = "none" THEN saving[c].format ELSE @],
         mine' = mine \cup {saving[c].blob}, UNCHANGED <<ledger, spent, sinkLock>>
  PROVE  SinkInv'
<1> USE DEF SinkInv, SinkTypeOK, LedgerIsLocked, LedgerIsMine, FooterFormatIsStored, StoredIsInLedger
<1> DEFINE b == saving[c].blob
           x == [at |-> "stored", blob |-> b, format |-> saving[c].format, sidecar |-> sidecar]
<1>1. b \in Blobs /\ saving[c].format \in Kinds
  BY SaveHolds
<1>2. x \in SavingStates /\ x.at = "stored" /\ x.blob = b
  BY <1>1, SavesAre
<1>3. Moves(c, x)
  OBVIOUS
<1>4. /\ casFormat' \in [Blobs -> Kinds \cup {"none"}] /\ casFormat'[b] # "none"
      /\ \A d \in Blobs : casFormat[d] # "none" => casFormat'[d] = casFormat[d]
  BY <1>1, WordsAssumption DEF Kinds
<1> HIDE DEF x
<1>5. /\ saving' \in [Savers -> SavingStates]
      /\ saving'[c].at = "stored" /\ saving'[c].blob = b
      /\ \A d \in Savers : d # c => saving'[d] = saving[d]
  BY <1>2, <1>3, SaveMoves
<1> HIDE DEF b
<1>6. \A i \in DOMAIN ledger : ledger[i].blob \in mine /\ ledger[i].blob \in Blobs
  OBVIOUS
<1>7. SinkTypeOK' /\ LedgerIsLocked'
  BY <1>1, <1>4, <1>5 DEF b
<1>8. LedgerIsMine'
  BY <1>1, <1>4, <1>5 DEF b
<1>9. FooterFormatIsStored'
  BY <1>4, <1>6
<1>10. StoredIsInLedger'
  BY <1>5 DEF b
<1>11. QED
  BY <1>7, <1>8, <1>9, <1>10

\* The entry a save leaves names the stored bytes in the store's own format.
LEMMA RecordKeeps ==
  ASSUME SinkInv, NEW c \in Savers, RecordSaved(c) PROVE SinkInv'
<1> USE DEF SinkInv, SinkTypeOK, LedgerIsLocked, LedgerIsMine, FooterFormatIsStored, StoredIsInLedger
<1> DEFINE b == saving[c].blob
           e == [blob |-> b, format |-> casFormat[b], noSidecar |-> ~saving[c].sidecar]
<1>1. saving[c].at = "stored" /\ saving[c] \in SavingStates
  BY DEF RecordSaved
<1>2. b \in Blobs /\ b \in mine /\ casFormat[b] \in Kinds
  BY <1>1, SaveHolds
<1>3. e \in Entries /\ e.blob = b /\ e.format = casFormat[b]
  <2>1. (~saving[c].sidecar) \in BOOLEAN
    BY Zenon
  <2>2. QED
    BY <1>2, <2>1 DEF Entries
<1>4. ledger' = Append(ledger, e) /\ Moves(c, NotSaving)
  BY DEF RecordSaved, Moves
<1>5. /\ UNCHANGED <<casFormat, mine>> /\ sinkLock' = "free"
      /\ spent' = spent + BlobBytes[b]
  BY DEF RecordSaved
<1> HIDE DEF e
<1>6. /\ ledger' \in Seq(Entries)
      /\ \A i \in DOMAIN ledger : i \in DOMAIN ledger' /\ ledger'[i] = ledger[i]
      /\ Len(ledger) + 1 \in DOMAIN ledger' /\ ledger'[Len(ledger) + 1] = e
      /\ \A i \in DOMAIN ledger' : i \in DOMAIN ledger \/ i = Len(ledger) + 1
  BY <1>3, <1>4, ListGrows
<1>7. /\ saving' \in [Savers -> SavingStates] /\ saving'[c].at = "idle"
      /\ \A d \in Savers : d # c => saving'[d] = saving[d]
  BY <1>4, SavesAre, SaveMoves DEF NotSaving
<1> HIDE DEF b
<1>8. SinkTypeOK'
  BY <1>2, <1>5, <1>6, <1>7, CapsAssumption
<1>9. LedgerIsLocked'
  BY <1>1, <1>5, <1>7, WordsAssumption
<1>10. LedgerIsMine'
  BY <1>2, <1>3, <1>5, <1>6, <1>7, ZenonT(60)
<1>11. FooterFormatIsStored'
  BY <1>3, <1>5, <1>6
<1>12. StoredIsInLedger'
  BY <1>1, <1>3, <1>5, <1>6, <1>7 DEF b
<1>13. QED
  BY <1>8, <1>9, <1>10, <1>11, <1>12

\* Another call stores bytes the store did not hold, and no ledger entry is about those.
LEMMA ElsewhereKeeps ==
  ASSUME SinkInv, StoredElsewhere PROVE SinkInv'
<1> USE DEF SinkInv, SinkTypeOK, LedgerIsLocked, LedgerIsMine, FooterFormatIsStored, StoredIsInLedger
<1>1. /\ casFormat' \in [Blobs -> Kinds \cup {"none"}]
      /\ \A d \in Blobs : casFormat[d] # "none" => casFormat'[d] = casFormat[d]
  BY DEF StoredElsewhere, Kinds
<1>2. \A i \in DOMAIN ledger : ledger[i].blob \in mine /\ ledger[i].blob \in Blobs
  OBVIOUS
<1>3. UNCHANGED <<ledger, spent, sinkLock, saving, mine>>
  BY DEF StoredElsewhere
<1>4. QED
  BY <1>1, <1>2, <1>3

\* The call is dropped where it waits: no save holds the ledger.
LEMMA DropKeeps ==
  ASSUME SinkInv, sinkLock = "free", saving' = [c \in Savers |-> NotSaving],
         UNCHANGED <<casFormat, ledger, spent, sinkLock, mine>>
  PROVE  SinkInv'
<1> USE DEF SinkInv, SinkTypeOK, LedgerIsLocked, LedgerIsMine, FooterFormatIsStored, StoredIsInLedger
<1>1. saving' \in [Savers -> SavingStates] /\ \A c \in Savers : saving'[c].at = "idle"
  BY SavesAre DEF NotSaving
<1>2. \A c \in Savers : saving[c].at # "stored"
  BY WordsAssumption
<1>3. QED
  BY <1>1, <1>2, WordsAssumption

\* Every step of a save keeps the sink's invariant.
LEMMA SinkInvStep ==
  ASSUME SinkInv, NEW c \in Savers, SaverStep(c) PROVE SinkInv'
<1>1. CASE Save(c)
  BY <1>1, SaveKeeps
<1>2. CASE LockLedger(c)
  BY <1>2, LockKeeps
<1>3. CASE RefuseSave(c)
  BY <1>3, UnsavedKeeps DEF RefuseSave, Moves
<1>4. CASE PutBlob(c)
  BY <1>4, UnsavedKeeps, StoredKeeps DEF PutBlob, Moves
<1>5. CASE RecordSaved(c)
  BY <1>5, RecordKeeps
<1>6. QED
  BY <1>1, <1>2, <1>3, <1>4, <1>5 DEF SaverStep

-----------------------------------------------------------------------------
(* The caps of a call.  Two sums of one list are the same: the first number   *)
(* at which they differed would follow one at which they agree.               *)

\* Two running sums of one list are the same.
LEMMA LedgerSum ==
  ASSUME NEW l, Len(l) \in Nat, NEW f, NEW g, IsSum(f, l), IsSum(g, l)
  PROVE  f = g
<1> DEFINE Differ == {i \in 0..Len(l) : f[i] # g[i]}
<1>1. CASE Differ = {}
  <2>1. /\ f = [i \in 0..Len(l) |-> f[i]] /\ g = [i \in 0..Len(l) |-> g[i]]
    BY DEF IsSum
  <2>2. \A i \in 0..Len(l) : f[i] = g[i]
    BY <1>1
  <2>3. QED
    BY <2>1, <2>2
<1>2. CASE Differ # {}
  <2>1. PICK i \in Differ : \A j \in Differ : i <= j
    <3>1. Differ \subseteq Nat
      OBVIOUS
    <3>2. QED
      BY <1>2, <3>1, LeastNumber, Zenon
  <2>2. i \in 0..Len(l) /\ f[i] # g[i]
    BY <2>1
  <2>3. i # 0
    BY <2>2 DEF IsSum
  <2>4. i - 1 \in 0..Len(l) /\ i - 1 \notin Differ
    BY <2>1, <2>2, <2>3
  <2>5. f[i - 1] = g[i - 1]
    BY <2>4
  <2>6. /\ f[i] = f[i - 1] + BlobBytes[l[i].blob] /\ g[i] = g[i - 1] + BlobBytes[l[i].blob]
    BY <2>2, <2>3 DEF IsSum
  <2>7. QED
    BY <2>2, <2>5, <2>6
<1>3. QED
  BY <1>1, <1>2

\* LedgerBytes is the last of the running sums of the ledger.
LEMMA LedgerBytesIsSum ==
  ASSUME SinkTypeOK, NEW sum, IsSum(sum, ledger)
  PROVE  LedgerBytes = sum[Len(ledger)]
<1> DEFINE f == CHOOSE f : IsSum(f, ledger)
<1>1. IsSum(f, ledger)
  OBVIOUS
<1>2. f = sum
  BY <1>1, LedgerSum DEF SinkTypeOK
<1>3. LedgerBytes = f[Len(ledger)]
  BY DEF LedgerBytes, IsSum
<1>4. QED
  BY <1>2, <1>3

\* A sum is extended by the entry it is recorded with.
LEMMA SumGrows ==
  ASSUME NEW S, NEW l \in Seq(S), NEW e \in S, NEW sum, IsSum(sum, l)
  PROVE  \E longer : /\ IsSum(longer, Append(l, e))
                     /\ longer[Len(Append(l, e))] = sum[Len(l)] + BlobBytes[e.blob]
<1> DEFINE m == Append(l, e)
           n == Len(l)
           longer == [i \in 0..n + 1 |-> IF i <= n THEN sum[i] ELSE sum[n] + BlobBytes[e.blob]]
<1>1. /\ n \in Nat /\ Len(m) = n + 1 /\ m[n + 1] = e
      /\ \A i \in 1..n : m[i] = l[i]
  OBVIOUS
<1>2. \A i \in 0..n : sum[i] = IF i = 0 THEN 0 ELSE sum[i - 1] + BlobBytes[l[i].blob]
  BY DEF IsSum
<1> HIDE DEF m, n
<1>3. ASSUME NEW i \in 0..n + 1
      PROVE  longer[i] = IF i = 0 THEN 0 ELSE longer[i - 1] + BlobBytes[m[i].blob]
  <2>1. CASE i = 0
    BY <1>1, <1>2, <2>1
  <2>2. CASE i \in 1..n
    <3>1. longer[i] = sum[i] /\ longer[i - 1] = sum[i - 1] /\ m[i] = l[i]
      BY <1>1, <2>2
    <3>2. sum[i] = sum[i - 1] + BlobBytes[l[i].blob]
      BY <1>1, <1>2, <2>2
    <3>3. QED
      BY <1>1, <2>2, <3>1, <3>2
  <2>3. CASE i = n + 1
    BY <1>1, <2>3
  <2>4. QED
    BY <1>1, <2>1, <2>2, <2>3
<1>4. longer = [i \in 0..Len(m) |-> IF i = 0 THEN 0 ELSE longer[i - 1] + BlobBytes[m[i].blob]]
  <2> HIDE DEF longer
  <2>1. longer = [i \in 0..n + 1 |-> longer[i]]
    BY DEF longer
  <2>2. QED
    BY <1>1, <1>3, <2>1
<1>5. IsSum(longer, m)
  BY <1>4, Zenon DEF IsSum
<1>6. longer[Len(m)] = sum[n] + BlobBytes[e.blob]
  BY <1>1
<1>7. QED
  BY <1>5, <1>6 DEF m, n

\* An empty ledger spends nothing.
LEMMA CapsInvInit == ArtifactsInit => CapsInv
<1> SUFFICES ASSUME ArtifactsInit
             PROVE  CapsInv
  OBVIOUS
<1>1. ledger = <<>> /\ spent = 0 /\ \A c \in Savers : saving[c].at = "idle"
  BY DEF ArtifactsInit, NotSaving
<1>2. IsSum([n \in {0} |-> 0], <<>>)
  <2>1. 0..Len(<<>>) = {0}
    OBVIOUS
  <2>2. QED
    BY <2>1 DEF IsSum
<1>3. [n \in {0} |-> 0][Len(ledger)] = spent
  BY <1>1
<1>4. \E sum : IsSum(sum, ledger) /\ sum[Len(ledger)] = spent
  BY <1>1, <1>2, <1>3
<1>5. QED
  BY <1>1, <1>4, CapsAssumption DEF CapsInv

\* Every step of a save keeps the caps: what was admitted under the lock is still
\* admitted when it is recorded.
LEMMA CapsInvStep ==
  ASSUME SinkInv, CapsInv, NEW c \in Savers, SaverStep(c) PROVE CapsInv'
<1> USE CapsAssumption DEF SinkInv, SinkTypeOK, LedgerIsLocked, CapsInv
<1>1. CASE Save(c)
  <2>1. PICK b \in Blobs, want \in BlobFormats \cup {"unknown"} :
          /\ BlobBytes[b] <= ArtifactBytesCap
          /\ saving' = [saving EXCEPT ![c] = [at |-> "wait", blob |-> b, format |-> Resolved(want)]]
    BY <1>1, Zenon DEF Save
  <2>2. /\ saving'[c].at = "wait" /\ saving'[c].blob = b
        /\ \A d \in Savers : d # c => saving'[d] = saving[d]
    BY <2>1
  <2>3. UNCHANGED <<ledger, spent>>
    BY <1>1 DEF Save
  <2>4. QED
    BY <2>1, <2>2, <2>3 DEF Admitted
<1>2. CASE LockLedger(c)
  <2>1. saving[c] \in SavingStates /\ saving[c].at = "wait"
    BY <1>2 DEF LockLedger
  <2>2. /\ saving'[c].at = "admit" /\ saving'[c].blob = saving[c].blob
        /\ \A d \in Savers : d # c => saving'[d] = saving[d]
    <3>1. saving' = [saving EXCEPT ![c] = [saving[c] EXCEPT !.at = "admit"]]
      BY <1>2 DEF LockLedger
    <3>2. [saving[c] EXCEPT !.at = "admit"] = [at |-> "admit", blob |-> saving[c].blob, format |-> saving[c].format]
      BY <2>1, SaveHolds
    <3>3. QED
      BY <3>1, <3>2
  <2>3. UNCHANGED <<ledger, spent>>
    BY <1>2 DEF LockLedger
  <2>4. QED
    BY <2>1, <2>2, <2>3 DEF Admitted
<1>3. CASE RefuseSave(c)
  <2>1. /\ saving'[c].at = "idle"
        /\ \A d \in Savers : d # c => saving'[d] = saving[d]
    BY <1>3 DEF RefuseSave, NotSaving
  <2>2. UNCHANGED <<ledger, spent>>
    BY <1>3 DEF RefuseSave
  <2>3. QED
    BY <2>1, <2>2 DEF Admitted
<1>4. CASE PutBlob(c)
  <2>1. Admitted(c) /\ saving[c].at = "admit" /\ UNCHANGED <<ledger, spent>>
    BY <1>4 DEF PutBlob
  <2>2. /\ \A d \in Savers : d # c => saving'[d] = saving[d]
        /\ \/ saving'[c].at = "idle"
           \/ saving'[c].at = "stored" /\ saving'[c].blob = saving[c].blob
    BY <1>4 DEF PutBlob, NotSaving
  <2>3. QED
    BY <2>1, <2>2, SMTT(30) DEF Admitted
<1>5. CASE RecordSaved(c)
  <2> DEFINE b == saving[c].blob
             e == [blob |-> b, format |-> casFormat[b], noSidecar |-> ~saving[c].sidecar]
  <2>1. saving[c].at = "stored" /\ Admitted(c) /\ BlobBytes[b] <= ArtifactBytesCap
    BY <1>5 DEF RecordSaved
  <2>2. ledger' = Append(ledger, e) /\ spent' = spent + BlobBytes[b] /\ e.blob = b
    BY <1>5 DEF RecordSaved
  <2> HIDE DEF e
  <2>3. ledger \in Seq(Entries \cup {e}) /\ e \in Entries \cup {e}
    OBVIOUS
  <2>4. \E sum : IsSum(sum, ledger') /\ sum[Len(ledger')] = spent'
    <3>1. PICK sum : IsSum(sum, ledger) /\ sum[Len(ledger)] = spent
      BY DEF CapsInv
    <3>2. \E longer : /\ IsSum(longer, Append(ledger, e))
                      /\ longer[Len(Append(ledger, e))] = sum[Len(ledger)] + BlobBytes[e.blob]
      BY ONLY <2>3, <3>1, SumGrows
    <3>3. QED
      BY ONLY <2>2, <3>1, <3>2
  <2>5. /\ saving'[c].at = "idle"
        /\ \A d \in Savers : d # c => saving'[d] = saving[d] /\ saving[d].at # "stored"
    BY <1>5, <2>1 DEF RecordSaved, NotSaving
  <2>6. /\ Len(ledger') = Len(ledger) + 1
        /\ \A i \in DOMAIN ledger' : (i \in DOMAIN ledger /\ ledger'[i] = ledger[i]) \/ ledger'[i] = e
    BY <2>2, <2>3, ListGrows
  <2>7. Len(ledger') <= ArtifactsPerCall /\ spent' <= CallBytesCap
    BY <2>1, <2>2, <2>6 DEF Admitted
  <2>8. QED
    BY <2>1, <2>2, <2>4, <2>5, <2>6, <2>7, ZenonT(60)
<1>6. QED
  BY <1>1, <1>2, <1>3, <1>4, <1>5 DEF SaverStep

\* A step that leaves the ledger alone and stores nothing keeps the caps.
LEMMA CapsStay ==
  ASSUME CapsInv, UNCHANGED <<ledger, spent>>,
         \A c \in Savers : saving'[c] = saving[c] \/ saving'[c].at = "idle"
  PROVE  CapsInv'
BY DEF CapsInv, Admitted

-----------------------------------------------------------------------------
(* One consult. *)

SinksAreComplete ==
  /\ callAt # "driver" => \A c \in Savers : saving[c].at = "idle"
  /\ callAt \in {"recording", "rendering", "answered"} => \A s \in Sweeps : sweep[s] # "running"

UsageIsFolded == sweepUsage = {s \in Sweeps : sweep[s] \in {"reported", "empty"}}

\* Where the recorded turn stands before and after the road that records it.
TurnIsRecorded ==
  /\ callAt = "recording" => offered.session
  /\ callAt \in {"new", "driver", "recording", "failed"} => threadNames = {} /\ warned = FALSE
  /\ callAt \in {"rendering", "answered"} =>
       threadNames = IF offered.session /\ ~warned THEN {Named} ELSE {}

CallIsShown ==
  /\ callAt \in {"answered", "failed"} => shownNames = Named
  /\ callAt = "answered" => shownUsage = sweepUsage

CallInv ==
  /\ ConsultTypeOK /\ SinksAreComplete /\ UsageIsFolded /\ TurnIsRecorded /\ CallIsShown

ConsultInv == SinkInv /\ CapsInv /\ CallInv

\* What the ledger names are contents, and with no save in flight all of them.
LEMMA NamedIsMine ==
  ASSUME SinkInv
  PROVE  /\ Named \subseteq Blobs
         /\ (\A c \in Savers : saving[c].at = "idle") => Named = mine
BY DEF SinkInv, SinkTypeOK, LedgerIsMine, StoredIsInLedger, Named

\* A call starts with nothing saved, nothing shown and no turn.
LEMMA ConsultInvInit == ConsultInit => ConsultInv
<1> SUFFICES ASSUME ConsultInit
             PROVE  ConsultInv
  OBVIOUS
<1>1. SinkInv /\ CapsInv
  BY SinkInvInit, CapsInvInit DEF ConsultInit
<1>2. /\ callAt = "new" /\ sweep = [s \in Sweeps |-> "idle"] /\ sweepUsage = {} /\ reports = {}
      /\ threadNames = {} /\ shownNames = {} /\ shownUsage = {} /\ warned = FALSE
  BY DEF ConsultInit
<1>3. \A c \in Savers : saving[c].at = "idle"
  BY DEF ConsultInit, ArtifactsInit, NotSaving
<1>4. ConsultTypeOK
  BY <1>2 DEF ConsultTypeOK
<1>5. QED
  BY <1>1, <1>2, <1>3, <1>4
  DEF ConsultInv, CallInv, SinksAreComplete, UsageIsFolded, TurnIsRecorded, CallIsShown

\* Steps that leave the sink where it is.
LEMMA SinkStays ==
  ASSUME SinkInv, CapsInv, UNCHANGED artifactVars
  PROVE  SinkInv' /\ CapsInv' /\ Named' = Named
<1>1. UNCHANGED <<casFormat, ledger, spent, sinkLock, saving, saves, mine>>
  BY DEF artifactVars
<1>2. SinkInv'
  BY <1>1 DEF SinkInv, SinkTypeOK, LedgerIsLocked, LedgerIsMine, FooterFormatIsStored,
              StoredIsInLedger
<1>3. CapsInv'
  BY <1>1, CapsStay
<1>4. QED
  BY <1>1, <1>2, <1>3 DEF Named

\* A dropped call leaves the sink complete: no save was in the middle.
LEMMA SinkDrops ==
  ASSUME SinkInv, CapsInv, sinkLock = "free", saving' = [c \in Savers |-> NotSaving],
         UNCHANGED <<casFormat, ledger, spent, sinkLock, mine>>
  PROVE  /\ SinkInv' /\ CapsInv' /\ Named' = Named
         /\ \A c \in Savers : saving'[c].at = "idle"
<1>1. \A c \in Savers : saving'[c].at = "idle"
  BY DEF NotSaving
<1>2. SinkInv' /\ CapsInv'
  BY <1>1, DropKeeps, CapsStay
<1>3. QED
  BY <1>1, <1>2 DEF Named

\* Every step of a call keeps the invariant.
LEMMA ConsultInvStep == ConsultInv /\ [ConsultNext]_consultVars => ConsultInv'
<1> SUFFICES ASSUME ConsultInv, [ConsultNext]_consultVars
             PROVE  ConsultInv'
  OBVIOUS
<1> USE DEF ConsultInv, CallInv, SinksAreComplete, UsageIsFolded, TurnIsRecorded, CallIsShown,
            ConsultTypeOK
<1>1. CASE StartCall
  <2>1. SinkInv' /\ CapsInv' /\ Named' = Named /\ UNCHANGED saving
    BY <1>1, SinkStays DEF StartCall, artifactVars
  <2>2. QED
    BY <1>1, <2>1 DEF StartCall
<1>2. CASE RefuseCall
  <2>1. SinkInv' /\ CapsInv' /\ Named' = Named /\ UNCHANGED saving
    BY <1>2, SinkStays DEF RefuseCall, artifactVars
  <2>2. QED
    BY <1>2, <2>1 DEF RefuseCall
<1>3. ASSUME NEW s \in Sweeps, StartSweep(s) PROVE ConsultInv'
  <2>1. SinkInv' /\ CapsInv' /\ Named' = Named /\ UNCHANGED saving
    BY <1>3, SinkStays DEF StartSweep, artifactVars
  <2>2. QED
    BY <1>3, <2>1 DEF StartSweep
<1>4. ASSUME NEW s \in Sweeps, SweepReturns(s) PROVE ConsultInv'
  <2>1. SinkInv' /\ CapsInv' /\ Named' = Named /\ UNCHANGED saving
    BY <1>4, SinkStays DEF SweepReturns, SweepEnds, artifactVars
  <2>2. QED
    BY <1>4, <2>1 DEF SweepReturns, SweepEnds
<1>5. ASSUME NEW s \in Sweeps, SweepFails(s) PROVE ConsultInv'
  <2>1. SinkInv' /\ CapsInv' /\ Named' = Named /\ UNCHANGED saving
    BY <1>5, SinkStays DEF SweepFails, SweepEnds, artifactVars
  <2>2. QED
    BY <1>5, <2>1 DEF SweepFails, SweepEnds
<1>6. CASE LoopFails
  <2>1. SinkInv' /\ CapsInv' /\ Named' = Named /\ UNCHANGED saving
    BY <1>6, SinkStays DEF LoopFails, artifactVars
  <2>2. Named \subseteq Blobs
    BY NamedIsMine
  <2>3. QED
    BY <1>6, <2>1, <2>2 DEF LoopFails, Rendered, ToolsIdle
<1>7. CASE DeadlinePasses
  <2>1. /\ SinkInv' /\ CapsInv' /\ Named' = Named
        /\ \A c \in Savers : saving'[c].at = "idle"
    BY <1>7, SinkDrops DEF DeadlinePasses
  <2>2. Named \subseteq Blobs
    BY NamedIsMine
  <2>3. QED
    BY <1>7, <2>1, <2>2 DEF DeadlinePasses, Rendered
<1>8. CASE DriverAnswers
  <2>1. SinkInv' /\ CapsInv' /\ Named' = Named /\ UNCHANGED saving
    BY <1>8, SinkStays DEF DriverAnswers, artifactVars
  <2>2. CASE offered.session
    BY <1>8, <2>1, <2>2 DEF DriverAnswers, ToolsIdle
  <2>3. CASE ~offered.session
    BY <1>8, <2>1, <2>3 DEF DriverAnswers, ToolsIdle
  <2>4. QED
    BY <2>2, <2>3
<1>9. CASE RecordTurn
  <2>1. SinkInv' /\ CapsInv' /\ Named' = Named /\ UNCHANGED saving
    BY <1>9, SinkStays DEF RecordTurn, artifactVars
  <2>2. Named \subseteq Blobs
    BY NamedIsMine
  <2>3. QED
    BY <1>9, <2>1, <2>2 DEF RecordTurn
<1>10. CASE RecordTurnFails
  <2>1. SinkInv' /\ CapsInv' /\ Named' = Named /\ UNCHANGED saving
    BY <1>10, SinkStays DEF RecordTurnFails, artifactVars
  <2>2. QED
    BY <1>10, <2>1 DEF RecordTurnFails
<1>11. CASE RenderAnswer
  <2>1. SinkInv' /\ CapsInv' /\ Named' = Named /\ UNCHANGED saving
    BY <1>11, SinkStays DEF RenderAnswer, artifactVars
  <2>2. Named \subseteq Blobs
    BY NamedIsMine
  <2>3. QED
    BY <1>11, <2>1, <2>2 DEF RenderAnswer, Rendered
<1>12. CASE CancelCall
  <2>1. /\ SinkInv' /\ CapsInv' /\ Named' = Named
        /\ \A c \in Savers : saving'[c].at = "idle"
    BY <1>12, SinkDrops DEF CancelCall
  <2>2. QED
    BY <1>12, <2>1 DEF CancelCall
<1>13. CASE SaveTool
  <2>1. SinkInv' /\ CapsInv'
    BY <1>13, SinkInvStep, CapsInvStep DEF SaveTool
  <2>2. callAt = "driver" /\ UNCHANGED callVars
    BY <1>13 DEF SaveTool
  <2>3. QED
    BY <2>1, <2>2 DEF callVars
<1>14. CASE OtherCallSaves
  <2>1. StoredElsewhere /\ UNCHANGED callVars
    BY <1>14 DEF OtherCallSaves
  <2>2. UNCHANGED <<ledger, spent, saving>>
    BY <2>1 DEF StoredElsewhere
  <2>3. SinkInv' /\ CapsInv' /\ Named' = Named
    BY <2>1, <2>2, ElsewhereKeeps, CapsStay DEF Named
  <2>4. QED
    BY <2>1, <2>2, <2>3 DEF callVars
<1>15. CASE UNCHANGED consultVars
  <2>1. SinkInv' /\ CapsInv' /\ Named' = Named /\ UNCHANGED <<saving, callVars>>
    BY <1>15, SinkStays DEF consultVars, artifactVars
  <2>2. QED
    BY <2>1 DEF callVars
<1>16. QED
  BY <1>1, <1>2, <1>3, <1>4, <1>5, <1>6, <1>7, <1>8, <1>9, <1>10, <1>11, <1>12, <1>13, <1>14, <1>15
  DEF ConsultNext, CallStep, CallOver

\* CallTellsAll (ConsultCall): for every number of saves, sweeps and other callers, a
\* call names all it saved in the store's format, counts every paid sweep, and its thread
\* agrees with what was shown.
THEOREM ConsultTellsAll == ConsultSpec => []CallTellsAll
<1>1. ConsultInv => CallTellsAll
  <2> SUFFICES ASSUME ConsultInv
               PROVE  CallTellsAll
    OBVIOUS
  <2> USE DEF ConsultInv, CallInv, SinksAreComplete, UsageIsFolded, TurnIsRecorded, CallIsShown
  <2>1. SavedIsNamed
    BY NamedIsMine DEF SavedIsNamed
  <2>2. StoredIsInLedger /\ FooterFormatIsStored
    BY DEF SinkInv
  <2>3. UsageIsComplete
    BY DEF UsageIsComplete
  <2>4. ThreadAgrees
    BY DEF ThreadAgrees
  <2>5. QED
    BY <2>1, <2>2, <2>3, <2>4 DEF CallTellsAll
<1>2. QED
  BY <1>1, ConsultInvInit, ConsultInvStep, PTL DEF ConsultSpec

\* CallCapsHold (Artifacts): the caps hold over saves that run side by side, whatever the
\* caps are and however the saves interleave; the bytes are summed over the ledger itself
\* and not taken from the sink's counter.
THEOREM ConsultCapsHold == ConsultSpec => []CallCapsHold
<1>1. ConsultInv => CallCapsHold
  <2> SUFFICES ASSUME ConsultInv
               PROVE  CallCapsHold
    OBVIOUS
  <2>1. PICK sum : IsSum(sum, ledger) /\ sum[Len(ledger)] = spent
    BY DEF ConsultInv, CapsInv
  <2>2. LedgerBytes = spent
    BY <2>1, LedgerBytesIsSum DEF ConsultInv, SinkInv
  <2>3. QED
    BY <2>2 DEF ConsultInv, CapsInv, CallCapsHold
<1>2. QED
  BY <1>1, ConsultInvInit, ConsultInvStep, PTL DEF ConsultSpec

-----------------------------------------------------------------------------
(* Deliberations. *)

Texts == {NoText} \cup {Bare(d) : d \in Deliberations} \cup {Stitched(d) : d \in Deliberations}
Evidence == [text : Texts, images : SUBSET Deliberations]

DeliberateTypeOK ==
  /\ dstage \in [Deliberations -> {"new", "refused", "swept", "ready", "offline", "answered", "failed"}]
  /\ evidence \in [Deliberations -> Evidence]
  /\ kept \in [Deliberations -> Deliberations \cup {None}]
  /\ held \in [Deliberations -> Texts]
  /\ told \subseteq Deliberations
  /\ handles \in [Deliberations -> Deliberations \cup {None, "unrecorded"}]

Building(d) == dstage[d] \in {"new", "swept"}

\* A dossier that is still being built has no name yet, and nobody was told of it.
NamesAreBuilt ==
  /\ \A d \in told : ~Building(d)
  /\ \A d \in Deliberations : kept[d] # None => ~Building(d) /\ ~Building(kept[d])
  /\ \A d \in Deliberations : Building(d) \/ dstage[d] = "ready" => handles[d] = "unrecorded"

DossierIsHeld ==
  \A d \in Deliberations : kept[d] # None => held[kept[d]] = evidence[d].text

DossierInv ==
  /\ DeliberateTypeOK /\ NamesAreBuilt /\ DossierIsHeld /\ HandleNamesDossier

\* Before any sweep no dossier is held or named.
LEMMA DossierInvInit == DeliberateInit => DossierInv
<1> SUFFICES ASSUME DeliberateInit
             PROVE  DossierInv
  OBVIOUS
<1>1. NoEvidence \in Evidence
  BY DEF NoEvidence, Evidence, Texts
<1>2. DeliberateTypeOK
  BY <1>1 DEF DeliberateInit, DeliberateTypeOK, Texts
<1>3. QED
  BY <1>2 DEF DeliberateInit, DossierInv, NamesAreBuilt, DossierIsHeld, HandleNamesDossier

\* One call moves from one stage to another and every other stays.
LEMMA Moved ==
  ASSUME DeliberateTypeOK, NEW d \in Deliberations, NEW from,
         NEW to \in {"refused", "swept", "ready", "offline", "answered", "failed"},
         To(d, from, to)
  PROVE  /\ dstage' \in [Deliberations -> {"new", "refused", "swept", "ready", "offline", "answered", "failed"}]
         /\ dstage[d] = from /\ dstage'[d] = to
         /\ \A e \in Deliberations : e # d => dstage'[e] = dstage[e]
BY DEF DeliberateTypeOK, To

\* Every step of a deliberation keeps the invariant.
LEMMA DossierInvStep == DossierInv /\ [DeliberateNext]_deliberateVars => DossierInv'
<1> SUFFICES ASSUME DossierInv, [DeliberateNext]_deliberateVars
             PROVE  DossierInv'
  OBVIOUS
<1> USE DEF DossierInv, DeliberateTypeOK, NamesAreBuilt, DossierIsHeld, HandleNamesDossier, Building
<1>1. ASSUME NEW d \in Deliberations, RefuseDeliberate(d) PROVE DossierInv'
  BY <1>1, Moved DEF RefuseDeliberate
<1>2. ASSUME NEW d \in Deliberations, SweepDossier(d) PROVE DossierInv'
  <2>1. Bare(d) \in Texts
    BY DEF Texts
  <2>2. PICK images \in {{}, {d}} :
          evidence' = [evidence EXCEPT ![d] = [text |-> Bare(d), images |-> images]]
    BY <1>2 DEF SweepDossier
  <2>3. [text |-> Bare(d), images |-> images] \in Evidence
    BY <2>1 DEF Evidence
  <2>4. /\ evidence' \in [Deliberations -> Evidence]
        /\ \A e \in Deliberations : e # d => evidence'[e] = evidence[e]
    BY <2>2, <2>3
  <2>5. To(d, "new", "swept") /\ UNCHANGED <<kept, held, told, handles>>
    BY <1>2 DEF SweepDossier
  <2>6. kept[d] = None
    BY <2>5 DEF To
  <2>7. QED
    BY <2>4, <2>5, <2>6, Moved
<1>3. ASSUME NEW d \in Deliberations, SweepDossierFails(d) PROVE DossierInv'
  BY <1>3, Moved DEF SweepDossierFails
<1>4. ASSUME NEW d \in Deliberations, StitchAndKeep(d) PROVE DossierInv'
  <2>1. Stitched(d) \in Texts
    BY DEF Texts
  <2>2. To(d, "swept", "ready") /\ UNCHANGED <<told, handles>> /\ KeepDossier(d, Stitched(d))
    BY <1>4 DEF StitchAndKeep
  <2>3. /\ evidence' \in [Deliberations -> Evidence] /\ evidence'[d].text = Stitched(d)
        /\ \A e \in Deliberations : e # d => evidence'[e] = evidence[e]
    <3>1. evidence[d] \in [text : Texts, images : SUBSET Deliberations]
      BY DEF Evidence
    <3>2. [evidence[d] EXCEPT !.text = Stitched(d)] \in Evidence
      BY <2>1, <3>1 DEF Evidence
    <3>3. [evidence[d] EXCEPT !.text = Stitched(d)].text = Stitched(d)
      BY <3>1
    <3>4. evidence' = [evidence EXCEPT ![d] = [evidence[d] EXCEPT !.text = Stitched(d)]]
      BY <1>4 DEF StitchAndKeep
    <3>5. QED
      BY <3>2, <3>3, <3>4
  <2>4. /\ kept[d] = None
        /\ \A e \in Deliberations : kept[e] # d \/ kept[e] = None
    BY <2>2 DEF To
  <2>5. CASE UNCHANGED <<held, kept>>
    BY <2>2, <2>3, <2>4, <2>5, Moved
  <2>6. CASE held' = [held EXCEPT ![d] = Stitched(d)] /\ kept' = [kept EXCEPT ![d] = d]
    <3>1. /\ held' \in [Deliberations -> Texts] /\ held'[d] = Stitched(d)
          /\ \A e \in Deliberations : e # d => held'[e] = held[e]
      BY <2>1, <2>6
    <3>2. /\ kept' \in [Deliberations -> Deliberations \cup {None}] /\ kept'[d] = d
          /\ \A e \in Deliberations : e # d => kept'[e] = kept[e]
      BY <2>6
    <3>3. QED
      BY <2>2, <2>3, <2>4, <3>1, <3>2, Moved
  <2>7. QED
    BY <2>2, <2>5, <2>6 DEF KeepDossier
<1>5. ASSUME NEW d \in Deliberations, ReuseDossier(d) PROVE DossierInv'
  <2>1. PICK digest \in told :
          /\ evidence' = [evidence EXCEPT ![d] = [text |-> held[digest], images |-> {}]]
          /\ kept' = [kept EXCEPT ![d] = digest]
    BY <1>5 DEF ReuseDossier
  <2>2. To(d, "new", "ready") /\ UNCHANGED <<held, told, handles>>
    BY <1>5 DEF ReuseDossier
  <2>3. [text |-> held[digest], images |-> {}] \in Evidence
    BY DEF Evidence
  <2>4. /\ evidence' \in [Deliberations -> Evidence] /\ evidence'[d].text = held[digest]
        /\ \A e \in Deliberations : e # d => evidence'[e] = evidence[e]
    BY <2>1, <2>3
  <2>5. /\ kept' \in [Deliberations -> Deliberations \cup {None}] /\ kept'[d] = digest
        /\ \A e \in Deliberations : e # d => kept'[e] = kept[e]
    BY <2>1
  <2>6. QED
    BY <2>2, <2>4, <2>5, Moved
<1>6. ASSUME NEW d \in Deliberations, SubmitDeliberation(d) PROVE DossierInv'
  <2>1. To(d, "ready", "offline") /\ UNCHANGED <<evidence, kept, held>> /\ Ack(d)
    BY <1>6 DEF SubmitDeliberation
  <2>2. /\ handles' \in [Deliberations -> Deliberations \cup {None, "unrecorded"}]
        /\ handles'[d] \in {"unrecorded", kept[d]}
        /\ \A e \in Deliberations : e # d => handles'[e] = handles[e]
    BY <1>6, <2>1 DEF SubmitDeliberation, To
  <2>3. told' \subseteq Deliberations /\ \A e \in told' : e \in told \/ (e = kept[d] /\ kept[d] # None)
    BY <2>1 DEF Ack
  <2>4. QED
    BY <2>1, <2>2, <2>3, Moved
<1>7. ASSUME NEW d \in Deliberations, SubmitDeliberationFails(d) PROVE DossierInv'
  BY <1>7, Moved DEF SubmitDeliberationFails
<1>8. ASSUME NEW d \in Deliberations, SpawnDeliberation(d) PROVE DossierInv'
  <2>1. To(d, "ready", "offline") /\ UNCHANGED <<evidence, kept, held, handles>> /\ Ack(d)
    BY <1>8 DEF SpawnDeliberation
  <2>2. told' \subseteq Deliberations /\ \A e \in told' : e \in told \/ (e = kept[d] /\ kept[d] # None)
    BY <2>1 DEF Ack
  <2>3. QED
    BY <2>1, <2>2, Moved
<1>9. ASSUME NEW d \in Deliberations, SynthArmFails(d) PROVE DossierInv'
  BY <1>9, Moved DEF SynthArmFails
<1>10. ASSUME NEW d \in Deliberations, DeliberationAnswers(d) PROVE DossierInv'
  <2>1. To(d, "offline", "answered") /\ UNCHANGED <<evidence, kept, held, handles>>
    BY <1>10 DEF DeliberationAnswers
  <2>2. told' \subseteq Deliberations /\ \A e \in told' : e \in told \/ (e = kept[d] /\ kept[d] # None)
    BY <1>10 DEF DeliberationAnswers, Ack
  <2>3. QED
    BY <2>1, <2>2, Moved
<1>11. ASSUME NEW d \in Deliberations, DeliberationFails(d) PROVE DossierInv'
  BY <1>11, Moved DEF DeliberationFails
<1>12. CASE UNCHANGED deliberateVars
  BY <1>12 DEF deliberateVars
<1>13. QED
  BY <1>1, <1>2, <1>3, <1>4, <1>5, <1>6, <1>7, <1>8, <1>9, <1>10, <1>11, <1>12
  DEF DeliberateNext, DeliberationsOver

\* DossierIsTheEvidence (Deliberate): wherever a dossier is named, in a reply or in a
\* batch handle, the store holds under that name the text the synth was handed, for every
\* number of deliberations that reuse one another's dossiers.
THEOREM DossierIsTheEvidenceAlways == DeliberateSpec => []DossierIsTheEvidence
<1>1. DossierInv => DossierIsTheEvidence
  BY DEF DossierInv, DossierIsHeld, DossierIsTheEvidence, KeptIsWhatWasSent
<1>2. QED
  BY <1>1, DossierInvInit, DossierInvStep, PTL DEF DeliberateSpec

-----------------------------------------------------------------------------
(* One completion: what its requests and its log are spent on. *)

TransportTypeOK ==
  /\ sendAt \in {"ready", "sent", "waiting", "done"}
  /\ attempt \in 0..TRANSIENT_RETRIES /\ again \in 0..MALFORMED_RETRIES
  /\ asked \in Nat /\ wait \in Nat
  /\ requests \in [sent : Nat, transient : Nat]
  /\ log \in [attempts : Nat, turns : Seq({"stop", "empty"})]
  /\ result \in {"none", "answer", "empty", "refused", "transient", "malformed", "dropped"}

\* What the requests were spent on.
RequestsAreSpent ==
  /\ sendAt = "ready" => attempt = 0
  /\ requests.sent <= (1 + TRANSIENT_RETRIES) * again + attempt
                        + (IF sendAt \in {"ready", "waiting"} THEN 0 ELSE 1)
  /\ requests.transient >= attempt

CompletionsAreLogged ==
  /\ result = "none" <=> sendAt # "done"
  /\ result = "none" => log.attempts = again /\ log.turns = <<>>
  /\ result \in {"answer", "empty"} => Len(log.turns) = 1
  /\ result \in {"refused", "transient", "malformed", "dropped"} => log.turns = <<>>
  /\ result # "none" => log.attempts = again + (IF result = "dropped" THEN 0 ELSE 1)

TransportInv ==
  /\ TransportTypeOK /\ RequestsAreSpent /\ CompletionsAreLogged
  /\ DelayIsKept /\ TransientIsTriedAgain

\* A wait is within the cap and no less than the provider asked for, up to the cap.
LEMMA DelayBounds ==
  ASSUME NEW k \in 1..TRANSIENT_RETRIES, NEW hint \in Nat, NEW w \in TransientWait(k, hint)
  PROVE  /\ w \in Nat /\ w <= TRANSIENT_BACKOFF_CAP
         /\ w >= SmallerOf(hint, TRANSIENT_BACKOFF_CAP)
<1>1. PICK b \in 0..BackoffCeiling(k) :
        w = SmallerOf(LargerOf(hint, b), TRANSIENT_BACKOFF_CAP)
  BY DEF TransientWait
<1>2. b \in Nat
  BY <1>1
<1>3. QED
  BY <1>1, <1>2 DEF SmallerOf, LargerOf, TRANSIENT_BACKOFF_CAP

\* A transient failure is counted, and no request.
LEMMA TransientCounted ==
  ASSUME NEW r \in [sent : Nat, transient : Nat], NEW n \in Nat
  PROVE  LET counted == [r EXCEPT !.transient = @ + n] IN
           /\ counted \in [sent : Nat, transient : Nat]
           /\ counted.sent = r.sent /\ counted.transient = r.transient + n
OBVIOUS

\* A completion that did not answer adds an attempt and no turn.
LEMMA NoTurnLogged ==
  ASSUME NEW l \in [attempts : Nat, turns : Seq({"stop", "empty"})], l.turns = <<>>,
         NEW logged, logged = [attempts |-> l.attempts + 1, turns |-> l.turns \o <<>>]
  PROVE  /\ logged \in [attempts : Nat, turns : Seq({"stop", "empty"})]
         /\ logged.attempts = l.attempts + 1 /\ logged.turns = <<>>
<1>1. <<>> \o <<>> = <<>> /\ <<>> \in Seq({"stop", "empty"}) /\ l.attempts + 1 \in Nat
  OBVIOUS
<1>2. logged = [attempts |-> l.attempts + 1, turns |-> <<>>]
  BY <1>1
<1>3. QED
  BY ONLY <1>1, <1>2

\* A completion starts with no request sent.
LEMMA TransportInvInit == TransportInit => TransportInv
BY DEF TransportInit, TransportInv, TransportTypeOK, RequestsAreSpent, CompletionsAreLogged,
       DelayIsKept, TransientIsTriedAgain, TRANSIENT_RETRIES, MALFORMED_RETRIES

\* Every request, failure and reply keeps the invariant.
LEMMA TransportInvStep == TransportInv /\ [TransportNext]_transportVars => TransportInv'
<1> SUFFICES ASSUME TransportInv, [TransportNext]_transportVars
             PROVE  TransportInv'
  OBVIOUS
<1> USE DelaysAssumption
    DEF TransportInv, TransportTypeOK, RequestsAreSpent, CompletionsAreLogged,
        DelayIsKept, TransientIsTriedAgain, TRANSIENT_RETRIES, MALFORMED_RETRIES
<1>1. CASE Send
  BY <1>1, SMTT(30) DEF Send
<1>2. CASE Transient
  <2>1. PICK hint \in AskedDelays : asked' = hint /\ wait' \in TransientWait(attempt', hint)
    BY <1>2 DEF Transient
  <2>2. /\ asked' \in Nat /\ wait' \in Nat /\ wait' <= TRANSIENT_BACKOFF_CAP
        /\ wait' >= SmallerOf(asked', TRANSIENT_BACKOFF_CAP)
    <3>1. attempt' \in 1..TRANSIENT_RETRIES
      BY <1>2, SMTT(30) DEF Transient
    <3>2. hint \in Nat
      BY <2>1
    <3>3. QED
      BY <2>1, <3>1, <3>2, DelayBounds
  <2>3. DelayIsKept'
    BY <2>2 DEF SmallerOf, TRANSIENT_BACKOFF_CAP
  <2>4. /\ requests' \in [sent : Nat, transient : Nat]
        /\ requests'.sent = requests.sent /\ requests'.transient = requests.transient + 1
    BY <1>2, TransientCounted, 1 \in Nat DEF Transient
  <2>5. TransportTypeOK'
    <3>1. attempt' \in 0..4 /\ again' \in 0..2
      BY <1>2, SMTT(30) DEF Transient
    <3>2. sendAt' = "waiting" /\ log' = log /\ result' = result
      BY <1>2 DEF Transient
    <3>3. QED
      BY <2>2, <2>4, <3>1, <3>2
  <2>6. RequestsAreSpent'
    <3>1. sendAt = "sent" /\ sendAt' = "waiting" /\ attempt' = attempt + 1 /\ again' = again
      BY <1>2 DEF Transient
    <3>2. requests.sent \in Nat /\ requests.transient \in Nat /\ attempt \in Nat /\ again \in Nat
      OBVIOUS
    <3>3. requests.sent <= 5 * again + attempt + 1 /\ requests.transient >= attempt
      BY <3>1
    <3>4. QED
      BY ONLY <2>4, <3>1, <3>2, <3>3 DEF RequestsAreSpent, TRANSIENT_RETRIES
  <2>7. CompletionsAreLogged' /\ TransientIsTriedAgain'
    BY <1>2 DEF Transient
  <2>8. QED
    BY <2>3, <2>5, <2>6, <2>7
<1>3. CASE RequestFails
  <2>1. PICK status \in {"refused"} \cup (IF attempt = TRANSIENT_RETRIES THEN {"transient"} ELSE {}) :
          /\ Gives(status)
          /\ requests' = [requests EXCEPT !.transient = @ + (IF status = "transient" THEN 1 ELSE 0)]
    BY <1>3 DEF RequestFails
  <2>2. /\ requests' \in [sent : Nat, transient : Nat]
        /\ requests'.sent = requests.sent
        /\ requests'.transient = requests.transient + (IF status = "transient" THEN 1 ELSE 0)
    BY <2>1, TransientCounted, 0 \in Nat, 1 \in Nat
  <2>3. /\ log' \in [attempts : Nat, turns : Seq({"stop", "empty"})]
        /\ log'.attempts = again + 1 /\ log'.turns = <<>>
    BY <1>3, <2>1, NoTurnLogged DEF RequestFails, Gives, Recorded
  <2>4. TransportTypeOK' /\ CompletionsAreLogged'
    BY <1>3, <2>1, <2>2, <2>3 DEF RequestFails, Gives
  <2>5. RequestsAreSpent' /\ DelayIsKept'
    BY <1>3, <2>1, <2>2 DEF RequestFails, Gives
  <2>6. TransientIsTriedAgain'
    BY <1>3, <2>1, <2>2 DEF RequestFails, Gives
  <2>7. QED
    BY <2>4, <2>5, <2>6
<1>4. CASE Malformed
  BY <1>4 DEF Malformed, Recorded
<1>5. CASE MalformedOnceMore
  BY <1>5 DEF MalformedOnceMore, Gives, Recorded
<1>6. CASE Replies
  <2>1. PICK finish \in {"stop", "empty"} :
          /\ result' = IF finish = "stop" THEN "answer" ELSE "empty"
          /\ Recorded(<<finish>>)
    BY <1>6 DEF Replies
  <2>2. log.attempts = again /\ log.turns = <<>>
    BY <1>6 DEF Replies
  <2>3. log' = [attempts |-> again + 1, turns |-> <<finish>>]
    <3>1. log' = [attempts |-> log.attempts + 1, turns |-> log.turns \o <<finish>>]
      BY <2>1 DEF Recorded
    <3>2. <<>> \o <<finish>> = <<finish>>
      OBVIOUS
    <3>3. QED
      BY ONLY <2>2, <3>1, <3>2
  <2>4. /\ log' \in [attempts : Nat, turns : Seq({"stop", "empty"})]
        /\ log'.attempts = again + 1 /\ Len(log'.turns) = 1
    <3>1. again + 1 \in Nat /\ <<finish>> \in Seq({"stop", "empty"}) /\ Len(<<finish>>) = 1
      OBVIOUS
    <3>2. QED
      BY ONLY <2>3, <3>1
  <2>5. QED
    BY <1>6, <2>1, <2>4 DEF Replies
<1>7. CASE DeadlineDrops
  BY <1>7 DEF DeadlineDrops
<1>8. CASE UNCHANGED transportVars
  BY <1>8 DEF transportVars
<1>9. QED
  BY <1>1, <1>2, <1>3, <1>4, <1>5, <1>6, <1>7, <1>8 DEF TransportNext

\* RetriesHold (Transport): at most fifteen requests, every transient failure retried
\* before it is told, waits as asked, and one attempt per completion, whatever delays a
\* provider may ask for.
THEOREM TransportRetriesHold == TransportSpec => []RetriesHold
<1>1. TransportInv => RetriesHold
  <2> SUFFICES ASSUME TransportInv
               PROVE  RetriesHold
    OBVIOUS
  <2>1. RequestsBounded
    BY DEF TransportInv, TransportTypeOK, RequestsAreSpent, RequestsBounded,
           TRANSIENT_RETRIES, MALFORMED_RETRIES
  <2>2. AttemptsAreCompletions
    <3> USE DEF TransportInv, TransportTypeOK, CompletionsAreLogged, MALFORMED_RETRIES
    <3>1. again \in Nat /\ log.attempts \in Nat /\ Len(<<>>) = 0
      OBVIOUS
    <3>2. Len(log.turns) <= log.attempts
      <4>1. CASE log.turns = <<>>
        <5>1. Len(log.turns) = 0 /\ log.attempts >= 0
          BY <3>1, <4>1
        <5>2. QED
          BY <3>1, <5>1
      <4>2. CASE result \in {"answer", "empty"}
        <5>1. log.attempts = again + 1 /\ Len(log.turns) = 1
          BY <4>2
        <5>2. QED
          BY <3>1, <5>1
      <4>3. QED
        BY <4>1, <4>2
    <3>3. QED
      BY <3>2 DEF AttemptsAreCompletions
  <2>3. QED
    BY <2>1, <2>2 DEF TransportInv, RetriesHold
<1>2. QED
  BY <1>1, TransportInvInit, TransportInvStep, PTL DEF TransportSpec

-----------------------------------------------------------------------------
(* The turns of consult's sessions, for every number of turns in flight, set *)
(* of sessions and session_capacity. *)

ThreadsTypeOK ==
  /\ place \in [Turns -> Places]
  /\ bound \in [Turns -> Sessions]
  /\ evicted \in [Turns -> SUBSET Sessions]
  /\ threads \in [Sessions -> Seq(Turns)]
  /\ shown \in [Turns -> Seq(Turns)]

OrderTypeOK == recency \in Seq(Sessions) /\ Len(recency) <= Capacity

\* A thread holds turns of its session that were told recorded, each of them once.
ThreadsAreRecorded ==
  \A s \in Sessions : \A i \in 1..Len(threads[s]) :
    /\ place[threads[s][i]] = "recorded" /\ bound[threads[s][i]] = s

\* What a turn replayed is what its thread still begins with, or the thread was shed
\* since and has none of it.
SeenIn(t, s) ==
  \/ /\ Len(shown[t]) <= Len(threads[s])
     /\ \A i \in 1..Len(shown[t]) : threads[s][i] = shown[t][i]
  \/ /\ \A i \in 1..Len(shown[t]) : \A j \in 1..Len(threads[s]) : threads[s][j] # shown[t][i]
     /\ s \in evicted[t]

\* A turn in flight will be recorded in that context, and a recorded one was.
FlightsAreHonest == \A t \in Turns : InFlight(t) => SeenIn(t, bound[t])
StoredAreHonest ==
  \A s \in Sessions : \A i \in 1..Len(threads[s]) :
    LET t == threads[s][i]
    IN \/ /\ Len(shown[t]) < i
          /\ \A j \in 1..Len(shown[t]) : threads[s][j] = shown[t][j]
       \/ /\ \A k \in 1..Len(shown[t]) : \A j \in 1..Len(threads[s]) : threads[s][j] # shown[t][k]
          /\ s \in evicted[t]

ShownAreRecorded ==
  \A t \in Turns : \A i \in 1..Len(shown[t]) :
    place[shown[t][i]] = "recorded" /\ bound[shown[t][i]] = bound[t]

ThreadInv ==
  /\ ThreadsTypeOK /\ ThreadsAreRecorded /\ FlightsAreHonest /\ StoredAreHonest /\ ShownAreRecorded

-----------------------------------------------------------------------------
(* The order of the sessions. *)

\* Touching a session makes the order no longer than one more.
LEMMA TouchingOrders ==
  ASSUME recency \in Seq(Sessions), NEW s \in Sessions
  PROVE  /\ Store!Touched(s) \in Seq(Sessions)
         /\ Store!Known(s) => Len(Store!Touched(s)) = Len(recency)
<1> DEFINE n == IF Store!Known(s) THEN Len(recency) ELSE Len(recency) + 1
           p == Store!PlaceOf(s)
           f == [i \in 1..n |-> IF i = 1 THEN s ELSE IF i <= p THEN recency[i - 1] ELSE recency[i]]
<1>1. Len(recency) \in Nat /\ n \in Nat /\ \A i \in 1..Len(recency) : recency[i] \in Sessions
  BY LenProperties, ElementOfSeq
<1>2. p \in 1..(Len(recency) + 1) /\ (~Store!Known(s) => p = Len(recency) + 1)
  <2>1. \E i \in 1..(Len(recency) + 1) :
          IF Store!Known(s) THEN i <= Len(recency) /\ recency[i] = s ELSE i = Len(recency) + 1
    BY <1>1 DEF Store!Known
  <2>2. QED
    BY <2>1 DEF Store!PlaceOf
<1>3. Store!Touched(s) = f
  BY DEF Store!Touched
<1>4. f \in [1..n -> Sessions]
  <2> SUFFICES ASSUME NEW i \in 1..n
               PROVE  (IF i = 1 THEN s ELSE IF i <= p THEN recency[i - 1] ELSE recency[i])
                        \in Sessions
    OBVIOUS
  <2> HIDE DEF p
  <2>1. i # 1 /\ i <= p => i - 1 \in 1..Len(recency)
    BY <1>1, <1>2
  <2>2. ~(i <= p) => i \in 1..Len(recency)
    BY <1>1, <1>2
  <2>3. QED
    BY <1>1, <2>1, <2>2
<1> HIDE DEF f, n
<1>5. f \in Seq(Sessions) /\ Len(f) = n
  BY <1>1, <1>4, FunctionIsSeq
<1>6. QED
  BY <1>3, <1>5 DEF n

\* The order stays one of sessions, and within the capacity.
LEMMA OrderStep ==
  ASSUME Capacity \in Nat, OrderTypeOK, ThreadsTypeOK, [TurnsNext]_turnVars PROVE OrderTypeOK'
<1>1. ASSUME NEW t \in Turns, Replay(t) PROVE OrderTypeOK'
  <2>1. /\ bound[t] \in Sessions
        /\ recency' = IF Store!Known(bound[t]) THEN Store!Touched(bound[t]) ELSE recency
    BY <1>1 DEF Replay, Store!Replay, ThreadsTypeOK
  <2>2. QED
    BY <2>1, TouchingOrders DEF OrderTypeOK
<1>2. ASSUME NEW t \in Turns, Record(t) PROVE OrderTypeOK'
  <2> DEFINE order == Store!Touched(bound[t])
             n == IF Len(order) > Capacity THEN Capacity ELSE Len(order)
  <2>1. bound[t] \in Sessions /\ recency' = SubSeq(order, 1, n)
    BY <1>2 DEF Record, Store!Record, ThreadsTypeOK
  <2>2. order \in Seq(Sessions)
    BY <2>1, TouchingOrders DEF OrderTypeOK
  <2> HIDE DEF order
  <2>3. n \in Nat /\ n <= Capacity /\ n <= Len(order)
    BY <2>2, LenProperties
  <2> HIDE DEF n
  <2>4. \A i \in 1..n : order[i] \in Sessions
    BY <2>2, <2>3, ElementOfSeq, LenProperties
  <2>5. SubSeq(order, 1, n) \in Seq(Sessions) /\ Len(SubSeq(order, 1, n)) = n
    BY <2>2, <2>3, <2>4
  <2>6. QED
    BY <2>1, <2>3, <2>5 DEF OrderTypeOK
<1>3. CASE UNCHANGED recency
  BY <1>3 DEF OrderTypeOK
<1>4. QED
  BY <1>1, <1>2, <1>3
  DEF TurnsNext, ReplayFails, ModelAnswers, ConsultFails, RecordFails, Dropped, turnVars, storeVars

-----------------------------------------------------------------------------
(* The steps of a turn. *)

\* A turn that moves on without the store, and not to be recorded.
LEMMA MovingKeeps ==
  ASSUME ThreadInv, NEW t \in Turns, NEW to \in Places,
         place' = [place EXCEPT ![t] = to], place[t] # "recorded",
         to \in {"asking", "answered"} => InFlight(t),
         UNCHANGED <<threads, shown, bound, evicted>>
  PROVE  ThreadInv'
<1>1. ThreadsTypeOK'
  BY DEF ThreadInv, ThreadsTypeOK
<1>2. \A u \in Turns : place[u] = "recorded" => place'[u] = "recorded"
  BY DEF ThreadInv, ThreadsTypeOK
<1>3. \A s \in Sessions : \A i \in 1..Len(threads[s]) : threads[s][i] \in Turns
  BY ElementOfSeq DEF ThreadInv, ThreadsTypeOK
<1>4. \A u \in Turns : \A i \in 1..Len(shown[u]) : shown[u][i] \in Turns
  BY ElementOfSeq DEF ThreadInv, ThreadsTypeOK
<1>5. ThreadsAreRecorded' /\ ShownAreRecorded'
  BY <1>2, <1>3, <1>4 DEF ThreadInv, ThreadsAreRecorded, ShownAreRecorded
<1>6. \A u \in Turns : InFlight(u)' => InFlight(u)
  BY DEF ThreadInv, ThreadsTypeOK, InFlight
<1>7. FlightsAreHonest'
  BY <1>6 DEF ThreadInv, FlightsAreHonest, SeenIn
<1>8. StoredAreHonest'
  BY DEF ThreadInv, StoredAreHonest
<1>9. QED
  BY <1>1, <1>5, <1>7, <1>8 DEF ThreadInv

\* A turn replays its thread as it is.
LEMMA ReplayKeeps == ASSUME ThreadInv, NEW t \in Turns, Replay(t) PROVE ThreadInv'
<1>1. /\ place[t] = "new" /\ place' = [place EXCEPT ![t] = "asking"]
      /\ shown' = [shown EXCEPT ![t] = threads[bound[t]]]
      /\ UNCHANGED <<threads, bound, evicted>>
  BY DEF Replay, Move, Store!Replay
<1>2. bound[t] \in Sessions /\ threads[bound[t]] \in Seq(Turns)
  BY DEF ThreadInv, ThreadsTypeOK
<1>3. /\ shown'[t] = threads[bound[t]] /\ \A u \in Turns : u # t => shown'[u] = shown[u]
      /\ place'[t] = "asking" /\ \A u \in Turns : u # t => place'[u] = place[u]
  BY <1>1 DEF ThreadInv, ThreadsTypeOK
<1>4. ThreadsTypeOK'
  BY <1>1, <1>2 DEF ThreadInv, ThreadsTypeOK, Places
<1>5. \A s \in Sessions : \A i \in 1..Len(threads[s]) : threads[s][i] \in Turns /\ threads[s][i] # t
  BY <1>1, ElementOfSeq DEF ThreadInv, ThreadsTypeOK, ThreadsAreRecorded
<1>6. \A u \in Turns : \A i \in 1..Len(shown[u]) : shown[u][i] \in Turns /\ shown[u][i] # t
  BY <1>1, ElementOfSeq DEF ThreadInv, ThreadsTypeOK, ShownAreRecorded
<1>7. ThreadsAreRecorded'
  BY <1>1, <1>3, <1>5 DEF ThreadInv, ThreadsAreRecorded
<1>8. ShownAreRecorded'
  <2> SUFFICES ASSUME NEW u \in Turns, NEW i \in 1..Len(shown'[u])
               PROVE  place'[shown'[u][i]] = "recorded" /\ bound'[shown'[u][i]] = bound'[u]
    BY DEF ShownAreRecorded
  <2>1. CASE u = t
    BY <1>1, <1>2, <1>3, <1>5, <2>1 DEF ThreadInv, ThreadsAreRecorded
  <2>2. CASE u # t
    BY <1>1, <1>3, <1>6, <2>2 DEF ThreadInv, ShownAreRecorded
  <2>3. QED
    BY <2>1, <2>2
<1>9. FlightsAreHonest'
  <2> SUFFICES ASSUME NEW u \in Turns, InFlight(u)' PROVE SeenIn(u, bound[u])'
    BY <1>1 DEF FlightsAreHonest
  <2>1. CASE u = t
    BY <1>1, <1>2, <1>3, <2>1, LenProperties DEF SeenIn
  <2>2. CASE u # t
    <3>1. InFlight(u)
      BY <1>3, <2>2 DEF InFlight
    <3>2. SeenIn(u, bound[u])
      BY <3>1 DEF ThreadInv, FlightsAreHonest
    <3>3. QED
      BY <1>1, <1>3, <2>2, <3>2 DEF SeenIn
  <2>3. QED
    BY <2>1, <2>2
<1>10. StoredAreHonest'
  <2>1. ASSUME NEW s \in Sessions, NEW i \in 1..Len(threads[s])
        PROVE  shown'[threads[s][i]] = shown[threads[s][i]]
    BY <1>3, <1>5
  <2> DEFINE Honest(sh, s, i) ==
        \/ /\ Len(sh) < i
           /\ \A j \in 1..Len(sh) : threads[s][j] = sh[j]
        \/ /\ \A k \in 1..Len(sh) : \A j \in 1..Len(threads[s]) : threads[s][j] # sh[k]
           /\ s \in evicted[threads[s][i]]
  <2>2. \A s \in Sessions : \A i \in 1..Len(threads[s]) : Honest(shown[threads[s][i]], s, i)
    BY DEF ThreadInv, StoredAreHonest
  <2> HIDE DEF Honest
  <2>3. \A s \in Sessions : \A i \in 1..Len(threads[s]) : Honest(shown'[threads[s][i]], s, i)
    BY <2>1, <2>2
  <2> USE DEF Honest
  <2>4. threads' = threads /\ evicted' = evicted
    BY <1>1
  <2>5. SUFFICES ASSUME NEW s \in Sessions, NEW i \in 1..Len(threads[s]) PROVE Honest(shown[threads[s][i]], s, i)'
    BY <2>4 DEF StoredAreHonest
  <2>6. Honest(shown'[threads[s][i]], s, i)
    BY <2>3
  <2> HIDE <2>1, <2>2, <2>3
  <2>7. QED
    BY <2>4, <2>6
<1>11. QED
  BY <1>4, <1>7, <1>8, <1>9, <1>10 DEF ThreadInv

\* What recording a turn does to the threads: its own is longer by it, and any other
\* stays or is shed; whoever is in flight notes what was shed.
Sheds(t) ==
  /\ place[t] = "answered" /\ place' = [place EXCEPT ![t] = "recorded"]
  /\ threads' \in [Sessions -> Seq(Turns)]
  /\ threads'[bound[t]] = Append(threads[bound[t]], t)
  /\ \A x \in Sessions : x # bound[t] => threads'[x] = threads[x] \/ threads'[x] = <<>>
  /\ evicted' = [u \in Turns |->
       evicted[u] \cup {s \in Sessions : InFlight(u) /\ threads[s] # <<>> /\ threads'[s] = <<>>}]
  /\ UNCHANGED <<shown, bound>>

\* Recording does that.
LEMMA RecordSheds == ASSUME ThreadInv, NEW t \in Turns, Record(t) PROVE Sheds(t)
<1>1. /\ place[t] = "answered" /\ place' = [place EXCEPT ![t] = "recorded"]
      /\ UNCHANGED <<shown, bound>>
      /\ evicted' = [u \in Turns |->
           evicted[u] \cup
             {s \in Sessions : InFlight(u) /\ threads[s] # <<>> /\ threads'[s] = <<>>}]
  BY DEF Record, Move, Store!Record
<1>2. PICK stay :
        threads' = [x \in Sessions |->
          CASE x = bound[t] -> Append(threads[bound[t]], t)
            [] x # bound[t] /\ (\E i \in 1..Len(stay) : stay[i] = x) -> threads[x]
            [] OTHER -> <<>>]
  BY DEF Record, Store!Record
<1>3. bound[t] \in Sessions /\ threads \in [Sessions -> Seq(Turns)]
  BY DEF ThreadInv, ThreadsTypeOK
<1>4. Append(threads[bound[t]], t) \in Seq(Turns) /\ <<>> \in Seq(Turns)
  BY <1>3
<1>5. /\ threads'[bound[t]] = Append(threads[bound[t]], t)
      /\ \A x \in Sessions : x # bound[t] => threads'[x] = threads[x] \/ threads'[x] = <<>>
  BY <1>2, <1>3
<1>6. threads' \in [Sessions -> Seq(Turns)]
  <2>1. DOMAIN threads' = Sessions /\ threads' = [x \in Sessions |-> threads'[x]]
    BY <1>2
  <2>2. \A x \in Sessions : threads'[x] \in Seq(Turns)
    BY <1>3, <1>4, <1>5
  <2>3. QED
    BY <2>1, <2>2
<1>7. QED
  BY <1>1, <1>5, <1>6 DEF Sheds

\* The thread that takes a turn: what it had, and the turn last.
LEMMA LongerBy ==
  ASSUME NEW q \in Seq(Turns), NEW t \in Turns
  PROVE  /\ Len(q) \in Nat /\ Len(Append(q, t)) = Len(q) + 1
         /\ \A i \in 1..Len(q) : Append(q, t)[i] = q[i]
         /\ Append(q, t)[Len(q) + 1] = t
  BY AppendProperties, LenProperties

\* A turn recorded in its thread was given in the context it shows there; what others
\* replayed is still a beginning, or was shed before their eyes.
LEMMA RecordingKeeps == ASSUME ThreadInv, NEW t \in Turns, Record(t) PROVE ThreadInv'
<1>1. Sheds(t)
  BY RecordSheds
<1> DEFINE s == bound[t]
           old == threads[s]
           n == Len(old)
<1>2. s \in Sessions /\ old \in Seq(Turns) /\ n \in Nat
  BY LenProperties DEF ThreadInv, ThreadsTypeOK
<1>3. /\ threads'[s] = Append(old, t) /\ Len(threads'[s]) = n + 1 /\ threads'[s][n + 1] = t
      /\ \A i \in 1..n : threads'[s][i] = old[i]
  BY <1>1, <1>2, LongerBy DEF Sheds
<1>4. \A x \in Sessions : x # s => threads'[x] = threads[x] \/ Len(threads'[x]) = 0
  BY <1>1 DEF Sheds
<1>5. /\ place'[t] = "recorded" /\ \A u \in Turns : u # t => place'[u] = place[u]
      /\ shown' = shown /\ bound' = bound
  BY <1>1 DEF Sheds, ThreadInv, ThreadsTypeOK
<1>6. /\ \A u \in Turns : evicted[u] \subseteq evicted'[u]
      /\ \A u \in Turns : \A x \in Sessions :
           InFlight(u) /\ threads[x] # <<>> /\ threads'[x] = <<>> => x \in evicted'[u]
  BY <1>1 DEF Sheds
<1>7. \A x \in Sessions : \A i \in 1..Len(threads[x]) : threads[x][i] \in Turns /\ threads[x][i] # t
  BY <1>1, ElementOfSeq DEF Sheds, ThreadInv, ThreadsTypeOK, ThreadsAreRecorded
<1>8. \A u \in Turns : \A i \in 1..Len(shown[u]) : shown[u][i] \in Turns /\ shown[u][i] # t
  BY <1>1, ElementOfSeq DEF Sheds, ThreadInv, ThreadsTypeOK, ShownAreRecorded
<1>9. ThreadsTypeOK'
  <2>1. evicted' \in [Turns -> SUBSET Sessions]
    BY <1>1 DEF Sheds, ThreadInv, ThreadsTypeOK
  <2>2. place' \in [Turns -> Places]
    BY <1>1 DEF Sheds, ThreadInv, ThreadsTypeOK, Places
  <2>3. threads' \in [Sessions -> Seq(Turns)]
    BY <1>1 DEF Sheds
  <2>4. QED
    BY <1>5, <2>1, <2>2, <2>3 DEF ThreadInv, ThreadsTypeOK
<1> HIDE DEF old, n, s
<1>10. ASSUME NEW x \in Sessions, NEW i \in 1..Len(threads'[x])
       PROVE  \/ x = s /\ i = n + 1 /\ threads'[x][i] = t
              \/ i \in 1..Len(threads[x]) /\ threads'[x][i] = threads[x][i]
  <2>1. CASE x = s
    <3>1. i \in 1..n \/ i = n + 1
      BY <1>2, <1>3, <2>1
    <3>2. QED
      BY <1>3, <2>1, <3>1 DEF old, n
  <2>2. CASE x # s
    <3>1. Len(threads'[x]) # 0
      BY <1>10
    <3>2. QED
      BY <1>4, <2>2, <3>1, <1>10
  <2>3. QED
    BY <2>1, <2>2
<1>11. ThreadsAreRecorded'
  <2> SUFFICES ASSUME NEW x \in Sessions, NEW i \in 1..Len(threads'[x])
               PROVE  place'[threads'[x][i]] = "recorded" /\ bound'[threads'[x][i]] = x
    BY DEF ThreadsAreRecorded
  <2>1. QED
    BY <1>5, <1>7, <1>10 DEF ThreadInv, ThreadsAreRecorded, s
<1>12. ShownAreRecorded'
  BY <1>5, <1>8 DEF ThreadInv, ShownAreRecorded
<1>13. ASSUME NEW u \in Turns, NEW x \in Sessions, SeenIn(u, x), InFlight(u)
       PROVE  SeenIn(u, x)'
  <2>1. CASE x = s
    <3>1. CASE /\ Len(shown[u]) <= Len(threads[x])
               /\ \A i \in 1..Len(shown[u]) : threads[x][i] = shown[u][i]
      <4>1. Len(shown[u]) \in Nat
        BY LenProperties DEF ThreadInv, ThreadsTypeOK
      <4>2. Len(shown'[u]) <= Len(threads'[x])
        BY <1>2, <1>3, <1>5, <2>1, <3>1, <4>1 DEF old, n
      <4>3. \A i \in 1..Len(shown'[u]) : threads'[x][i] = shown'[u][i]
        BY <1>2, <1>3, <1>5, <2>1, <3>1, <4>1, SMTT(30) DEF old, n
      <4>4. QED
        BY <4>2, <4>3 DEF SeenIn
    <3>2. CASE /\ \A i \in 1..Len(shown[u]) :
                    \A j \in 1..Len(threads[x]) : threads[x][j] # shown[u][i]
               /\ x \in evicted[u]
      <4>1. x \in evicted'[u]
        BY <1>6, <3>2
      <4>2. \A i \in 1..Len(shown'[u]) :
              \A j \in 1..Len(threads'[x]) : threads'[x][j] # shown'[u][i]
        BY <1>5, <1>8, <1>10, <3>2
      <4>3. QED
        BY <4>1, <4>2 DEF SeenIn
    <3>3. QED
      BY <1>13, <3>1, <3>2 DEF SeenIn
  <2>2. CASE x # s /\ threads'[x] = threads[x]
    BY <1>5, <1>6, <1>13, <2>2 DEF SeenIn
  <2>3. CASE x # s /\ threads'[x] # threads[x]
    <3>1. threads'[x] = <<>> /\ threads[x] # <<>>
      BY <1>1, <2>3 DEF Sheds, s
    <3>2. x \in evicted'[u] /\ Len(threads'[x]) = 0
      BY <1>6, <1>13, <3>1
    <3>3. QED
      BY <3>2 DEF SeenIn
  <2>4. QED
    BY <2>1, <2>2, <2>3
<1>14. FlightsAreHonest'
  <2> SUFFICES ASSUME NEW u \in Turns, InFlight(u)' PROVE SeenIn(u, bound[u])'
    BY DEF FlightsAreHonest
  <2>1. u # t /\ InFlight(u) /\ bound'[u] = bound[u] /\ bound[u] \in Sessions
    BY <1>5 DEF InFlight, ThreadInv, ThreadsTypeOK
  <2>2. SeenIn(u, bound[u])
    BY <2>1 DEF ThreadInv, FlightsAreHonest
  <2>3. PICK x \in Sessions : x = bound[u]
    BY <2>1
  <2>4. SeenIn(u, x)'
    BY <1>13, <2>1, <2>2, <2>3
  <2>5. QED
    BY <1>5, <2>3, <2>4 DEF SeenIn
<1>15. StoredAreHonest'
  <2> SUFFICES ASSUME NEW x \in Sessions, NEW i \in 1..Len(threads'[x]), NEW u, u = threads'[x][i]
               PROVE  \/ /\ Len(shown'[u]) < i
                         /\ \A j \in 1..Len(shown'[u]) : threads'[x][j] = shown'[u][j]
                      \/ /\ \A k \in 1..Len(shown'[u]) :
                              \A j \in 1..Len(threads'[x]) : threads'[x][j] # shown'[u][k]
                         /\ x \in evicted'[u]
    BY DEF StoredAreHonest
  <2>1. CASE x = s /\ i = n + 1 /\ u = t
    <3>1. InFlight(t) /\ x = bound[t]
      BY <1>1, <2>1 DEF Sheds, InFlight, s
    <3>2. SeenIn(t, x)
      BY <3>1 DEF ThreadInv, FlightsAreHonest
    <3>3. SeenIn(t, x)'
      BY <1>13, <3>1, <3>2
    <3>4. Len(shown[t]) \in Nat
      BY LenProperties DEF ThreadInv, ThreadsTypeOK
    <3>5. CASE Len(shown[t]) <= n /\ \A j \in 1..Len(shown[t]) : old[j] = shown[t][j]
      BY <1>2, <1>3, <1>5, <2>1, <3>4, <3>5
    <3>6. CASE /\ \A k \in 1..Len(shown[t]) : \A j \in 1..n : old[j] # shown[t][k]
               /\ s \in evicted[t]
      <4>1. \A k \in 1..Len(shown[t]) : \A j \in 1..Len(threads'[x]) : threads'[x][j] # shown[t][k]
        BY <1>8, <1>10, <2>1, <3>6 DEF old, n
      <4>2. QED
        BY <1>5, <1>6, <2>1, <3>6, <4>1
    <3>7. QED
      BY <2>1, <3>2, <3>5, <3>6 DEF SeenIn, old, n
  <2>2. CASE i \in 1..Len(threads[x]) /\ u = threads[x][i]
    <3>1. u \in Turns /\ u # t
      BY <1>7, <2>2
    <3>2. Len(shown[u]) \in Nat /\ Len(threads[x]) \in Nat
      BY <3>1, LenProperties DEF ThreadInv, ThreadsTypeOK
    <3>3. \A j \in 1..Len(threads[x]) : threads'[x][j] = threads[x][j]
      <4>1. CASE x = s
        BY <1>3, <4>1 DEF old, n
      <4>2. CASE x # s
        <5>1. Len(threads'[x]) # 0
          OBVIOUS
        <5>2. QED
          BY <1>4, <4>2, <5>1
      <4>3. QED
        BY <4>1, <4>2
    <3>4. CASE /\ Len(shown[u]) < i
               /\ \A j \in 1..Len(shown[u]) : threads[x][j] = shown[u][j]
      <4>1. \A j \in 1..Len(shown[u]) : j \in 1..Len(threads[x])
        BY <2>2, <3>2, <3>4
      <4>2. QED
        BY <1>5, <3>3, <3>4, <4>1
    <3>5. CASE /\ \A k \in 1..Len(shown[u]) :
                    \A j \in 1..Len(threads[x]) : threads[x][j] # shown[u][k]
               /\ x \in evicted[u]
      <4>1. \A k \in 1..Len(shown[u]) : \A j \in 1..Len(threads'[x]) : threads'[x][j] # shown[u][k]
        BY <1>8, <1>10, <3>1, <3>5
      <4>2. QED
        BY <1>5, <1>6, <3>1, <3>5, <4>1
    <3>6. QED
      BY <2>2, <3>4, <3>5, ZenonT(60) DEF ThreadInv, StoredAreHonest
  <2>3. QED
    BY <1>10, <2>1, <2>2
<1>16. QED
  BY <1>9, <1>11, <1>12, <1>14, <1>15 DEF ThreadInv

\* Every step of every turn keeps the invariant.
LEMMA ThreadStep == ThreadInv /\ [TurnsNext]_turnVars => ThreadInv'
<1> SUFFICES ASSUME ThreadInv, [TurnsNext]_turnVars PROVE ThreadInv'
  OBVIOUS
<1>1. ASSUME NEW t \in Turns, Replay(t) PROVE ThreadInv'
  BY <1>1, ReplayKeeps
<1>2. ASSUME NEW t \in Turns, Record(t) PROVE ThreadInv'
  BY <1>2, RecordingKeeps
<1>3. ASSUME NEW t \in Turns,
             ReplayFails(t) \/ ModelAnswers(t) \/ ConsultFails(t) \/ RecordFails(t) \/ Dropped(t)
      PROVE  ThreadInv'
  <2>1. UNCHANGED <<threads, shown, bound, evicted>> /\ place[t] # "recorded"
    BY <1>3 DEF ReplayFails, ModelAnswers, ConsultFails, RecordFails, Dropped, Move,
                storeVars, InFlight
  <2>2. \E to \in Places : /\ place' = [place EXCEPT ![t] = to]
                           /\ to \in {"asking", "answered"} => InFlight(t)
    BY <1>3 DEF ReplayFails, ModelAnswers, ConsultFails, RecordFails, Dropped, Move,
                Places, InFlight
  <2>3. QED
    BY <2>1, <2>2, MovingKeeps
<1>4. CASE UNCHANGED turnVars
  BY <1>4 DEF turnVars, storeVars, ThreadInv, ThreadsTypeOK, ThreadsAreRecorded, FlightsAreHonest,
              StoredAreHonest, ShownAreRecorded, SeenIn, InFlight
<1>5. QED
  BY <1>1, <1>2, <1>3, <1>4 DEF TurnsNext

\* The beginning of a thread, by its elements.
LEMMA BeginsWith ==
  ASSUME NEW q \in Seq(Turns), NEW r \in Seq(Turns), Len(q) <= Len(r),
         \A i \in 1..Len(q) : r[i] = q[i]
  PROVE  q = SubSeq(r, 1, Len(q))
<1>1. Len(q) \in Nat /\ Len(r) \in Nat
  BY LenProperties
<1>2. SubSeq(r, 1, Len(q)) = [i \in 1..Len(q) |-> r[i]]
  BY <1>1, SubSeqProperties
<1>3. q = [i \in 1..Len(q) |-> q[i]]
  BY LenProperties
<1>4. QED
  BY <1>2, <1>3

\* The invariant gives what a reader of the thread and of the prompts sees.
LEMMA InvIsHonest == ThreadInv => ContextIsAPrefix /\ OnlyAnswersReplayed
<1> SUFFICES ASSUME ThreadInv PROVE ContextIsAPrefix /\ OnlyAnswersReplayed
  OBVIOUS
<1>1. ContextIsAPrefix
  <2> SUFFICES ASSUME NEW s \in Sessions, NEW i \in 1..Len(threads[s]),
                      NEW t, t = threads[s][i]
               PROVE  \/ Len(shown[t]) < i /\ shown[t] = SubSeq(threads[s], 1, Len(shown[t]))
                      \/ Elems(shown[t]) \cap Elems(threads[s]) = {} /\ s \in evicted[t]
    BY DEF ContextIsAPrefix
  <2>1. /\ threads[s] \in Seq(Turns) /\ t \in Turns /\ shown[t] \in Seq(Turns)
        /\ Len(threads[s]) \in Nat /\ Len(shown[t]) \in Nat
    BY ElementOfSeq, LenProperties DEF ThreadInv, ThreadsTypeOK
  <2>2. CASE Len(shown[t]) < i /\ \A j \in 1..Len(shown[t]) : threads[s][j] = shown[t][j]
    BY <2>1, <2>2, BeginsWith
  <2>3. CASE /\ \A k \in 1..Len(shown[t]) :
                  \A j \in 1..Len(threads[s]) : threads[s][j] # shown[t][k]
             /\ s \in evicted[t]
    BY <2>3 DEF Elems
  <2>4. QED
    BY <2>2, <2>3 DEF ThreadInv, StoredAreHonest
<1>2. OnlyAnswersReplayed
  BY DEF OnlyAnswersReplayed, Elems, ThreadInv, ShownAreRecorded
<1>3. QED
  BY <1>1, <1>2

\* A recorded turn leaves its thread only with the thread, by a turn of another session.
LEMMA TurnsStay ==
  ThreadInv /\ [TurnsNext]_turnVars =>
    \A s \in Sessions : \A t \in Elems(threads[s]) :
      \/ t \in Elems(threads'[s])
      \/ threads'[s] = <<>> /\ \E u \in Turns : bound[u] # s /\ place'[u] # place[u]
<1> SUFFICES ASSUME ThreadInv, [TurnsNext]_turnVars, NEW s \in Sessions, NEW t \in Elems(threads[s])
             PROVE  \/ t \in Elems(threads'[s])
                    \/ threads'[s] = <<>> /\ \E u \in Turns : bound[u] # s /\ place'[u] # place[u]
  OBVIOUS
<1>1. ASSUME NEW u \in Turns, Record(u)
      PROVE  \/ t \in Elems(threads'[s])
             \/ threads'[s] = <<>> /\ bound[u] # s /\ place'[u] # place[u]
  <2>1. Sheds(u)
    BY <1>1, RecordSheds
  <2>2. CASE bound[u] = s
    <3>1. threads[s] \in Seq(Turns) /\ threads'[s] = Append(threads[s], u)
      BY <2>1, <2>2 DEF Sheds, ThreadInv, ThreadsTypeOK
    <3>2. QED
      BY <3>1, LongerBy DEF Elems
  <2>3. CASE bound[u] # s
    <3>1. place'[u] # place[u]
      BY <2>1 DEF Sheds, ThreadInv, ThreadsTypeOK
    <3>2. threads'[s] = threads[s] \/ threads'[s] = <<>>
      BY <2>1, <2>3 DEF Sheds
    <3>3. QED
      BY <2>3, <3>1, <3>2
  <2>4. QED
    BY <2>2, <2>3
<1>2. CASE UNCHANGED threads
  BY <1>2
<1>3. QED
  BY <1>1, <1>2
  DEF TurnsNext, Replay, Store!Replay, ReplayFails, ModelAnswers, ConsultFails, RecordFails, Dropped,
      turnVars, storeVars

\* However the turns of the sessions interleave, fail and are dropped: an answer in a
\* thread was given in the context its place there shows, unless the thread was shed
\* meanwhile; only recorded answers are replayed, in the session they were asked of; and
\* a recorded turn stays until a turn of another session sheds its thread.
THEOREM ThreadsAreHonest == TurnsSpec => ThreadIsHonest
<1>1. TurnsInit => ThreadInv /\ OrderTypeOK
  <2> SUFFICES ASSUME TurnsInit PROVE ThreadInv /\ OrderTypeOK
    OBVIOUS
  <2>1. <<>> \in Seq(Turns) /\ <<>> \in Seq(Sessions) /\ Len(<<>>) = 0
    OBVIOUS
  <2>2. ThreadsTypeOK /\ OrderTypeOK
    BY <2>1, CapacityAssumption DEF TurnsInit, Store!Init, ThreadsTypeOK, OrderTypeOK, Places
  <2>3. \A s \in Sessions : Len(threads[s]) = 0
    BY <2>1 DEF TurnsInit, Store!Init
  <2>4. \A t \in Turns : Len(shown[t]) = 0 /\ ~InFlight(t)
    BY <2>1 DEF TurnsInit, Store!Init, InFlight
  <2>5. QED
    BY <2>2, <2>3, <2>4
    DEF ThreadInv, ThreadsAreRecorded, FlightsAreHonest, StoredAreHonest, ShownAreRecorded
<1>2. ThreadInv /\ OrderTypeOK /\ [TurnsNext]_turnVars => OrderTypeOK'
  BY OrderStep, CapacityAssumption DEF ThreadInv
<1>3. ThreadInv /\ OrderTypeOK => TurnsTypeOK
  BY DEF ThreadInv, ThreadsTypeOK, OrderTypeOK, TurnsTypeOK
<1>4. ThreadInv /\ [TurnsNext]_turnVars =>
        [\A s \in Sessions : \A t \in Elems(threads[s]) :
           \/ t \in Elems(threads'[s])
           \/ threads'[s] = <<>> /\ \E u \in Turns : bound[u] # s /\ place'[u] # place[u]]_turnVars
  BY TurnsStay
<1>5. QED
  BY <1>1, <1>2, <1>3, <1>4, ThreadStep, InvIsHonest, PTL
  DEF TurnsSpec, ThreadIsHonest, RecordedTurnStays

-----------------------------------------------------------------------------
(* The kernel of a turn's tools, for every set of calls and of scripts.     *)

Whereabouts == {"idle", "waiting", "answered", "gone"}
KernelTypeOK ==
  /\ toolAt \in [Callers -> Whereabouts]
  /\ askedJob = [c \in Callers |-> askedJob[c]]
  /\ queue \in Seq(Callers)
  /\ worker = [alive |-> worker.alive, cwd |-> worker.cwd, scratch |-> worker.scratch,
               serves |-> worker.serves]
  /\ worker.serves \in Callers \cup {Nobody}
  /\ answer = [c \in Callers |-> answer[c]]
  /\ ranIn = [c \in Callers |-> ranIn[c]]
  /\ progressLog = [latest |-> progressLog.latest, steps |-> progressLog.steps,
                    chats |-> progressLog.chats]
  /\ span = [c \in Callers |-> span[c]]

\* A call has a job once it has asked for one; only then is it queued or told anything.
CallsAreAsked ==
  \A c \in Callers :
    /\ askedJob[c].does \in Scripts \cup {"nothing", "read"}
    /\ toolAt[c] = "idle" <=> askedJob[c].does = "nothing"
    /\ Queued(c) => toolAt[c] # "idle"
    /\ toolAt[c] # "answered" => answer[c] = Nothing /\ span[c] = Open

Asked == {d \in Callers : askedJob[d].does \notin {"nothing", "read"}}

\* A call is told what its own script came to, or that the worker was gone.
ToldItsOwn(c) ==
  LET does == askedJob[c].does IN
  \/ /\ answer[c] \in {Result(does), [code |-> "1", out |-> "none", err |-> "full"]}
     /\ does # "stores" => answer[c] = Result(does)
     /\ span[c] = [outcome |-> "ok", exit |-> IF does = "read" THEN "none" ELSE answer[c].code]
  \/ /\ \E why \in {"gone", "dropped"} : answer[c] = [Nothing EXCEPT !.code = why]
     /\ span[c] = [outcome |-> "error", exit |-> "none"]

KernelInv ==
  /\ KernelTypeOK
  /\ CallsAreAsked
  /\ \A c \in Callers : toolAt[c] = "waiting" => Queued(c) \/ worker.serves = c
  /\ \A c \in Callers : ranIn[c] = Start \/ askedJob[c].does = "read"
  /\ \A c \in Callers : toolAt[c] = "answered" => ToldItsOwn(c)
  /\ progressLog.steps = Cardinality(Asked)

\* A result says something: an output or an error.
LEMMA ResultsSay ==
  ASSUME NEW does
  PROVE  Result(does).out # "none" \/ Result(does).err # "none"
BY ZenonT(60) DEF Result

LEMMA KernelInvInit == ExplorerInit => KernelInv
<1> SUFFICES ASSUME ExplorerInit
             PROVE  KernelInv
  OBVIOUS
<1>1. KernelTypeOK
  BY DEF ExplorerInit, KernelTypeOK, Whereabouts
<1>2. \A c \in Callers : ~Queued(c) /\ askedJob[c].does = "nothing" /\ toolAt[c] = "idle"
  BY DEF ExplorerInit, Queued
<1>3. Asked = {}
  BY <1>2 DEF Asked
<1>4. progressLog.steps = Cardinality(Asked)
  BY <1>3, FS_EmptySet DEF ExplorerInit
<1>5. CallsAreAsked
  BY <1>2 DEF ExplorerInit, CallsAreAsked
<1>6. QED
  BY <1>1, <1>2, <1>4, <1>5 DEF ExplorerInit, KernelInv

\* What is left of a queue holds no one new, and its head is served next.
LEMMA TakenIsServed ==
  ASSUME NEW S, NEW q \in Seq(S), q # <<>>, NEW c
  PROVE  /\ Head(q) \in S /\ Tail(q) \in Seq(S)
         /\ (\E n \in DOMAIN Tail(q) : Tail(q)[n] = c) => \E n \in DOMAIN q : q[n] = c
         /\ (\E n \in DOMAIN q : q[n] = c) =>
              c = Head(q) \/ \E n \in DOMAIN Tail(q) : Tail(q)[n] = c
<1>1. /\ Head(q) \in S /\ Tail(q) \in Seq(S) /\ Len(Tail(q)) = Len(q) - 1 /\ Len(q) \in Nat \ {0}
      /\ \A n \in 1..Len(Tail(q)) : Tail(q)[n] = q[n + 1]
      /\ Head(q) = q[1]
  OBVIOUS
<1>2. DOMAIN q = 1..Len(q) /\ DOMAIN Tail(q) = 1..Len(Tail(q))
  BY <1>1
<1>3. ASSUME NEW n \in DOMAIN q, q[n] = c
      PROVE  c = Head(q) \/ \E k \in DOMAIN Tail(q) : Tail(q)[k] = c
  <2>1. CASE n = 1
    BY <2>1, <1>1, <1>3
  <2>2. CASE n # 1
    <3>1. n - 1 \in 1..Len(Tail(q)) /\ (n - 1) + 1 = n
      BY <1>1, <1>2, <2>2
    <3>2. Tail(q)[n - 1] = c
      BY <3>1, <1>1, <1>3
    <3>3. QED
      BY <3>1, <3>2, <1>2
  <2>3. QED
    BY <2>1, <2>2
<1>4. ASSUME NEW k \in DOMAIN Tail(q), Tail(q)[k] = c
      PROVE  \E n \in DOMAIN q : q[n] = c
  <2>1. k + 1 \in DOMAIN q
    BY <1>1, <1>2
  <2>2. QED
    BY <2>1, <1>1, <1>2, <1>4
<1>5. QED
  BY <1>1, <1>3, <1>4

\* A queue that grows by one call holds it and those it held.
LEMMA AppendedIsQueued ==
  ASSUME NEW S, NEW q \in Seq(S), NEW e \in S, NEW c
  PROVE  (\E n \in DOMAIN Append(q, e) : Append(q, e)[n] = c) <=>
           c = e \/ \E n \in DOMAIN q : q[n] = c
<1>1. /\ DOMAIN q = 1..Len(q) /\ DOMAIN Append(q, e) = 1..(Len(q) + 1) /\ Len(q) \in Nat
      /\ Append(q, e)[Len(q) + 1] = e
      /\ \A n \in 1..Len(q) : Append(q, e)[n] = q[n]
  OBVIOUS
<1>2. QED
  BY <1>1

\* A script counts once, when it is asked for; a read of bytes is no step.
LEMMA StepsCount ==
  ASSUME KernelInv, NEW c \in Callers, toolAt[c] = "idle", NEW job,
         askedJob' = [askedJob EXCEPT ![c] = job]
  PROVE  /\ job.does \in Scripts => Cardinality(Asked') = Cardinality(Asked) + 1
         /\ job.does = "read" => Asked' = Asked
<1>1. /\ c \notin Asked /\ askedJob'[c] = job
      /\ \A d \in Callers \ {c} : askedJob'[d] = askedJob[d]
  BY DEF KernelInv, KernelTypeOK, CallsAreAsked, Asked
<1>2. IsFiniteSet(Asked)
  BY ExplorerAssumption, FS_Subset DEF Asked
<1>3. ASSUME job.does \in Scripts
      PROVE  Cardinality(Asked') = Cardinality(Asked) + 1
  <2>1. job.does \notin {"nothing", "read"}
    BY <1>3, ExplorerAssumption
  <2>2. Asked' = Asked \cup {c}
    BY <1>1, <2>1 DEF Asked
  <2>3. QED
    BY <1>1, <1>2, <2>2, FS_AddElement
<1>4. ASSUME job.does = "read"
      PROVE  Asked' = Asked
  BY <1>1, <1>4 DEF Asked
<1>5. QED
  BY <1>3, <1>4

\* What a step makes of the log it is in the shape the log has.
LEMMA LogShape ==
  ASSUME NEW past, past = [latest |-> past.latest, steps |-> past.steps, chats |-> past.chats],
         NEW event, NEW longer, longer = [past EXCEPT !.latest = event, !.steps = @ + 1]
  PROVE  /\ longer.steps = past.steps + 1
         /\ longer = [latest |-> longer.latest, steps |-> longer.steps, chats |-> longer.chats]
<1>1. longer = [latest |-> event, steps |-> past.steps + 1, chats |-> past.chats]
  OBVIOUS
<1>2. QED
  BY ONLY <1>1

\* A function that is changed at one of its arguments is still one of them all.
LEMMA StillOfAll ==
  ASSUME NEW S, NEW f, f = [x \in S |-> f[x]], NEW c, NEW v, NEW g, g = [f EXCEPT ![c] = v]
  PROVE  g = [x \in S |-> g[x]]
OBVIOUS

\* A call that has not been asked keeps what it was told.
LEMMA AskKeeps ==
  ASSUME KernelInv, NEW c \in Callers, NEW does \in Scripts, Ask(c, does)
  PROVE  KernelInv'
<1> DEFINE job == [does |-> does]
<1>1. /\ toolAt[c] = "idle" /\ job.does = does /\ does \notin {"nothing", "read"}
      /\ askedJob' = [askedJob EXCEPT ![c] = job]
      /\ worker' = worker /\ ranIn' = ranIn
      /\ progressLog' = [progressLog EXCEPT !.latest = <<c, does>>, !.steps = @ + 1]
  BY ExplorerAssumption DEF Ask, Emit
<1> HIDE DEF job
<1>2. progressLog'.steps = Cardinality(Asked')
  <2>1. progressLog'.steps = progressLog.steps + 1
    BY <1>1, LogShape, Zenon DEF KernelInv, KernelTypeOK
  <2>2. QED
    BY <1>1, <2>1, StepsCount DEF KernelInv
<1>3. /\ answer[c] = Nothing /\ span[c] = Open /\ ranIn[c] = Start
      /\ askedJob'[c] = job /\ \A d \in Callers \ {c} : askedJob'[d] = askedJob[d]
  BY <1>1 DEF KernelInv, KernelTypeOK, CallsAreAsked
<1>4. CASE worker.alive
  <2>1. /\ queue' = Append(queue, c) /\ toolAt' = [toolAt EXCEPT ![c] = "waiting"]
        /\ answer' = answer /\ span' = span
    BY <1>4, Zenon DEF Ask
  <2>2. \A d : Queued(d)' <=> d = c \/ Queued(d)
    <3>1. queue \in Seq(Callers) /\ queue' = Append(queue, c)
      BY <2>1 DEF KernelInv, KernelTypeOK
    <3>2. QED
      BY <3>1, AppendedIsQueued DEF Queued
  <2>3. KernelTypeOK'
    <3>1. progressLog' = [latest |-> progressLog'.latest, steps |-> progressLog'.steps,
                          chats |-> progressLog'.chats]
      BY <1>1, LogShape, Zenon DEF KernelInv, KernelTypeOK
    <3>2. toolAt' \in [Callers -> Whereabouts] /\ queue' \in Seq(Callers)
      <4>1. queue \in Seq(Callers) /\ toolAt \in [Callers -> Whereabouts]
        BY DEF KernelInv, KernelTypeOK
      <4>2. queue' \in Seq(Callers)
        BY <2>1, <4>1
      <4>3. toolAt' \in [Callers -> Whereabouts]
        BY <2>1, <4>1 DEF Whereabouts
      <4>4. QED
        BY <4>2, <4>3
    <3>3. askedJob' = [d \in Callers |-> askedJob'[d]]
      BY <1>1, StillOfAll, Zenon DEF KernelInv, KernelTypeOK
    <3>4. QED
      BY <1>1, <2>1, <3>1, <3>2, <3>3 DEF KernelInv, KernelTypeOK
  <2>4. toolAt'[c] = "waiting" /\ \A d \in Callers \ {c} : toolAt'[d] = toolAt[d]
    BY <2>1 DEF KernelInv, KernelTypeOK
  <2>5. CallsAreAsked'
    BY <1>1, <1>3, <2>1, <2>2, <2>4 DEF KernelInv, CallsAreAsked
  <2>6. ASSUME NEW d \in Callers, toolAt'[d] = "answered"
        PROVE  ToldItsOwn(d)'
    <3>1. d # c /\ ToldItsOwn(d)
      BY <2>4, <2>6 DEF KernelInv
    <3>2. answer'[d] = answer[d] /\ span'[d] = span[d] /\ askedJob'[d] = askedJob[d]
      BY <1>3, <2>1, <3>1
    <3>3. QED
      BY <3>1, <3>2 DEF ToldItsOwn
  <2>7. QED
    BY <1>1, <1>2, <1>3, <2>2, <2>3, <2>4, <2>5, <2>6 DEF KernelInv
<1>5. CASE ~worker.alive
  <2>1. /\ queue' = queue /\ toolAt' = [toolAt EXCEPT ![c] = "answered"]
        /\ answer' = [answer EXCEPT ![c] = [Nothing EXCEPT !.code = "gone"]]
        /\ span' = [d \in Callers |-> IF d \in {c} THEN [outcome |-> "error", exit |-> "none"]
                                                   ELSE span[d]]
    BY <1>5, Zenon DEF Ask, Closed
  <2>2. \A d : Queued(d)' <=> Queued(d)
    BY <2>1 DEF Queued
  <2>3. KernelTypeOK'
    <3>1. progressLog' = [latest |-> progressLog'.latest, steps |-> progressLog'.steps,
                          chats |-> progressLog'.chats]
      BY <1>1, LogShape, Zenon DEF KernelInv, KernelTypeOK
    <3>2. /\ toolAt' \in [Callers -> Whereabouts]
          /\ askedJob' = [d \in Callers |-> askedJob'[d]]
          /\ answer' = [d \in Callers |-> answer'[d]]
          /\ span' = [d \in Callers |-> span'[d]]
      <4>1. toolAt' \in [Callers -> Whereabouts] /\ span' = [d \in Callers |-> span'[d]]
        BY <2>1 DEF KernelInv, KernelTypeOK, Whereabouts
      <4>2. /\ askedJob' = [d \in Callers |-> askedJob'[d]]
            /\ answer' = [d \in Callers |-> answer'[d]]
        BY <1>1, <2>1, StillOfAll, Zenon DEF KernelInv, KernelTypeOK
      <4>3. QED
        BY <4>1, <4>2
    <3>3. QED
      BY <1>1, <2>1, <3>1, <3>2 DEF KernelInv, KernelTypeOK
  <2>4. /\ toolAt'[c] = "answered" /\ answer'[c] = [Nothing EXCEPT !.code = "gone"]
        /\ span'[c] = [outcome |-> "error", exit |-> "none"]
        /\ \A d \in Callers \ {c} :
             toolAt'[d] = toolAt[d] /\ answer'[d] = answer[d] /\ span'[d] = span[d]
    BY <2>1 DEF KernelInv, KernelTypeOK
  <2>5. CallsAreAsked'
    <3> SUFFICES ASSUME NEW d \in Callers
                 PROVE  /\ askedJob'[d].does \in Scripts \cup {"nothing", "read"}
                        /\ toolAt'[d] = "idle" <=> askedJob'[d].does = "nothing"
                        /\ Queued(d)' => toolAt'[d] # "idle"
                        /\ toolAt'[d] # "answered" => answer'[d] = Nothing /\ span'[d] = Open
      BY DEF CallsAreAsked
    <3>1. CASE d = c
      <4>1. askedJob'[d].does = does /\ toolAt'[d] = "answered"
        BY <1>1, <1>3, <2>4, <3>1
      <4>2. QED
        BY <1>1, <4>1
    <3>2. CASE d # c
      <4>1. /\ askedJob'[d] = askedJob[d] /\ toolAt'[d] = toolAt[d]
            /\ answer'[d] = answer[d] /\ span'[d] = span[d]
            /\ Queued(d)' <=> Queued(d)
        BY <1>3, <2>2, <2>4, <3>2
      <4>2. /\ askedJob[d].does \in Scripts \cup {"nothing", "read"}
            /\ toolAt[d] = "idle" <=> askedJob[d].does = "nothing"
            /\ Queued(d) => toolAt[d] # "idle"
            /\ toolAt[d] # "answered" => answer[d] = Nothing /\ span[d] = Open
        BY Zenon DEF KernelInv, CallsAreAsked
      <4>3. QED
        BY ONLY <4>1, <4>2
    <3>3. QED
      BY <3>1, <3>2
  <2>6. ASSUME NEW d \in Callers, toolAt'[d] = "answered"
        PROVE  ToldItsOwn(d)'
    <3>1. CASE d = c
      BY <2>4, <3>1 DEF ToldItsOwn
    <3>2. CASE d # c
      <4>1. toolAt[d] = "answered" /\ ToldItsOwn(d)
        BY <2>4, <2>6, <3>2 DEF KernelInv
      <4>2. answer'[d] = answer[d] /\ span'[d] = span[d] /\ askedJob'[d] = askedJob[d]
        BY <1>3, <2>4, <3>2
      <4>3. QED
        BY <4>1, <4>2 DEF ToldItsOwn
    <3>3. QED
      BY <3>1, <3>2
  <2>7. QED
    BY <1>1, <1>2, <1>3, <2>2, <2>3, <2>4, <2>5, <2>6 DEF KernelInv
<1>6. QED
  BY <1>4, <1>5

LEMMA AskReadKeeps ==
  ASSUME KernelInv, NEW c \in Callers, NEW size, AskRead(c, size)
  PROVE  KernelInv'
<1> DEFINE job == [does |-> "read", size |-> size]
<1>1. /\ toolAt[c] = "idle" /\ job.does = "read"
      /\ askedJob' = [askedJob EXCEPT ![c] = job]
      /\ queue' = Append(queue, c) /\ toolAt' = [toolAt EXCEPT ![c] = "waiting"]
      /\ UNCHANGED <<worker, answer, ranIn, progressLog, span>>
  BY DEF AskRead
<1> HIDE DEF job
<1>2. progressLog'.steps = Cardinality(Asked')
  BY <1>1, StepsCount DEF KernelInv
<1>3. /\ answer[c] = Nothing /\ span[c] = Open /\ ranIn[c] = Start
      /\ askedJob'[c] = job /\ \A d \in Callers \ {c} : askedJob'[d] = askedJob[d]
  BY <1>1 DEF KernelInv, KernelTypeOK, CallsAreAsked
<1>4. \A d : Queued(d)' <=> d = c \/ Queued(d)
  <2>1. queue \in Seq(Callers) /\ queue' = Append(queue, c)
    BY <1>1 DEF KernelInv, KernelTypeOK
  <2>2. QED
    BY <2>1, AppendedIsQueued DEF Queued
<1>5. KernelTypeOK'
  <2>1. toolAt' \in [Callers -> Whereabouts] /\ queue' \in Seq(Callers)
    BY <1>1 DEF KernelInv, KernelTypeOK, Whereabouts
  <2>2. askedJob' = [d \in Callers |-> askedJob'[d]]
    BY <1>1, StillOfAll, Zenon DEF KernelInv, KernelTypeOK
  <2>3. QED
    BY <1>1, <2>1, <2>2 DEF KernelInv, KernelTypeOK
<1>6. toolAt'[c] = "waiting" /\ \A d \in Callers \ {c} : toolAt'[d] = toolAt[d]
  BY <1>1 DEF KernelInv, KernelTypeOK
<1>7. CallsAreAsked'
  BY <1>1, <1>3, <1>4, <1>6 DEF KernelInv, CallsAreAsked
<1>8. ASSUME NEW d \in Callers, toolAt'[d] = "answered"
      PROVE  ToldItsOwn(d)'
  <2>1. d # c /\ ToldItsOwn(d)
    BY <1>6, <1>8 DEF KernelInv
  <2>2. answer'[d] = answer[d] /\ span'[d] = span[d] /\ askedJob'[d] = askedJob[d]
    BY <1>1, <1>3, <2>1
  <2>3. QED
    BY <2>1, <2>2 DEF ToldItsOwn
<1>9. QED
  BY <1>1, <1>2, <1>3, <1>4, <1>5, <1>6, <1>7, <1>8 DEF KernelInv

LEMMA TakeKeeps ==
  ASSUME KernelInv, Take
  PROVE  KernelInv'
<1> DEFINE h == Head(queue)
<1>1. /\ worker.serves = Nobody /\ queue # <<>> /\ queue' = Tail(queue)
      /\ worker' = [worker EXCEPT !.serves = h,
                                  !.cwd = IF askedJob[h].does = "read" THEN @ ELSE Start]
      /\ ranIn' = [ranIn EXCEPT ![h] = worker'.cwd]
      /\ UNCHANGED <<toolAt, askedJob, answer, progressLog, span>>
  BY DEF Take
<1>2. h \in Callers /\ queue' \in Seq(Callers)
  BY <1>1, TakenIsServed DEF KernelInv, KernelTypeOK
<1> HIDE DEF h
<1>3. \A d : /\ Queued(d)' => Queued(d)
             /\ Queued(d) => d = h \/ Queued(d)'
  <2>1. queue \in Seq(Callers) /\ queue # <<>> /\ queue' = Tail(queue) /\ h = Head(queue)
    BY <1>1 DEF KernelInv, KernelTypeOK, h
  <2>2. ASSUME NEW d
        PROVE  /\ (\E n \in DOMAIN Tail(queue) : Tail(queue)[n] = d) =>
                    \E n \in DOMAIN queue : queue[n] = d
               /\ (\E n \in DOMAIN queue : queue[n] = d) =>
                    d = Head(queue) \/ \E n \in DOMAIN Tail(queue) : Tail(queue)[n] = d
    BY ONLY <2>1, TakenIsServed
  <2>3. QED
    BY <2>1, <2>2, Zenon DEF Queued
<1>4. /\ worker'.serves = h
      /\ worker'.cwd = IF askedJob[h].does = "read" THEN worker.cwd ELSE Start
  BY <1>1 DEF KernelInv, KernelTypeOK
<1>5. KernelTypeOK'
  BY <1>1, <1>2, <1>4 DEF KernelInv, KernelTypeOK
<1>6. CallsAreAsked'
  BY <1>1, <1>3 DEF KernelInv, CallsAreAsked
<1>7. \A c \in Callers : toolAt'[c] = "waiting" => Queued(c)' \/ worker'.serves = c
  <2> SUFFICES ASSUME NEW c \in Callers, toolAt'[c] = "waiting"
               PROVE  Queued(c)' \/ worker'.serves = c
    OBVIOUS
  <2>1. c # Nobody
    BY ExplorerAssumption DEF Nobody
  <2>2. Queued(c)
    BY <1>1, <2>1 DEF KernelInv
  <2>3. QED
    BY <1>3, <1>4, <2>2
<1>8. \A c \in Callers : ranIn'[c] = Start \/ askedJob'[c].does = "read"
  BY <1>1, <1>2, <1>4 DEF KernelInv, KernelTypeOK
<1>9. (\A c \in Callers : toolAt[c] = "answered" => ToldItsOwn(c))'
  BY <1>1 DEF KernelInv, ToldItsOwn
<1>10. progressLog'.steps = Cardinality(Asked')
  BY <1>1 DEF KernelInv, Asked
<1>11. QED
  BY <1>5, <1>6, <1>7, <1>8, <1>9, <1>10 DEF KernelInv

LEMMA FinishKeeps ==
  ASSUME KernelInv, Finish
  PROVE  KernelInv'
<1> DEFINE h == worker.serves
           does == askedJob[h].does
           full == [code |-> "1", out |-> "none", err |-> "full"]
           came == IF does = "stores" /\ Full THEN full ELSE Result(does)
<1>1. /\ h # Nobody
      /\ worker' = [worker EXCEPT !.serves = Nobody,
                                  !.cwd = IF does \in {"goes", "hangs"} THEN "below" ELSE @,
                                  !.scratch = IF does = "stores" /\ ~Full THEN @ + 1 ELSE @]
      /\ UNCHANGED <<askedJob, queue, ranIn, progressLog>>
  BY DEF Finish
<1>2. h \in Callers
  BY <1>1 DEF KernelInv, KernelTypeOK
<1>3. worker'.serves = Nobody /\ worker' = [alive |-> worker'.alive, cwd |-> worker'.cwd,
                                 scratch |-> worker'.scratch, serves |-> worker'.serves]
  BY <1>1 DEF KernelInv, KernelTypeOK
<1>4. \A d : Queued(d)' <=> Queued(d)
  BY <1>1 DEF Queued
<1>5. progressLog'.steps = Cardinality(Asked')
  BY <1>1 DEF KernelInv, Asked
<1>6. CASE toolAt[h] = "waiting"
  <2>1. /\ toolAt' = [toolAt EXCEPT ![h] = "answered"]
        /\ answer' = [answer EXCEPT ![h] = came]
        /\ span' = [d \in Callers |->
                      IF d \in {h} THEN [outcome |-> "ok", exit |-> IF does = "read"
                                                                   THEN "none" ELSE came.code]
                                   ELSE span[d]]
    BY <1>6, Zenon DEF Finish, Closed
  <2>2. /\ toolAt'[h] = "answered" /\ answer'[h] = came
        /\ span'[h] = [outcome |-> "ok", exit |-> IF does = "read" THEN "none" ELSE came.code]
        /\ \A d \in Callers \ {h} :
             toolAt'[d] = toolAt[d] /\ answer'[d] = answer[d] /\ span'[d] = span[d]
    BY <1>2, <2>1 DEF KernelInv, KernelTypeOK
  <2>3. came \in {Result(does), full} /\ (does # "stores" => came = Result(does))
    OBVIOUS
  <2> HIDE DEF came
  <2>4. KernelTypeOK'
    BY <1>1, <1>3, <2>1 DEF KernelInv, KernelTypeOK, Whereabouts
  <2>5. CallsAreAsked'
    BY <1>1, <1>2, <1>4, <1>6, <2>2 DEF KernelInv, CallsAreAsked
  <2>6. \A c \in Callers : toolAt'[c] = "waiting" => Queued(c)' \/ worker'.serves = c
    BY <1>4, <2>2 DEF KernelInv
  <2>7. ASSUME NEW d \in Callers, toolAt'[d] = "answered"
        PROVE  ToldItsOwn(d)'
    <3>1. CASE d = h
      <4>1. /\ answer'[d] = came /\ askedJob'[d].does = does
            /\ span'[d] = [outcome |-> "ok", exit |-> IF does = "read" THEN "none" ELSE answer'[d].code]
        BY <1>1, <2>2, <3>1
      <4>2. QED
        BY <4>1, <2>3 DEF ToldItsOwn
    <3>2. CASE d # h
      <4>1. toolAt[d] = "answered" /\ ToldItsOwn(d)
        BY <2>2, <2>7, <3>2 DEF KernelInv
      <4>2. /\ answer'[d] = answer[d] /\ span'[d] = span[d] /\ askedJob' = askedJob
        BY <1>1, <2>2, <3>2
      <4>3. QED
        BY <4>1, <4>2 DEF ToldItsOwn
    <3>3. QED
      BY <3>1, <3>2
  <2>8. QED
    BY <1>1, <1>5, <2>4, <2>5, <2>6, <2>7 DEF KernelInv
<1>7. CASE toolAt[h] # "waiting"
  <2>1. UNCHANGED <<toolAt, answer, span>>
    BY <1>7 DEF Finish
  <2>2. KernelTypeOK'
    BY <1>1, <1>3, <2>1 DEF KernelInv, KernelTypeOK
  <2>3. CallsAreAsked'
    BY <1>1, <1>4, <2>1 DEF KernelInv, CallsAreAsked
  <2>4. \A c \in Callers : toolAt'[c] = "waiting" => Queued(c)' \/ worker'.serves = c
    BY <1>4, <1>7, <2>1 DEF KernelInv
  <2>5. (\A d \in Callers : toolAt[d] = "answered" => ToldItsOwn(d))'
    BY <1>1, <2>1 DEF KernelInv, ToldItsOwn
  <2>6. QED
    BY <1>1, <1>5, <2>2, <2>3, <2>4, <2>5 DEF KernelInv
<1>8. QED
  BY <1>6, <1>7

LEMMA GiveUpKeeps ==
  ASSUME KernelInv, NEW c \in Callers, GiveUp(c)
  PROVE  KernelInv'
<1>1. /\ toolAt[c] = "waiting" /\ toolAt' = [toolAt EXCEPT ![c] = "gone"]
      /\ UNCHANGED <<askedJob, queue, worker, answer, ranIn, progressLog, span>>
  BY DEF GiveUp
<1>2. toolAt'[c] = "gone" /\ \A d \in Callers \ {c} : toolAt'[d] = toolAt[d]
  BY <1>1 DEF KernelInv, KernelTypeOK
<1>3. \A d : Queued(d)' <=> Queued(d)
  BY <1>1 DEF Queued
<1>4. KernelTypeOK'
  BY <1>1 DEF KernelInv, KernelTypeOK, Whereabouts
<1>5. CallsAreAsked'
  BY <1>1, <1>2, <1>3 DEF KernelInv, CallsAreAsked
<1>6. \A d \in Callers : toolAt'[d] = "answered" => ToldItsOwn(d)'
  BY <1>1, <1>2 DEF KernelInv, ToldItsOwn
<1>7. progressLog'.steps = Cardinality(Asked')
  BY <1>1 DEF KernelInv, Asked
<1>8. QED
  BY <1>1, <1>2, <1>3, <1>4, <1>5, <1>6, <1>7 DEF KernelInv

LEMMA DieKeeps ==
  ASSUME KernelInv, Die
  PROVE  KernelInv'
<1> DEFINE waiting == {c \in Callers : toolAt[c] = "waiting"}
<1>1. /\ worker' = [worker EXCEPT !.alive = FALSE, !.serves = Nobody] /\ queue' = <<>>
      /\ toolAt' = [c \in Callers |-> IF c \in waiting THEN "answered" ELSE toolAt[c]]
      /\ answer' = [c \in Callers |-> IF c \in waiting
                      THEN [Nothing EXCEPT !.code = "dropped"] ELSE answer[c]]
      /\ span' = [c \in Callers |-> IF c \in waiting
                      THEN [outcome |-> "error", exit |-> "none"] ELSE span[c]]
      /\ UNCHANGED <<askedJob, ranIn, progressLog>>
  BY DEF Die, Closed
<1>2. KernelTypeOK'
  <2>1. /\ toolAt' \in [Callers -> Whereabouts] /\ queue' \in Seq(Callers)
        /\ answer' = [c \in Callers |-> answer'[c]] /\ span' = [c \in Callers |-> span'[c]]
    <3>1. toolAt \in [Callers -> Whereabouts] /\ "answered" \in Whereabouts
      BY DEF KernelInv, KernelTypeOK, Whereabouts
    <3>2. toolAt' \in [Callers -> Whereabouts]
      <4> HIDE DEF waiting
      <4>1. QED
        BY <1>1, <3>1
    <3>3. answer' = [c \in Callers |-> answer'[c]] /\ span' = [c \in Callers |-> span'[c]]
      <4> HIDE DEF waiting
      <4>1. QED
        BY <1>1
    <3>4. queue' = <<>>
      BY <1>1
    <3>5. <<>> \in Seq(Callers)
      OBVIOUS
    <3>6. QED
      BY <3>2, <3>3, <3>4, <3>5, Zenon
  <2>2. /\ worker'.serves = Nobody
        /\ worker' = [alive |-> worker'.alive, cwd |-> worker'.cwd,
                      scratch |-> worker'.scratch, serves |-> worker'.serves]
    BY <1>1 DEF KernelInv, KernelTypeOK
  <2>3. QED
    BY <1>1, <2>1, <2>2 DEF KernelInv, KernelTypeOK
<1>3. \A d : ~Queued(d)'
  <2>1. queue' = <<>>
    BY <1>1
  <2> SUFFICES \A n \in DOMAIN queue' : FALSE
    BY DEF Queued
  <2>2. QED
    BY ONLY <2>1
<1>4. \A d \in Callers :
        /\ toolAt[d] = "waiting" =>
             /\ toolAt'[d] = "answered" /\ answer'[d] = [Nothing EXCEPT !.code = "dropped"]
             /\ span'[d] = [outcome |-> "error", exit |-> "none"]
        /\ toolAt[d] # "waiting" =>
             toolAt'[d] = toolAt[d] /\ answer'[d] = answer[d] /\ span'[d] = span[d]
  BY <1>1
<1> HIDE DEF waiting
<1>5. CallsAreAsked'
  BY <1>1, <1>3, <1>4 DEF KernelInv, CallsAreAsked
<1>6. \A c \in Callers : toolAt'[c] # "waiting"
  BY <1>4
<1>7. ASSUME NEW d \in Callers, toolAt'[d] = "answered"
      PROVE  ToldItsOwn(d)'
  <2>1. CASE toolAt[d] = "waiting"
    BY <1>4, <2>1 DEF ToldItsOwn
  <2>2. CASE toolAt[d] # "waiting"
    BY <1>1, <1>4, <1>7, <2>2 DEF KernelInv, ToldItsOwn
  <2>3. QED
    BY <2>1, <2>2
<1>8. progressLog'.steps = Cardinality(Asked')
  BY <1>1 DEF KernelInv, Asked
<1>9. QED
  BY <1>1, <1>2, <1>5, <1>6, <1>7, <1>8 DEF KernelInv

\* A step that moves none of the calls, the queue, the kernel or the count.
LEMMA RestKeeps ==
  ASSUME KernelInv, UNCHANGED <<toolAt, askedJob, queue, worker, answer, ranIn, span>>,
         progressLog' = [progressLog EXCEPT !.chats = progressLog'.chats]
  PROVE  KernelInv'
<1>1. progressLog'.steps = progressLog.steps /\
        progressLog' = [latest |-> progressLog'.latest, steps |-> progressLog'.steps,
                        chats |-> progressLog'.chats]
  BY DEF KernelInv, KernelTypeOK
<1>2. KernelTypeOK'
  BY <1>1 DEF KernelInv, KernelTypeOK
<1>3. CallsAreAsked' /\ Asked' = Asked /\ \A d : Queued(d)' <=> Queued(d)
  BY DEF KernelInv, CallsAreAsked, Queued, Asked
<1>4. (\A d \in Callers : toolAt[d] = "answered" => ToldItsOwn(d))'
  BY DEF KernelInv, ToldItsOwn
<1>5. QED
  BY <1>1, <1>2, <1>3, <1>4 DEF KernelInv

\* Every script stands alone, whatever the others of the turn did, gave up or lost.
THEOREM ScriptsAlwaysStandAlone == ExplorerSpec => []ScriptsStandAlone
<1>1. KernelInv /\ [ExplorerNext]_explorerVars => KernelInv'
  <2> SUFFICES ASSUME KernelInv, [ExplorerNext]_explorerVars
               PROVE  KernelInv'
    OBVIOUS
  <2>1. CASE \E c \in Callers, does \in Scripts : Ask(c, does)
    BY <2>1, AskKeeps
  <2>2. CASE \E c \in Callers : AskRead(c, "small") \/ GiveUp(c)
    BY <2>2, AskReadKeeps, GiveUpKeeps
  <2>3. CASE Take \/ Finish \/ Die
    BY <2>3, TakeKeeps, FinishKeeps, DieKeeps
  <2>4. CASE \E took \in {0, SlowChat} : Chat(took)
    <3>1. PICK took \in {0, SlowChat} : Chat(took)
      BY <2>4
    <3>2. /\ UNCHANGED <<toolAt, askedJob, queue, worker, answer, ranIn, span>>
          /\ progressLog' = [progressLog EXCEPT !.chats = progressLog'.chats]
      BY <3>1 DEF Chat, KernelInv, KernelTypeOK
    <3>3. QED
      BY <3>2, RestKeeps
  <2>5. CASE UNCHANGED explorerVars
    <3>1. /\ UNCHANGED <<toolAt, askedJob, queue, worker, answer, ranIn, span>>
          /\ progressLog' = [progressLog EXCEPT !.chats = progressLog'.chats]
      BY <2>5 DEF explorerVars, KernelInv, KernelTypeOK
    <3>2. QED
      BY <3>1, RestKeeps
  <2>6. QED
    BY <2>1, <2>2, <2>3, <2>4, <2>5 DEF ExplorerNext
<1>2. KernelInv => ScriptsStandAlone
  <2> SUFFICES ASSUME KernelInv, NEW c \in Callers
               PROVE  /\ toolAt[c] = "waiting" => Queued(c) \/ worker.serves = c
                      /\ Queued(c) => askedJob[c].does # "nothing"
                      /\ ranIn[c] = Start \/ askedJob[c].does = "read"
                      /\ span[c].outcome = "ok" <=> answer[c].out # "none" \/ answer[c].err # "none"
                      /\ span[c].exit \in {answer[c].code, "none"}
                      /\ progressLog.steps = Cardinality(Asked)
                      /\ toolAt[c] = "answered" /\ askedJob[c].does # "stores" =>
                           answer[c] \in {Result(askedJob[c].does)} \cup
                             {[Nothing EXCEPT !.code = why] : why \in {"gone", "dropped"}}
    BY DEF ScriptsStandAlone, Asked
  <2>1. /\ toolAt[c] = "waiting" => Queued(c) \/ worker.serves = c
        /\ Queued(c) => askedJob[c].does # "nothing"
        /\ ranIn[c] = Start \/ askedJob[c].does = "read"
        /\ progressLog.steps = Cardinality(Asked)
    BY DEF KernelInv, CallsAreAsked
  <2>2. CASE toolAt[c] # "answered"
    <3>1. answer[c] = Nothing /\ span[c] = Open
      BY <2>2 DEF KernelInv, CallsAreAsked
    <3>2. /\ answer[c].code = "none" /\ answer[c].out = "none" /\ answer[c].err = "none"
          /\ span[c].outcome = "none" /\ span[c].exit = "none"
      BY ONLY <3>1 DEF Nothing, Open
    <3>3. QED
      BY <2>1, <2>2, <3>2
  <2>3. CASE toolAt[c] = "answered"
    <3>1. ToldItsOwn(c)
      BY <2>3 DEF KernelInv
    <3>2. CASE /\ answer[c] \in {Result(askedJob[c].does),
                                 [code |-> "1", out |-> "none", err |-> "full"]}
               /\ askedJob[c].does # "stores" => answer[c] = Result(askedJob[c].does)
               /\ span[c] = [outcome |-> "ok",
                             exit |-> IF askedJob[c].does = "read" THEN "none" ELSE answer[c].code]
      <4>1. answer[c].out # "none" \/ answer[c].err # "none"
        <5>1. CASE answer[c] = Result(askedJob[c].does)
          BY ONLY <5>1, ResultsSay
        <5>2. CASE answer[c] = [code |-> "1", out |-> "none", err |-> "full"]
          <6>1. answer[c].err = "full"
            BY ONLY <5>2
          <6>2. QED
            BY ONLY <6>1
        <5>3. QED
          BY <3>2, <5>1, <5>2, Zenon
      <4>2. span[c].outcome = "ok" /\ span[c].exit \in {answer[c].code, "none"}
        <5>1. span[c] = [outcome |-> "ok",
                         exit |-> IF askedJob[c].does = "read" THEN "none" ELSE answer[c].code]
          BY <3>2
        <5>2. QED
          BY ONLY <5>1
      <4>3. QED
        BY <2>1, <3>2, <4>1, <4>2
    <3>3. CASE /\ \E why \in {"gone", "dropped"} :
                    answer[c] = [Nothing EXCEPT !.code = why]
               /\ span[c] = [outcome |-> "error", exit |-> "none"]
      <4>1. answer[c].out = "none" /\ answer[c].err = "none"
        <5>1. PICK why : answer[c] = [Nothing EXCEPT !.code = why]
          BY <3>3, Zenon
        <5>2. QED
          BY ONLY <5>1 DEF Nothing
      <4>2. span[c].outcome = "error" /\ span[c].exit = "none"
        <5>1. span[c] = [outcome |-> "error", exit |-> "none"]
          BY <3>3
        <5>2. QED
          BY ONLY <5>1
      <4>3. QED
        BY <2>1, <3>3, <4>1, <4>2
    <3>4. QED
      BY <3>1, <3>2, <3>3, Zenon DEF ToldItsOwn
  <2>4. QED
    BY <2>2, <2>3
<1>3. QED
  BY <1>1, <1>2, KernelInvInit, PTL DEF ExplorerSpec

-----------------------------------------------------------------------------
(* The map of a project that is edited while it is made, for every project  *)
(* and every size of a chunk.                                               *)

\* Files are found under names, and a project is found finite.
Found(found) == IsFiniteSet(found) /\ \A f \in found : f \in Seq(STRING) /\ f # << >>
FirstDir(f) == SubSeq(f, 1, 1)
Deep(found) == {f \in found : Len(f) > 1}
Under(found) == [d \in RenderedDirs(found) |-> {f \in found : d \in DirsOf(f)}]
TopOf(found) == {d \in RenderedDirs(found) : Len(d) = 1}

\* A file below the root is under one directory of the root, its first.
LEMMA TopDir ==
  ASSUME NEW N, NEW f \in Seq(N), NEW d
  PROVE  d \in DirsOf(f) /\ Len(d) = 1 <=> Len(f) > 1 /\ d = FirstDir(f)
<1>1. ASSUME NEW n \in 1 .. (Len(f) - 1)
      PROVE  Len(SubSeq(f, 1, n)) = n
  <2>1. \A i \in 1 .. n : f[i] \in N
    BY <1>1
  <2>2. QED
    BY <1>1, <2>1, SubSeqProperties
<1>2. ASSUME d \in DirsOf(f), Len(d) = 1 PROVE Len(f) > 1 /\ d = FirstDir(f)
  <2>1. PICK n \in 1 .. (Len(f) - 1) : d = SubSeq(f, 1, n)
    BY <1>2 DEF DirsOf
  <2>2. n = 1
    BY <1>1, <1>2, <2>1
  <2>3. Len(f) \in Nat
    OBVIOUS
  <2>4. QED
    BY <2>1, <2>2, <2>3 DEF FirstDir
<1>3. ASSUME Len(f) > 1, d = FirstDir(f) PROVE d \in DirsOf(f) /\ Len(d) = 1
  <2>1. 1 \in 1 .. (Len(f) - 1)
    <3>1. Len(f) \in Nat
      OBVIOUS
    <3>2. QED
      BY <1>3, <3>1
  <2>2. QED
    BY <1>1, <1>3, <2>1 DEF DirsOf, FirstDir
<1>4. QED
  BY <1>2, <1>3

\* What the directories of the root hold, the files of the root apart, is every file.
LEMMA TreeParts ==
  ASSUME NEW found, Found(found)
  PROVE  /\ IsFiniteSet(TopOf(found))
         /\ \A d \in TopOf(found) : IsFiniteSet(Under(found)[d])
                                   /\ TotalFiles(found, d) = Cardinality(Under(found)[d])
         /\ \A d, e \in TopOf(found) : d # e => Under(found)[d] \cap Under(found)[e] = {}
         /\ UNION {Under(found)[d] : d \in TopOf(found)} = Deep(found)
<1> DEFINE top == TopOf(found)
<1>1. \A f \in found : \A d : d \in DirsOf(f) /\ Len(d) = 1 <=> Len(f) > 1 /\ d = FirstDir(f)
  BY TopDir, Zenon DEF Found
<1>2. \A d \in top : Under(found)[d] = {f \in Deep(found) : FirstDir(f) = d}
  BY <1>1 DEF TopOf, Under, Deep
<1>3. \A f \in Deep(found) : FirstDir(f) \in top
  <2> TAKE f \in Deep(found)
  <2>1. f \in found /\ FirstDir(f) \in DirsOf(f) /\ Len(FirstDir(f)) = 1
    BY <1>1 DEF Deep
  <2>2. Len(FirstDir(f)) <= TreeMaxDepth
    BY <2>1, OrientationAssumption
  <2>3. QED
    BY <2>1, <2>2 DEF TopOf, RenderedDirs
<1>4. IsFiniteSet(top)
  <2> DEFINE first == [f \in Deep(found) |-> FirstDir(f)]
  <2>1. \A d \in top : \E f \in Deep(found) : first[f] = d
    <3> TAKE d \in top
    <3>1. PICK f \in found : d \in DirsOf(f) /\ Len(d) = 1
      BY DEF TopOf, RenderedDirs
    <3>2. QED
      BY <1>1, <3>1 DEF Deep
  <2>2. first \in Surjection(Deep(found), top)
    BY <1>3, <2>1 DEF Surjection
  <2>3. IsFiniteSet(Deep(found))
    BY FS_Subset DEF Deep, Found
  <2>4. QED
    BY <2>2, <2>3, FS_Surjection
<1>5. \A d \in top : IsFiniteSet(Under(found)[d])
                  /\ TotalFiles(found, d) = Cardinality(Under(found)[d])
  <2> TAKE d \in top
  <2>1. Under(found)[d] = {f \in found : d \in DirsOf(f)}
    BY DEF TopOf, Under
  <2>2. Under(found)[d] \in SUBSET found
    BY <2>1
  <2>3. QED
    BY <2>1, <2>2, FS_Subset DEF TotalFiles, Found
<1>6. \A d, e \in top : d # e => Under(found)[d] \cap Under(found)[e] = {}
  BY <1>2
<1>7. UNION {Under(found)[d] : d \in top} = Deep(found)
  BY <1>2, <1>3
<1>8. QED
  BY <1>4, <1>5, <1>6, <1>7

\* The files of the root and those the directories of the root count are all there are.
LEMMA TreeAddsUp ==
  ASSUME NEW found, Found(found), NEW dirs,
         \A d \in TopOf(found) : dirs[d] = TotalFiles(found, d)
  PROVE  /\ Sum(dirs, TopOf(found)) = Cardinality(Deep(found))
         /\ Cardinality(found) = DirectFiles(found) + Cardinality(Deep(found))
<1>1. Sum(dirs, TopOf(found)) = Cardinality(Deep(found)) /\ IsFiniteSet(Deep(found))
  <2> DEFINE P == Under(found)
             D == TopOf(found)
             c == dirs
  <2>1. IsFiniteSet(D)
    BY TreeParts
  <2>2. \A d \in D : IsFiniteSet(P[d]) /\ c[d] = Cardinality(P[d])
    BY TreeParts
  <2>3. \A d, e \in D : d # e => P[d] \cap P[e] = {}
    BY TreeParts
  <2>4. UNION {P[d] : d \in D} = Deep(found)
    BY TreeParts
  <2> HIDE DEF P, D, c
  <2>5. IsFiniteSet(Deep(found)) /\ Sum(c, D) = Cardinality(Deep(found))
    BY <2>1, <2>2, <2>3, <2>4, SumOfParts
  <2>6. QED
    BY <2>4, <2>5 DEF D, c
<1>2. Cardinality(found) = DirectFiles(found) + Cardinality(Deep(found))
  <2> DEFINE direct == {f \in found : Len(f) = 1}
  <2>1. direct \cap Deep(found) = {}
    <3>1. ASSUME NEW f \in direct, f \in Deep(found) PROVE FALSE
      <4>1. Len(f) = 1 /\ Len(f) > 1
        BY <3>1, Zenon DEF Deep
      <4>2. QED
        BY <4>1
    <3>2. QED
      BY <3>1
  <2>2. found = direct \cup Deep(found)
    <3>1. ASSUME NEW N, NEW f \in Seq(N), f # << >>
          PROVE  Len(f) = 1 \/ Len(f) > 1
      <4>1. Len(f) \in Nat \ {0}
        BY <3>1, EmptySeq, Zenon
      <4>2. \A n \in Nat \ {0} : n = 1 \/ n > 1
        OBVIOUS
      <4>3. QED
        BY <4>1, <4>2, Zenon
    <3>2. \A f \in found : Len(f) = 1 \/ Len(f) > 1
      BY <3>1, Zenon DEF Found
    <3>3. QED
      BY <3>2 DEF Deep
  <2>3. IsFiniteSet(direct) /\ IsFiniteSet(Deep(found))
    BY FS_Subset DEF Found, Deep
  <2>4. Cardinality(direct) \in Nat /\ Cardinality(Deep(found)) \in Nat /\ Cardinality(direct \cap Deep(found)) = 0
    BY <2>1, <2>3, FS_CardinalityType, FS_EmptySet
  <2> DEFINE deep == Deep(found)
  <2> HIDE DEF direct, deep
  <2>5. Cardinality(direct \cup deep) = Cardinality(direct) + Cardinality(deep) - Cardinality(direct \cap deep)
    BY <2>3, FS_Union, Zenon DEF deep
  <2>6. Cardinality(found) = Cardinality(direct) + Cardinality(deep)
    <3>1. Cardinality(found) = Cardinality(direct \cup deep)
      BY <2>2, Zenon DEF deep
    <3>2. Cardinality(direct) \in Nat /\ Cardinality(deep) \in Nat /\ Cardinality(direct \cap deep) = 0
      BY <2>4, Zenon DEF deep
    <3>3. QED
      BY <2>5, <3>1, <3>2
  <2>7. QED
    BY <2>6 DEF DirectFiles, direct, deep
<1>3. QED
  BY <1>1, <1>2

\* total_files: the fold of the model is the sum reasoned about here.
LEMMA TreeSum == MapThenSumSet(CountOf, TopDirs) = Sum(map.dirs, TopDirs)
<1> DEFINE F == TopDirs
           Folds(it) == it = [s \in SUBSET F |-> IF s = {} THEN 0
             ELSE CountOf(CHOOSE x \in s : TRUE) + it[s \ {CHOOSE x \in s : TRUE}]]
<1>1. MapThenSumSet(CountOf, TopDirs) = (CHOOSE it : Folds(it))[F]
  BY Zenon DEF MapThenSumSet, MapThenFoldSet
<1>2. ASSUME NEW s \in SUBSET F, s # {}
      PROVE  map.dirs[FirstOf(s)] = CountOf(CHOOSE x \in s : TRUE)
             /\ RestOf(s) = s \ {CHOOSE x \in s : TRUE}
  BY Zenon DEF FirstOf, RestOf, CountOf
<1>3. \A it : IsFold(it, map.dirs, F) <=> Folds(it)
  <2> TAKE it
  <2>1. [s \in SUBSET F |-> IF s = {} THEN 0 ELSE map.dirs[FirstOf(s)] + it[RestOf(s)]]
      = [s \in SUBSET F |-> IF s = {} THEN 0
           ELSE CountOf(CHOOSE x \in s : TRUE) + it[s \ {CHOOSE x \in s : TRUE}]]
    BY <1>2, Zenon
  <2>2. QED
    BY <2>1, Zenon DEF IsFold
<1> HIDE DEF Folds
<1>4. (CHOOSE it : IsFold(it, map.dirs, F)) = (CHOOSE it : Folds(it))
  BY <1>3, Zenon
<1>5. QED
  BY <1>1, <1>4, Zenon DEF Sum

\* A tree that is rendered of what was found counts all of it.
LEMMA TreeIsWhole ==
  ASSUME Found(files), map = RenderTree(files)
  PROVE  TreeCountsAll
<1> SUFFICES ASSUME map.kind = "tree" PROVE TreeCountsAll
  BY DEF TreeCountsAll
<1>1. map = [kind |-> "tree", files |-> Cardinality(files), root |-> DirectFiles(files),
             dirs |-> [d \in RenderedDirs(files) |-> TotalFiles(files, d)]]
  <2>1. CASE Cardinality(RenderedDirs(files)) > FullListMaxFiles
    <3>1. map = [kind |-> "note", files |-> Cardinality(files)]
      BY <2>1 DEF RenderTree
    <3>2. map.kind = "note"
      BY ONLY <3>1
    <3>3. QED
      BY <3>2
  <2>2. CASE ~(Cardinality(RenderedDirs(files)) > FullListMaxFiles)
    BY <2>2 DEF RenderTree
  <2>3. QED
    BY <2>1, <2>2
<1>2. map.files = Cardinality(files) /\ map.root = DirectFiles(files)
      /\ map.dirs = [d \in RenderedDirs(files) |-> TotalFiles(files, d)]
  BY ONLY <1>1
<1>3. TopDirs = TopOf(files)
  BY <1>2 DEF TopDirs, TopOf
<1>4. \A d \in TopOf(files) : map.dirs[d] = TotalFiles(files, d)
  BY <1>2 DEF TopOf
<1>5. /\ Sum(map.dirs, TopOf(files)) = Cardinality(Deep(files))
      /\ Cardinality(files) = DirectFiles(files) + Cardinality(Deep(files))
  BY <1>4, TreeAddsUp
<1>6. QED
  BY <1>2, <1>3, <1>5, TreeSum DEF TreeCountsAll

\* What was measured of a file nobody touched since is what it still holds.
MeasuredStands ==
  /\ \A f \in DOMAIN sizes \ edited : f \in DOMAIN project /\ project[f].bytes = sizes[f]
  /\ \A f \in DOMAIN metrics \ edited :
       /\ f \in DOMAIN project
       /\ project[f].bytes = metrics[f].bytes /\ project[f].lines = metrics[f].lines
MapInv ==
  /\ Found(DOMAIN project)
  /\ mapAt # "done" => MeasuredStands /\ map.kind = "none"
  /\ map.kind = "tree" => Found(files) /\ map = RenderTree(files)
  /\ MarksAreExact

\* The map the model is shown is true whatever was edited while it was made: the marks
\* of a list are exact, and a tree counts every file.
THEOREM MapIsAlwaysTrue == OrientationSpec => []MapIsTrue
<1>1. OrientationInit => MapInv
  <2> SUFFICES ASSUME OrientationInit
               PROVE  MapInv
    OBVIOUS
  <2>1. DOMAIN sizes = {} /\ DOMAIN metrics = {}
    BY DEF OrientationInit
  <2>2. map.kind = "none"
    BY DEF OrientationInit, NoMap
  <2>3. Found(DOMAIN project)
    BY OrientationAssumption, Zenon DEF OrientationInit, Found
  <2>4. QED
    BY <2>1, <2>2, <2>3 DEF MapInv, MeasuredStands, MarksAreExact
<1>2. MapInv /\ [OrientationNext]_orientationVars => MapInv'
  <2> SUFFICES ASSUME MapInv, [OrientationNext]_orientationVars
               PROVE  MapInv'
    OBVIOUS
  <2>1. CASE GlobFails
    BY <2>1 DEF GlobFails, Stop, NoMap, MapInv, MarksAreExact
  <2>2. CASE GlobFinds
    <3>1. CASE mapAt' = "stat" /\ UNCHANGED map
      BY <2>2, <3>1 DEF GlobFinds, MapInv, MeasuredStands, MarksAreExact
    <3>2. CASE Stop(RenderTree(DOMAIN project))
      <4>1. RenderTree(DOMAIN project).kind # "list"
        BY DEF RenderTree
      <4>2. /\ files' = DOMAIN project /\ UNCHANGED project
            /\ mapAt' = "done" /\ map' = RenderTree(DOMAIN project)
        BY <2>2, <3>2 DEF GlobFinds, Stop
      <4>3. RenderTree(files)' = RenderTree(files')
        BY Zenon DEF RenderTree, RenderedDirs, DirectFiles, TotalFiles
      <4>4. Found(files)' /\ Found(DOMAIN project)'
        BY <4>2 DEF MapInv, Found
      <4>5. map'.kind = map'.kind /\ map' = RenderTree(files)'
        BY <4>2, <4>3
      <4>6. MarksAreExact'
        BY <4>1, <4>2 DEF MarksAreExact
      <4>7. QED
        BY <4>2, <4>4, <4>5, <4>6 DEF MapInv
    <3>3. QED
      BY <2>2, <3>1, <3>2, Zenon DEF GlobFinds
  <2>3. CASE Stat
    <3>1. /\ mapAt = "stat" /\ mapAt' = "wc" /\ UNCHANGED <<project, edited, files, metrics, map>>
      BY <2>3 DEF Stat
    <3>2. \A f \in DOMAIN sizes' \ edited : f \in DOMAIN project /\ project[f].bytes = sizes'[f]
      <4>1. CASE Measurable /\ sizes' = [f \in Chunk |-> project[f].bytes]
        BY <4>1 DEF Measurable
      <4>2. CASE sizes' = <<>>
        BY <4>2
      <4>3. QED
        BY <2>3, <4>1, <4>2 DEF Stat
    <3>3. QED
      BY <3>1, <3>2 DEF MapInv, MeasuredStands, MarksAreExact
  <2>4. CASE Wc
    <3>1. /\ mapAt = "wc" /\ mapAt' = "stat" /\ UNCHANGED <<project, edited, files, sizes, map>>
      BY <2>4 DEF Wc
    <3>2. ASSUME NEW f \in DOMAIN metrics', f \notin edited
          PROVE  /\ f \in DOMAIN project
                 /\ project[f].bytes = metrics'[f].bytes /\ project[f].lines = metrics'[f].lines
      <4>1. CASE metrics' = [g \in DOMAIN metrics \cup DOMAIN Joined |->
                               IF g \in DOMAIN Joined THEN Joined[g] ELSE metrics[g]]
        <5>1. CASE f \in DOMAIN Joined
          <6>1. metrics'[f] = [bytes |-> sizes[f], lines |-> project[f].lines]
                  /\ f \in DOMAIN sizes \cap DOMAIN project
            BY <4>1, <5>1 DEF Joined
          <6>2. QED
            BY <3>1, <3>2, <6>1 DEF MapInv, MeasuredStands
        <5>2. CASE f \notin DOMAIN Joined
          <6>1. f \in DOMAIN metrics /\ metrics'[f] = metrics[f]
            BY <3>2, <4>1, <5>2
          <6>2. QED
            BY <3>1, <3>2, <6>1 DEF MapInv, MeasuredStands
        <5>3. QED
          BY <5>1, <5>2
      <4>2. CASE UNCHANGED metrics
        BY <3>1, <3>2, <4>2 DEF MapInv, MeasuredStands
      <4>3. QED
        BY <2>4, <4>1, <4>2 DEF Wc
    <3>3. QED
      BY <3>1, <3>2 DEF MapInv, MeasuredStands, MarksAreExact
  <2>5. CASE RenderFullList
    <3>1. /\ mapAt = "stat" /\ mapAt' = "done"
          /\ UNCHANGED <<project, edited, files, metrics>>
          /\ map' = [kind |-> "list", files |-> files, promises |-> metrics # << >>,
                     sized |-> DOMAIN metrics, marked |-> Marked]
      BY <2>5 DEF RenderFullList, Stop
    <3>2. map'.files = files /\ map'.sized = DOMAIN metrics /\ map'.marked = Marked
      BY <3>1
    <3>3. ASSUME NEW f \in DOMAIN metrics \ edited
          PROVE  f \in Marked <=> ~Fits(project[f])
      <4>1. project[f].bytes = metrics[f].bytes /\ project[f].lines = metrics[f].lines
        BY <3>1 DEF MapInv, MeasuredStands
      <4>2. Fits(project[f]) <=> Fits(metrics[f])
        BY <4>1 DEF Fits, NumberedOutputBytes
      <4>3. QED
        BY <4>2 DEF Marked
    <3>4. QED
      BY <3>1, <3>2, <3>3 DEF MapInv, MarksAreExact, Fits, NumberedOutputBytes
  <2>6. CASE \E f \in DOMAIN project, content \in FileContents : Edit(f, content)
    <3>1. PICK f \in DOMAIN project, content \in FileContents : Edit(f, content)
      BY <2>6
    <3>2. /\ mapAt # "done" /\ UNCHANGED <<mapAt, files, sizes, metrics, map>>
          /\ edited' = edited \cup {f} /\ project' = [project EXCEPT ![f] = content]
      BY <3>1 DEF Edit
    <3>3. DOMAIN project' = DOMAIN project /\ \A g \in DOMAIN project \ {f} : project'[g] = project[g]
      BY <3>2
    <3>4. QED
      BY <3>2, <3>3 DEF MapInv, MeasuredStands, MarksAreExact
  <2>7. CASE \E f \in DOMAIN project : RemoveFile(f)
    <3>1. PICK f \in DOMAIN project : RemoveFile(f)
      BY <2>7
    <3>2. /\ mapAt # "done" /\ UNCHANGED <<mapAt, files, sizes, metrics, map>>
          /\ edited' = edited \cup {f}
          /\ project' = [g \in DOMAIN project \ {f} |-> project[g]]
      BY <3>1 DEF RemoveFile
    <3>3. DOMAIN project' = DOMAIN project \ {f} /\ \A g \in DOMAIN project \ {f} : project'[g] = project[g]
      BY <3>2
    <3>4. Found(DOMAIN project')
      <4>1. IsFiniteSet(DOMAIN project \ {f})
        BY FS_Subset DEF MapInv, Found
      <4>2. QED
        BY <3>3, <4>1, Zenon DEF MapInv, Found
    <3>5. Found(DOMAIN project)'
      BY <3>4, Zenon DEF Found
    <3>6. QED
      BY <3>2, <3>3, <3>5 DEF MapInv, MeasuredStands, MarksAreExact
  <2>8. CASE UNCHANGED orientationVars
    BY <2>8 DEF orientationVars, MapInv, MeasuredStands, MarksAreExact, Fits, NumberedOutputBytes
  <2>9. QED
    BY <2>1, <2>2, <2>3, <2>4, <2>5, <2>6, <2>7, <2>8 DEF OrientationNext
<1>3. MapInv => MapIsTrue
  <2> SUFFICES ASSUME MapInv
               PROVE  MapIsTrue
    OBVIOUS
  <2>1. CASE map.kind = "tree"
    <3>1. TreeCountsAll
      BY <2>1, TreeIsWhole DEF MapInv
    <3>2. QED
      BY <3>1 DEF MapInv, MapIsTrue
  <2>2. CASE map.kind # "tree"
    BY <2>2 DEF MapInv, MapIsTrue, TreeCountsAll
  <2>3. QED
    BY <2>1, <2>2
<1>4. QED
  BY <1>1, <1>2, <1>3, PTL DEF OrientationSpec

-----------------------------------------------------------------------------
(* What the models are told *)

LEMMA PartsOfConcat ==
  ASSUME NEW S, NEW a \in Seq(S), NEW b \in Seq(S)
  PROVE  ToSet(a \o b) = ToSet(a) \cup ToSet(b)
<1>1. /\ a \o b \in Seq(S) /\ Len(a \o b) = Len(a) + Len(b)
      /\ \A n \in 1..(Len(a) + Len(b)) :
           (a \o b)[n] = IF n <= Len(a) THEN a[n] ELSE b[n - Len(a)]
  BY ConcatProperties
<1>2. /\ Len(a) \in Nat /\ Len(b) \in Nat /\ DOMAIN a = 1..Len(a) /\ DOMAIN b = 1..Len(b)
      /\ DOMAIN (a \o b) = 1..(Len(a) + Len(b))
  BY <1>1, LenProperties
<1>3. ASSUME NEW x \in ToSet(a \o b) PROVE x \in ToSet(a) \cup ToSet(b)
  <2>1. PICK n \in 1..(Len(a) + Len(b)) : x = (a \o b)[n]
    BY <1>2, <1>3 DEF ToSet
  <2>2. CASE n <= Len(a)
    BY <1>1, <1>2, <2>1, <2>2 DEF ToSet
  <2>3. CASE ~(n <= Len(a))
    <3>1. n - Len(a) \in 1..Len(b) /\ x = b[n - Len(a)]
      BY <1>1, <1>2, <2>1, <2>3
    <3>2. QED
      BY <1>2, <3>1 DEF ToSet
  <2>4. QED
    BY <2>2, <2>3
<1>4. ASSUME NEW x \in ToSet(a) PROVE x \in ToSet(a \o b)
  <2>1. PICK n \in 1..Len(a) : x = a[n]
    BY <1>2, <1>4 DEF ToSet
  <2>2. n \in 1..(Len(a) + Len(b)) /\ (a \o b)[n] = x
    BY <1>1, <1>2, <2>1
  <2>3. QED
    BY <1>2, <2>2 DEF ToSet
<1>5. ASSUME NEW x \in ToSet(b) PROVE x \in ToSet(a \o b)
  <2>1. PICK n \in 1..Len(b) : x = b[n]
    BY <1>2, <1>5 DEF ToSet
  <2>2. n + Len(a) \in 1..(Len(a) + Len(b)) /\ ~(n + Len(a) <= Len(a)) /\ (n + Len(a)) - Len(a) = n
    BY <1>2, <2>1
  <2>3. (a \o b)[n + Len(a)] = x
    BY <1>1, <2>1, <2>2
  <2>4. QED
    BY <1>2, <2>2, <2>3 DEF ToSet
<1>6. QED
  BY <1>3, <1>4, <1>5

LEMMA PartsOfOne ==
  /\ ToSet(<< >>) = {}
  /\ \A x : ToSet(<<x>>) = {x}
<1>1. DOMAIN << >> = {}
  BY DEF EmptySeq
<1>2. ASSUME NEW x PROVE DOMAIN <<x>> = {1} /\ <<x>>[1] = x
  OBVIOUS
<1>3. QED
  BY <1>1, <1>2 DEF ToSet

\* Every part of a prompt.
PromptParts ==
  Phases \cup Routed
    \cup {"operator's", "file-map", "house-rules", "closing", "read-attached", "turns", "context",
          "inlined", "read-whole", "view-images", "question", "attach-directive", "dossier",
          "header"}

LEMMA NoParts == << >> \in Seq(PromptParts)
BY EmptySeq

LEMMA OnePart == \A x \in PromptParts : <<x>> \in Seq(PromptParts)
OBVIOUS

LEMMA JoinParts ==
  \A a, b \in Seq(PromptParts) :
    a \o b \in Seq(PromptParts) /\ ToSet(a \o b) = ToSet(a) \cup ToSet(b)
BY PartsOfConcat, ConcatProperties

\* A part that is there under a condition.
LEMMA PartsOfOption ==
  ASSUME NEW condition \in BOOLEAN, NEW x \in PromptParts
  PROVE  /\ (IF condition THEN <<x>> ELSE << >>) \in Seq(PromptParts)
         /\ ToSet(IF condition THEN <<x>> ELSE << >>) = IF condition THEN {x} ELSE {}
BY PartsOfOne, NoParts, OnePart, Zenon

LEMMA PartsOfEvidence ==
  ASSUME NEW routed \in SUBSET Routed
  PROVE  /\ EvidenceBlock(routed) \in Seq(PromptParts)
         /\ ToSet(EvidenceBlock(routed)) \subseteq {"header"} \cup Routed
<1>1. CASE routed = {}
  BY <1>1, PartsOfOne DEF EvidenceBlock
<1>2. CASE routed # {}
  <2>1. IsFiniteSet(routed)
    <3>1. IsFiniteSet(Routed)
      <4>1. IsFiniteSet({"text"}) /\ IsFiniteSet({"image"}) /\ IsFiniteSet({"note"})
            /\ IsFiniteSet({"demotion"})
        BY FS_Singleton
      <4>2. IsFiniteSet({"text"} \cup {"image"}) /\ IsFiniteSet({"note"} \cup {"demotion"})
        BY <4>1, FS_Union
      <4>3. Routed = ({"text"} \cup {"image"}) \cup ({"note"} \cup {"demotion"})
        BY DEF Routed
      <4>4. QED
        BY <4>2, <4>3, FS_Union
    <3>2. QED
      BY <3>1, FS_Subset
  <2>2. Cardinality(routed) \in Nat
    BY <2>1, FS_CardinalityType
  <2>3. \E f \in [1..Cardinality(routed) -> routed] : IsInjective(f)
    <3>1. ExistsBijection(1..Cardinality(routed), routed)
      BY <2>1, <2>2, FS_CardinalityType
    <3>2. PICK f \in Bijection(1..Cardinality(routed), routed) : TRUE
      BY <3>1 DEF ExistsBijection
    <3>3. f \in [1..Cardinality(routed) -> routed] /\ IsInjective(f)
      BY <3>2 DEF Bijection, Injection, Surjection, IsInjective
    <3>4. QED
      BY <3>3
  <2>4. SetToSeq(routed) \in [1..Cardinality(routed) -> routed]
    BY <2>3, Zenon DEF SetToSeq
  <2>5. /\ SetToSeq(routed) \in Seq(PromptParts) /\ ToSet(SetToSeq(routed)) \subseteq Routed
    <3>1. routed \subseteq PromptParts
      BY DEF PromptParts
    <3>2. SetToSeq(routed) \in [1..Cardinality(routed) -> PromptParts]
      BY <2>4, <3>1
    <3>3. SetToSeq(routed) \in Seq(PromptParts)
      BY <3>2, <2>2, IsASeq
    <3>4. ToSet(SetToSeq(routed)) \subseteq routed
      BY <2>4 DEF ToSet
    <3>5. QED
      BY <3>3, <3>4
  <2>6. EvidenceBlock(routed) = <<"header">> \o SetToSeq(routed) /\ <<"header">> \in Seq(PromptParts)
    BY <1>2, OnePart DEF EvidenceBlock, PromptParts
  <2>7. ToSet(EvidenceBlock(routed)) = {"header"} \cup ToSet(SetToSeq(routed))
    <3>1. ToSet(<<"header">> \o SetToSeq(routed)) = ToSet(<<"header">>) \cup ToSet(SetToSeq(routed))
      BY <2>5, <2>6, JoinParts, Zenon
    <3>2. ToSet(<<"header">>) = {"header"}
      BY PartsOfOne
    <3>3. QED
      BY <2>6, <3>1, <3>2, Zenon
  <2>8. QED
    BY <2>5, <2>6, <2>7, ConcatProperties
<1>3. QED
  BY <1>1, <1>2

LEMMA PartsOfPreamble ==
  ASSUME NEW phase \in Phases
  PROVE  LET framing == IF Overridden(phase) THEN "operator's" ELSE phase
             read == IF ReadsProject(phase) THEN layers ELSE {} IN
         /\ Preamble(phase) \in Seq(PromptParts)
         /\ Len(Preamble(phase)) > 0 /\ Preamble(phase)[1] = framing
         /\ ToSet(Preamble(phase)) =
              {framing} \cup (IF "file-map" \in read THEN {"file-map"} ELSE {})
                        \cup (IF "house-rules" \in read THEN {"house-rules"} ELSE {})
                        \cup (IF read # {} /\ ~Overridden(phase) THEN {"closing"} ELSE {})
<1> DEFINE framing == IF Overridden(phase) THEN "operator's" ELSE phase
           read == IF ReadsProject(phase) THEN layers ELSE {}
           head == <<framing>>
           tree == IF "file-map" \in read THEN <<"file-map">> ELSE << >>
           rules == IF "house-rules" \in read THEN <<"house-rules">> ELSE << >>
           closing == IF read # {} /\ ~Overridden(phase) THEN <<"closing">> ELSE << >>
<1>1. framing \in PromptParts /\ {"file-map", "house-rules", "closing"} \subseteq PromptParts
  BY DEF PromptParts
<1>2. Preamble(phase) = ((head \o tree) \o rules) \o closing
  BY Zenon DEF Preamble
<1>3. head \in Seq(PromptParts) /\ ToSet(head) = {framing} /\ Len(head) = 1 /\ head[1] = framing
  BY <1>1, OnePart, PartsOfOne
<1>4. /\ tree \in Seq(PromptParts)
      /\ ToSet(tree) = IF "file-map" \in read THEN {"file-map"} ELSE {}
  BY <1>1, OnePart, NoParts, PartsOfOne, Zenon
<1>5. /\ rules \in Seq(PromptParts)
      /\ ToSet(rules) = IF "house-rules" \in read THEN {"house-rules"} ELSE {}
  BY <1>1, OnePart, NoParts, PartsOfOne, Zenon
<1>6. /\ closing \in Seq(PromptParts)
      /\ ToSet(closing) = IF read # {} /\ ~Overridden(phase) THEN {"closing"} ELSE {}
  BY <1>1, OnePart, NoParts, PartsOfOne, Zenon
<1> HIDE DEF framing, head, tree, rules, closing
<1>7. /\ head \o tree \in Seq(PromptParts) /\ ToSet(head \o tree) = ToSet(head) \cup ToSet(tree)
      /\ Len(head \o tree) > 0 /\ (head \o tree)[1] = framing
  BY <1>3, <1>4, PartsOfConcat, ConcatProperties, LenProperties
<1>8. /\ (head \o tree) \o rules \in Seq(PromptParts)
      /\ ToSet((head \o tree) \o rules) = (ToSet(head) \cup ToSet(tree)) \cup ToSet(rules)
      /\ Len((head \o tree) \o rules) > 0 /\ ((head \o tree) \o rules)[1] = framing
  <2> DEFINE a == head \o tree
  <2>1. a \in Seq(PromptParts) /\ ToSet(a) = ToSet(head) \cup ToSet(tree) /\ Len(a) > 0 /\ a[1] = framing
    BY <1>7
  <2> HIDE DEF a
  <2>2. /\ a \o rules \in Seq(PromptParts) /\ ToSet(a \o rules) = ToSet(a) \cup ToSet(rules)
        /\ Len(a \o rules) > 0 /\ (a \o rules)[1] = framing
    BY <2>1, <1>5, PartsOfConcat, ConcatProperties, LenProperties
  <2>3. QED
    BY <2>1, <2>2 DEF a
<1>9. /\ Preamble(phase) \in Seq(PromptParts)
      /\ ToSet(Preamble(phase)) = ((ToSet(head) \cup ToSet(tree)) \cup ToSet(rules)) \cup ToSet(closing)
      /\ Len(Preamble(phase)) > 0 /\ Preamble(phase)[1] = framing
  <2> DEFINE a == (head \o tree) \o rules
  <2>1. /\ a \in Seq(PromptParts) /\ Len(a) > 0 /\ a[1] = framing
        /\ ToSet(a) = (ToSet(head) \cup ToSet(tree)) \cup ToSet(rules)
        /\ Preamble(phase) = a \o closing
    BY <1>2, <1>8
  <2> HIDE DEF a
  <2>2. /\ a \o closing \in Seq(PromptParts) /\ ToSet(a \o closing) = ToSet(a) \cup ToSet(closing)
        /\ Len(a \o closing) > 0 /\ (a \o closing)[1] = framing
    BY <2>1, <1>6, PartsOfConcat, ConcatProperties, LenProperties
  <2>3. QED
    BY <2>1, <2>2
<1>10. QED
  BY <1>3, <1>4, <1>5, <1>6, <1>9 DEF framing

If(condition, part) == IF condition THEN {part} ELSE {}

LEMMA PartsOfConsult ==
  /\ ConsultUserPrompt \in Seq(PromptParts)
  /\ ToSet(ConsultUserPrompt) =
       If(asking.history, "turns") \cup If(asking.context, "context")
         \cup If("small" \in asking.attached, "inlined")
         \cup If("large" \in asking.attached, "read-whole")
         \cup If("image" \in asking.attached, "view-images") \cup {"question"}
<1> DEFINE a == IF asking.history THEN <<"turns">> ELSE << >>
           b == IF asking.context THEN <<"context">> ELSE << >>
           c == IF "small" \in asking.attached THEN <<"inlined">> ELSE << >>
           d == IF "large" \in asking.attached THEN <<"read-whole">> ELSE << >>
           e == IF "image" \in asking.attached THEN <<"view-images">> ELSE << >>
           f == <<"question">>
<1>1. {"turns", "context", "inlined", "read-whole", "view-images", "question"} \subseteq PromptParts
  BY DEF PromptParts
<1>2. a \in Seq(PromptParts) /\ ToSet(a) = If(asking.history, "turns")
  BY <1>1, OnePart, NoParts, PartsOfOne, Zenon DEF If
<1>3. b \in Seq(PromptParts) /\ ToSet(b) = If(asking.context, "context")
  BY <1>1, OnePart, NoParts, PartsOfOne, Zenon DEF If
<1>4. c \in Seq(PromptParts) /\ ToSet(c) = If("small" \in asking.attached, "inlined")
  BY <1>1, OnePart, NoParts, PartsOfOne, Zenon DEF If
<1>5. d \in Seq(PromptParts) /\ ToSet(d) = If("large" \in asking.attached, "read-whole")
  BY <1>1, OnePart, NoParts, PartsOfOne, Zenon DEF If
<1>6. e \in Seq(PromptParts) /\ ToSet(e) = If("image" \in asking.attached, "view-images")
  BY <1>1, OnePart, NoParts, PartsOfOne, Zenon DEF If
<1>7. f \in Seq(PromptParts) /\ ToSet(f) = {"question"}
  BY <1>1, OnePart, PartsOfOne
<1>8. ConsultUserPrompt = ((((a \o b) \o c) \o d) \o e) \o f
  BY Zenon DEF ConsultUserPrompt
<1> HIDE DEF a, b, c, d, e, f
<1>9. a \o b \in Seq(PromptParts) /\ ToSet(a \o b) = ToSet(a) \cup ToSet(b)
  BY <1>2, <1>3, JoinParts, Zenon
<1>10. (a \o b) \o c \in Seq(PromptParts) /\ ToSet((a \o b) \o c) = ToSet(a \o b) \cup ToSet(c)
  BY <1>9, <1>4, JoinParts, Zenon
<1>11. /\ ((a \o b) \o c) \o d \in Seq(PromptParts)
       /\ ToSet(((a \o b) \o c) \o d) = ToSet((a \o b) \o c) \cup ToSet(d)
  BY <1>10, <1>5, JoinParts, Zenon
<1>12. /\ (((a \o b) \o c) \o d) \o e \in Seq(PromptParts)
       /\ ToSet((((a \o b) \o c) \o d) \o e) = ToSet(((a \o b) \o c) \o d) \cup ToSet(e)
  BY <1>11, <1>6, JoinParts, Zenon
<1>13. /\ ConsultUserPrompt \in Seq(PromptParts)
       /\ ToSet(ConsultUserPrompt) = ToSet((((a \o b) \o c) \o d) \o e) \cup ToSet(f)
  BY <1>8, <1>12, <1>7, JoinParts, Zenon
<1>14. QED
  BY <1>2, <1>3, <1>4, <1>5, <1>6, <1>7, <1>9, <1>10, <1>11, <1>12, <1>13, Zenon

SweepSystem(phase, attach) ==
  Preamble(phase) \o AttachmentDirective(asking.attached)
    \o (IF attach THEN <<"attach-directive">> ELSE << >>)

LEMMA PartsOfSweep ==
  ASSUME NEW phase \in Phases, NEW attach \in BOOLEAN
  PROVE  /\ Len(SweepSystem(phase, attach)) > 0
         /\ SweepSystem(phase, attach)[1] = Preamble(phase)[1]
         /\ ToSet(SweepSystem(phase, attach)) =
              ToSet(Preamble(phase)) \cup If(asking.attached \ {"image"} # {}, "read-attached")
                \cup If(attach, "attach-directive")
<1> DEFINE a == Preamble(phase)
           b == AttachmentDirective(asking.attached)
           c == IF attach THEN <<"attach-directive">> ELSE << >>
<1>1. {"read-attached", "attach-directive"} \subseteq PromptParts
  BY DEF PromptParts
<1>2. a \in Seq(PromptParts) /\ Len(a) > 0
  BY PartsOfPreamble
<1>3. b \in Seq(PromptParts) /\ ToSet(b) = If(asking.attached \ {"image"} # {}, "read-attached")
  BY <1>1, OnePart, NoParts, PartsOfOne, Zenon DEF If, AttachmentDirective
<1>4. c \in Seq(PromptParts) /\ ToSet(c) = If(attach, "attach-directive")
  BY <1>1, OnePart, NoParts, PartsOfOne, Zenon DEF If
<1>5. SweepSystem(phase, attach) = (a \o b) \o c
  BY Zenon DEF SweepSystem
<1> HIDE DEF a, b, c
<1>6. /\ a \o b \in Seq(PromptParts) /\ ToSet(a \o b) = ToSet(a) \cup ToSet(b)
      /\ Len(a \o b) > 0 /\ (a \o b)[1] = a[1]
  BY <1>2, <1>3, PartsOfConcat, ConcatProperties, LenProperties
<1>7. /\ ToSet((a \o b) \o c) = (ToSet(a) \cup ToSet(b)) \cup ToSet(c)
      /\ Len((a \o b) \o c) > 0 /\ ((a \o b) \o c)[1] = a[1]
  <2> DEFINE h == a \o b
  <2>1. h \in Seq(PromptParts) /\ ToSet(h) = ToSet(a) \cup ToSet(b) /\ Len(h) > 0 /\ h[1] = a[1]
    BY <1>6
  <2> HIDE DEF h
  <2>2. ToSet(h \o c) = ToSet(h) \cup ToSet(c) /\ Len(h \o c) > 0 /\ (h \o c)[1] = a[1]
    BY <2>1, <1>4, PartsOfConcat, ConcatProperties, LenProperties
  <2>3. QED
    BY <2>1, <2>2 DEF h
<1>8. QED
  BY <1>3, <1>4, <1>5, <1>7 DEF a

-----------------------------------------------------------------------------
(* One phase that was started *)

EntryIsTrue(e) ==
  LET parts == ToSet(e.system) \cup ToSet(e.user) IN
  /\ UNION {Names(part) : part \in parts} \subseteq e.tools
  /\ UNION {TellsOf(part) : part \in parts} \subseteq asking.attached
  /\ e.phase \in {"consult", "consult-solo"} =>
       UNION {TellsOf(part) : part \in ToSet(e.user)} = asking.attached
  /\ e.system[1] \in Phases => e.reader \in Readers(e.system[1])
  /\ e.tools = {} => parts \cap {"file-map", "house-rules"} = {}
  /\ "operator's" \in parts => parts \cap (Phases \cup {"closing"}) = {}
  /\ [phase |-> e.phase, framing |-> e.system[1]] \in Shown

\* The same, of the parts of the state it speaks of.
TellsIn(part, attached) ==
  CASE part = "inlined" -> {"small"}
    [] part = "read-whole" -> {"large"}
    [] part = "view-images" -> {"image"}
    [] part = "read-attached" -> attached \ {"image"}
    [] OTHER -> {}
EntryIsTrueIn(e, attached, framings) ==
  LET parts == ToSet(e.system) \cup ToSet(e.user) IN
  /\ UNION {Names(part) : part \in parts} \subseteq e.tools
  /\ UNION {TellsIn(part, attached) : part \in parts} \subseteq attached
  /\ e.phase \in {"consult", "consult-solo"} =>
       UNION {TellsIn(part, attached) : part \in ToSet(e.user)} = attached
  /\ e.system[1] \in Phases => e.reader \in Readers(e.system[1])
  /\ e.tools = {} => parts \cap {"file-map", "house-rules"} = {}
  /\ "operator's" \in parts => parts \cap (Phases \cup {"closing"}) = {}
  /\ [phase |-> e.phase, framing |-> e.system[1]] \in framings

LEMMA EntryIn == \A e : EntryIsTrue(e) <=> EntryIsTrueIn(e, asking.attached, Shown)
BY Zenon DEF EntryIsTrue, EntryIsTrueIn, TellsOf, TellsIn

LEMMA EntriesAre ==
  PromptsAreTrue /\ ShownIsRead <=> \A i \in DOMAIN phases : EntryIsTrue(phases[i])
BY Zenon DEF PromptsAreTrue, ShownIsRead, EntryIsTrue

LEMMA PartNames ==
  /\ \A part \in {"operator's", "file-map", "house-rules", "closing", "turns", "inlined", "question",
                  "dossier", "header"} \cup Routed : Names(part) = {}
  /\ Names("context") = {"run_kaish"} /\ Names("read-attached") = {"run_kaish"}
  /\ Names("read-whole") = {"run_kaish"} /\ Names("view-images") = {"view_image"}
  /\ Names("attach-directive") = {"attach"}
  /\ \A part \in {"explorer-for-synthesis", "explorer-for-caller"} : Names(part) = {"run_kaish"}
  /\ Names("consult") = {"run_kaish", "explore"} /\ Names("consult-solo") = {"run_kaish"}
  /\ Names("oneshot") = {} /\ Names("batch") = {}
BY DEF Names, SlotRole, ReportNames, DriverNames, OneshotNames, BatchNames, AttachNames, Routed

LEMMA PartTells ==
  /\ \A part \in PromptParts \ {"inlined", "read-whole", "view-images", "read-attached"} :
       TellsOf(part) = {}
  /\ TellsOf("inlined") = {"small"} /\ TellsOf("read-whole") = {"large"}
  /\ TellsOf("view-images") = {"image"} /\ TellsOf("read-attached") = asking.attached \ {"image"}
BY DEF TellsOf

PromptsType ==
  /\ layers \subseteq {"file-map", "house-rules"}
  /\ asking.tool \in {"consult", "explore", "deliberate", "oneshot", "batch"}
  /\ asking.attached \subseteq FileKinds
  /\ {asking.context, asking.history, cast.vision, cast.attach} \subseteq BOOLEAN
  /\ asking.context \/ asking.history => asking.tool = "consult"
  /\ "synth" \in cast.slots /\ cast.lane \in {"interactive", "offline"}

LEMMA ShownFramings ==
  ASSUME NEW phase \in Phases, PromptsType,
         phase \in {"consult", "consult-solo"} =>
           cast.lane = "interactive" /\ (phase = "consult-solo" <=> ConsultSolo(cast))
  PROVE  [phase |-> phase, framing |-> IF Overridden(phase) THEN "operator's" ELSE phase] \in Shown
<1> DEFINE interactive == "synth" \in cast.slots /\ cast.lane = "interactive"
           skipped == {p \in {"consult", "consult-solo"} :
                         ~interactive \/ (p = "consult-solo") # ConsultSolo(cast)}
<1>1. phase \notin skipped
  <2> SUFFICES ASSUME phase \in {"consult", "consult-solo"}
               PROVE  interactive /\ (phase = "consult-solo") = ConsultSolo(cast)
    BY Zenon
  <2>1. interactive
    BY DEF PromptsType
  <2>2. ConsultSolo(cast) \in BOOLEAN
    BY DEF ConsultSolo
  <2>3. (phase = "consult-solo") = ConsultSolo(cast)
    BY <2>2, Zenon
  <2>4. QED
    BY <2>1, <2>3
<1>2. phase \in Phases \ skipped
  BY <1>1
<1>3. QED
  BY <1>2, Zenon DEF Shown

\* The driver of a consult.
LEMMA ConsultIsTrue ==
  ASSUME PromptsType, cast.lane # "offline", "image" \in asking.attached => cast.vision
  PROVE  EntryIsTrue([phase |-> ConsultPhase, system |-> Preamble(ConsultPhase),
                      user |-> ConsultUserPrompt, tools |-> ConsultTools, reader |-> "caller"])
<1> DEFINE e == [phase |-> ConsultPhase, system |-> Preamble(ConsultPhase),
                 user |-> ConsultUserPrompt, tools |-> ConsultTools, reader |-> "caller"]
           framing == IF Overridden(ConsultPhase) THEN "operator's" ELSE ConsultPhase
<1>1. ConsultPhase \in {"consult", "consult-solo"} /\ (ConsultPhase = "consult-solo" <=> ConsultSolo(cast))
  BY DEF ConsultPhase
<1>2. ConsultPhase \in Phases
  BY <1>1 DEF Phases
<1>3. /\ Preamble(ConsultPhase)[1] = framing
      /\ ToSet(Preamble(ConsultPhase)) \subseteq {framing, "file-map", "house-rules", "closing"}
      /\ Overridden(ConsultPhase) =>
           ToSet(Preamble(ConsultPhase)) \subseteq {"operator's", "file-map", "house-rules"}
  BY <1>2, PartsOfPreamble
<1>4. ToSet(ConsultUserPrompt) =
       If(asking.history, "turns") \cup If(asking.context, "context")
         \cup If("small" \in asking.attached, "inlined")
         \cup If("large" \in asking.attached, "read-whole")
         \cup If("image" \in asking.attached, "view-images") \cup {"question"}
  BY PartsOfConsult
<1>5. /\ "run_kaish" \in ConsultTools
      /\ ConsultPhase = "consult" => "explore" \in ConsultTools
      /\ "image" \in asking.attached => "view_image" \in ConsultTools
  BY <1>1 DEF ConsultTools
<1>6. \A part \in ToSet(Preamble(ConsultPhase)) : Names(part) \subseteq ConsultTools /\ TellsOf(part) = {}
  <2>1. framing \in {"operator's", "consult", "consult-solo"}
        /\ (framing = "consult" => ConsultPhase = "consult")
    BY <1>1
  <2>2. /\ TellsOf(framing) = {} /\ TellsOf("file-map") = {} /\ TellsOf("house-rules") = {}
        /\ TellsOf("closing") = {}
    BY <2>1 DEF TellsOf
  <2>3. /\ Names(framing) \subseteq ConsultTools /\ Names("file-map") = {}
        /\ Names("house-rules") = {} /\ Names("closing") = {}
    BY <2>1, <1>5, PartNames
  <2>4. QED
    BY <1>3, <2>2, <2>3
<1>7. \A part \in ToSet(ConsultUserPrompt) : Names(part) \subseteq ConsultTools
  BY <1>4, <1>5, PartNames DEF If
<1>8. UNION {TellsOf(part) : part \in ToSet(ConsultUserPrompt)} = asking.attached
  <2>1. /\ TellsOf("turns") = {} /\ TellsOf("context") = {} /\ TellsOf("question") = {}
        /\ TellsOf("inlined") = {"small"} /\ TellsOf("read-whole") = {"large"}
        /\ TellsOf("view-images") = {"image"}
    BY DEF TellsOf
  <2>2. ASSUME NEW part \in ToSet(ConsultUserPrompt) PROVE TellsOf(part) \subseteq asking.attached
    BY <1>4, <2>1, <2>2 DEF If
  <2>3. ASSUME NEW kind \in asking.attached
        PROVE  \E part \in ToSet(ConsultUserPrompt) : kind \in TellsOf(part)
    BY <1>4, <2>1, <2>3 DEF If, PromptsType, FileKinds
  <2>4. QED
    BY <2>2, <2>3
<1>9. /\ e.phase = ConsultPhase /\ e.system = Preamble(ConsultPhase) /\ e.user = ConsultUserPrompt
      /\ e.tools = ConsultTools /\ e.reader = "caller"
  OBVIOUS
<1> HIDE DEF e
<1>10. UNION {Names(part) : part \in ToSet(e.system) \cup ToSet(e.user)} \subseteq e.tools
  BY <1>6, <1>7, <1>9
<1>11. UNION {TellsOf(part) : part \in ToSet(e.system) \cup ToSet(e.user)} \subseteq asking.attached
  BY <1>6, <1>8, <1>9
<1>12. e.system[1] \in Phases => e.reader \in Readers(e.system[1])
  BY <1>1, <1>3, <1>9 DEF Readers, Phases
<1>13. e.tools # {}
  BY <1>5, <1>9
<1>14. "operator's" \in ToSet(e.system) \cup ToSet(e.user) =>
         (ToSet(e.system) \cup ToSet(e.user)) \cap (Phases \cup {"closing"}) = {}
  <2>1. ToSet(e.user) \cap (Phases \cup {"closing", "operator's"}) = {}
    BY <1>4, <1>9 DEF If, Phases
  <2>2. "operator's" \in ToSet(e.system) => Overridden(ConsultPhase)
    BY <1>1, <1>3, <1>9
  <2>3. Overridden(ConsultPhase) => ToSet(e.system) \cap (Phases \cup {"closing"}) = {}
    BY <1>3, <1>9 DEF Phases
  <2>4. QED
    BY <2>1, <2>2, <2>3
<1>15. [phase |-> e.phase, framing |-> e.system[1]] \in Shown
  <2>1. cast.lane = "interactive"
    BY DEF PromptsType
  <2>2. QED
    BY <1>1, <1>2, <1>3, <1>9, <2>1, ShownFramings
<1>16. EntryIsTrue(e)
  BY <1>8, <1>9, <1>10, <1>11, <1>12, <1>13, <1>14, <1>15, Zenon DEF EntryIsTrue
<1>17. QED
  BY <1>16 DEF e

\* A survey: the explore tool's, one the driver delegates, and a deliberation's.
LEMMA SweepIsTrue ==
  ASSUME PromptsType, NEW phase \in {"explorer-for-synthesis", "explorer-for-caller"},
         NEW attach \in BOOLEAN, NEW reader \in Readers(phase)
  PROVE  EntryIsTrue([phase |-> phase, system |-> SweepSystem(phase, attach),
                      user |-> <<"question">>,
                      tools |-> {"run_kaish"} \cup (IF attach THEN {"attach"} ELSE {}),
                      reader |-> reader])
<1> DEFINE tools == {"run_kaish"} \cup (IF attach THEN {"attach"} ELSE {})
           e == [phase |-> phase, system |-> SweepSystem(phase, attach),
                 user |-> <<"question">>, tools |-> tools, reader |-> reader]
           framing == IF Overridden(phase) THEN "operator's" ELSE phase
<1>1. phase \in Phases
  BY DEF Phases
<1>2. /\ Preamble(phase)[1] = framing
      /\ ToSet(Preamble(phase)) \subseteq {framing, "file-map", "house-rules", "closing"}
      /\ Overridden(phase) => ToSet(Preamble(phase)) \subseteq {"operator's", "file-map", "house-rules"}
  BY <1>1, PartsOfPreamble
<1>3. /\ SweepSystem(phase, attach)[1] = framing
      /\ ToSet(SweepSystem(phase, attach)) =
           ToSet(Preamble(phase)) \cup If(asking.attached \ {"image"} # {}, "read-attached")
             \cup If(attach, "attach-directive")
  BY <1>1, <1>2, PartsOfSweep
<1>4. ToSet(<<"question">>) = {"question"}
  BY PartsOfOne
<1>5. \A part \in ToSet(Preamble(phase)) : Names(part) \subseteq tools /\ TellsOf(part) = {}
  <2>1. framing \in {"operator's", "explorer-for-synthesis", "explorer-for-caller"}
    OBVIOUS
  <2>2. /\ TellsOf(framing) = {} /\ TellsOf("file-map") = {} /\ TellsOf("house-rules") = {}
        /\ TellsOf("closing") = {}
    BY <2>1 DEF TellsOf
  <2>3. /\ Names(framing) \subseteq tools /\ Names("file-map") = {}
        /\ Names("house-rules") = {} /\ Names("closing") = {}
    BY <2>1, PartNames
  <2>4. QED
    BY <1>2, <2>2, <2>3
<1>6. \A part \in {"question"} \cup If(asking.attached \ {"image"} # {}, "read-attached")
                    \cup If(attach, "attach-directive") :
        Names(part) \subseteq tools /\ TellsOf(part) \subseteq asking.attached
  <2>1. /\ TellsOf("question") = {} /\ TellsOf("attach-directive") = {}
        /\ TellsOf("read-attached") = asking.attached \ {"image"}
    BY DEF TellsOf
  <2>2. QED
    BY <2>1, PartNames DEF If
<1>7. /\ e.phase = phase /\ e.system = SweepSystem(phase, attach) /\ e.user = <<"question">>
      /\ e.tools = tools /\ e.reader = reader
  OBVIOUS
<1>8. tools # {}
  OBVIOUS
<1> HIDE DEF e, tools
<1>9. ASSUME NEW part \in ToSet(e.system) \cup ToSet(e.user)
      PROVE  Names(part) \subseteq tools /\ TellsOf(part) \subseteq asking.attached
  <2>1. CASE part \in ToSet(Preamble(phase))
    BY <1>5, <2>1
  <2>2. CASE part \notin ToSet(Preamble(phase))
    <3>1. part \in {"question"} \cup If(asking.attached \ {"image"} # {}, "read-attached")
                    \cup If(attach, "attach-directive")
      BY <1>3, <1>4, <1>7, <1>9, <2>2
    <3>2. QED
      BY <1>6, <3>1
  <2>3. QED
    BY <2>1, <2>2
<1>10. UNION {Names(part) : part \in ToSet(e.system) \cup ToSet(e.user)} \subseteq e.tools
  BY <1>9, <1>7
<1>11. UNION {TellsOf(part) : part \in ToSet(e.system) \cup ToSet(e.user)} \subseteq asking.attached
  BY <1>9
<1>12. e.system[1] \in Phases => e.reader \in Readers(e.system[1])
  BY <1>3, <1>7 DEF Phases
<1>13. "operator's" \in ToSet(e.system) \cup ToSet(e.user) =>
         (ToSet(e.system) \cup ToSet(e.user)) \cap (Phases \cup {"closing"}) = {}
  <2>1. "operator's" \in ToSet(e.system) \cup ToSet(e.user) => Overridden(phase)
    BY <1>2, <1>3, <1>4, <1>7 DEF If
  <2>2. Overridden(phase) => ToSet(e.system) \cap (Phases \cup {"closing"}) = {}
    BY <1>2, <1>3, <1>7 DEF Phases, If
  <2>3. QED
    BY <2>1, <2>2, <1>4, <1>7 DEF Phases
<1>14. [phase |-> e.phase, framing |-> e.system[1]] \in Shown
  BY <1>1, <1>3, <1>7, ShownFramings
<1>15. EntryIsTrue(e)
  <2>1. e.phase \notin {"consult", "consult-solo"}
    BY <1>7
  <2>2. QED
    BY <2>1, <1>7, <1>8, <1>10, <1>11, <1>12, <1>13, <1>14, Zenon DEF EntryIsTrue
<1>16. QED
  BY <1>15 DEF e, tools

\* A model without tools: of a oneshot, of a batch, of a deliberation's synthesis.
LEMMA ToollessIsTrue ==
  ASSUME PromptsType, NEW phase \in {"oneshot", "batch"}, NEW user \in Seq(PromptParts),
         ToSet(user) \subseteq {"question", "dossier", "header"} \cup Routed
  PROVE  EntryIsTrue([phase |-> phase, system |-> Preamble(phase), user |-> user, tools |-> {},
                      reader |-> "caller"])
<1> DEFINE e == [phase |-> phase, system |-> Preamble(phase), user |-> user, tools |-> {},
                 reader |-> "caller"]
           framing == IF Overridden(phase) THEN "operator's" ELSE phase
<1>1. phase \in Phases
  BY DEF Phases
<1>2. Preamble(phase)[1] = framing /\ ToSet(Preamble(phase)) = {framing}
  BY <1>1, PartsOfPreamble DEF ReadsProject
<1>3. \A part \in {framing, "question", "dossier", "header"} \cup Routed :
        Names(part) = {} /\ TellsOf(part) = {}
  BY PartNames DEF TellsOf, Routed
<1>4. /\ e.phase = phase /\ e.system = Preamble(phase) /\ e.user = user /\ e.tools = {}
      /\ e.reader = "caller"
  OBVIOUS
<1> HIDE DEF e
<1>5. UNION {Names(part) : part \in ToSet(e.system) \cup ToSet(e.user)} \subseteq e.tools
  BY <1>2, <1>3, <1>4
<1>6. UNION {TellsOf(part) : part \in ToSet(e.system) \cup ToSet(e.user)} \subseteq asking.attached
  BY <1>2, <1>3, <1>4
<1>7. e.phase \notin {"consult", "consult-solo"}
  BY <1>4
<1>8. e.system[1] \in Phases => e.reader \in Readers(e.system[1])
  BY <1>2, <1>4 DEF Phases, Readers
<1>9. (ToSet(e.system) \cup ToSet(e.user)) \cap {"file-map", "house-rules"} = {}
  BY <1>2, <1>4 DEF Routed
<1>10. "operator's" \in ToSet(e.system) \cup ToSet(e.user) =>
         (ToSet(e.system) \cup ToSet(e.user)) \cap (Phases \cup {"closing"}) = {}
  BY <1>2, <1>4 DEF Phases, Routed
<1>11. [phase |-> e.phase, framing |-> e.system[1]] \in Shown
  BY <1>1, <1>2, <1>4, ShownFramings
<1>12. EntryIsTrue(e)
  BY <1>5, <1>6, <1>7, <1>8, <1>9, <1>10, <1>11, Zenon DEF EntryIsTrue
<1>13. QED
  BY <1>12 DEF e

-----------------------------------------------------------------------------
(* The steps *)

PromptsInv ==
  /\ PromptsType
  /\ \E n \in Nat : DOMAIN phases = 1..n
  /\ \E S : phases \in Seq(S)
  /\ \A i \in DOMAIN phases : EntryIsTrueIn(phases[i], asking.attached, Shown)

LEMMA OneMoreEntry ==
  ASSUME PromptsInv, UNCHANGED <<cast, global, layers, asking>>, NEW e, phases' = Append(phases, e),
         EntryIsTrue(e)
  PROVE  PromptsInv'
<1>1. Shown' = Shown /\ asking' = asking
  BY DEF Shown, Overridden
<1>2. PromptsType'
  BY DEF PromptsInv, PromptsType
<1>3. PICK S : phases \in Seq(S)
  BY DEF PromptsInv
<1>4. phases \in Seq(S \cup {e})
  BY <1>3, SeqMonotonic
<1>5. /\ phases' \in Seq(S \cup {e}) /\ Len(phases') = Len(phases) + 1
      /\ \A i \in 1..Len(phases) : phases'[i] = phases[i]
      /\ phases'[Len(phases) + 1] = e
  BY <1>4, AppendProperties
<1>6. Len(phases) \in Nat /\ DOMAIN phases = 1..Len(phases) /\ DOMAIN phases' = 1..Len(phases')
  BY <1>4, <1>5, LenProperties
<1>7. \A i \in DOMAIN phases' : EntryIsTrueIn(phases'[i], asking.attached, Shown)
  BY <1>5, <1>6, EntryIn DEF PromptsInv
<1>8. \A i \in DOMAIN phases' : EntryIsTrueIn(phases'[i], asking'.attached, Shown')
  BY <1>1, <1>7, EntryIn
<1>9. QED
  BY <1>2, <1>5, <1>6, <1>8 DEF PromptsInv

LEMMA NoMoreEntries ==
  ASSUME PromptsInv, UNCHANGED <<cast, global, layers, asking, phases>>
  PROVE  PromptsInv'
<1>1. Shown' = Shown /\ asking' = asking
  BY DEF Shown, Overridden
<1>2. PromptsType'
  BY DEF PromptsInv, PromptsType
<1>3. \A i \in DOMAIN phases' : EntryIsTrueIn(phases'[i], asking'.attached, Shown')
  BY <1>1, EntryIn DEF PromptsInv
<1>4. QED
  BY <1>2, <1>3 DEF PromptsInv

LEMMA PromptsStep ==
  ASSUME PromptsInv, [PromptsNext]_promptVars
  PROVE  PromptsInv'
<1>1. CASE UNCHANGED promptVars
  BY <1>1, NoMoreEntries DEF promptVars
<1>2. CASE Refuse /\ UNCHANGED <<cast, global, layers, asking>>
  BY <1>2, NoMoreEntries DEF Refuse
<1>3. CASE Consult /\ ~Refuse
  <2>1. cast.lane # "offline" /\ ("image" \in asking.attached => cast.vision)
    BY <1>3 DEF Consult
  <2>2. Sent(ConsultPhase, Preamble(ConsultPhase), ConsultUserPrompt, ConsultTools, "caller")
    BY <1>3, <2>1 DEF Consult
  <2>3. UNCHANGED <<cast, global, layers, asking>>
    BY <1>3 DEF Consult
  <2>4. QED
    BY <2>1, <2>2, <2>3, ConsultIsTrue, OneMoreEntry DEF Sent, PromptsInv
<1>4. ASSUME NEW phase \in {"explorer-for-synthesis", "explorer-for-caller"},
             NEW attach \in BOOLEAN, NEW reader \in Readers(phase),
             Explore(phase, attach, reader), UNCHANGED <<cast, global, layers, asking>>
      PROVE  PromptsInv'
  <2>1. phases' = Append(phases, [phase |-> phase, system |-> SweepSystem(phase, attach),
                      user |-> <<"question">>,
                      tools |-> {"run_kaish"} \cup (IF attach THEN {"attach"} ELSE {}),
                      reader |-> reader])
    BY <1>4, Zenon DEF Explore, Sent, SweepSystem
  <2>2. QED
    BY <1>4, <2>1, SweepIsTrue, OneMoreEntry DEF PromptsInv
<1>5. cast.attach \in BOOLEAN
  BY DEF PromptsInv, PromptsType
<1>6. "driver" \in Readers("explorer-for-synthesis") /\ "synth" \in Readers("explorer-for-synthesis")
      /\ "caller" \in Readers("explorer-for-caller")
  BY DEF Readers
<1>7. CASE Sweep
  BY <1>4, <1>5, <1>6, <1>7 DEF Sweep
<1>8. CASE ExploreTool /\ ~Refuse
  BY <1>4, <1>6, <1>8 DEF ExploreTool
<1>9. CASE Deliberate /\ ~Refuse
  BY <1>4, <1>5, <1>6, <1>9 DEF Deliberate
<1>10. {"question", "dossier"} \subseteq PromptParts
  BY DEF PromptParts
<1>11. CASE Synthesize
  <2>1. PICK routed \in SUBSET Routed :
          Sent("batch", Preamble("batch"), <<"question", "dossier">> \o EvidenceBlock(routed),
               {}, "caller")
    BY <1>11 DEF Synthesize
  <2>2. <<"question", "dossier">> \in Seq(PromptParts)
        /\ ToSet(<<"question", "dossier">>) = {"question", "dossier"}
    <3>1. /\ DOMAIN <<"question", "dossier">> = {1, 2}
          /\ <<"question", "dossier">>[1] = "question" /\ <<"question", "dossier">>[2] = "dossier"
      OBVIOUS
    <3>2. QED
      BY <1>10, <3>1 DEF ToSet
  <2>3. /\ EvidenceBlock(routed) \in Seq(PromptParts)
        /\ ToSet(EvidenceBlock(routed)) \subseteq {"header"} \cup Routed
    BY PartsOfEvidence
  <2> DEFINE user == <<"question", "dossier">> \o EvidenceBlock(routed)
  <2>4. /\ user \in Seq(PromptParts)
        /\ ToSet(user) \subseteq {"question", "dossier", "header"} \cup Routed
    <3>1. ToSet(user) = ToSet(<<"question", "dossier">>) \cup ToSet(EvidenceBlock(routed))
          /\ user \in Seq(PromptParts)
      BY <2>2, <2>3, JoinParts, Zenon
    <3>2. QED
      BY <2>2, <2>3, <3>1, Zenon
  <2> HIDE DEF user
  <2>5. phases' = Append(phases, [phase |-> "batch", system |-> Preamble("batch"), user |-> user,
                                  tools |-> {}, reader |-> "caller"])
    BY <2>1, Zenon DEF Sent, user
  <2>6. QED
    BY <1>11, <2>4, <2>5, ToollessIsTrue, OneMoreEntry DEF PromptsInv, Synthesize
<1>12. CASE Direct /\ ~Refuse
  <2>1. <<"question">> \in Seq(PromptParts) /\ ToSet(<<"question">>) = {"question"}
    BY <1>10, OnePart, PartsOfOne
  <2>2. Sent(asking.tool, Preamble(asking.tool), <<"question">>, {}, "caller")
        /\ asking.tool \in {"oneshot", "batch"} /\ UNCHANGED <<cast, global, layers, asking>>
    BY <1>12 DEF Direct
  <2>3. QED
    BY <2>1, <2>2, ToollessIsTrue, OneMoreEntry DEF Sent, PromptsInv
<1>13. CASE PromptsNext /\ Refuse
  BY <1>2, <1>13 DEF PromptsNext, Consult, Sweep, ExploreTool, Deliberate, Synthesize, Direct
<1>14. QED
  BY <1>1, <1>3, <1>7, <1>8, <1>9, <1>11, <1>12, <1>13 DEF PromptsNext

\* Whatever cast, framings, project and call: no model is told of a tool, a file or a
\* reader it does not have, and every framing sent is one the prompts resource shows.
THEOREM PromptsAlwaysHold == PromptsSpec => []PromptsHold
<1>1. PromptsInit => PromptsInv
  <2> SUFFICES ASSUME PromptsInit PROVE PromptsInv
    OBVIOUS
  <2>1. phases \in Seq(PromptParts) /\ DOMAIN phases = 1..0
    BY EmptySeq DEF PromptsInit
  <2>2. PromptsType
    BY DEF PromptsInit, PromptsType, Roles
  <2>3. QED
    BY <2>1, <2>2 DEF PromptsInv
<1>2. PromptsInv => PromptsHold
  BY EntriesAre, EntryIn DEF PromptsInv, PromptsHold
<1>3. QED
  BY <1>1, <1>2, PromptsStep, PTL DEF PromptsSpec

-----------------------------------------------------------------------------
(* The transcript of a phase. *)

TranscriptParts ==
  [is : {"text", "image", "call", "result"} \cup Notes, id : Nat, image : BOOLEAN]
TranscriptMessages == [from : {"user", "assistant"}, parts : Seq(TranscriptParts)]

InTools == {"tools", "unknown tool"}
OneRun == {"run"} \cup InTools
InRun == {"resume", "turns spent"} \cup OneRun

Finishes == Reasons \cup {"length"}
TurnRecords == [finish : Finishes, calls : Nat]

\* What a completion is sent with.
ToolChoices == {"auto", "none"}
Efforts == {"unset", "none", "low", "medium", "high"}
Requests == [tools : BOOLEAN, choice : ToolChoices, effort : Efforts, cache : {"short", "off"}]

TranscriptType ==
  /\ arm \in [vision : BOOLEAN, toolImages : BOOLEAN, tools : BOOLEAN,
              effort : {"unset", "none", "low", "high"}, cache : {"short", "off"}]
  /\ history \in Seq(TranscriptMessages) /\ Len(history) > 0
  /\ stage \in {"single", "done", "forced"} \cup InRun \cup Notes
  /\ left \in Nat /\ resent \in 0..MalformedResends
  /\ sawImage \in BOOLEAN /\ imaged \subseteq Nat
  /\ turns \in Seq(TurnRecords) /\ attempts \in Nat
  /\ request \in Requests
  /\ ended \in [how : {"no", "answer", "empty", "failed"}, advice : {"none", "budget", "retry"}]

\* The assistant's messages are calls and nothing else, the user's hold none, and none
\* holds an image beside a result.
ShapedMessage(message) ==
  /\ \A j \in DOMAIN message.parts : message.parts[j].is = "call" <=> message.from = "assistant"
  /\ \A j, k \in DOMAIN message.parts :
       message.parts[j].is = "result" => message.parts[k].is # "image"
  /\ message.from = "user" => message.parts # <<>>
MessagesShaped(h) == \A i \in DOMAIN h : ShapedMessage(h[i])

\* No call has two results.
ResultsDiffer(h) ==
  \A i, k \in DOMAIN h : \A j \in DOMAIN h[i].parts, l \in DOMAIN h[k].parts :
    h[i].parts[j].is = "result" /\ h[k].parts[l].is = "result"
      /\ h[i].parts[j].id = h[k].parts[l].id => i = k /\ j = l
ResultsBelow(h, n) ==
  \A i \in DOMAIN h : \A j \in DOMAIN h[i].parts :
    h[i].parts[j].is = "result" => h[i].parts[j].id <= n

\* The calls of a message have no result yet, nor two of them one id.
CallsAreNew(h, message) ==
  /\ \A j, l \in DOMAIN message.parts : message.parts[j].id = message.parts[l].id => j = l
  /\ \A l \in DOMAIN message.parts : message.parts[l].id <= Len(h) * CallsPerTurn
  /\ \A i \in DOMAIN h : \A j \in DOMAIN h[i].parts : h[i].parts[j].is = "result" =>
       \A l \in DOMAIN message.parts : message.parts[l].id # h[i].parts[j].id

\* Each call is answered by the message after it, but for the last message's.
CallsAnswered(h, open) ==
  \A i \in DOMAIN h : \A j \in DOMAIN h[i].parts : h[i].parts[j].is = "call" =>
    IF i < Len(h)
    THEN \E k \in DOMAIN h[i + 1].parts :
           h[i + 1].parts[k].is = "result" /\ h[i + 1].parts[k].id = h[i].parts[j].id
    ELSE open

\* No result shows an image; each of these images is in the transcript.
NoneShown(h) ==
  \A i \in DOMAIN h : \A j \in DOMAIN h[i].parts :
    h[i].parts[j].is = "result" => ~h[i].parts[j].image
ImagesIn(h, ids) ==
  \A id \in ids : \E i \in DOMAIN h : \E j \in DOMAIN h[i].parts :
    h[i].parts[j].id = id /\ h[i].parts[j].image

TranscriptShape ==
  /\ MessagesShaped(history)
  /\ stage \in InTools => Last(history).from = "assistant" /\ Last(history).parts # <<>>
  /\ stage \in {"run", "resume", "turns spent", "single", "forced"} => Last(history).from = "user"
  /\ ResultsDiffer(history) /\ ResultsBelow(history, Len(history) * CallsPerTurn)
  /\ stage \in InTools => CallsAreNew(history, Last(history))
  /\ CallsAnswered(history, stage \in InTools)

\* Where the wire would lose an image no result has one, unless a break is coming or the
\* turns are spent; and the transcript has every image a tool gave.
ImagesKept ==
  /\ RewritesToolImages =>
       \/ stage = "run" /\ sawImage
       \/ stage \in {"turns spent", "done"}
       \/ stage = "forced" /\ Last(Last(history).parts).is = "turns spent"
       \/ NoneShown(history)
  /\ ImagesIn(history, imaged)

Spoken(h) == {i \in DOMAIN h : h[i].from = "assistant"}
Calling(h) == {i \in DOMAIN h : \E p \in PartsOf(h[i]) : p.is = "call"}
Called(noted) == {i \in DOMAIN noted : noted[i].calls > 0}

\* A completion adds a turn to the transcript, or is sent again within its run's allowance.
Sends(n) == (1 + MalformedResends) * n
MostSent == IF arm.tools THEN Sends(PhaseTurns) + 1 ELSE 1 + MalformedResends

TurnsCounted ==
  /\ CountModelTurns <= PhaseTurns
  /\ Len(turns) <= attempts /\ (stage = "forced" => Len(turns) < attempts)
  /\ Cardinality(Called(turns)) = Cardinality(Calling(history))

\* Of a run: what is left of it; and a break leaves it no more repeats than a turn has.
BudgetKept ==
  /\ stage \in OneRun =>
       left + CountModelTurns + resent = PhaseTurns /\ attempts <= Sends(CountModelTurns) + resent
  /\ stage \in InTools \/ (stage = "run" /\ sawImage) =>
       attempts + MalformedResends <= Sends(CountModelTurns) + resent
  /\ stage = "resume" => attempts <= Sends(CountModelTurns)
  /\ stage \in Notes => attempts <= Sends(PhaseTurns)
  /\ stage = "single" => ~arm.tools /\ attempts = resent
  /\ stage \in InRun \cup Notes \cup {"forced"} => arm.tools
  /\ attempts <= MostSent

\* What the forced turn is told, and the advice.
NoAnswerYet == turns = <<>> \/ Last(turns).calls > 0 \/ Last(turns).finish = "malformed"
LastTurnTold ==
  /\ stage \in InRun => NoAnswerYet
  /\ stage \in Notes => NoteIsTrue(stage)
  /\ stage = "forced" =>
       /\ NoteIsTrue(Last(Last(history).parts).is)
       /\ request.effort = arm.effort
            \/ (Rung(request.effort) > 0 /\ Rung(request.effort) < Rung(arm.effort))
  /\ IF stage = "done" THEN ended.advice = "budget" => IsOutputLimit(Last(turns).finish)
     ELSE ended.advice = "none"

TranscriptInv ==
  /\ TranscriptType /\ TranscriptShape /\ ImagesKept /\ TurnsCounted /\ BudgetKept /\ LastTurnTold
-----------------------------------------------------------------------------
(* What a rewritten transcript is made of. *)

\* How much is out when e is, and the order it comes out in.
Out(e) == Cardinality(EmittedBy(e))
Precedes(d, e) == d[1] < e[1] \/ (d[1] = e[1] /\ d[2] < e[2])

\* Each position is one emitted message's, in order, without gaps.
LEMMA EmittedInOrder ==
  ASSUME IsFiniteSet(Emitted), Emitted \subseteq Nat \X Nat
  PROVE  /\ Cardinality(Emitted) \in Nat
         /\ \A e \in Emitted : Out(e) \in 1..Cardinality(Emitted)
         /\ \A d, e \in Emitted : Precedes(d, e) => Out(d) < Out(e)
         /\ \A d, e \in Emitted : Out(d) = Out(e) => d = e
         /\ \A k \in 1..Cardinality(Emitted) : \E e \in Emitted : Out(e) = k
         /\ \A d, e \in Emitted :
              Precedes(d, e) /\ (\A c \in Emitted : ~(Precedes(d, c) /\ Precedes(c, e)))
                => Out(e) = Out(d) + 1
<1> DEFINE N == Cardinality(Emitted)
<1>1. N \in Nat
  BY FS_CardinalityType
<1>2. ASSUME NEW e \in Emitted
      PROVE  /\ e = <<e[1], e[2]>> /\ e[1] \in Nat /\ e[2] \in Nat
             /\ EmittedBy(e) \in SUBSET Emitted /\ IsFiniteSet(EmittedBy(e)) /\ e \in EmittedBy(e)
             /\ Out(e) \in Nat /\ Out(e) <= N /\ Out(e) # 0
  <2>1. e = <<e[1], e[2]>> /\ e[1] \in Nat /\ e[2] \in Nat
    OBVIOUS
  <2>2. EmittedBy(e) \in SUBSET Emitted /\ e \in EmittedBy(e)
    BY <2>1 DEF EmittedBy
  <2>3. IsFiniteSet(EmittedBy(e)) /\ Out(e) <= N
    BY <2>2, FS_Subset DEF Out
  <2>4. Out(e) \in Nat
    BY <2>3, FS_CardinalityType DEF Out
  <2>5. Out(e) # 0
    BY <2>2, <2>3, FS_EmptySet DEF Out
  <2>6. QED
    BY <2>1, <2>2, <2>3, <2>4, <2>5
<1>3. ASSUME NEW d \in Emitted, NEW e \in Emitted, Precedes(d, e)
      PROVE  EmittedBy(d) \subseteq EmittedBy(e) /\ e \notin EmittedBy(d) /\ Out(d) < Out(e)
  <2>1. EmittedBy(d) \subseteq EmittedBy(e)
    <3>1. SUFFICES ASSUME NEW c \in EmittedBy(d)
                   PROVE  c \in EmittedBy(e)
      OBVIOUS
    <3>2. c \in Emitted /\ (c[1] < d[1] \/ (c[1] = d[1] /\ c[2] <= d[2]))
      BY DEF EmittedBy
    <3>3. c[1] \in Nat /\ c[2] \in Nat /\ d[1] \in Nat /\ d[2] \in Nat /\ e[1] \in Nat /\ e[2] \in Nat
      BY <3>2, <1>2
    <3>4. c[1] < e[1] \/ (c[1] = e[1] /\ c[2] <= e[2])
      BY <3>2, <3>3, <1>3 DEF Precedes
    <3>5. QED
      BY <3>2, <3>4 DEF EmittedBy
  <2>2. e \notin EmittedBy(d)
    <3>1. d[1] \in Nat /\ d[2] \in Nat /\ e[1] \in Nat /\ e[2] \in Nat
      BY <1>2
    <3>2. QED
      BY <3>1, <1>3 DEF EmittedBy, Precedes
  <2>3. IsFiniteSet(EmittedBy(e)) /\ EmittedBy(d) # EmittedBy(e) /\ Out(d) \in Nat /\ Out(e) \in Nat
    BY <2>2, <1>2
  <2>4. Cardinality(EmittedBy(d)) <= Cardinality(EmittedBy(e))
        /\ Cardinality(EmittedBy(d)) # Cardinality(EmittedBy(e))
    BY <2>1, <2>3, FS_Subset
  <2>5. QED
    BY <2>1, <2>2, <2>3, <2>4 DEF Out
<1>4. ASSUME NEW d \in Emitted, NEW e \in Emitted
      PROVE  d = e \/ Precedes(d, e) \/ Precedes(e, d)
  <2>1. /\ d = <<d[1], d[2]>> /\ d[1] \in Nat /\ d[2] \in Nat
        /\ e = <<e[1], e[2]>> /\ e[1] \in Nat /\ e[2] \in Nat
    BY <1>2
  <2>2. d[1] = e[1] /\ d[2] = e[2] => d = e
    BY <2>1, Zenon
  <2>3. QED
    BY <2>1, <2>2 DEF Precedes
<1>5. ASSUME NEW d \in Emitted, NEW e \in Emitted, Out(d) = Out(e)
      PROVE  d = e
  BY <1>2, <1>3, <1>4, <1>5
<1>6. ASSUME NEW k \in 1..N
      PROVE  \E e \in Emitted : Out(e) = k
  <2> DEFINE f == [e \in Emitted |-> Out(e)]
  <2>1. f \in [Emitted -> 1..N]
    BY <1>1, <1>2
  <2>2. \A d, e \in Emitted : f[d] = f[e] => d = e
    BY <1>5
  <2>3. f \in Injection(Emitted, 1..N)
    BY <2>1, <2>2, Fun_IsInj
  <2>4. IsFiniteSet(1..N) /\ Cardinality(1..N) = N
    BY <1>1, FS_Interval
  <2>5. f \in Surjection(Emitted, 1..N)
    BY <2>3, <2>4, FS_Injection
  <2>6. QED
    BY <2>5 DEF Surjection
<1>7. ASSUME NEW d \in Emitted, NEW e \in Emitted, Precedes(d, e),
             \A c \in Emitted : ~(Precedes(d, c) /\ Precedes(c, e))
      PROVE  Out(e) = Out(d) + 1
  <2>1. EmittedBy(e) \subseteq EmittedBy(d) \cup {e}
    <3>1. SUFFICES ASSUME NEW c \in EmittedBy(e), c # e
                   PROVE  c \in EmittedBy(d)
      OBVIOUS
    <3>2. c \in Emitted /\ Precedes(c, e)
      <4>1. c \in Emitted /\ (c[1] < e[1] \/ (c[1] = e[1] /\ c[2] <= e[2]))
        BY DEF EmittedBy
      <4>2. c[2] \in Nat /\ e[2] \in Nat /\ c[1] \in Nat /\ e[1] \in Nat
        BY <4>1, <1>2
      <4>3. c = e \/ Precedes(c, e) \/ Precedes(e, c)
        BY <4>1, <1>4
      <4>4. QED
        BY <4>1, <4>2, <4>3, <3>1 DEF Precedes
    <3>3. c = d \/ Precedes(c, d)
      BY <3>2, <1>4, <1>7
    <3>4. d \in EmittedBy(d) /\ (Precedes(c, d) => c \in EmittedBy(d))
      BY <3>2, <1>2, <1>3
    <3>5. QED
      BY <3>3, <3>4
  <2>2. EmittedBy(e) = EmittedBy(d) \cup {e} /\ e \notin EmittedBy(d)
    BY <2>1, <1>2, <1>3, <1>7
  <2>3. QED
    BY <2>2, <1>2, FS_AddElement DEF Out
<1>8. QED
  BY <1>1, <1>2, <1>3, <1>5, <1>6, <1>7

\* A message after rewriting is the message, but for the images of its results.
LEMMA AcknowledgedIs ==
  ASSUME NEW m \in TranscriptMessages
  PROVE  /\ Acknowledged(m) \in TranscriptMessages
         /\ Acknowledged(m).from = m.from
         /\ Len(Acknowledged(m).parts) = Len(m.parts)
         /\ DOMAIN Acknowledged(m).parts = DOMAIN m.parts
         /\ \A j \in DOMAIN m.parts :
              /\ Acknowledged(m).parts[j].is = m.parts[j].is
              /\ Acknowledged(m).parts[j].id = m.parts[j].id
              /\ Acknowledged(m).parts[j].image <=> m.parts[j].image /\ m.parts[j].is # "result"
<1> DEFINE ps == [j \in DOMAIN m.parts |->
                    Part(m.parts[j].is, m.parts[j].id,
                         m.parts[j].image /\ m.parts[j].is # "result")]
<1>1. m.from \in {"user", "assistant"} /\ m.parts \in Seq(TranscriptParts)
      /\ m = [from |-> m.from, parts |-> m.parts]
  BY DEF TranscriptMessages
<1>2. Len(m.parts) \in Nat /\ DOMAIN m.parts = 1..Len(m.parts)
      /\ \A j \in DOMAIN m.parts : m.parts[j] \in TranscriptParts
  BY <1>1, LenProperties, ElementOfSeq
<1>3. Acknowledged(m) = [m EXCEPT !.parts = ps]
  BY DEF Acknowledged
<1>4. Acknowledged(m) = [from |-> m.from, parts |-> ps]
  BY <1>1, <1>3
<1>5. \A j \in DOMAIN m.parts :
        /\ ps[j] \in TranscriptParts /\ ps[j].is = m.parts[j].is /\ ps[j].id = m.parts[j].id
        /\ ps[j].image <=> m.parts[j].image /\ m.parts[j].is # "result"
  <2> SUFFICES ASSUME NEW j \in DOMAIN m.parts
               PROVE  /\ ps[j] \in TranscriptParts /\ ps[j].is = m.parts[j].is
                      /\ ps[j].id = m.parts[j].id
                      /\ ps[j].image <=> m.parts[j].image /\ m.parts[j].is # "result"
    OBVIOUS
  <2>1. m.parts[j] \in TranscriptParts
    BY <1>2
  <2>2. ps[j] = Part(m.parts[j].is, m.parts[j].id, m.parts[j].image /\ m.parts[j].is # "result")
    OBVIOUS
  <2> HIDE DEF ps
  <2>3. m.parts[j].is \in {"text", "image", "call", "result"} \cup Notes /\ m.parts[j].id \in Nat
    BY <2>1 DEF TranscriptParts
  <2>4. PICK b \in BOOLEAN : b = (m.parts[j].image /\ m.parts[j].is # "result")
    OBVIOUS
  <2>5. ps[j] = Part(m.parts[j].is, m.parts[j].id, b)
    BY <2>2, <2>4, Zenon
  <2>6. /\ ps[j] \in TranscriptParts /\ ps[j].is = m.parts[j].is /\ ps[j].id = m.parts[j].id
        /\ ps[j].image = b
    BY <2>3, <2>5 DEF Part, TranscriptParts
  <2>7. QED
    BY <2>4, <2>6
<1>6. ps \in [1..Len(m.parts) -> TranscriptParts]
  <2>1. DOMAIN m.parts = 1..Len(m.parts)
    BY <1>2
  <2>2. \A j \in 1..Len(m.parts) : ps[j] \in TranscriptParts
    BY <1>5, <2>1
  <2>3. ps = [j \in 1..Len(m.parts) |-> ps[j]]
    BY <2>1
  <2>4. QED
    BY <2>2, <2>3
<1>7. ps \in Seq(TranscriptParts) /\ Len(ps) = Len(m.parts)
  BY <1>6, <1>2
<1>8. Acknowledged(m) \in TranscriptMessages
  BY <1>1, <1>4, <1>7 DEF TranscriptMessages
<1>9. Acknowledged(m).from = m.from /\ Acknowledged(m).parts = ps
  BY <1>4
<1>10. DOMAIN ps = DOMAIN m.parts
  OBVIOUS
<1> HIDE DEF ps
<1>11. QED
  BY <1>5, <1>7, <1>8, <1>9, <1>10

\* A result that shows its image, and the message that image moves to.
ShowsAt(i, j) == history[i].parts[j].is = "result" /\ history[i].parts[j].image
ImageTurn(id) == User(<<Part("image", id, TRUE)>>)

\* The message that carries one image.
LEMMA ImageTurnIs ==
  ASSUME NEW id \in Nat
  PROVE  /\ ImageTurn(id) \in TranscriptMessages /\ ImageTurn(id).from = "user"
         /\ Len(ImageTurn(id).parts) = 1 /\ DOMAIN ImageTurn(id).parts = {1}
         /\ ImageTurn(id).parts[1].is = "image" /\ ImageTurn(id).parts[1].id = id
         /\ ImageTurn(id).parts[1].image
<1> DEFINE p == [is |-> "image", id |-> id, image |-> TRUE]
<1>1. ImageTurn(id) = [from |-> "user", parts |-> <<p>>]
  BY DEF ImageTurn, User, Part
<1>2. p \in TranscriptParts
  BY DEF TranscriptParts
<1>3. <<p>> \in Seq(TranscriptParts) /\ Len(<<p>>) = 1 /\ <<p>>[1] = p /\ DOMAIN <<p>> = 1..1
  BY <1>2
<1>4. 1..1 = {1}
  OBVIOUS
<1> HIDE DEF p
<1>5. ImageTurn(id).from = "user" /\ ImageTurn(id).parts = <<p>>
  BY <1>1
<1>6. p.is = "image" /\ p.id = id /\ p.image
  BY DEF p
<1>7. ImageTurn(id) \in TranscriptMessages
  BY <1>1, <1>3 DEF TranscriptMessages
<1>8. QED
  BY <1>3, <1>4, <1>5, <1>6, <1>7

\* new is the history with each of its messages at its place in to, and the images
\* their results showed after them.
IsRewritten(new, to) ==
  /\ new \in Seq(TranscriptMessages) /\ Len(history) <= Len(new)
  /\ to \in [DOMAIN history -> DOMAIN new]
  /\ \A i, k \in DOMAIN history : to[i] = to[k] => i = k
  /\ \A i \in DOMAIN history : new[to[i]] = Acknowledged(history[i])
  /\ \A n \in DOMAIN new :
       \/ \E i \in DOMAIN history : n = to[i]
       \/ \E i \in DOMAIN history : \E j \in DOMAIN history[i].parts :
            ShowsAt(i, j) /\ new[n] = ImageTurn(history[i].parts[j].id)
  /\ \A i \in DOMAIN history : \A j \in DOMAIN history[i].parts :
       ShowsAt(i, j) => \E n \in DOMAIN new : new[n] = ImageTurn(history[i].parts[j].id)
  /\ \A i \in DOMAIN history :
       i < Len(history) /\ (\A j \in DOMAIN history[i].parts : ~ShowsAt(i, j))
         => i + 1 \in DOMAIN history /\ to[i + 1] = to[i] + 1
  /\ \/ Len(new) = to[Len(history)]
     \/ \E i \in DOMAIN history : \E j \in DOMAIN history[i].parts :
          ShowsAt(i, j) /\ new[Len(new)] = ImageTurn(history[i].parts[j].id)

\* What is emitted: every message, and the images its results show.
LEMMA EmittedIs ==
  ASSUME history \in Seq(TranscriptMessages)
  PROVE  /\ IsFiniteSet(Emitted) /\ Emitted \subseteq Nat \X Nat
         /\ \A i \in DOMAIN history : <<i, 0>> \in Emitted
         /\ \A i \in DOMAIN history : \A j \in DOMAIN history[i].parts :
              j \in Nat /\ j # 0 /\ (<<i, j>> \in Emitted <=> ShowsAt(i, j))
         /\ \A e \in Emitted :
              /\ e[1] \in DOMAIN history
              /\ e = <<e[1], 0>> \/ (e[2] \in DOMAIN history[e[1]].parts /\ ShowsAt(e[1], e[2]))
<1> DEFINE ShownIn(i) == {j \in DOMAIN history[i].parts :
                          history[i].parts[j].is = "result" /\ history[i].parts[j].image}
           Heads == {<<i, 0>> : i \in DOMAIN history}
           Images == UNION {{i} \X ShownIn(i) : i \in DOMAIN history}
<1>1. /\ Len(history) \in Nat /\ DOMAIN history = 1..Len(history)
      /\ \A i \in DOMAIN history : history[i] \in TranscriptMessages
  BY LenProperties, ElementOfSeq
<1>2. ASSUME NEW i \in DOMAIN history
      PROVE  /\ history[i].parts \in Seq(TranscriptParts)
             /\ Len(history[i].parts) \in Nat /\ DOMAIN history[i].parts = 1..Len(history[i].parts)
  <2>1. history[i].parts \in Seq(TranscriptParts)
    BY <1>1 DEF TranscriptMessages
  <2>2. QED
    BY <2>1, LenProperties
<1>3. Emitted = Heads \cup Images
  BY DEF Emitted
<1>4. IsFiniteSet(Heads) /\ Heads \subseteq Nat \X Nat
  <2> DEFINE f == [i \in 1..Len(history) |-> <<i, 0>>]
  <2>1. f \in Surjection(1..Len(history), Heads)
    BY <1>1 DEF Surjection
  <2>2. IsFiniteSet(1..Len(history))
    BY <1>1, FS_Interval
  <2>3. IsFiniteSet(Heads)
    BY <2>1, <2>2, FS_Surjection
  <2>4. QED
    BY <2>3, <1>1
<1>5. IsFiniteSet(Images) /\ Images \subseteq Nat \X Nat
  <2> DEFINE Family == {{i} \X ShownIn(i) : i \in DOMAIN history}
             f == [i \in 1..Len(history) |-> {i} \X ShownIn(i)]
  <2>1. f \in Surjection(1..Len(history), Family)
    BY <1>1 DEF Surjection
  <2>2. IsFiniteSet(1..Len(history))
    BY <1>1, FS_Interval
  <2>3. IsFiniteSet(Family)
    BY <2>1, <2>2, FS_Surjection
  <2>4. ASSUME NEW i \in DOMAIN history
        PROVE  IsFiniteSet({i} \X ShownIn(i)) /\ {i} \X ShownIn(i) \subseteq Nat \X Nat
    <3>1. ShownIn(i) \subseteq 1..Len(history[i].parts) /\ i \in Nat
      BY <1>1, <1>2
    <3>2. IsFiniteSet(1..Len(history[i].parts))
      <4>1. Len(history[i].parts) \in Int
        BY <1>2
      <4>2. QED
        BY <4>1, FS_Interval
    <3> HIDE DEF ShownIn
    <3>3. IsFiniteSet(ShownIn(i)) /\ IsFiniteSet({i})
      BY <3>1, <3>2, FS_Subset, FS_Singleton
    <3>4. ShownIn(i) \subseteq Nat
      BY <3>1
    <3>5. IsFiniteSet({i} \X ShownIn(i))
      BY <3>3, FS_Product
    <3>6. QED
      BY <3>1, <3>4, <3>5
  <2>5. \A T \in Family : IsFiniteSet(T) /\ T \subseteq Nat \X Nat
    BY <2>4
  <2>6. Images = UNION Family
    OBVIOUS
  <2> HIDE DEF Family, Images
  <2>7. QED
    BY <2>3, <2>5, <2>6, FS_UNION
<1>6. IsFiniteSet(Emitted) /\ Emitted \subseteq Nat \X Nat
  <2> HIDE DEF Heads, Images
  <2>1. QED
    BY <1>3, <1>4, <1>5, FS_Union
<1>7. \A i \in DOMAIN history : <<i, 0>> \in Emitted
  BY <1>3
<1>8. ASSUME NEW i \in DOMAIN history, NEW j \in DOMAIN history[i].parts
      PROVE  j \in Nat /\ j # 0 /\ (<<i, j>> \in Emitted <=> ShowsAt(i, j))
  <2>1. j \in Nat /\ j # 0
    BY <1>2
  <2>2. <<i, j>> \in Emitted <=> j \in ShownIn(i)
    BY <2>1, <1>3
  <2>3. QED
    BY <2>1, <2>2 DEF ShowsAt
<1>9. ASSUME NEW e \in Emitted
      PROVE  /\ e[1] \in DOMAIN history
             /\ e = <<e[1], 0>> \/ (e[2] \in DOMAIN history[e[1]].parts /\ ShowsAt(e[1], e[2]))
  <2>1. CASE e \in Heads
    BY <2>1
  <2>2. CASE e \in Images
    <3>1. PICK i \in DOMAIN history : e \in {i} \X ShownIn(i)
      BY <2>2
    <3>2. e[1] = i /\ e[2] \in ShownIn(i)
      BY <3>1
    <3>3. QED
      BY <3>2 DEF ShowsAt
  <2>3. QED
    BY <2>1, <2>2, <1>3
<1>10. QED
  BY <1>6, <1>7, <1>8, <1>9

\* What comes out at a position.
EmittedAs(e) ==
  IF e[2] = 0 THEN Acknowledged(history[e[1]]) ELSE ImageTurn(history[e[1]].parts[e[2]].id)

\* rewrite_tool_image_history loses no message and no image, and puts nothing between a
\* message whose results show none and the next.
LEMMA Rewriting ==
  ASSUME history \in Seq(TranscriptMessages), Len(history) > 0
  PROVE  \E to : IsRewritten(RewriteToolImageHistory, to)
<1> DEFINE N == Cardinality(Emitted)
           new == RewriteToolImageHistory
           to == [i \in DOMAIN history |-> Out(<<i, 0>>)]
<1>1. /\ Len(history) \in Nat /\ DOMAIN history = 1..Len(history)
      /\ \A i \in DOMAIN history : i \in Nat /\ history[i] \in TranscriptMessages
  BY LenProperties, ElementOfSeq
<1>2. IsFiniteSet(Emitted) /\ Emitted \subseteq Nat \X Nat
  BY EmittedIs
<1>3. N \in Nat /\ \A e \in Emitted : Out(e) \in 1..N
  BY <1>2, EmittedInOrder
<1>4. \A k \in 1..N : \E e \in Emitted : Out(e) = k
  BY <1>2, EmittedInOrder
<1>5. \A d, e \in Emitted : Out(d) = Out(e) => d = e
  BY <1>2, EmittedInOrder
<1>6. ASSUME NEW e \in Emitted
      PROVE  EmittedAs(e) \in TranscriptMessages
  <2>1. e[1] \in DOMAIN history
        /\ (e = <<e[1], 0>> \/ (e[2] \in DOMAIN history[e[1]].parts /\ ShowsAt(e[1], e[2])))
    BY EmittedIs
  <2>2. CASE e[2] = 0
    BY <2>1, <2>2, <1>1, AcknowledgedIs DEF EmittedAs
  <2>3. CASE e[2] # 0
    <3>1. e[2] \in DOMAIN history[e[1]].parts
      <4>1. <<e[1], 0>>[2] = 0
        OBVIOUS
      <4>2. QED
        BY <2>1, <2>3, <4>1
    <3>2. history[e[1]].parts \in Seq(TranscriptParts)
      BY <2>1, <1>1 DEF TranscriptMessages
    <3>3. history[e[1]].parts[e[2]] \in TranscriptParts
      BY <3>1, <3>2, LenProperties, ElementOfSeq
    <3>4. history[e[1]].parts[e[2]].id \in Nat
      BY <3>3 DEF TranscriptParts
    <3>5. QED
      BY <3>4, <2>3, ImageTurnIs DEF EmittedAs
  <2>4. QED
    BY <2>2, <2>3
<1>7. DOMAIN new = 1..N
  BY DEF RewriteToolImageHistory
<1>8. ASSUME NEW k \in 1..N
      PROVE  \E e \in Emitted : Out(e) = k /\ new[k] = EmittedAs(e)
  <2> DEFINE e == CHOOSE d \in Emitted : Cardinality(EmittedBy(d)) = k
  <2>1. \E d \in Emitted : Cardinality(EmittedBy(d)) = k
    BY <1>4 DEF Out
  <2>2. e \in Emitted /\ Cardinality(EmittedBy(e)) = k
    BY <2>1, Zenon
  <2>3. new[k] = IF e[2] = 0 THEN Acknowledged(history[e[1]])
                 ELSE User(<<Part("image", history[e[1]].parts[e[2]].id, TRUE)>>)
    BY DEF RewriteToolImageHistory
  <2> HIDE DEF e
  <2>4. new[k] = EmittedAs(e)
    BY <2>3 DEF EmittedAs, ImageTurn
  <2>5. QED
    BY <2>2, <2>4 DEF Out
<1>9. ASSUME NEW e \in Emitted
      PROVE  Out(e) \in 1..N /\ new[Out(e)] = EmittedAs(e)
  BY <1>3, <1>5, <1>8
<1> HIDE DEF new
<1>10. \A i \in DOMAIN history : <<i, 0>> \in Emitted /\ to[i] = Out(<<i, 0>>)
  BY EmittedIs
<1>11. new \in Seq(TranscriptMessages) /\ Len(new) = N
  <2>1. \A k \in 1..N : new[k] \in TranscriptMessages
    BY <1>6, <1>8
  <2>2. new = [k \in 1..N |-> new[k]]
    BY <1>7 DEF new, RewriteToolImageHistory
  <2>3. new \in [1..N -> TranscriptMessages]
    BY <2>1, <2>2
  <2>4. QED
    BY <2>3, <1>3
<1>12. to \in [DOMAIN history -> DOMAIN new]
  BY <1>7, <1>9, <1>10
<1>13. \A i, k \in DOMAIN history : to[i] = to[k] => i = k
  <2> SUFFICES ASSUME NEW i \in DOMAIN history, NEW k \in DOMAIN history, to[i] = to[k]
               PROVE  i = k
    OBVIOUS
  <2>1. <<i, 0>> = <<k, 0>>
    BY <1>5, <1>10
  <2>2. QED
    BY <2>1
<1>14. Len(history) <= Len(new)
  <2>1. to \in Injection(DOMAIN history, DOMAIN new)
    BY <1>12, <1>13, Fun_IsInj
  <2>2. IsFiniteSet(1..N) /\ Cardinality(1..N) = N /\ Cardinality(1..Len(history)) = Len(history)
    <3>1. N \in Int /\ Len(history) \in Int /\ N >= 0 /\ Len(history) > 0
      BY <1>1, <1>3
    <3> HIDE DEF N
    <3>2. IsFiniteSet(1..N) /\ Cardinality(1..N) = IF 1 > N THEN 0 ELSE N - 1 + 1
      BY <3>1, FS_Interval
    <3>3. Cardinality(1..Len(history)) = IF 1 > Len(history) THEN 0 ELSE Len(history) - 1 + 1
      BY <3>1, FS_Interval
    <3>4. QED
      BY <3>1, <3>2, <3>3
  <2>3. Cardinality(DOMAIN history) <= Cardinality(DOMAIN new)
    BY <2>1, <2>2, <1>7, FS_Injection
  <2>4. QED
    BY <2>2, <2>3, <1>1, <1>7, <1>11
<1>15. \A i \in DOMAIN history : new[to[i]] = Acknowledged(history[i])
  <2> SUFFICES ASSUME NEW i \in DOMAIN history
               PROVE  new[to[i]] = Acknowledged(history[i])
    OBVIOUS
  <2>1. new[to[i]] = EmittedAs(<<i, 0>>)
    BY <1>9, <1>10
  <2>2. <<i, 0>>[1] = i /\ <<i, 0>>[2] = 0
    OBVIOUS
  <2>3. QED
    BY <2>1, <2>2 DEF EmittedAs
<1>16. ASSUME NEW e \in Emitted
       PROVE  \/ Out(e) = to[e[1]] /\ e[1] \in DOMAIN history
              \/ /\ e[1] \in DOMAIN history /\ e[2] \in DOMAIN history[e[1]].parts
                 /\ ShowsAt(e[1], e[2]) /\ new[Out(e)] = ImageTurn(history[e[1]].parts[e[2]].id)
  <2>1. e[1] \in DOMAIN history
        /\ (e = <<e[1], 0>> \/ (e[2] \in DOMAIN history[e[1]].parts /\ ShowsAt(e[1], e[2])))
    BY EmittedIs
  <2>2. CASE e = <<e[1], 0>>
    <3>1. to[e[1]] = Out(<<e[1], 0>>)
      BY <2>1, <1>10
    <3>2. QED
      BY <3>1, <2>1, <2>2, Zenon
  <2>3. CASE e[2] \in DOMAIN history[e[1]].parts /\ ShowsAt(e[1], e[2])
    <3>1. e[2] # 0
      BY <2>1, <2>3, EmittedIs
    <3>2. new[Out(e)] = ImageTurn(history[e[1]].parts[e[2]].id)
      BY <3>1, <1>9 DEF EmittedAs
    <3>3. QED
      BY <3>2, <2>1, <2>3
  <2>4. QED
    BY <2>1, <2>2, <2>3
<1>17. \A n \in DOMAIN new :
         \/ \E i \in DOMAIN history : n = to[i]
         \/ \E i \in DOMAIN history : \E j \in DOMAIN history[i].parts :
              ShowsAt(i, j) /\ new[n] = ImageTurn(history[i].parts[j].id)
  <2> SUFFICES ASSUME NEW n \in DOMAIN new
               PROVE  \/ \E i \in DOMAIN history : n = to[i]
                      \/ \E i \in DOMAIN history : \E j \in DOMAIN history[i].parts :
                           ShowsAt(i, j) /\ new[n] = ImageTurn(history[i].parts[j].id)
    OBVIOUS
  <2>1. PICK e \in Emitted : Out(e) = n
    BY <1>4, <1>7
  <2>2. QED
    BY <2>1, <1>16
<1>18. \A i \in DOMAIN history : \A j \in DOMAIN history[i].parts :
         ShowsAt(i, j) => \E n \in DOMAIN new : new[n] = ImageTurn(history[i].parts[j].id)
  <2> SUFFICES ASSUME NEW i \in DOMAIN history, NEW j \in DOMAIN history[i].parts, ShowsAt(i, j)
               PROVE  \E n \in DOMAIN new : new[n] = ImageTurn(history[i].parts[j].id)
    OBVIOUS
  <2>1. <<i, j>> \in Emitted /\ j # 0
    BY EmittedIs
  <2>2. new[Out(<<i, j>>)] = EmittedAs(<<i, j>>) /\ Out(<<i, j>>) \in DOMAIN new
    BY <2>1, <1>7, <1>9
  <2>3. <<i, j>>[1] = i /\ <<i, j>>[2] = j
    OBVIOUS
  <2>4. EmittedAs(<<i, j>>) = ImageTurn(history[i].parts[j].id)
    BY <2>1, <2>3 DEF EmittedAs
  <2>5. QED
    BY <2>2, <2>4
<1>19. ASSUME NEW i \in DOMAIN history, i < Len(history),
              \A j \in DOMAIN history[i].parts : ~ShowsAt(i, j)
       PROVE  i + 1 \in DOMAIN history /\ to[i + 1] = to[i] + 1
  <2>1. i + 1 \in DOMAIN history /\ i \in Nat
    BY <1>1, <1>19
  <2>2. <<i, 0>> \in Emitted /\ <<i + 1, 0>> \in Emitted
    BY <2>1, <1>10
  <2>3. Precedes(<<i, 0>>, <<i + 1, 0>>)
    BY <2>1 DEF Precedes
  <2>4. ASSUME NEW c \in Emitted, Precedes(<<i, 0>>, c), Precedes(c, <<i + 1, 0>>)
        PROVE  FALSE
    <3>1. c[1] \in Nat /\ c[2] \in Nat
      BY <1>2
    <3>2. c[1] = i /\ c[2] # 0
      BY <3>1, <2>1, <2>4 DEF Precedes
    <3>3. <<c[1], 0>>[2] = 0
      OBVIOUS
    <3>4. QED
      BY <3>2, <3>3, <1>19, EmittedIs
  <2>5. Out(<<i + 1, 0>>) = Out(<<i, 0>>) + 1
    BY <2>2, <2>3, <2>4, <1>2, EmittedInOrder
  <2>6. QED
    BY <2>1, <2>5, <1>10
<1>20. \/ Len(new) = to[Len(history)]
       \/ \E i \in DOMAIN history : \E j \in DOMAIN history[i].parts :
            ShowsAt(i, j) /\ new[Len(new)] = ImageTurn(history[i].parts[j].id)
  <2> DEFINE l == Len(history)
  <2>1. l \in DOMAIN history /\ N >= 1
    BY <1>1, <1>3, <1>11, <1>14
  <2>2. PICK e \in Emitted : Out(e) = N
    BY <2>1, <1>3, <1>4
  <2>3. CASE Out(e) = to[e[1]] /\ e[1] \in DOMAIN history
    <3>1. CASE e[1] = l
      BY <3>1, <2>2, <2>3, <1>11
    <3>2. CASE e[1] # l
      <4>1. e[1] < l /\ <<e[1], 0>> \in Emitted /\ <<l, 0>> \in Emitted
        BY <3>2, <2>1, <2>3, <1>1, <1>10
      <4>2. Precedes(<<e[1], 0>>, <<l, 0>>)
        BY <4>1 DEF Precedes
      <4>3. Out(<<e[1], 0>>) < Out(<<l, 0>>)
        BY <4>1, <4>2, <1>2, EmittedInOrder
      <4>4. Out(<<e[1], 0>>) = N /\ Out(<<l, 0>>) \in 1..N
        BY <4>1, <2>2, <2>3, <1>3, <1>10
      <4>5. QED
        BY <4>3, <4>4, <1>3
    <3>3. QED
      BY <3>1, <3>2
  <2>4. QED
    BY <2>2, <2>3, <1>11, <1>16
<1>21. IsRewritten(new, to)
  <2> HIDE DEF to
  <2>1. QED
    BY <1>11, <1>12, <1>13, <1>14, <1>15, <1>17, <1>18, <1>19, <1>20 DEF IsRewritten
<1>22. QED
  BY <1>21 DEF new

\* A message of the new transcript is one of the old, part for part, or an image's.
LEMMA RewrittenMessages ==
  ASSUME history \in Seq(TranscriptMessages), NEW new, NEW to, IsRewritten(new, to)
  PROVE  /\ \A i \in DOMAIN history :
              /\ to[i] \in DOMAIN new /\ new[to[i]].from = history[i].from
              /\ DOMAIN new[to[i]].parts = DOMAIN history[i].parts
              /\ Len(new[to[i]].parts) = Len(history[i].parts)
              /\ \A j \in DOMAIN history[i].parts :
                   /\ new[to[i]].parts[j].is = history[i].parts[j].is
                   /\ new[to[i]].parts[j].id = history[i].parts[j].id
                   /\ new[to[i]].parts[j].image
                        <=> history[i].parts[j].image /\ history[i].parts[j].is # "result"
         /\ \A n \in DOMAIN new :
              \/ \E i \in DOMAIN history : n = to[i]
              \/ /\ new[n].from = "user" /\ DOMAIN new[n].parts = {1} /\ Len(new[n].parts) = 1
                 /\ new[n].parts[1].is = "image" /\ new[n].parts[1].image
<1>1. \A i \in DOMAIN history : history[i] \in TranscriptMessages
  BY LenProperties, ElementOfSeq
<1>2. ASSUME NEW i \in DOMAIN history
      PROVE  /\ to[i] \in DOMAIN new /\ new[to[i]].from = history[i].from
             /\ DOMAIN new[to[i]].parts = DOMAIN history[i].parts
             /\ Len(new[to[i]].parts) = Len(history[i].parts)
             /\ \A j \in DOMAIN history[i].parts :
                  /\ new[to[i]].parts[j].is = history[i].parts[j].is
                  /\ new[to[i]].parts[j].id = history[i].parts[j].id
                  /\ new[to[i]].parts[j].image
                       <=> history[i].parts[j].image /\ history[i].parts[j].is # "result"
  <2>1. to[i] \in DOMAIN new /\ new[to[i]] = Acknowledged(history[i])
    BY DEF IsRewritten
  <2>2. history[i] \in TranscriptMessages
    BY <1>1
  <2>3. QED
    BY <2>1, <2>2, AcknowledgedIs
<1>3. ASSUME NEW n \in DOMAIN new
      PROVE  \/ \E i \in DOMAIN history : n = to[i]
             \/ /\ new[n].from = "user" /\ DOMAIN new[n].parts = {1} /\ Len(new[n].parts) = 1
                /\ new[n].parts[1].is = "image" /\ new[n].parts[1].image
  <2>1. CASE \E i \in DOMAIN history : n = to[i]
    BY <2>1
  <2>2. CASE \E i \in DOMAIN history : \E j \in DOMAIN history[i].parts :
               ShowsAt(i, j) /\ new[n] = ImageTurn(history[i].parts[j].id)
    <3>1. PICK i \in DOMAIN history : \E j \in DOMAIN history[i].parts :
            new[n] = ImageTurn(history[i].parts[j].id)
      BY <2>2
    <3> PICK j \in DOMAIN history[i].parts : new[n] = ImageTurn(history[i].parts[j].id)
      BY <3>1
    <3>2. history[i].parts \in Seq(TranscriptParts)
      BY <1>1 DEF TranscriptMessages
    <3>3. history[i].parts[j] \in TranscriptParts
      BY <3>2, LenProperties, ElementOfSeq
    <3>4. history[i].parts[j].id \in Nat
      BY <3>3 DEF TranscriptParts
    <3>5. QED
      BY <3>4, ImageTurnIs
  <2>3. QED
    BY <2>1, <2>2 DEF IsRewritten
<1>4. QED
  BY <1>2, <1>3

\* What a transcript keeps over a rewriting.
LEMMA RewrittenKeeps ==
  ASSUME history \in Seq(TranscriptMessages), Len(history) > 0, NEW new, NEW to, IsRewritten(new, to)
  PROVE  /\ MessagesShaped(history) => MessagesShaped(new)
         /\ ResultsDiffer(history) => ResultsDiffer(new)
         /\ \A n : ResultsBelow(history, n) => ResultsBelow(new, n)
         /\ MessagesShaped(history) /\ CallsAnswered(history, FALSE) => CallsAnswered(new, FALSE)
         /\ NoneShown(new)
         /\ \A ids : ImagesIn(history, ids) => ImagesIn(new, ids)
         /\ Last(history).from = "user" => Last(new).from = "user"
<1>1. /\ Len(history) \in Nat /\ DOMAIN history = 1..Len(history)
      /\ Len(new) \in Nat /\ DOMAIN new = 1..Len(new) /\ Len(history) <= Len(new)
      /\ \A i, k \in DOMAIN history : to[i] = to[k] => i = k
  BY LenProperties DEF IsRewritten
<1> DEFINE Same(i) ==
      /\ to[i] \in DOMAIN new /\ new[to[i]].from = history[i].from
      /\ DOMAIN new[to[i]].parts = DOMAIN history[i].parts
      /\ Len(new[to[i]].parts) = Len(history[i].parts)
      /\ \A j \in DOMAIN history[i].parts :
           /\ new[to[i]].parts[j].is = history[i].parts[j].is
           /\ new[to[i]].parts[j].id = history[i].parts[j].id
           /\ new[to[i]].parts[j].image
                <=> history[i].parts[j].image /\ history[i].parts[j].is # "result"
    Shows(n) ==
      /\ new[n].from = "user" /\ DOMAIN new[n].parts = {1} /\ Len(new[n].parts) = 1
      /\ new[n].parts[1].is = "image" /\ new[n].parts[1].image
<1>2. \A i \in DOMAIN history : Same(i)
  BY RewrittenMessages
<1>3. \A n \in DOMAIN new : (\E i \in DOMAIN history : n = to[i]) \/ Shows(n)
  BY RewrittenMessages
<1>4. ASSUME MessagesShaped(history)
      PROVE  MessagesShaped(new)
  <2>1. ASSUME NEW n \in DOMAIN new
        PROVE  ShapedMessage(new[n])
    <3>1. CASE \E i \in DOMAIN history : n = to[i]
      <4>1. PICK i \in DOMAIN history : n = to[i]
        BY <3>1
      <4>2. Same(i)
        BY <1>2
      <4>3. history[i].from = "user" => Len(history[i].parts) # 0
        <5>1. history[i] \in TranscriptMessages
          BY LenProperties, ElementOfSeq
        <5>2. history[i].parts \in Seq(TranscriptParts)
          BY <5>1 DEF TranscriptMessages
        <5>3. ShapedMessage(history[i])
          BY <1>4 DEF MessagesShaped
        <5>4. history[i].from = "user" => history[i].parts # <<>>
          BY <5>3 DEF ShapedMessage
        <5>5. \A q \in Seq(TranscriptParts) : q # <<>> => Len(q) # 0
          BY EmptySeq
        <5>6. QED
          BY <5>2, <5>4, <5>5
      <4>4. new[n].from = "user" => new[n].parts # <<>>
        BY <4>1, <4>2, <4>3
      <4>5. ShapedMessage(history[i])
        BY <1>4 DEF MessagesShaped
      <4>6. \A j \in DOMAIN new[n].parts :
              j \in DOMAIN history[i].parts /\ new[n].parts[j].is = history[i].parts[j].is
        BY <4>1, <4>2
      <4>7. new[n].from = history[i].from
        BY <4>1, <4>2
      <4>8. QED
        BY <4>4, <4>5, <4>6, <4>7 DEF ShapedMessage
    <3>2. CASE Shows(n)
      <4>1. new[n].parts # <<>>
        BY <3>2
      <4>2. QED
        BY <3>2, <4>1 DEF ShapedMessage
    <3>3. QED
      BY <3>1, <3>2, <1>3
  <2>2. QED
    BY <2>1 DEF MessagesShaped
<1>5. ASSUME ResultsDiffer(history)
      PROVE  ResultsDiffer(new)
  <2> SUFFICES ASSUME NEW n \in DOMAIN new, NEW m \in DOMAIN new,
                      NEW j \in DOMAIN new[n].parts, NEW l \in DOMAIN new[m].parts,
                      new[n].parts[j].is = "result", new[m].parts[l].is = "result",
                      new[n].parts[j].id = new[m].parts[l].id
               PROVE  n = m /\ j = l
    BY DEF ResultsDiffer
  <2>1. PICK i \in DOMAIN history : n = to[i]
    BY <1>3
  <2>2. PICK k \in DOMAIN history : m = to[k]
    BY <1>3
  <2>3. Same(i) /\ Same(k)
    BY <1>2
  <2>4. /\ j \in DOMAIN history[i].parts /\ history[i].parts[j].is = "result"
        /\ history[i].parts[j].id = new[n].parts[j].id
    BY <2>1, <2>3
  <2>5. /\ l \in DOMAIN history[k].parts /\ history[k].parts[l].is = "result"
        /\ history[k].parts[l].id = new[m].parts[l].id
    BY <2>2, <2>3
  <2>6. i = k /\ j = l
    <3>1. history[i].parts[j].id = history[k].parts[l].id
      BY <2>4, <2>5
    <3>2. QED
      BY <2>4, <2>5, <3>1, <1>5 DEF ResultsDiffer
  <2>7. QED
    BY <2>1, <2>2, <2>6
<1>6. ASSUME NEW b, ResultsBelow(history, b)
      PROVE  ResultsBelow(new, b)
  <2> SUFFICES ASSUME NEW n \in DOMAIN new, NEW j \in DOMAIN new[n].parts,
                      new[n].parts[j].is = "result"
               PROVE  new[n].parts[j].id <= b
    BY DEF ResultsBelow
  <2>1. PICK i \in DOMAIN history : n = to[i]
    BY <1>3
  <2>2. Same(i)
    BY <1>2
  <2>3. QED
    BY <2>1, <2>2, <1>6 DEF ResultsBelow
<1>7. ASSUME MessagesShaped(history), CallsAnswered(history, FALSE)
      PROVE  CallsAnswered(new, FALSE)
  <2> SUFFICES ASSUME NEW n \in DOMAIN new, NEW j \in DOMAIN new[n].parts,
                      new[n].parts[j].is = "call"
               PROVE  n < Len(new) /\ \E k \in DOMAIN new[n + 1].parts :
                        new[n + 1].parts[k].is = "result" /\ new[n + 1].parts[k].id = new[n].parts[j].id
    BY DEF CallsAnswered
  <2>1. PICK i \in DOMAIN history : n = to[i]
    BY <1>3
  <2>2. Same(i)
    BY <1>2
  <2>3. j \in DOMAIN history[i].parts /\ history[i].parts[j].is = "call"
        /\ history[i].parts[j].id = new[n].parts[j].id
    BY <2>1, <2>2
  <2>4. i < Len(history) /\ \E k \in DOMAIN history[i + 1].parts :
          history[i + 1].parts[k].is = "result" /\ history[i + 1].parts[k].id = history[i].parts[j].id
    BY <2>3, <1>7 DEF CallsAnswered
  <2>5. \A k \in DOMAIN history[i].parts : ~ShowsAt(i, k)
    BY <2>3, <1>7 DEF ShowsAt, MessagesShaped, ShapedMessage
  <2>6. i + 1 \in DOMAIN history /\ to[i + 1] = to[i] + 1
    BY <2>4, <2>5 DEF IsRewritten
  <2>7. Same(i + 1)
    BY <2>6, <1>2
  <2>8. n + 1 \in DOMAIN new /\ n + 1 = to[i + 1]
    BY <2>1, <2>6, <2>7
  <2>9. n < Len(new)
    BY <2>8, <1>1
  <2>10. PICK k \in DOMAIN history[i + 1].parts :
           history[i + 1].parts[k].is = "result" /\ history[i + 1].parts[k].id = history[i].parts[j].id
    BY <2>4
  <2>11. k \in DOMAIN new[n + 1].parts /\ new[n + 1].parts[k].is = "result"
         /\ new[n + 1].parts[k].id = new[n].parts[j].id
    BY <2>3, <2>7, <2>8, <2>10
  <2>12. QED
    BY <2>9, <2>11
<1>8. NoneShown(new)
  <2> SUFFICES ASSUME NEW n \in DOMAIN new, NEW j \in DOMAIN new[n].parts,
                      new[n].parts[j].is = "result"
               PROVE  ~new[n].parts[j].image
    BY DEF NoneShown
  <2>1. PICK i \in DOMAIN history : n = to[i]
    BY <1>3
  <2>2. Same(i)
    BY <1>2
  <2>3. QED
    BY <2>1, <2>2
<1>9. ASSUME NEW ids, ImagesIn(history, ids)
      PROVE  ImagesIn(new, ids)
  <2> SUFFICES ASSUME NEW id \in ids
               PROVE  \E n \in DOMAIN new : \E j \in DOMAIN new[n].parts :
                        new[n].parts[j].id = id /\ new[n].parts[j].image
    BY DEF ImagesIn
  <2>0. PICK i \in DOMAIN history : \E j \in DOMAIN history[i].parts :
          history[i].parts[j].id = id /\ history[i].parts[j].image
    BY <1>9 DEF ImagesIn
  <2>1. PICK j \in DOMAIN history[i].parts :
          history[i].parts[j].id = id /\ history[i].parts[j].image
    BY <2>0
  <2>2. CASE history[i].parts[j].is # "result"
    <3>1. Same(i)
      BY <1>2
    <3>2. to[i] \in DOMAIN new /\ j \in DOMAIN new[to[i]].parts
          /\ new[to[i]].parts[j].id = id /\ new[to[i]].parts[j].image
      BY <3>1, <2>1, <2>2
    <3>3. QED
      BY <3>2
  <2>3. CASE history[i].parts[j].is = "result"
    <3>1. ShowsAt(i, j)
      BY <2>1, <2>3 DEF ShowsAt
    <3>2. PICK n \in DOMAIN new : new[n] = ImageTurn(history[i].parts[j].id)
      BY <3>1 DEF IsRewritten
    <3>3. id \in Nat
      <4>1. history[i] \in TranscriptMessages
        BY LenProperties, ElementOfSeq
      <4>2. history[i].parts \in Seq(TranscriptParts)
        BY <4>1 DEF TranscriptMessages
      <4>3. history[i].parts[j] \in TranscriptParts
        BY <4>2, LenProperties, ElementOfSeq
      <4>4. QED
        BY <4>3, <2>1 DEF TranscriptParts
    <3>4. 1 \in DOMAIN new[n].parts /\ new[n].parts[1].id = id /\ new[n].parts[1].image
      BY <3>2, <3>3, <2>1, ImageTurnIs
    <3>5. QED
      BY <3>4
  <2>4. QED
    BY <2>2, <2>3
<1>10. ASSUME Last(history).from = "user"
       PROVE  Last(new).from = "user"
  <2>1. Len(history) \in DOMAIN history /\ Len(new) \in DOMAIN new
    BY <1>1
  <2>2. CASE Len(new) = to[Len(history)]
    <3>1. Same(Len(history))
      BY <2>1, <1>2
    <3>2. QED
      BY <3>1, <2>2, <1>10 DEF Last
  <2>3. CASE \E i \in DOMAIN history : \E j \in DOMAIN history[i].parts :
               ShowsAt(i, j) /\ new[Len(new)] = ImageTurn(history[i].parts[j].id)
    <3>1. \A x : ImageTurn(x).from = "user"
      BY DEF ImageTurn, User
    <3>2. QED
      BY <2>3, <3>1 DEF Last
  <2>4. QED
    BY <2>2, <2>3 DEF IsRewritten
<1>11. QED
  <2> HIDE DEF Same, Shows
  <2>1. QED
    BY <1>4, <1>5, <1>6, <1>7, <1>8, <1>9, <1>10

\* Nor does it change how many messages are the model's, and how many call tools.
LEMMA RewrittenCounts ==
  ASSUME history \in Seq(TranscriptMessages), NEW new, NEW to, IsRewritten(new, to)
  PROVE  /\ Cardinality(Spoken(new)) = Cardinality(Spoken(history))
         /\ Cardinality(Calling(new)) = Cardinality(Calling(history))
<1>1. /\ Len(history) \in Nat /\ DOMAIN history = 1..Len(history)
      /\ to \in [DOMAIN history -> DOMAIN new]
      /\ \A i, k \in DOMAIN history : to[i] = to[k] => i = k
  BY LenProperties DEF IsRewritten
<1>2. ASSUME NEW A, NEW B, A \subseteq DOMAIN history, B \subseteq DOMAIN new,
             \A i \in DOMAIN history : i \in A <=> to[i] \in B,
             \A n \in B : \E i \in DOMAIN history : n = to[i]
      PROVE  Cardinality(B) = Cardinality(A)
  <2> DEFINE f == [i \in A |-> to[i]]
  <2>1. f \in [A -> B] /\ \A i, k \in A : f[i] = f[k] => i = k
    BY <1>1, <1>2
  <2>2. f \in Injection(A, B)
    BY <2>1, Fun_IsInj
  <2>3. f \in Surjection(A, B)
    BY <2>1, <1>2 DEF Surjection
  <2>4. IsFiniteSet(A)
    <3>1. IsFiniteSet(1..Len(history))
      BY <1>1, FS_Interval
    <3>2. QED
      BY <3>1, <1>1, <1>2, FS_Subset
  <2>5. QED
    BY <2>2, <2>3, <2>4, FS_Surjection
<1>3. Cardinality(Spoken(new)) = Cardinality(Spoken(history))
  <2>1. \A i \in DOMAIN history : i \in Spoken(history) <=> to[i] \in Spoken(new)
    BY RewrittenMessages DEF Spoken
  <2>2. \A n \in Spoken(new) : \E i \in DOMAIN history : n = to[i]
    BY RewrittenMessages DEF Spoken
  <2>3. Spoken(history) \subseteq DOMAIN history /\ Spoken(new) \subseteq DOMAIN new
    BY DEF Spoken
  <2>4. QED
    BY <2>1, <2>2, <2>3, <1>2
<1>4. Cardinality(Calling(new)) = Cardinality(Calling(history))
  <2>1. \A i \in DOMAIN history : i \in Calling(history)
          <=> \E j \in DOMAIN history[i].parts : history[i].parts[j].is = "call"
    BY DEF Calling, PartsOf, ToSet
  <2>2. \A n \in DOMAIN new : n \in Calling(new)
          <=> \E j \in DOMAIN new[n].parts : new[n].parts[j].is = "call"
    BY DEF Calling, PartsOf, ToSet
  <2>3. \A i \in DOMAIN history : i \in Calling(history) <=> to[i] \in Calling(new)
    <3> SUFFICES ASSUME NEW i \in DOMAIN history
                 PROVE  i \in Calling(history) <=> to[i] \in Calling(new)
      OBVIOUS
    <3>1. /\ to[i] \in DOMAIN new /\ DOMAIN new[to[i]].parts = DOMAIN history[i].parts
          /\ \A j \in DOMAIN history[i].parts : new[to[i]].parts[j].is = history[i].parts[j].is
      BY RewrittenMessages
    <3>2. QED
      BY <3>1, <2>1, <2>2
  <2>4. \A n \in Calling(new) : \E i \in DOMAIN history : n = to[i]
    <3>1. Calling(new) \subseteq DOMAIN new
      BY DEF Calling
    <3>2. QED
      BY <3>1, <2>2, RewrittenMessages
  <2>5. Calling(history) \subseteq DOMAIN history /\ Calling(new) \subseteq DOMAIN new
    BY DEF Calling
  <2>6. QED
    BY <2>3, <2>4, <2>5, <1>2
<1>5. QED
  BY <1>3, <1>4

-----------------------------------------------------------------------------
(* What an appended message adds. *)

\* A sequence, one longer.
LEMMA AppendedIs ==
  ASSUME NEW S, NEW h \in Seq(S), NEW m \in S
  PROVE  /\ Append(h, m) \in Seq(S) /\ Len(h) \in Nat /\ Len(Append(h, m)) = Len(h) + 1
         /\ DOMAIN h = 1..Len(h) /\ DOMAIN Append(h, m) = 1..(Len(h) + 1)
         /\ DOMAIN Append(h, m) = DOMAIN h \cup {Len(h) + 1} /\ Len(h) + 1 \notin DOMAIN h
         /\ \A i \in DOMAIN h : Append(h, m)[i] = h[i]
         /\ Append(h, m)[Len(h) + 1] = m /\ Last(Append(h, m)) = m
<1>1. Len(h) \in Nat /\ DOMAIN h = 1..Len(h)
  BY LenProperties
<1>2. /\ Append(h, m) \in Seq(S) /\ Len(Append(h, m)) = Len(h) + 1
      /\ \A i \in 1..Len(h) : Append(h, m)[i] = h[i]
      /\ Append(h, m)[Len(h) + 1] = m
  BY AppendProperties
<1>3. DOMAIN Append(h, m) = 1..(Len(h) + 1)
  BY <1>2, LenProperties
<1>4. 1..(Len(h) + 1) = (1..Len(h)) \cup {Len(h) + 1} /\ Len(h) + 1 \notin 1..Len(h)
  BY <1>1
<1>5. QED
  BY <1>1, <1>2, <1>3, <1>4 DEF Last

\* How many of a sequence are of a kind, one longer.
LEMMA OneMoreOrNot ==
  ASSUME NEW S, NEW h \in Seq(S), NEW m \in S, NEW A, NEW B,
         A \subseteq DOMAIN h, B \subseteq DOMAIN Append(h, m),
         \A i \in DOMAIN h : i \in A <=> i \in B
  PROVE  /\ Cardinality(A) \in Nat
         /\ Len(h) + 1 \in B => Cardinality(B) = Cardinality(A) + 1
         /\ Len(h) + 1 \notin B => B = A
<1>1. /\ Len(h) \in Nat /\ DOMAIN h = 1..Len(h)
      /\ DOMAIN Append(h, m) = DOMAIN h \cup {Len(h) + 1} /\ Len(h) + 1 \notin DOMAIN h
  BY AppendedIs
<1>2. IsFiniteSet(A)
  <2>1. IsFiniteSet(1..Len(h))
    BY <1>1, FS_Interval
  <2>2. QED
    BY <2>1, <1>1, FS_Subset
<1>3. Len(h) + 1 \notin A
  BY <1>1
<1>4. Len(h) + 1 \in B => B = A \cup {Len(h) + 1}
  BY <1>1
<1>5. Len(h) + 1 \notin B => B = A
  BY <1>1
<1>6. Len(h) + 1 \in B => Cardinality(B) = Cardinality(A) + 1
  BY <1>2, <1>3, <1>4, FS_AddElement
<1>7. QED
  BY <1>2, <1>5, <1>6, FS_CardinalityType

\* How many messages are the model's, and how many call tools, with one more.
LEMMA AppendedCounts ==
  ASSUME NEW h \in Seq(TranscriptMessages), NEW m \in TranscriptMessages
  PROVE  /\ Cardinality(Spoken(h)) \in Nat /\ Cardinality(Calling(h)) \in Nat
         /\ Cardinality(Spoken(Append(h, m)))
              = IF m.from = "assistant" THEN Cardinality(Spoken(h)) + 1 ELSE Cardinality(Spoken(h))
         /\ Cardinality(Calling(Append(h, m)))
              = IF \E j \in DOMAIN m.parts : m.parts[j].is = "call"
                THEN Cardinality(Calling(h)) + 1 ELSE Cardinality(Calling(h))
<1> DEFINE new == Append(h, m)
<1>1. /\ Len(h) + 1 \in DOMAIN new /\ DOMAIN h \subseteq DOMAIN new
      /\ \A i \in DOMAIN h : new[i] = h[i]
      /\ new[Len(h) + 1] = m
  BY AppendedIs
<1> HIDE DEF new
<1>2. /\ Cardinality(Spoken(h)) \in Nat
      /\ Cardinality(Spoken(new))
           = IF m.from = "assistant" THEN Cardinality(Spoken(h)) + 1 ELSE Cardinality(Spoken(h))
  <2>1. Spoken(h) \subseteq DOMAIN h /\ Spoken(new) \subseteq DOMAIN new
    BY DEF Spoken
  <2>2. \A i \in DOMAIN h : i \in Spoken(h) <=> i \in Spoken(new)
    BY <1>1 DEF Spoken
  <2>3. Len(h) + 1 \in Spoken(new) <=> m.from = "assistant"
    BY <1>1 DEF Spoken
  <2>4. QED
    BY <2>1, <2>2, <2>3, OneMoreOrNot DEF new
<1>3. /\ Cardinality(Calling(h)) \in Nat
      /\ Cardinality(Calling(new))
           = IF \E j \in DOMAIN m.parts : m.parts[j].is = "call"
             THEN Cardinality(Calling(h)) + 1 ELSE Cardinality(Calling(h))
  <2>1. Calling(h) \subseteq DOMAIN h /\ Calling(new) \subseteq DOMAIN new
    BY DEF Calling
  <2>2. \A i \in DOMAIN h : i \in Calling(h) <=> i \in Calling(new)
    BY <1>1 DEF Calling
  <2>3. Len(h) + 1 \in Calling(new) <=> \E j \in DOMAIN m.parts : m.parts[j].is = "call"
    BY <1>1 DEF Calling, PartsOf, ToSet
  <2>4. QED
    BY <2>1, <2>2, <2>3, OneMoreOrNot DEF new
<1>4. QED
  BY <1>2, <1>3 DEF new

\* What the log counts of a turn.
LEMMA ObservedCounts ==
  ASSUME NEW noted \in Seq(TurnRecords), NEW f \in Finishes, NEW n \in Nat
  PROVE  LET one == Append(noted, [finish |-> f, calls |-> n])
         IN  /\ one \in Seq(TurnRecords) /\ Len(noted) \in Nat
             /\ Len(one) = Len(noted) + 1 /\ one # <<>> /\ Last(one) = [finish |-> f, calls |-> n]
             /\ Cardinality(Called(noted)) \in Nat
             /\ n > 0 => Cardinality(Called(one)) = Cardinality(Called(noted)) + 1
             /\ n = 0 => Cardinality(Called(one)) = Cardinality(Called(noted))
<1> DEFINE r == [finish |-> f, calls |-> n]
           one == Append(noted, r)
<1>1. r \in TurnRecords /\ r.calls = n
  BY DEF TurnRecords
<1> HIDE DEF r
<1>2. /\ one \in Seq(TurnRecords) /\ Len(noted) \in Nat
      /\ Len(one) = Len(noted) + 1 /\ Last(one) = r
      /\ DOMAIN noted \subseteq DOMAIN one /\ Len(noted) + 1 \in DOMAIN one
      /\ \A i \in DOMAIN noted : one[i] = noted[i]
      /\ one[Len(noted) + 1] = r
  BY <1>1, AppendedIs
<1>3. one # <<>>
  BY <1>1, AppendProperties
<1>4. Called(noted) \subseteq DOMAIN noted /\ Called(one) \subseteq DOMAIN one
  BY DEF Called
<1>5. \A i \in DOMAIN noted : i \in Called(noted) <=> i \in Called(one)
  BY <1>2 DEF Called
<1>6. Len(noted) + 1 \in Called(one) <=> n > 0
  BY <1>1, <1>2 DEF Called
<1>7. /\ Cardinality(Called(noted)) \in Nat
      /\ n > 0 => Cardinality(Called(one)) = Cardinality(Called(noted)) + 1
      /\ n = 0 => Cardinality(Called(one)) = Cardinality(Called(noted))
  BY <1>1, <1>4, <1>5, <1>6, OneMoreOrNot
<1>8. QED
  BY <1>2, <1>3, <1>7 DEF r

\* Ids grow with the transcript.
LEMMA Scaled ==
  ASSUME NEW n \in Nat, NEW m \in Nat, n <= m
  PROVE  /\ n * CallsPerTurn \in Nat /\ m * CallsPerTurn \in Nat
         /\ n * CallsPerTurn <= m * CallsPerTurn
         /\ (n + 1) * CallsPerTurn = n * CallsPerTurn + CallsPerTurn
<1>1. CallsPerTurn \in Nat
  BY CallsPerTurnAssumption
<1>2. PICK d \in Nat : m = n + d
  <2>1. m - n \in Nat /\ m = n + (m - n)
    OBVIOUS
  <2>2. QED
    BY <2>1
<1>3. \A a, c \in Nat : a * c \in Nat
  OBVIOUS
<1>4. (n + d) * CallsPerTurn = n * CallsPerTurn + d * CallsPerTurn
  BY <1>1
<1>5. (n + 1) * CallsPerTurn = n * CallsPerTurn + CallsPerTurn
  BY <1>1
<1>6. n * CallsPerTurn \in Nat /\ m * CallsPerTurn \in Nat /\ d * CallsPerTurn \in Nat
  BY <1>1, <1>3
<1>7. QED
  BY <1>2, <1>4, <1>5, <1>6

\* An appended message that answers nothing and calls nothing new, in a transcript where
\* every call is answered.
LEMMA AppendedKeeps ==
  ASSUME NEW h \in Seq(TranscriptMessages), NEW m \in TranscriptMessages
  PROVE  /\ MessagesShaped(h) /\ ShapedMessage(m) => MessagesShaped(Append(h, m))
         /\ \A ids : ImagesIn(h, ids) => ImagesIn(Append(h, m), ids)
         /\ NoneShown(h)
              /\ (\A j \in DOMAIN m.parts : m.parts[j].is = "result" => ~m.parts[j].image)
                => NoneShown(Append(h, m))
         /\ (\A j \in DOMAIN m.parts : m.parts[j].is # "result") =>
              /\ ResultsDiffer(h) => ResultsDiffer(Append(h, m))
              /\ \A n : ResultsBelow(h, n) => ResultsBelow(Append(h, m), n)
         /\ CallsAnswered(h, FALSE) =>
              /\ CallsAnswered(Append(h, m), TRUE)
              /\ (\A j \in DOMAIN m.parts : m.parts[j].is # "call")
                   => CallsAnswered(Append(h, m), FALSE)
<1> DEFINE new == Append(h, m)
           l == Len(h) + 1
<1>1. /\ new \in Seq(TranscriptMessages) /\ Len(h) \in Nat /\ Len(new) = l
      /\ DOMAIN h = 1..Len(h) /\ DOMAIN new = DOMAIN h \cup {l} /\ l \notin DOMAIN h
      /\ \A i \in DOMAIN h : new[i] = h[i]
      /\ new[l] = m
  BY AppendedIs
<1> HIDE DEF new
<1>2. MessagesShaped(h) /\ ShapedMessage(m) => MessagesShaped(new)
  BY <1>1 DEF MessagesShaped
<1>3. \A ids : ImagesIn(h, ids) => ImagesIn(new, ids)
  <2> SUFFICES ASSUME NEW ids, ImagesIn(h, ids), NEW id \in ids
               PROVE  \E i \in DOMAIN new : \E j \in DOMAIN new[i].parts :
                        new[i].parts[j].id = id /\ new[i].parts[j].image
    BY DEF ImagesIn
  <2>1. PICK i \in DOMAIN h : \E j \in DOMAIN h[i].parts :
          h[i].parts[j].id = id /\ h[i].parts[j].image
    BY DEF ImagesIn
  <2>2. i \in DOMAIN new /\ new[i] = h[i]
    BY <1>1
  <2>3. QED
    BY <2>1, <2>2
<1>4. ASSUME NoneShown(h), \A j \in DOMAIN m.parts : m.parts[j].is = "result" => ~m.parts[j].image
      PROVE  NoneShown(new)
  BY <1>1, <1>4 DEF NoneShown
<1>5. ASSUME \A j \in DOMAIN m.parts : m.parts[j].is # "result", ResultsDiffer(h)
      PROVE  ResultsDiffer(new)
  <2> SUFFICES ASSUME NEW i \in DOMAIN new, NEW k \in DOMAIN new,
                      NEW j \in DOMAIN new[i].parts, NEW o \in DOMAIN new[k].parts,
                      new[i].parts[j].is = "result", new[k].parts[o].is = "result",
                      new[i].parts[j].id = new[k].parts[o].id
               PROVE  i = k /\ j = o
    BY DEF ResultsDiffer
  <2>1. i \in DOMAIN h /\ k \in DOMAIN h
    BY <1>1, <1>5
  <2>2. new[i] = h[i] /\ new[k] = h[k]
    BY <2>1, <1>1
  <2>3. QED
    BY <2>1, <2>2, <1>5 DEF ResultsDiffer
<1>6. ASSUME \A j \in DOMAIN m.parts : m.parts[j].is # "result", NEW n, ResultsBelow(h, n)
      PROVE  ResultsBelow(new, n)
  BY <1>1, <1>6 DEF ResultsBelow
<1>7. ASSUME CallsAnswered(h, FALSE), NEW i \in DOMAIN h, NEW j \in DOMAIN new[i].parts,
             new[i].parts[j].is = "call"
      PROVE  i < Len(new) /\ \E k \in DOMAIN new[i + 1].parts :
               new[i + 1].parts[k].is = "result" /\ new[i + 1].parts[k].id = new[i].parts[j].id
  <2>1. new[i] = h[i] /\ i \in Nat /\ i <= Len(h)
    BY <1>1
  <2>2. i < Len(h) /\ \E k \in DOMAIN h[i + 1].parts :
          h[i + 1].parts[k].is = "result" /\ h[i + 1].parts[k].id = h[i].parts[j].id
    BY <2>1, <1>7 DEF CallsAnswered
  <2>3. i + 1 \in DOMAIN h
    BY <2>1, <2>2, <1>1
  <2>4. new[i + 1] = h[i + 1] /\ i < Len(new)
    BY <2>1, <2>3, <1>1
  <2>5. QED
    BY <2>1, <2>2, <2>4
<1>8. ASSUME CallsAnswered(h, FALSE)
      PROVE  CallsAnswered(new, TRUE)
  <2> SUFFICES ASSUME NEW i \in DOMAIN new, NEW j \in DOMAIN new[i].parts,
                      new[i].parts[j].is = "call", i < Len(new)
               PROVE  \E k \in DOMAIN new[i + 1].parts :
                        new[i + 1].parts[k].is = "result" /\ new[i + 1].parts[k].id = new[i].parts[j].id
    BY DEF CallsAnswered
  <2>1. i \in DOMAIN h
    BY <1>1
  <2>2. QED
    BY <2>1, <1>7, <1>8
<1>9. ASSUME CallsAnswered(h, FALSE), \A j \in DOMAIN m.parts : m.parts[j].is # "call"
      PROVE  CallsAnswered(new, FALSE)
  <2> SUFFICES ASSUME NEW i \in DOMAIN new, NEW j \in DOMAIN new[i].parts,
                      new[i].parts[j].is = "call"
               PROVE  i < Len(new) /\ \E k \in DOMAIN new[i + 1].parts :
                        new[i + 1].parts[k].is = "result" /\ new[i + 1].parts[k].id = new[i].parts[j].id
    BY DEF CallsAnswered
  <2>1. i \in DOMAIN h
    BY <1>1, <1>9
  <2>2. QED
    BY <2>1, <1>7, <1>9
<1>10. QED
  BY <1>2, <1>3, <1>4, <1>5, <1>6, <1>8, <1>9 DEF new

-----------------------------------------------------------------------------
(* The steps that write the transcript. *)

\* In the run, before the model is asked, every call is answered and no result shows
\* an image the wire would lose.
LEMMA BeforeAsking ==
  ASSUME TranscriptInv, MayAsk
  PROVE  /\ history \in Seq(TranscriptMessages) /\ Len(history) \in Nat /\ Len(history) > 0
         /\ stage = "run" /\ CountModelTurns = Cardinality(Spoken(history))
         /\ CallsAnswered(history, FALSE)
         /\ RewritesToolImages => NoneShown(history)
<1>1. history \in Seq(TranscriptMessages) /\ Len(history) > 0 /\ stage = "run"
      /\ ~(RewritesToolImages /\ sawImage)
  BY DEF TranscriptInv, TranscriptType, MayAsk
<1>2. Len(history) \in Nat
  BY <1>1, LenProperties
<1>3. CallsAnswered(history, FALSE)
  BY <1>1, Zenon DEF TranscriptInv, TranscriptShape, CallsAnswered, InTools
<1>4. RewritesToolImages => NoneShown(history)
  BY <1>1 DEF TranscriptInv, ImagesKept
<1>5. CountModelTurns = Cardinality(Spoken(history))
  BY DEF CountModelTurns, Spoken
<1>6. QED
  BY <1>1, <1>2, <1>3, <1>4, <1>5

\* What a completion is sent with.
LEMMA SentWith ==
  ASSUME TranscriptType, NEW tools \in BOOLEAN, NEW choice \in ToolChoices, NEW effort \in Efforts,
         SendCompletion(tools, choice, effort)
  PROVE  /\ request' \in Requests /\ request'.effort = effort
         /\ attempts \in Nat /\ attempts' = attempts + 1
<1>1. arm.cache \in {"short", "off"} /\ attempts \in Nat
  BY DEF TranscriptType
<1>3. request' = [tools |-> tools, choice |-> choice, effort |-> effort, cache |-> arm.cache]
      /\ attempts' = attempts + 1
  BY DEF SendCompletion
<1>4. request' \in Requests /\ request'.effort = effort
  BY <1>1, <1>3 DEF Requests
<1>5. QED
  BY <1>1, <1>3, <1>4

\* What a turn is sent with.
LEMMA SentInTurn ==
  ASSUME TranscriptType, SendTurn
  PROVE  /\ request' \in Requests /\ request'.effort = arm.effort
         /\ attempts \in Nat /\ attempts' = attempts + 1
<1>1. arm.effort \in {"unset", "none", "low", "high"}
  BY DEF TranscriptType
<1>2. arm.effort \in Efforts /\ "auto" \in ToolChoices /\ TRUE \in BOOLEAN
  BY <1>1 DEF Efforts, ToolChoices
<1>3. QED
  BY <1>2, SentWith DEF SendTurn

\* How many messages are the model's is a number.
LEMMA SpokenIsNat ==
  ASSUME NEW h \in Seq(TranscriptMessages), Len(h) > 0
  PROVE  Cardinality(Spoken(h)) \in Nat
<1>1. Len(h) \in Nat /\ 1 \in 1..Len(h)
  BY LenProperties
<1>2. h[1] \in TranscriptMessages
  BY <1>1, ElementOfSeq
<1>3. QED
  BY <1>2, AppendedCounts

\* The sums of a run with one turn less, which is in the transcript or a repeat.
OneLess(l, n, r, a) ==
  /\ l - 1 \in Nat /\ (l - 1) + (n + 1) + r = PhaseTurns /\ n + 1 <= PhaseTurns
  /\ (l - 1) + n + (r + 1) = PhaseTurns
  /\ (a + 1) + MalformedResends <= Sends(n + 1) + r /\ a + 1 <= Sends(n + 1) + r
  /\ a + 1 <= Sends(n) + (r + 1)
  /\ a + MalformedResends <= Sends(n) + r
       => (a + 1) + MalformedResends <= Sends(n) + (r + 1)
  /\ a + 1 <= Sends(PhaseTurns) /\ a + 1 <= Sends(PhaseTurns) + 1

\* The numbers of a run that has a turn left.
LEMMA OneTurnLess ==
  ASSUME NEW l \in Nat, NEW n \in Nat, NEW r \in 0..MalformedResends, NEW a \in Nat,
         l > 0, l + n + r = PhaseTurns, a <= Sends(n) + r
  PROVE  OneLess(l, n, r, a)
  BY PhaseTurnsAssumption DEF OneLess, MalformedResends, Sends

\* What a turn leaves of its run's budget, whether it is in the transcript or a repeat.
TurnTaken ==
  /\ arm.tools /\ arm' = arm /\ resent \in Nat
  /\ CountModelTurns \in Nat /\ CountModelTurns + 1 <= PhaseTurns
  /\ left' \in Nat /\ left' + (CountModelTurns + 1) + resent = PhaseTurns
  /\ left' + CountModelTurns + (resent + 1) = PhaseTurns
  /\ attempts' + MalformedResends <= Sends(CountModelTurns + 1) + resent
  /\ attempts' <= Sends(CountModelTurns + 1) + resent
  /\ attempts' <= Sends(CountModelTurns) + (resent + 1)
  /\ sawImage => attempts' + MalformedResends <= Sends(CountModelTurns) + (resent + 1)
  /\ attempts' <= Sends(PhaseTurns) /\ attempts' <= MostSent /\ MostSent' = MostSent

\* A turn takes one of those its run has left.
LEMMA TurnIsTaken ==
  ASSUME TranscriptInv, MayAsk, SendTurn, UNCHANGED arm
  PROVE  TurnTaken
<1>1. /\ stage = "run" /\ left > 0 /\ left \in Nat /\ resent \in 0..MalformedResends /\ attempts \in Nat
      /\ history \in Seq(TranscriptMessages) /\ Len(history) > 0
      /\ left' = left - 1 /\ attempts' = attempts + 1
  BY SentInTurn DEF MayAsk, TranscriptInv, TranscriptType, SendTurn
<1>2. CountModelTurns \in Nat
  BY <1>1, SpokenIsNat DEF CountModelTurns, Spoken
<1>3. stage \in OneRun /\ stage \in InRun
  BY <1>1 DEF OneRun, InRun
<1>4. /\ left + CountModelTurns + resent = PhaseTurns
      /\ attempts <= Sends(CountModelTurns) + resent /\ arm.tools
      /\ sawImage => attempts + MalformedResends <= Sends(CountModelTurns) + resent
  BY <1>1, <1>3 DEF TranscriptInv, BudgetKept
<1>5. MostSent = Sends(PhaseTurns) + 1 /\ MostSent' = MostSent
  BY <1>4 DEF MostSent
<1>6. resent \in Nat
  BY <1>1 DEF MalformedResends
<1> DEFINE n == CountModelTurns
<1>7. /\ n \in Nat /\ n + 1 <= PhaseTurns
      /\ left - 1 \in Nat /\ (left - 1) + (n + 1) + resent = PhaseTurns
      /\ (left - 1) + n + (resent + 1) = PhaseTurns
      /\ (attempts + 1) + MalformedResends <= Sends(n + 1) + resent
      /\ attempts + 1 <= Sends(n + 1) + resent /\ attempts + 1 <= Sends(n) + (resent + 1)
      /\ sawImage => (attempts + 1) + MalformedResends <= Sends(n) + (resent + 1)
      /\ attempts + 1 <= Sends(PhaseTurns) /\ attempts + 1 <= Sends(PhaseTurns) + 1
  <2> HIDE DEF n
  <2>1. n \in Nat /\ left + n + resent = PhaseTurns /\ attempts <= Sends(n) + resent
        /\ (sawImage => attempts + MalformedResends <= Sends(n) + resent)
    BY <1>2, <1>4 DEF n
  <2>2. left \in Nat /\ left > 0 /\ resent \in 0..MalformedResends /\ attempts \in Nat
    BY <1>1
  <2>3. OneLess(left, n, resent, attempts)
    BY <2>1, <2>2, OneTurnLess, Zenon
  <2>4. QED
    BY <2>1, <2>3, Zenon DEF OneLess
<1>8. QED
  BY <1>1, <1>4, <1>5, <1>6, <1>7, Zenon DEF TurnTaken

\* A turn that calls tools: its ids are new, and its calls wait for their results.
LEMMA CallToolsKeeps ==
  ASSUME TranscriptInv, CallTools
  PROVE  TranscriptInv'
<1>1. PICK count \in 1..CallsPerTurn, known \in BOOLEAN, finish \in {"stop", "length"} :
        /\ history' = Append(history,
             Assistant([i \in 1..count |-> Part("call", Len(history) * CallsPerTurn + i, FALSE)]))
        /\ Observe(finish, count)
        /\ stage' = IF known THEN "tools" ELSE "unknown tool"
  BY DEF CallTools
<1> DEFINE base == Len(history) * CallsPerTurn
           ps == [i \in 1..count |-> Part("call", base + i, FALSE)]
           m == Assistant(ps)
<1>2. MayAsk /\ SendTurn /\ UNCHANGED <<arm, resent, sawImage, imaged, ended>>
  BY DEF CallTools
<1>3. /\ history \in Seq(TranscriptMessages) /\ Len(history) \in Nat /\ Len(history) > 0
      /\ stage = "run" /\ CountModelTurns = Cardinality(Spoken(history))
      /\ CallsAnswered(history, FALSE)
      /\ RewritesToolImages => NoneShown(history)
  BY <1>2, BeforeAsking
<1>4. count \in Nat /\ count >= 1 /\ count <= CallsPerTurn
      /\ base \in Nat /\ (Len(history) + 1) * CallsPerTurn = base + CallsPerTurn
  BY <1>3, CallsPerTurnAssumption, Scaled
<1>5. stage' \in InTools /\ stage' # "run" /\ stage' \notin {"forced", "done", "single", "resume"} \cup Notes
      /\ stage' \in OneRun /\ stage' \in InRun
  BY <1>1 DEF InTools, Notes, OneRun, InRun
<1> HIDE DEF base
<1>6. \A i \in 1..count :
        ps[i] \in TranscriptParts /\ ps[i].is = "call" /\ ps[i].id = base + i /\ ps[i].image = FALSE
  BY <1>4 DEF Part, TranscriptParts
<1>7. ps \in Seq(TranscriptParts) /\ DOMAIN ps = 1..count /\ Len(ps) = count
  <2>1. ps \in [1..count -> TranscriptParts]
    BY <1>6
  <2> HIDE DEF ps
  <2>2. QED
    BY <2>1, <1>4
<1>8. m.from = "assistant" /\ m.parts = ps /\ m \in TranscriptMessages
  BY <1>7 DEF Assistant, TranscriptMessages
<1>9. history' = Append(history, m)
  BY <1>1 DEF base
<1> HIDE DEF ps, m
<1>10. /\ history' \in Seq(TranscriptMessages) /\ Len(history') = Len(history) + 1
       /\ Last(history') = m /\ DOMAIN history' = DOMAIN history \cup {Len(history) + 1}
       /\ \A i \in DOMAIN history : history'[i] = history[i]
       /\ history'[Len(history) + 1] = m
  BY <1>3, <1>8, <1>9, AppendedIs
<1>11. /\ turns' = Append(turns, [finish |-> finish, calls |-> count])
       /\ attempts' = attempts + 1 /\ request' \in Requests
  BY <1>1, <1>2, SentInTurn DEF Observe, TranscriptInv
<1>12. /\ turns \in Seq(TurnRecords)
       /\ Len(turns) <= attempts /\ attempts \in Nat
       /\ Cardinality(Called(turns)) = Cardinality(Calling(history))
  BY DEF TranscriptInv, TranscriptType, TurnsCounted
<1>13. /\ turns' \in Seq(TurnRecords) /\ Len(turns) \in Nat /\ Len(turns') = Len(turns) + 1
       /\ turns' # <<>> /\ Last(turns').calls = count
       /\ Cardinality(Called(turns')) = Cardinality(Called(turns)) + 1
  <2>1. finish \in Finishes
    BY DEF Finishes, Reasons
  <2>2. QED
    BY <2>1, <1>4, <1>11, <1>12, ObservedCounts
<1>14. TranscriptType'
  <2>1. Len(history') > 0
    BY <1>3, <1>10
  <2>2. attempts' \in Nat
    BY <1>11, <1>12
  <2>3. arm' = arm /\ resent' = resent /\ sawImage' = sawImage /\ imaged' = imaged /\ ended' = ended
    BY <1>2
  <2>4. left' \in Nat
    BY <1>2, TurnIsTaken DEF TurnTaken
  <2>5. stage' \in {"single", "done", "forced"} \cup InRun \cup Notes
    BY <1>5
  <2>6. QED
    BY <1>10, <1>11, <1>13, <2>1, <2>2, <2>3, <2>4, <2>5 DEF TranscriptInv, TranscriptType
<1>15. TranscriptShape'
  <2>1. MessagesShaped(history) /\ ResultsDiffer(history) /\ ResultsBelow(history, base)
    BY DEF TranscriptInv, TranscriptShape, base
  <2>2. ShapedMessage(m)
    BY <1>6, <1>7, <1>8 DEF ShapedMessage
  <2>3. \A j \in DOMAIN m.parts : m.parts[j].is # "result"
    BY <1>6, <1>7, <1>8
  <2>4. /\ MessagesShaped(history') /\ ResultsDiffer(history') /\ ResultsBelow(history', base)
        /\ CallsAnswered(history', TRUE)
    BY <1>3, <1>8, <1>9, <2>1, <2>2, <2>3, AppendedKeeps
  <2>5. Len(history') * CallsPerTurn = base + CallsPerTurn
    BY <1>4, <1>10
  <2>6. ResultsBelow(history', Len(history') * CallsPerTurn)
    <3> SUFFICES ASSUME NEW i \in DOMAIN history', NEW j \in DOMAIN history'[i].parts,
                        history'[i].parts[j].is = "result"
                 PROVE  history'[i].parts[j].id <= Len(history') * CallsPerTurn
      BY DEF ResultsBelow
    <3>1. history'[i].parts[j].id <= base
      BY <2>4 DEF ResultsBelow
    <3>2. history'[i].parts[j].id \in Nat
      <4>1. history'[i] \in TranscriptMessages
        BY <1>10, LenProperties, ElementOfSeq
      <4>2. history'[i].parts \in Seq(TranscriptParts)
        BY <4>1 DEF TranscriptMessages
      <4>3. history'[i].parts[j] \in TranscriptParts
        BY <4>2, LenProperties, ElementOfSeq
      <4>4. QED
        BY <4>3 DEF TranscriptParts
    <3>3. QED
      BY <3>1, <3>2, <2>5, <1>4, CallsPerTurnAssumption
  <2>7. CallsAreNew(history', m)
    <3>1. \A j, l \in DOMAIN m.parts : m.parts[j].id = m.parts[l].id => j = l
      BY <1>4, <1>6, <1>7, <1>8
    <3>2. \A l \in DOMAIN m.parts : m.parts[l].id <= Len(history') * CallsPerTurn
      BY <1>4, <1>6, <1>7, <1>8, <2>5, CallsPerTurnAssumption
    <3>3. \A i \in DOMAIN history' : \A j \in DOMAIN history'[i].parts :
            history'[i].parts[j].is = "result" =>
              \A l \in DOMAIN m.parts : m.parts[l].id # history'[i].parts[j].id
      <4> SUFFICES ASSUME NEW i \in DOMAIN history', NEW j \in DOMAIN history'[i].parts,
                          history'[i].parts[j].is = "result", NEW l \in DOMAIN m.parts,
                          m.parts[l].id = history'[i].parts[j].id
                   PROVE  FALSE
        OBVIOUS
      <4>1. history'[i].parts[j].id <= base
        BY <2>4 DEF ResultsBelow
      <4>2. l \in 1..count /\ m.parts[l].id = base + l
        BY <1>6, <1>7, <1>8
      <4>3. QED
        BY <4>1, <4>2, <1>4
    <3>4. QED
      BY <3>1, <3>2, <3>3 DEF CallsAreNew
  <2>8. m.parts # <<>>
    BY <1>4, <1>7, <1>8
  <2>9. CallsAnswered(history', stage' \in InTools)
    BY <2>4, <1>5 DEF CallsAnswered
  <2>10. QED
    BY <1>5, <1>8, <1>10, <2>4, <2>6, <2>7, <2>8, <2>9 DEF TranscriptShape, InTools
<1>16. ImagesKept'
  <2>1. ImagesIn(history, imaged) /\ imaged' = imaged /\ (RewritesToolImages' <=> RewritesToolImages)
    BY <1>2 DEF TranscriptInv, ImagesKept, RewritesToolImages
  <2>2. ImagesIn(history', imaged')
    BY <1>3, <1>8, <1>9, <2>1, AppendedKeeps
  <2>3. \A j \in DOMAIN m.parts : m.parts[j].is # "result"
    BY <1>6, <1>7, <1>8
  <2>4. RewritesToolImages' => NoneShown(history')
    BY <1>3, <1>8, <1>9, <2>1, <2>3, AppendedKeeps
  <2>5. QED
    BY <2>2, <2>4 DEF ImagesKept
<1>17. TurnsCounted' /\ BudgetKept'
  <2>1. \E j \in DOMAIN m.parts : m.parts[j].is = "call"
    BY <1>4, <1>6, <1>7, <1>8
  <2>2. /\ Cardinality(Spoken(history)) \in Nat
        /\ Cardinality(Spoken(history')) = Cardinality(Spoken(history)) + 1
        /\ Cardinality(Calling(history')) = Cardinality(Calling(history)) + 1
    BY <1>3, <1>8, <1>9, <2>1, AppendedCounts
  <2>3. CountModelTurns' = Cardinality(Spoken(history'))
    BY DEF CountModelTurns, Spoken
  <2>4. TurnTaken /\ CountModelTurns' = CountModelTurns + 1
    BY <1>2, <1>3, <2>2, <2>3, TurnIsTaken
  <2>5. CountModelTurns' <= PhaseTurns /\ Len(turns') <= attempts'
    <3>1. Len(turns) + 1 <= attempts + 1
      BY <1>12, <1>13
    <3>2. QED
      BY <3>1, <1>11, <1>13, <2>4 DEF TurnTaken
  <2>6. Cardinality(Called(turns')) = Cardinality(Calling(history'))
    BY <1>12, <1>13, <2>2
  <2>7. TurnsCounted'
    BY <1>5, <2>5, <2>6 DEF TurnsCounted
  <2>8. BudgetKept'
    BY <1>2, <1>5, <2>4, Zenon DEF BudgetKept, TurnTaken
  <2>9. QED
    BY <2>7, <2>8
<1>18. LastTurnTold'
  <2>1. ended'.advice = "none"
    BY <1>2, <1>3 DEF TranscriptInv, LastTurnTold
  <2>2. Last(turns').calls > 0
    BY <1>4, <1>13
  <2>3. NoAnswerYet'
    BY <2>2 DEF NoAnswerYet
  <2>4. QED
    BY <1>5, <2>1, <2>3 DEF LastTurnTold
<1>19. QED
  BY <1>14, <1>15, <1>16, <1>17, <1>18 DEF TranscriptInv

\* Answering every call of the last message: each has its one result, and every image a
\* tool gave is in the transcript.
LEMMA AnsweredKeeps ==
  ASSUME TranscriptInv, stage \in InTools, NEW gave, Answered(gave),
         gave \subseteq {p.id : p \in PartsOf(Last(history))}
  PROVE  /\ history' \in Seq(TranscriptMessages) /\ Len(history') > 0 /\ Last(history').from = "user"
         /\ MessagesShaped(history') /\ ResultsDiffer(history')
         /\ ResultsBelow(history', Len(history') * CallsPerTurn)
         /\ CallsAnswered(history', FALSE)
         /\ NoneShown(history) /\ gave = {} => NoneShown(history')
         /\ ImagesIn(history', imaged \cup gave)
         /\ Cardinality(Spoken(history')) = Cardinality(Spoken(history))
         /\ Cardinality(Calling(history')) = Cardinality(Calling(history))
<1> DEFINE asks == Last(history).parts
           ps == [i \in DOMAIN asks |-> Part("result", asks[i].id, asks[i].id \in gave)]
           m == User(ps)
           l == Len(history)
<1>1. /\ history \in Seq(TranscriptMessages) /\ l \in Nat /\ l > 0 /\ DOMAIN history = 1..l
      /\ Last(history) = history[l] /\ l \in DOMAIN history
  <2>1. history \in Seq(TranscriptMessages) /\ l > 0
    BY DEF TranscriptInv, TranscriptType
  <2>2. l \in Nat /\ DOMAIN history = 1..l
    BY <2>1, LenProperties
  <2>3. QED
    BY <2>1, <2>2 DEF Last
<1>2. Last(history) \in TranscriptMessages
  BY <1>1, ElementOfSeq
<1>3. /\ asks \in Seq(TranscriptParts) /\ Len(asks) \in Nat /\ DOMAIN asks = 1..Len(asks)
      /\ \A i \in DOMAIN asks : asks[i] \in TranscriptParts
  <2>1. asks \in Seq(TranscriptParts)
    BY <1>2 DEF TranscriptMessages
  <2>2. QED
    BY <2>1, LenProperties, ElementOfSeq
<1>4. /\ MessagesShaped(history) /\ ResultsDiffer(history)
      /\ ResultsBelow(history, l * CallsPerTurn) /\ CallsAreNew(history, Last(history))
      /\ CallsAnswered(history, stage \in InTools) /\ asks # <<>>
  BY DEF TranscriptInv, TranscriptShape
<1> HIDE DEF asks
<1>5. \A i \in DOMAIN asks :
        ps[i] \in TranscriptParts /\ ps[i].is = "result" /\ ps[i].id = asks[i].id
          /\ (ps[i].image <=> asks[i].id \in gave)
  <2> SUFFICES ASSUME NEW i \in DOMAIN asks
               PROVE  /\ ps[i] \in TranscriptParts /\ ps[i].is = "result" /\ ps[i].id = asks[i].id
                      /\ (ps[i].image <=> asks[i].id \in gave)
    OBVIOUS
  <2>1. asks[i].id \in Nat
    BY <1>3 DEF TranscriptParts
  <2>2. PICK b \in BOOLEAN : b = (asks[i].id \in gave)
    <3>1. (asks[i].id \in gave) = TRUE \/ (asks[i].id \in gave) = FALSE
      OBVIOUS
    <3>2. QED
      BY <3>1, Zenon
  <2>3. ps[i] = Part("result", asks[i].id, b)
    BY <2>2, Zenon
  <2> HIDE DEF ps
  <2>4. /\ ps[i] \in TranscriptParts /\ ps[i].is = "result" /\ ps[i].id = asks[i].id
        /\ ps[i].image = b
    BY <2>1, <2>3 DEF Part, TranscriptParts
  <2>5. QED
    BY <2>2, <2>4
<1>6. DOMAIN ps = DOMAIN asks /\ ps \in Seq(TranscriptParts) /\ Len(ps) = Len(asks)
  <2>1. DOMAIN ps = DOMAIN asks /\ ps = [i \in 1..Len(asks) |-> ps[i]]
    BY <1>3
  <2> HIDE DEF ps
  <2>2. ps \in [1..Len(asks) -> TranscriptParts]
    BY <2>1, <1>3, <1>5
  <2>3. QED
    BY <2>1, <2>2, <1>3
<1>7. m.from = "user" /\ m.parts = ps /\ m \in TranscriptMessages
  BY <1>6 DEF User, TranscriptMessages
<1>8. history' = Append(history, m)
  BY DEF Answered, asks
<1> HIDE DEF ps, m
<1>9. /\ history' \in Seq(TranscriptMessages) /\ Len(history') = l + 1
      /\ Last(history') = m /\ DOMAIN history' = DOMAIN history \cup {l + 1}
      /\ l + 1 \notin DOMAIN history
      /\ \A i \in DOMAIN history : history'[i] = history[i]
      /\ history'[l + 1] = m
  BY <1>1, <1>7, <1>8, AppendedIs
<1>10. DOMAIN m.parts = DOMAIN asks /\ \A i \in DOMAIN asks :
         /\ m.parts[i].is = "result" /\ m.parts[i].id = asks[i].id
         /\ m.parts[i].image <=> asks[i].id \in gave
  BY <1>5, <1>6, <1>7
<1>11. MessagesShaped(history')
  <2>1. m.parts # <<>>
    <3>1. Len(asks) # 0
      BY <1>3, <1>4, EmptySeq
    <3>2. QED
      BY <3>1, <1>6, <1>7
  <2>2. ShapedMessage(m)
    BY <2>1, <1>7, <1>10 DEF ShapedMessage
  <2>3. QED
    BY <2>2, <1>1, <1>4, <1>7, <1>8, AppendedKeeps
<1>12. ResultsDiffer(history')
  <2> SUFFICES ASSUME NEW i \in DOMAIN history', NEW k \in DOMAIN history',
                      NEW j \in DOMAIN history'[i].parts, NEW o \in DOMAIN history'[k].parts,
                      history'[i].parts[j].is = "result", history'[k].parts[o].is = "result",
                      history'[i].parts[j].id = history'[k].parts[o].id
               PROVE  i = k /\ j = o
    BY DEF ResultsDiffer
  <2>1. CASE i \in DOMAIN history /\ k \in DOMAIN history
    <3>1. history'[i] = history[i] /\ history'[k] = history[k]
      BY <2>1, <1>9
    <3>2. QED
      BY <2>1, <3>1, <1>4 DEF ResultsDiffer
  <2>2. CASE i = l + 1 /\ k = l + 1
    <3>1. j \in DOMAIN asks /\ o \in DOMAIN asks /\ asks[j].id = asks[o].id
      BY <2>2, <1>9, <1>10
    <3>2. j = o
      BY <3>1, <1>4 DEF CallsAreNew, asks
    <3>3. QED
      BY <3>2, <2>2
  <2>3. CASE i \in DOMAIN history /\ k = l + 1
    <3>1. history'[i] = history[i] /\ o \in DOMAIN asks /\ asks[o].id = history[i].parts[j].id
      BY <2>3, <1>9, <1>10
    <3>2. QED
      BY <3>1, <2>3, <1>4 DEF CallsAreNew, asks
  <2>4. CASE i = l + 1 /\ k \in DOMAIN history
    <3>1. history'[k] = history[k] /\ j \in DOMAIN asks /\ asks[j].id = history[k].parts[o].id
      BY <2>4, <1>9, <1>10
    <3>2. QED
      BY <3>1, <2>4, <1>4 DEF CallsAreNew, asks
  <2>5. QED
    BY <2>1, <2>2, <2>3, <2>4, <1>9
<1>13. ResultsBelow(history', Len(history') * CallsPerTurn)
  <2> SUFFICES ASSUME NEW i \in DOMAIN history', NEW j \in DOMAIN history'[i].parts,
                      history'[i].parts[j].is = "result"
               PROVE  history'[i].parts[j].id <= Len(history') * CallsPerTurn
    BY DEF ResultsBelow
  <2>1. /\ l * CallsPerTurn \in Nat
        /\ Len(history') * CallsPerTurn = l * CallsPerTurn + CallsPerTurn /\ CallsPerTurn \in Nat
    BY <1>1, <1>9, Scaled, CallsPerTurnAssumption
  <2>2. history'[i].parts[j].id <= l * CallsPerTurn
    <3>1. CASE i \in DOMAIN history
      <4>1. history'[i] = history[i]
        BY <3>1, <1>9
      <4>2. QED
        BY <3>1, <4>1, <1>4 DEF ResultsBelow
    <3>2. CASE i = l + 1
      <4>1. j \in DOMAIN asks /\ history'[i].parts[j].id = asks[j].id
        BY <3>2, <1>9, <1>10
      <4>2. QED
        BY <4>1, <1>4 DEF CallsAreNew, asks
    <3>3. QED
      BY <3>1, <3>2, <1>9
  <2>3. history'[i].parts[j].id \in Nat
    <3>1. history'[i] \in TranscriptMessages
      BY <1>9, LenProperties, ElementOfSeq
    <3>2. history'[i].parts \in Seq(TranscriptParts)
      BY <3>1 DEF TranscriptMessages
    <3>3. history'[i].parts[j] \in TranscriptParts
      BY <3>2, LenProperties, ElementOfSeq
    <3>4. QED
      BY <3>3 DEF TranscriptParts
  <2>4. QED
    BY <2>1, <2>2, <2>3
<1>14. CallsAnswered(history', FALSE)
  <2> SUFFICES ASSUME NEW i \in DOMAIN history', NEW j \in DOMAIN history'[i].parts,
                      history'[i].parts[j].is = "call"
               PROVE  i < Len(history') /\ \E k \in DOMAIN history'[i + 1].parts :
                        history'[i + 1].parts[k].is = "result"
                          /\ history'[i + 1].parts[k].id = history'[i].parts[j].id
    BY DEF CallsAnswered
  <2>1. i \in DOMAIN history
    BY <1>9, <1>10
  <2>2. history'[i] = history[i] /\ i \in Nat /\ i <= l /\ i < Len(history')
    BY <2>1, <1>1, <1>9
  <2>3. CASE i = l
    <3>1. j \in DOMAIN asks /\ history'[i].parts[j].id = asks[j].id
      BY <2>2, <2>3, <1>1 DEF asks
    <3>2. history'[i + 1] = m /\ j \in DOMAIN m.parts
          /\ m.parts[j].is = "result" /\ m.parts[j].id = asks[j].id
      BY <3>1, <2>3, <1>9, <1>10
    <3>3. QED
      BY <3>1, <3>2, <2>2
  <2>4. CASE i < l
    <3>1. \E k \in DOMAIN history[i + 1].parts :
            history[i + 1].parts[k].is = "result" /\ history[i + 1].parts[k].id = history[i].parts[j].id
      BY <2>1, <2>2, <2>4, <1>4 DEF CallsAnswered
    <3>2. i + 1 \in DOMAIN history
      BY <2>2, <2>4, <1>1
    <3>3. history'[i + 1] = history[i + 1]
      BY <3>2, <1>9
    <3>4. QED
      BY <3>1, <3>3, <2>2
  <2>5. QED
    BY <2>2, <2>3, <2>4, <1>1
<1>15. NoneShown(history) /\ gave = {} => NoneShown(history')
  <2>1. gave = {} => \A j \in DOMAIN m.parts : ~m.parts[j].image
    BY <1>10
  <2>2. QED
    BY <2>1, <1>1, <1>7, <1>8, AppendedKeeps
<1>16. ImagesIn(history', imaged \cup gave)
  <2>1. ImagesIn(history, imaged)
    BY DEF TranscriptInv, ImagesKept
  <2>2. ImagesIn(history', imaged)
    BY <2>1, <1>1, <1>7, <1>8, AppendedKeeps
  <2>3. ASSUME NEW id \in gave
        PROVE  \E i \in DOMAIN history' : \E j \in DOMAIN history'[i].parts :
                 history'[i].parts[j].id = id /\ history'[i].parts[j].image
    <3>1. \E j \in DOMAIN asks : asks[j].id = id
      BY DEF PartsOf, ToSet, asks
    <3>2. PICK j \in DOMAIN asks : asks[j].id = id
      BY <3>1
    <3>3. j \in DOMAIN m.parts /\ m.parts[j].id = id /\ m.parts[j].image
      BY <3>2, <2>3, <1>10
    <3>4. l + 1 \in DOMAIN history' /\ history'[l + 1] = m
      BY <1>9
    <3>5. QED
      BY <3>3, <3>4
  <2>4. QED
    BY <2>2, <2>3 DEF ImagesIn
<1>17. /\ Cardinality(Spoken(history')) = Cardinality(Spoken(history))
       /\ Cardinality(Calling(history')) = Cardinality(Calling(history))
  <2>1. ~(\E j \in DOMAIN m.parts : m.parts[j].is = "call") /\ m.from # "assistant"
    BY <1>7, <1>10
  <2>2. QED
    BY <2>1, <1>1, <1>7, <1>8, AppendedCounts
<1>18. Len(history') > 0 /\ Last(history').from = "user"
  BY <1>1, <1>7, <1>9
<1>19. history' \in Seq(TranscriptMessages)
  BY <1>9
<1>20. QED
  BY <1>11, <1>12, <1>13, <1>14, <1>15, <1>16, <1>17, <1>18, <1>19, Zenon

\* RunTools and SkipTools.
LEMMA AnsweringKeeps ==
  ASSUME TranscriptInv, stage \in InTools, stage' = "run", NEW gave, Answered(gave),
         gave \subseteq {p.id : p \in PartsOf(Last(history))}, imaged' = imaged \cup gave,
         sawImage' \in BOOLEAN, RewritesToolImages /\ gave # {} => sawImage',
         UNCHANGED <<arm, left, resent, turns, attempts, request, ended>>
  PROVE  TranscriptInv'
<1>1. /\ history' \in Seq(TranscriptMessages) /\ Len(history') > 0 /\ Last(history').from = "user"
      /\ MessagesShaped(history') /\ ResultsDiffer(history')
      /\ ResultsBelow(history', Len(history') * CallsPerTurn)
      /\ CallsAnswered(history', FALSE)
      /\ NoneShown(history) /\ gave = {} => NoneShown(history')
      /\ ImagesIn(history', imaged \cup gave)
      /\ Cardinality(Spoken(history')) = Cardinality(Spoken(history))
      /\ Cardinality(Calling(history')) = Cardinality(Calling(history))
  BY AnsweredKeeps
<1>2. stage # "run" /\ stage \notin {"turns spent", "done", "forced", "single"} \cup Notes
      /\ stage' \notin InTools \cup Notes \cup {"turns spent", "done", "forced", "single"}
      /\ stage \in InRun /\ stage' \in InRun /\ stage \in OneRun /\ stage' \in OneRun
  BY DEF InTools, Notes, InRun, OneRun
<1>3. TranscriptType'
  <2>1. imaged' \subseteq Nat
    <3>1. \A p \in PartsOf(Last(history)) : p.id \in Nat
      <4>1. history \in Seq(TranscriptMessages) /\ Len(history) > 0 /\ Len(history) \in Nat
        BY LenProperties DEF TranscriptInv, TranscriptType
      <4>2. Last(history) \in TranscriptMessages
        BY <4>1, ElementOfSeq DEF Last
      <4>3. Last(history).parts \in Seq(TranscriptParts)
        BY <4>2 DEF TranscriptMessages
      <4>4. \A j \in DOMAIN Last(history).parts : Last(history).parts[j] \in TranscriptParts
        BY <4>3, LenProperties, ElementOfSeq
      <4>5. QED
        BY <4>4 DEF PartsOf, ToSet, TranscriptParts
    <3>2. imaged \subseteq Nat
      BY DEF TranscriptInv, TranscriptType
    <3>3. gave \subseteq Nat
      BY <3>1
    <3>4. QED
      BY <3>2, <3>3
  <2>2. QED
    BY <2>1, <1>1, <1>2 DEF TranscriptInv, TranscriptType
<1>4. TranscriptShape'
  <2>1. CallsAnswered(history', stage' \in InTools)
    BY <1>1, <1>2 DEF CallsAnswered
  <2>2. QED
    BY <2>1, <1>1, <1>2 DEF TranscriptShape
<1>5. ImagesKept'
  <2>1. RewritesToolImages' <=> RewritesToolImages
    BY DEF RewritesToolImages
  <2>2. RewritesToolImages => NoneShown(history)
    BY <1>2 DEF TranscriptInv, ImagesKept
  <2>3. QED
    BY <2>1, <2>2, <1>1 DEF ImagesKept
<1>6. TurnsCounted' /\ BudgetKept'
  <2>1. CountModelTurns' = Cardinality(Spoken(history')) /\ CountModelTurns = Cardinality(Spoken(history))
    BY DEF CountModelTurns, Spoken
  <2>2. CountModelTurns' = CountModelTurns
    BY <2>1, <1>1
  <2>3. TurnsCounted'
    BY <2>2, <1>1, <1>2 DEF TranscriptInv, TurnsCounted
  <2>4. MostSent' = MostSent
    BY DEF MostSent
  <2>5. stage' \notin {"resume", "single"} \cup Notes
    BY <1>2
  <2>6. BudgetKept'
    BY <2>2, <2>4, <2>5, <1>2, Zenon DEF TranscriptInv, BudgetKept
  <2>7. QED
    BY <2>3, <2>6
<1>7. LastTurnTold'
  <2>1. NoAnswerYet /\ ended.advice = "none"
    BY <1>2 DEF TranscriptInv, LastTurnTold
  <2>2. NoAnswerYet'
    BY <2>1 DEF NoAnswerYet
  <2>3. QED
    BY <2>1, <2>2, <1>2 DEF LastTurnTold
<1>8. QED
  BY <1>3, <1>4, <1>5, <1>6, <1>7 DEF TranscriptInv

\* A bound on the ids of the results may be raised.
LEMMA BelowMore ==
  ASSUME NEW h \in Seq(TranscriptMessages), NEW a \in Nat, NEW b \in Nat, a <= b, ResultsBelow(h, a)
  PROVE  ResultsBelow(h, b)
<1> SUFFICES ASSUME NEW i \in DOMAIN h, NEW j \in DOMAIN h[i].parts, h[i].parts[j].is = "result"
             PROVE  h[i].parts[j].id <= b
  BY DEF ResultsBelow
<1>1. h[i].parts[j].id <= a
  BY DEF ResultsBelow
<1>2. h[i].parts[j].id \in Nat
  <2>1. h[i] \in TranscriptMessages
    BY LenProperties, ElementOfSeq
  <2>2. h[i].parts \in Seq(TranscriptParts)
    BY <2>1 DEF TranscriptMessages
  <2>3. h[i].parts[j] \in TranscriptParts
    BY <2>2, LenProperties, ElementOfSeq
  <2>4. QED
    BY <2>3 DEF TranscriptParts
<1>3. QED
  BY <1>1, <1>2

\* How a phase ends, and what it then says.
Endings == [how : {"no", "answer", "empty", "failed"}, advice : {"none", "budget", "retry"}]

\* The advice of an empty answer is true of the turn reported last.
LEMMA EmptyAnswerIs ==
  ASSUME NEW noted, noted # <<>>, EmptyAnswer(noted)
  PROVE  /\ stage' = "done" /\ ended' \in Endings
         /\ ended'.advice = "budget" => IsOutputLimit(Last(noted).finish)
<1> DEFINE advice == IF IsOutputLimit(LastFinishReason(noted)) THEN "budget" ELSE "retry"
<1>1. stage' = "done" /\ ended' = [how |-> "empty", advice |-> advice]
  BY DEF EmptyAnswer, Return
<1>2. advice = "budget" => IsOutputLimit(Last(noted).finish)
  BY DEF LastFinishReason
<1>3. advice \in {"none", "budget", "retry"}
  OBVIOUS
<1> HIDE DEF advice
<1>4. QED
  BY <1>1, <1>2, <1>3 DEF Endings

\* A phase that wrote its answer, or failed, advises nothing.
LEMMA ReturnIs ==
  ASSUME NEW how \in {"answer", "failed"}, Return(how, "none")
  PROVE  stage' = "done" /\ ended' \in Endings /\ ended'.advice = "none"
  BY DEF Return, Endings

\* What the log holds after a completion that came back.
LEMMA ObservedIs ==
  ASSUME TranscriptType, NEW finish \in Finishes, NEW n \in Nat, Observe(finish, n)
  PROVE  /\ turns' \in Seq(TurnRecords) /\ Len(turns) \in Nat /\ Len(turns') = Len(turns) + 1
         /\ turns' # <<>> /\ Last(turns').calls = n /\ Last(turns').finish = finish
         /\ Cardinality(Called(turns)) \in Nat
         /\ n > 0 => Cardinality(Called(turns')) = Cardinality(Called(turns)) + 1
         /\ n = 0 => Cardinality(Called(turns')) = Cardinality(Called(turns))
<1>1. turns' = Append(turns, [finish |-> finish, calls |-> n]) /\ turns \in Seq(TurnRecords)
  BY DEF Observe, TranscriptType
<1>2. QED
  BY <1>1, ObservedCounts

\* A completion without tool calls, whatever it says: the phase ends, one turn later.
LEMMA ConcludesIs ==
  ASSUME TranscriptType, Concludes
  PROVE  /\ turns' \in Seq(TurnRecords) /\ Len(turns) \in Nat /\ Len(turns') \in Nat
         /\ Len(turns') <= Len(turns) + 1
         /\ Cardinality(Called(turns')) = Cardinality(Called(turns))
         /\ stage' = "done" /\ ended' \in Endings
         /\ ended'.advice = "budget" => IsOutputLimit(Last(turns').finish)
<1>1. turns \in Seq(TurnRecords) /\ Len(turns) \in Nat
  BY LenProperties DEF TranscriptType
<1>2. ASSUME NEW finish \in Reasons, Observe(finish, 0)
      PROVE  /\ turns' \in Seq(TurnRecords) /\ Len(turns') = Len(turns) + 1 /\ turns' # <<>>
             /\ Cardinality(Called(turns')) = Cardinality(Called(turns))
  <2>1. finish \in Finishes /\ 0 \in Nat
    BY DEF Finishes
  <2>2. QED
    BY <2>1, <1>2, ObservedIs
<1>3. CASE \E finish \in Reasons : Observe(finish, 0) /\ Return("answer", "none")
  <2>1. stage' = "done" /\ ended' \in Endings /\ ended'.advice = "none"
    BY <1>3, ReturnIs
  <2>2. QED
    BY <2>1, <1>1, <1>2, <1>3
<1>4. CASE \E finish \in Reasons : Observe(finish, 0) /\ EmptyAnswer(turns')
  <2>1. turns' # <<>> /\ EmptyAnswer(turns')
    BY <1>2, <1>4
  <2>2. /\ stage' = "done" /\ ended' \in Endings
        /\ ended'.advice = "budget" => IsOutputLimit(Last(turns').finish)
    BY <2>1, EmptyAnswerIs
  <2>3. QED
    BY <2>2, <1>1, <1>2, <1>4
<1>5. CASE Return("failed", "none") /\ UNCHANGED turns
  <2>1. stage' = "done" /\ ended' \in Endings /\ ended'.advice = "none"
    BY <1>5, ReturnIs
  <2>2. QED
    BY <2>1, <1>1, <1>5
<1>6. QED
  BY <1>3, <1>4, <1>5 DEF Concludes

\* What is left to show of a step that ends the phase with its transcript as it is.
LEMMA DoneKeeps ==
  ASSUME TranscriptInv, stage \notin InTools, stage' = "done",
         UNCHANGED <<arm, history, resent, sawImage, imaged>>, left' \in Nat,
         turns' \in Seq(TurnRecords), request' \in Requests, ended' \in Endings, attempts' \in Nat,
         attempts' <= MostSent, Len(turns') <= attempts',
         Cardinality(Called(turns')) = Cardinality(Called(turns)),
         ended'.advice = "budget" => IsOutputLimit(Last(turns').finish)
  PROVE  TranscriptInv'
<1>1. stage' \notin InTools \cup InRun \cup OneRun \cup Notes \cup {"forced", "single"}
  BY DEF InTools, InRun, OneRun, Notes
<1>2. TranscriptType'
  BY DEF TranscriptInv, TranscriptType, Endings
<1>3. TranscriptShape'
  <2>1. CallsAnswered(history, FALSE)
    BY Zenon DEF TranscriptInv, TranscriptShape, CallsAnswered
  <2>2. CallsAnswered(history', stage' \in InTools)
    <3>1. history' = history
      OBVIOUS
    <3>2. CallsAnswered(history', FALSE)
      BY <2>1, <3>1
    <3>3. QED
      BY <3>2 DEF CallsAnswered
  <2>3. QED
    BY <2>2, <1>1 DEF TranscriptInv, TranscriptShape, InRun, OneRun, InTools, Notes
<1>4. ImagesKept'
  BY DEF TranscriptInv, ImagesKept
<1>5. TurnsCounted' /\ BudgetKept'
  <2>1. CountModelTurns' = CountModelTurns
    BY DEF CountModelTurns
  <2>2. TurnsCounted'
    BY <2>1, <1>1 DEF TranscriptInv, TurnsCounted
  <2>3. MostSent' = MostSent
    BY DEF MostSent
  <2>4. stage' \notin {"run", "resume"}
    OBVIOUS
  <2>5. BudgetKept'
    BY <2>3, <2>4, <1>1, Zenon DEF BudgetKept
  <2>6. QED
    BY <2>2, <2>5
<1>6. LastTurnTold'
  BY <1>1 DEF LastTurnTold
<1>7. QED
  BY <1>2, <1>3, <1>4, <1>5, <1>6 DEF TranscriptInv

\* A turn that wrote nothing, whether or not the transcript has its message.
LEMMA WritesNothingKeeps ==
  ASSUME TranscriptInv, WritesNothing
  PROVE  TranscriptInv'
<1>1. /\ \E finish \in Finishes :
           Observe(finish, 0) /\ (stage' = "cut off" => IsOutputLimit(finish))
      /\ UNCHANGED history \/ history' = Append(history, Assistant(<<>>))
      /\ \/ stage' \in {"stopped", "cut off"} /\ ended' = ended
         \/ EmptyAnswer(turns')
  <2>1. PICK cause \in {"stopped", "cut off"} :
          /\ \E finish \in IF cause = "cut off" THEN {"length", "MAX_TOKENS"} ELSE Accepted :
               Observe(finish, 0)
          /\ \/ history' = Append(history, Assistant(<<>>))
             \/ cause = "cut off" /\ UNCHANGED history
          /\ IF TranscriptHasToolResults THEN stage' = cause /\ UNCHANGED ended
             ELSE EmptyAnswer(turns')
    BY DEF WritesNothing
  <2>2. \E finish \in Finishes :
          Observe(finish, 0) /\ (stage' = "cut off" => IsOutputLimit(finish))
    <3>1. PICK finish \in IF cause = "cut off" THEN {"length", "MAX_TOKENS"} ELSE Accepted :
            Observe(finish, 0)
      BY <2>1
    <3>2. finish \in Finishes /\ (cause = "cut off" => IsOutputLimit(finish))
      BY DEF Finishes, Reasons, Accepted, IsOutputLimit
    <3>3. stage' = "cut off" => cause = "cut off"
      BY <2>1 DEF EmptyAnswer, Return
    <3>4. QED
      BY <3>1, <3>2, <3>3
  <2>3. \/ stage' \in {"stopped", "cut off"} /\ ended' = ended
        \/ EmptyAnswer(turns')
    BY <2>1
  <2>4. QED
    BY <2>1, <2>2, <2>3
<1>2. MayAsk /\ SendTurn /\ UNCHANGED <<arm, resent, sawImage, imaged>>
  BY DEF WritesNothing
<1>3. /\ history \in Seq(TranscriptMessages) /\ Len(history) \in Nat /\ Len(history) > 0
      /\ stage = "run" /\ CountModelTurns = Cardinality(Spoken(history))
      /\ CallsAnswered(history, FALSE)
      /\ RewritesToolImages => NoneShown(history)
      /\ TurnTaken /\ Cardinality(Spoken(history)) \in Nat
      /\ Cardinality(Spoken(history)) + 1 <= PhaseTurns
  BY <1>2, BeforeAsking, TurnIsTaken DEF TurnTaken
<1>4. TranscriptType
  BY DEF TranscriptInv
<1>5. request' \in Requests /\ attempts \in Nat /\ attempts' = attempts + 1
  BY <1>2, <1>4, SentInTurn
<1>6. /\ turns' \in Seq(TurnRecords) /\ Len(turns) \in Nat /\ Len(turns') = Len(turns) + 1
      /\ turns' # <<>> /\ Last(turns').calls = 0
      /\ stage' = "cut off" => IsOutputLimit(Last(turns').finish)
      /\ Cardinality(Called(turns')) = Cardinality(Called(turns))
  <2>1. PICK finish \in Finishes :
          Observe(finish, 0) /\ (stage' = "cut off" => IsOutputLimit(finish))
    BY <1>1
  <2>2. 0 \in Nat
    OBVIOUS
  <2>3. QED
    BY <2>1, <2>2, <1>4, ObservedIs
<1>7. \/ stage' \in {"stopped", "cut off"} /\ ended' = ended
      \/ /\ stage' = "done" /\ ended' \in Endings
         /\ ended'.advice = "budget" => IsOutputLimit(Last(turns').finish)
  BY <1>1, <1>6, EmptyAnswerIs
<1>8. stage' \notin InTools \cup InRun \cup OneRun \cup {"forced", "single", "turns spent", "run", "resume"}
      /\ stage' \in {"done"} \cup Notes
  BY <1>7 DEF InTools, InRun, OneRun, Notes
<1>9. /\ MessagesShaped(history) /\ ResultsDiffer(history)
      /\ ResultsBelow(history, Len(history) * CallsPerTurn) /\ ImagesIn(history, imaged)
  BY DEF TranscriptInv, TranscriptShape, ImagesKept
<1>10. /\ history' \in Seq(TranscriptMessages) /\ Len(history') > 0
       /\ MessagesShaped(history') /\ ResultsDiffer(history')
       /\ ResultsBelow(history', Len(history') * CallsPerTurn)
       /\ CallsAnswered(history', FALSE) /\ ImagesIn(history', imaged)
       /\ NoneShown(history) => NoneShown(history')
       /\ Cardinality(Spoken(history')) <= PhaseTurns
       /\ Cardinality(Calling(history')) = Cardinality(Calling(history))
  <2>1. CASE UNCHANGED history
    <3>1. Cardinality(Spoken(history)) <= PhaseTurns
      BY <1>3, PhaseTurnsAssumption
    <3>2. history' = history
      BY <2>1
    <3>3. QED
      BY <3>1, <3>2, <1>3, <1>9
  <2>2. CASE history' = Append(history, Assistant(<<>>))
    <3> DEFINE m == Assistant(<<>>)
    <3>0. <<>> \in Seq(TranscriptParts) /\ \A j \in DOMAIN <<>> : FALSE
      BY EmptySeq, LenProperties
    <3>1. m \in TranscriptMessages /\ m.from = "assistant" /\ \A j \in DOMAIN m.parts : FALSE
      BY <3>0 DEF Assistant, TranscriptMessages
    <3> HIDE DEF m
    <3>2. history' = Append(history, m)
      BY <2>2 DEF m
    <3>3. ShapedMessage(m)
      BY <3>1 DEF ShapedMessage
    <3>4. /\ MessagesShaped(history') /\ ResultsDiffer(history')
          /\ ResultsBelow(history', Len(history) * CallsPerTurn)
          /\ CallsAnswered(history', FALSE) /\ ImagesIn(history', imaged)
          /\ NoneShown(history) => NoneShown(history')
      BY <3>1, <3>2, <3>3, <1>3, <1>9, AppendedKeeps
    <3>5. history' \in Seq(TranscriptMessages) /\ Len(history') = Len(history) + 1
      BY <3>1, <3>2, <1>3, AppendedIs
    <3>6. ResultsBelow(history', Len(history') * CallsPerTurn)
      <4>1. /\ Len(history) * CallsPerTurn \in Nat /\ Len(history') * CallsPerTurn \in Nat
            /\ Len(history) * CallsPerTurn <= Len(history') * CallsPerTurn
        <5>1. Len(history) + 1 \in Nat /\ Len(history) <= Len(history) + 1
          BY <1>3
        <5>2. QED
          BY <5>1, <3>5, <1>3, Scaled
      <4>2. QED
        BY <4>1, <3>4, <3>5, BelowMore
    <3>7. /\ Cardinality(Spoken(history')) = Cardinality(Spoken(history)) + 1
          /\ Cardinality(Calling(history')) = Cardinality(Calling(history))
      BY <3>1, <3>2, <1>3, AppendedCounts
    <3>8. Len(history') > 0 /\ Cardinality(Spoken(history')) <= PhaseTurns
      BY <3>5, <3>7, <1>3
    <3>9. QED
      BY <3>4, <3>5, <3>6, <3>7, <3>8, Zenon
  <2>3. QED
    BY <2>1, <2>2, <1>1
<1>11. TranscriptType'
  <2>1. ended' \in Endings
    BY <1>7 DEF TranscriptInv, TranscriptType, Endings
  <2>2. attempts' \in Nat /\ left' \in Nat
    BY <1>3, <1>5 DEF TurnTaken
  <2>3. QED
    BY <2>1, <2>2, <1>2, <1>5, <1>6, <1>8, <1>10 DEF TranscriptInv, TranscriptType, Endings
<1>12. TranscriptShape'
  <2>1. CallsAnswered(history', stage' \in InTools)
    BY <1>8, <1>10 DEF CallsAnswered
  <2>2. QED
    BY <2>1, <1>8, <1>10 DEF TranscriptShape
<1>13. ImagesKept'
  <2>1. RewritesToolImages' <=> RewritesToolImages
    BY <1>2 DEF RewritesToolImages
  <2>2. QED
    BY <2>1, <1>2, <1>3, <1>10 DEF ImagesKept
<1>14. TurnsCounted' /\ BudgetKept'
  <2>1. CountModelTurns' = Cardinality(Spoken(history'))
    BY DEF CountModelTurns, Spoken
  <2>2. Len(turns) <= attempts /\ Cardinality(Called(turns)) = Cardinality(Calling(history))
    BY DEF TranscriptInv, TurnsCounted
  <2>3. Len(turns') <= attempts'
    <3>1. Len(turns) \in Nat /\ Len(turns') = Len(turns) + 1
      BY <1>6
    <3>2. attempts \in Nat /\ attempts' = attempts + 1
      BY <1>5
    <3>3. QED
      BY <3>1, <3>2, <2>2
  <2>4. TurnsCounted'
    BY <2>1, <2>2, <2>3, <1>6, <1>8, <1>10 DEF TurnsCounted
  <2>5. BudgetKept'
    BY <1>2, <1>3, <1>8, Zenon DEF BudgetKept, TurnTaken
  <2>6. QED
    BY <2>4, <2>5
<1>15. LastTurnTold'
  <2>1. ended.advice = "none"
    BY <1>3 DEF TranscriptInv, LastTurnTold
  <2>2. stage' \in {"stopped", "cut off"} => NoteIsTrue(stage)'
    BY <1>6 DEF NoteIsTrue
  <2>3. QED
    BY <2>1, <2>2, <1>7, <1>8 DEF LastTurnTold, Notes
<1>16. QED
  BY <1>11, <1>12, <1>13, <1>14, <1>15 DEF TranscriptInv

\* What is left to show of a step between two turns, of a run or the next.
LEMMA BetweenTurnsKeeps ==
  ASSUME TranscriptInv, stage \in {"run", "resume"}, stage' \in {"run", "resume", "turns spent"},
         history' \in Seq(TranscriptMessages), Len(history') > 0, Last(history').from = "user",
         MessagesShaped(history'), ResultsDiffer(history'),
         ResultsBelow(history', Len(history') * CallsPerTurn),
         CallsAnswered(history', FALSE), ImagesIn(history', imaged),
         Cardinality(Spoken(history')) = Cardinality(Spoken(history)),
         Cardinality(Calling(history')) = Cardinality(Calling(history)),
         RewritesToolImages =>
           stage' = "turns spent" \/ (stage' = "run" /\ sawImage') \/ NoneShown(history'),
         stage' = "turns spent" => CountModelTurns + resent' = PhaseTurns, BudgetKept',
         sawImage' \in BOOLEAN, left' \in Nat, resent' \in 0..MalformedResends,
         UNCHANGED <<arm, imaged, turns, attempts, request, ended>>
  PROVE  TranscriptInv'
<1>1. /\ stage \in InRun /\ stage' \in InRun /\ stage # "done"
      /\ stage' \notin InTools \cup {"stopped", "cut off", "done", "forced", "single"}
  BY DEF InTools, InRun, OneRun
<1>2. TranscriptType'
  BY <1>1 DEF TranscriptInv, TranscriptType
<1>3. TranscriptShape'
  <2>1. CallsAnswered(history', stage' \in InTools)
    BY <1>1 DEF CallsAnswered
  <2>2. QED
    BY <2>1, <1>1 DEF TranscriptShape
<1>4. ImagesKept'
  <2>1. RewritesToolImages' <=> RewritesToolImages
    BY DEF RewritesToolImages
  <2>2. QED
    BY <2>1 DEF ImagesKept
<1>5. TurnsCounted'
  <2>1. CountModelTurns' = CountModelTurns
    BY DEF CountModelTurns, Spoken
  <2>2. QED
    BY <2>1, <1>1 DEF TranscriptInv, TurnsCounted
<1>6. LastTurnTold'
  <2>1. NoAnswerYet /\ ended.advice = "none"
    BY <1>1 DEF TranscriptInv, LastTurnTold
  <2>2. NoAnswerYet'
    BY <2>1 DEF NoAnswerYet
  <2>3. CountModelTurns' = CountModelTurns
    BY DEF CountModelTurns, Spoken
  <2>4. stage' = "turns spent" => NoteIsTrue(stage)'
    BY <2>2, <2>3 DEF NoteIsTrue, NoAnswerYet
  <2>5. QED
    BY <2>1, <2>2, <2>4, <1>1 DEF LastTurnTold, Notes
<1>7. QED
  BY <1>2, <1>3, <1>4, <1>5, <1>6 DEF TranscriptInv

\* The transcript as it is meets that of any step to one of these stages.
LEMMA UnchangedKeeps ==
  ASSUME TranscriptInv, UNCHANGED history, stage \notin InTools
  PROVE  /\ history' \in Seq(TranscriptMessages) /\ Len(history') > 0
         /\ MessagesShaped(history') /\ ResultsDiffer(history')
         /\ ResultsBelow(history', Len(history') * CallsPerTurn)
         /\ CallsAnswered(history', FALSE) /\ ImagesIn(history', imaged)
         /\ Cardinality(Spoken(history')) = Cardinality(Spoken(history))
         /\ Cardinality(Calling(history')) = Cardinality(Calling(history))
<1>1. history' = history
  OBVIOUS
<1>2. CallsAnswered(history, FALSE)
  BY Zenon DEF TranscriptInv, TranscriptShape, CallsAnswered
<1>3. QED
  BY <1>1, <1>2 DEF TranscriptInv, TranscriptType, TranscriptShape, ImagesKept

\* The numbers of a run that begins, that has no turn left, and that is cut by a break.
LEMMA BudgetsAre ==
  ASSUME NEW n \in Nat, n <= PhaseTurns, NEW r \in 0..MalformedResends, NEW a \in Nat
  PROVE  /\ PhaseTurns - n \in Nat /\ (PhaseTurns - n) + n + 0 = PhaseTurns
         /\ Sends(n) + 0 = Sends(n) /\ Sends(n) <= Sends(PhaseTurns) /\ Sends(n) \in Nat
         /\ Sends(PhaseTurns) \in Nat
         /\ PhaseTurns - n = 0 => n + 0 = PhaseTurns
         /\ 0 + n + r = PhaseTurns /\ a <= Sends(n) + r
              => n + r = PhaseTurns /\ a <= Sends(PhaseTurns)
         /\ a + MalformedResends <= Sends(n) + r => a <= Sends(n)
         /\ a <= Sends(n) => a <= Sends(PhaseTurns)
  BY PhaseTurnsAssumption DEF MalformedResends, Sends

\* What the invariant has of the numbers of a phase.
LEMMA NumbersAre ==
  ASSUME TranscriptInv
  PROVE  /\ CountModelTurns \in Nat /\ CountModelTurns <= PhaseTurns /\ left \in Nat
         /\ resent \in 0..MalformedResends /\ attempts \in Nat /\ attempts <= MostSent
  BY SpokenIsNat
     DEF TranscriptInv, TranscriptType, TurnsCounted, BudgetKept, CountModelTurns, Spoken

\* A run begins.
LEMMA BeginRunKeeps ==
  ASSUME TranscriptInv, BeginRun
  PROVE  TranscriptInv'
<1>1. /\ stage = "resume" /\ stage' \in {"run", "turns spent"} /\ sawImage' = FALSE
      /\ left' = PhaseTurns - CountModelTurns /\ resent' = 0
      /\ stage' = "turns spent" => left' = 0
      /\ UNCHANGED <<history, arm, imaged, turns, attempts, request, ended>>
  BY DEF BeginRun
<1>2. stage \notin InTools /\ history' = history
  BY <1>1 DEF InTools
<1>3. RewritesToolImages => NoneShown(history')
  BY <1>1, <1>2 DEF TranscriptInv, ImagesKept
<1>4. Last(history').from = "user"
  BY <1>1, <1>2 DEF TranscriptInv, TranscriptShape
<1> DEFINE n == CountModelTurns
<1>5. n \in Nat /\ n <= PhaseTurns /\ attempts \in Nat /\ resent \in 0..MalformedResends
  BY NumbersAre
<1>6. /\ left' \in Nat /\ left' + n + resent' = PhaseTurns
      /\ Sends(n) + resent' = Sends(n) /\ Sends(n) <= Sends(PhaseTurns)
      /\ attempts <= Sends(n) => attempts <= Sends(PhaseTurns)
      /\ stage' = "turns spent" => n + resent' = PhaseTurns
  <2> HIDE DEF n
  <2>1. left' = PhaseTurns - n
    BY <1>1 DEF n
  <2>2. QED
    BY <2>1, <1>1, <1>5, BudgetsAre
<1>7. BudgetKept'
  <2>1. CountModelTurns' = CountModelTurns /\ MostSent' = MostSent /\ attempts' = attempts
    BY <1>1 DEF CountModelTurns, MostSent
  <2>2. /\ stage \in InRun /\ stage' \notin InTools \cup {"resume", "single"}
        /\ ~(stage' = "run" /\ sawImage')
    BY <1>1 DEF InRun, InTools
  <2>3. attempts <= Sends(n) /\ arm.tools /\ attempts <= MostSent
    BY <1>1, <2>2 DEF TranscriptInv, BudgetKept
  <2>4. arm' = arm
    BY <1>1
  <2>5. QED
    BY <2>1, <2>2, <2>3, <2>4, <1>6, Zenon DEF BudgetKept
<1>8. resent' \in 0..MalformedResends
  <2>1. resent' = 0
    BY <1>1
  <2>2. QED
    BY <2>1 DEF MalformedResends
<1>9. QED
  BY <1>1, <1>2, <1>3, <1>4, <1>6, <1>7, <1>8, UnchangedKeeps, BetweenTurnsKeeps

\* The turns are spent.
LEMMA TurnsSpentKeeps ==
  ASSUME TranscriptInv, TurnsSpent
  PROVE  TranscriptInv'
<1>1. /\ stage = "run" /\ stage' = "turns spent" /\ left = 0
      /\ UNCHANGED <<history, arm, left, resent, sawImage, imaged, turns, attempts, request, ended>>
  BY DEF TurnsSpent
<1>2. stage \notin InTools /\ history' = history
  BY <1>1 DEF InTools
<1>3. sawImage' \in BOOLEAN /\ left' \in Nat /\ resent' \in 0..MalformedResends
  BY <1>1 DEF TranscriptInv, TranscriptType
<1>4. Last(history').from = "user"
  BY <1>1, <1>2 DEF TranscriptInv, TranscriptShape
<1> DEFINE n == CountModelTurns
<1>5. n \in Nat /\ n <= PhaseTurns /\ attempts \in Nat /\ resent \in 0..MalformedResends
  BY NumbersAre
<1>6. stage \in InRun /\ stage \in OneRun
  BY <1>1 DEF InRun, OneRun
<1>7. n + resent = PhaseTurns /\ attempts <= Sends(PhaseTurns)
  <2>1. 0 + n + resent = PhaseTurns /\ attempts <= Sends(n) + resent
    BY <1>1, <1>6 DEF TranscriptInv, BudgetKept
  <2> HIDE DEF n
  <2>2. QED
    BY <2>1, <1>5, BudgetsAre
<1>8. BudgetKept'
  <2>1. MostSent' = MostSent /\ arm.tools /\ attempts <= MostSent
    BY <1>1, <1>6 DEF TranscriptInv, BudgetKept, MostSent
  <2>2. stage' \notin OneRun \cup InTools \cup {"run", "resume", "single"}
    BY <1>1 DEF OneRun, InTools
  <2>3. arm' = arm /\ attempts' = attempts
    BY <1>1
  <2>4. QED
    BY <2>1, <2>2, <2>3, <1>7, Zenon DEF BudgetKept
<1>9. QED
  BY <1>1, <1>2, <1>3, <1>4, <1>7, <1>8, UnchangedKeeps, BetweenTurnsKeeps

\* The transcript is rewritten at an image break, and resumed.
LEMMA RewriteAndResumeKeeps ==
  ASSUME TranscriptInv, RewriteAndResume
  PROVE  TranscriptInv'
<1>1. /\ stage = "run" /\ stage' = "resume" /\ history' = RewriteToolImageHistory /\ sawImage
      /\ UNCHANGED <<arm, left, resent, sawImage, imaged, turns, attempts, request, ended>>
  BY DEF RewriteAndResume
<1>2. history \in Seq(TranscriptMessages) /\ Len(history) > 0 /\ Len(history) \in Nat
      /\ sawImage' \in BOOLEAN /\ left' \in Nat /\ resent' \in 0..MalformedResends
  BY <1>1, LenProperties DEF TranscriptInv, TranscriptType
<1>3. PICK to : IsRewritten(history', to)
  BY <1>1, <1>2, Rewriting
<1>4. history' \in Seq(TranscriptMessages) /\ Len(history) <= Len(history') /\ Len(history') \in Nat
  BY <1>3, LenProperties DEF IsRewritten
<1>5. /\ MessagesShaped(history) /\ ResultsDiffer(history)
      /\ ResultsBelow(history, Len(history) * CallsPerTurn)
      /\ CallsAnswered(history, FALSE) /\ ImagesIn(history, imaged)
      /\ Last(history).from = "user"
  <2>1. stage \notin InTools
    BY <1>1 DEF InTools
  <2>2. CallsAnswered(history, FALSE)
    BY <2>1, Zenon DEF TranscriptInv, TranscriptShape, CallsAnswered
  <2>3. QED
    BY <1>1, <2>2 DEF TranscriptInv, TranscriptShape, ImagesKept
<1>6. /\ MessagesShaped(history') /\ ResultsDiffer(history')
      /\ ResultsBelow(history', Len(history) * CallsPerTurn)
      /\ CallsAnswered(history', FALSE) /\ ImagesIn(history', imaged) /\ NoneShown(history')
      /\ Last(history').from = "user"
  BY <1>2, <1>3, <1>5, RewrittenKeeps
<1>7. ResultsBelow(history', Len(history') * CallsPerTurn)
  <2>1. /\ Len(history) * CallsPerTurn \in Nat /\ Len(history') * CallsPerTurn \in Nat
        /\ Len(history) * CallsPerTurn <= Len(history') * CallsPerTurn
    BY <1>2, <1>4, Scaled
  <2>2. QED
    BY <2>1, <1>4, <1>6, BelowMore
<1>8. /\ Cardinality(Spoken(history')) = Cardinality(Spoken(history))
      /\ Cardinality(Calling(history')) = Cardinality(Calling(history))
  BY <1>2, <1>3, RewrittenCounts
<1>9. Len(history') > 0
  BY <1>2, <1>4
<1>10. BudgetKept'
  <2> DEFINE n == CountModelTurns
  <2>1. CountModelTurns' = n
    BY <1>8 DEF CountModelTurns, Spoken
  <2>2. n \in Nat /\ n <= PhaseTurns /\ attempts \in Nat /\ resent \in 0..MalformedResends
    BY NumbersAre
  <2>3. stage \in InRun
    BY <1>1 DEF InRun, OneRun
  <2>4. attempts + MalformedResends <= Sends(n) + resent /\ arm.tools /\ attempts <= MostSent
    BY <1>1, <2>3 DEF TranscriptInv, BudgetKept
  <2> HIDE DEF n
  <2>5. attempts <= Sends(n)
    BY <2>2, <2>4, BudgetsAre
  <2>6. MostSent' = MostSent /\ arm' = arm /\ attempts' = attempts
    BY <1>1 DEF MostSent
  <2>7. stage' \notin OneRun \cup InTools \cup Notes \cup {"run", "single"}
    BY <1>1 DEF OneRun, InTools, Notes
  <2>8. QED
    BY <2>1, <2>4, <2>5, <2>6, <2>7, Zenon DEF BudgetKept
<1>11. stage' # "turns spent"
  BY <1>1
<1>12. QED
  BY <1>1, <1>2, <1>4, <1>6, <1>7, <1>8, <1>9, <1>10, <1>11, BetweenTurnsKeeps

\* The tools of a turn run.
LEMMA RunToolsKeeps ==
  ASSUME TranscriptInv, RunTools
  PROVE  TranscriptInv'
<1>1. PICK gave \in SUBSET {p.id : p \in PartsOf(Last(history))} :
        /\ Answered(gave)
        /\ imaged' = imaged \cup gave
        /\ sawImage' = (sawImage \/ (RewritesToolImages /\ gave # {}))
  BY DEF RunTools
<1>2. stage \in InTools /\ stage' = "run"
      /\ UNCHANGED <<arm, left, resent, turns, attempts, request, ended>>
  BY DEF RunTools, InTools
<1>3. sawImage' \in BOOLEAN /\ (RewritesToolImages /\ gave # {} => sawImage')
  BY <1>1, Zenon DEF TranscriptInv, TranscriptType
<1>4. QED
  BY <1>1, <1>2, <1>3, AnsweringKeeps

\* None of them runs, for one of them is unknown.
LEMMA SkipToolsKeeps ==
  ASSUME TranscriptInv, SkipTools
  PROVE  TranscriptInv'
<1>1. /\ stage \in InTools /\ stage' = "run" /\ Answered({})
      /\ UNCHANGED <<arm, left, resent, sawImage, imaged, turns, attempts, request, ended>>
  BY DEF SkipTools, InTools
<1>2. sawImage' \in BOOLEAN /\ imaged' = imaged \cup {}
  BY <1>1 DEF TranscriptInv, TranscriptType
<1>3. {} \subseteq {p.id : p \in PartsOf(Last(history))}
  OBVIOUS
<1>4. QED
  BY <1>1, <1>2, <1>3, AnsweringKeeps

\* A turn that writes the answer, or fails.
LEMMA WritesAnswerKeeps ==
  ASSUME TranscriptInv, WritesAnswer
  PROVE  TranscriptInv'
<1>1. MayAsk /\ SendTurn /\ UNCHANGED <<arm, history, resent, sawImage, imaged>> /\ Concludes
  BY DEF WritesAnswer, Concludes, Accepted
<1>2. stage \notin InTools /\ left' \in Nat /\ attempts' <= MostSent
  BY <1>1, BeforeAsking, TurnIsTaken DEF InTools, TurnTaken
<1>3. TranscriptType
  BY DEF TranscriptInv
<1>4. request' \in Requests /\ attempts \in Nat /\ attempts' = attempts + 1
  BY <1>1, <1>3, SentInTurn
<1>5. /\ turns' \in Seq(TurnRecords) /\ Len(turns) \in Nat /\ Len(turns') \in Nat
      /\ Len(turns') <= Len(turns) + 1
      /\ Cardinality(Called(turns')) = Cardinality(Called(turns))
      /\ stage' = "done" /\ ended' \in Endings
      /\ ended'.advice = "budget" => IsOutputLimit(Last(turns').finish)
  BY <1>1, <1>3, ConcludesIs
<1>6. Len(turns) <= attempts
  BY DEF TranscriptInv, TurnsCounted
<1>7. attempts' \in Nat /\ Len(turns') <= attempts'
  BY <1>4, <1>5, <1>6
<1>8. QED
  BY <1>1, <1>2, <1>4, <1>5, <1>7, DoneKeeps

\* The only completion of an arm without tools.
LEMMA CompleteKeeps ==
  ASSUME TranscriptInv, Complete
  PROVE  TranscriptInv'
<1>1. /\ stage = "single" /\ SendCompletion(FALSE, "auto", arm.effort) /\ Concludes
      /\ UNCHANGED <<arm, history, left, resent, sawImage, imaged>>
  BY DEF Complete
<1>2. stage \notin InTools
  BY <1>1 DEF InTools
<1>3. TranscriptType
  BY DEF TranscriptInv
<1>4. request' \in Requests /\ attempts \in Nat /\ attempts' = attempts + 1
  <2>1. arm.effort \in {"unset", "none", "low", "high"}
    BY <1>3 DEF TranscriptType
  <2>2. arm.effort \in Efforts /\ "auto" \in ToolChoices /\ FALSE \in BOOLEAN
    BY <2>1 DEF Efforts, ToolChoices
  <2>3. QED
    BY <2>2, <1>1, <1>3, SentWith
<1>5. /\ turns' \in Seq(TurnRecords) /\ Len(turns) \in Nat /\ Len(turns') \in Nat
      /\ Len(turns') <= Len(turns) + 1
      /\ Cardinality(Called(turns')) = Cardinality(Called(turns))
      /\ stage' = "done" /\ ended' \in Endings
      /\ ended'.advice = "budget" => IsOutputLimit(Last(turns').finish)
  BY <1>1, <1>3, ConcludesIs
<1>6. Len(turns) <= attempts /\ attempts = resent /\ ~arm.tools
  BY <1>1 DEF TranscriptInv, TurnsCounted, BudgetKept
<1>7. attempts' \in Nat /\ Len(turns') <= attempts'
  BY <1>4, <1>5, <1>6
<1>8. attempts' <= MostSent /\ left' \in Nat
  <2>1. resent \in 0..MalformedResends /\ left' = left /\ left \in Nat
    BY <1>1, NumbersAre
  <2>2. attempts' <= 1 + MalformedResends
    BY <2>1, <1>4, <1>6 DEF MalformedResends
  <2>3. QED
    BY <2>1, <2>2, <1>6 DEF MostSent
<1>9. QED
  BY <1>1, <1>2, <1>4, <1>5, <1>7, <1>8, DoneKeeps

\* What the forced turn brought back.
LEMMA ForcedAnswerKeeps ==
  ASSUME TranscriptInv, ForcedAnswer
  PROVE  TranscriptInv'
<1>1. /\ stage = "forced" /\ Concludes
      /\ UNCHANGED <<arm, history, left, resent, sawImage, imaged, attempts, request>>
  BY DEF ForcedAnswer
<1>2. stage \notin InTools
  BY <1>1 DEF InTools
<1>3. TranscriptType
  BY DEF TranscriptInv
<1>4. request' \in Requests /\ attempts' \in Nat /\ attempts' = attempts
  BY <1>1, <1>3 DEF TranscriptType
<1>5. /\ turns' \in Seq(TurnRecords) /\ Len(turns) \in Nat /\ Len(turns') \in Nat
      /\ Len(turns') <= Len(turns) + 1
      /\ Cardinality(Called(turns')) = Cardinality(Called(turns))
      /\ stage' = "done" /\ ended' \in Endings
      /\ ended'.advice = "budget" => IsOutputLimit(Last(turns').finish)
  BY <1>1, <1>3, ConcludesIs
<1>6. Len(turns) < attempts /\ attempts <= MostSent /\ left' \in Nat
  BY <1>1, NumbersAre DEF TranscriptInv, TurnsCounted
<1>7. attempts' <= MostSent /\ Len(turns') <= attempts'
  <2>1. attempts \in Nat /\ Len(turns') <= attempts
    BY <1>4, <1>5, <1>6
  <2>2. QED
    BY <2>1, <1>4, <1>6
<1>8. QED
  BY <1>1, <1>2, <1>4, <1>5, <1>6, <1>7, DoneKeeps

\* A completion that is sent again: of an arm without tools, and of a run.
LEMMA CompleteAgainKeeps ==
  ASSUME TranscriptInv, CompleteAgain
  PROVE  TranscriptInv'
<1>1. /\ stage = "single" /\ resent < MalformedResends /\ resent' = resent + 1
      /\ SendCompletion(FALSE, "auto", arm.effort)
      /\ UNCHANGED <<arm, history, stage, left, sawImage, imaged, turns, ended>>
  BY DEF CompleteAgain
<1>2. TranscriptType
  BY DEF TranscriptInv
<1>3. request' \in Requests /\ attempts \in Nat /\ attempts' = attempts + 1
  <2>1. arm.effort \in {"unset", "none", "low", "high"}
    BY <1>2 DEF TranscriptType
  <2>2. arm.effort \in Efforts /\ "auto" \in ToolChoices /\ FALSE \in BOOLEAN
    BY <2>1 DEF Efforts, ToolChoices
  <2>3. QED
    BY <2>2, <1>1, <1>2, SentWith
<1>4. resent \in 0..MalformedResends /\ resent' \in 0..MalformedResends
  <2>1. resent \in 0..MalformedResends
    BY NumbersAre
  <2>2. QED
    BY <2>1, <1>1 DEF MalformedResends
<1>5. stage \notin InTools \cup InRun \cup OneRun \cup Notes \cup {"forced", "done"}
  BY <1>1 DEF InTools, InRun, OneRun, Notes
<1>6. TranscriptType'
  <2>1. attempts' \in Nat
    BY <1>3
  <2>2. QED
    BY <2>1, <1>1, <1>2, <1>3, <1>4 DEF TranscriptType
<1>7. TranscriptShape' /\ ImagesKept'
  BY <1>1 DEF TranscriptInv, TranscriptShape, ImagesKept, RewritesToolImages
<1>8. TurnsCounted'
  <2>1. CountModelTurns' = CountModelTurns /\ Called(turns') = Called(turns)
    BY <1>1 DEF CountModelTurns, Called
  <2>2. Len(turns) <= attempts /\ Len(turns) \in Nat
    BY <1>2, LenProperties DEF TranscriptInv, TurnsCounted, TranscriptType
  <2>3. Len(turns') <= attempts'
    <3>1. Len(turns) <= attempts + 1
      BY <2>2, <1>3
    <3>2. QED
      BY <3>1, <1>1, <1>3
  <2>4. QED
    BY <2>1, <2>3, <1>1, <1>5 DEF TranscriptInv, TurnsCounted
<1>9. BudgetKept'
  <2>1. ~arm.tools /\ attempts = resent
    BY <1>1 DEF TranscriptInv, BudgetKept
  <2>2. ~arm'.tools /\ attempts' = resent'
    BY <2>1, <1>1, <1>3
  <2>3. attempts' <= 1 + MalformedResends
    BY <2>2, <1>4 DEF MalformedResends
  <2>4. attempts' <= MostSent'
    BY <2>2, <2>3 DEF MostSent
  <2>5. stage' = "single"
    BY <1>1
  <2>6. QED
    BY <2>2, <2>4, <2>5, <1>1, <1>5, Zenon DEF BudgetKept
<1>10. LastTurnTold'
  BY <1>1, <1>5 DEF TranscriptInv, LastTurnTold
<1>11. QED
  BY <1>6, <1>7, <1>8, <1>9, <1>10 DEF TranscriptInv

\* A turn no one could parse, of a run.
LEMMA RepeatTurnAskedKeeps ==
  ASSUME TranscriptInv, RepeatTurnAsked
  PROVE  TranscriptInv'
<1>1. /\ MayAsk /\ resent < MalformedResends /\ SendTurn /\ Observe("malformed", 0)
      /\ resent' = resent + 1
      /\ UNCHANGED <<arm, history, stage, sawImage, imaged, ended>>
  BY DEF RepeatTurnAsked
<1>2. TranscriptType
  BY DEF TranscriptInv
<1>3. request' \in Requests /\ attempts \in Nat /\ attempts' = attempts + 1
  BY <1>1, <1>2, SentInTurn
<1>4. resent \in 0..MalformedResends /\ resent' \in 0..MalformedResends
  <2>1. resent \in 0..MalformedResends
    BY NumbersAre
  <2>2. QED
    BY <2>1, <1>1 DEF MalformedResends
<1>5. /\ stage = "run" /\ stage \in OneRun /\ stage \in InRun
      /\ stage \notin InTools \cup Notes \cup {"resume", "forced", "single", "done"}
  <2>1. stage = "run"
    BY <1>1 DEF MayAsk
  <2>2. QED
    BY <2>1 DEF InTools, InRun, OneRun, Notes
<1>6. TurnTaken
  BY <1>1, TurnIsTaken
<1>7. /\ turns' \in Seq(TurnRecords) /\ Len(turns) \in Nat /\ Len(turns') = Len(turns) + 1
      /\ Last(turns').finish = "malformed"
      /\ Cardinality(Called(turns')) = Cardinality(Called(turns))
  <2>1. "malformed" \in Finishes /\ 0 \in Nat
    BY DEF Finishes, Reasons
  <2>2. QED
    BY <2>1, <1>1, <1>2, ObservedIs
<1>8. TranscriptType'
  <2>1. attempts' \in Nat /\ left' \in Nat
    BY <1>3, <1>6 DEF TurnTaken
  <2>2. QED
    BY <2>1, <1>1, <1>2, <1>3, <1>4, <1>7 DEF TranscriptType
<1>9. TranscriptShape' /\ ImagesKept'
  BY <1>1 DEF TranscriptInv, TranscriptShape, ImagesKept, RewritesToolImages
<1>10. CountModelTurns' = CountModelTurns
  BY <1>1 DEF CountModelTurns
<1>11. TurnsCounted'
  <2>1. Len(turns) <= attempts
    BY DEF TranscriptInv, TurnsCounted
  <2>2. Len(turns) + 1 <= attempts + 1
    BY <2>1, <1>3, <1>7
  <2>3. Len(turns') <= attempts'
    BY <2>2, <1>3, <1>7, Zenon
  <2>4. QED
    BY <2>3, <1>1, <1>5, <1>7, <1>10 DEF TranscriptInv, TurnsCounted
<1>12. BudgetKept'
  BY <1>1, <1>5, <1>6, <1>10, Zenon DEF BudgetKept, TurnTaken
<1>13. LastTurnTold'
  <2>1. NoAnswerYet'
    BY <1>7 DEF NoAnswerYet
  <2>2. QED
    BY <2>1, <1>1, <1>5 DEF TranscriptInv, LastTurnTold
<1>14. QED
  BY <1>8, <1>9, <1>11, <1>12, <1>13 DEF TranscriptInv

\* What the last message becomes when a note ends it.
Noted(m, note) == [m EXCEPT !.parts = Append(@, Part(note, 0, FALSE))]

\* A message with the note is the message, and the note.
LEMMA NotedIs ==
  ASSUME NEW m \in TranscriptMessages, NEW note \in Notes, NEW one, one = Noted(m, note)
  PROVE  /\ one \in TranscriptMessages /\ one.from = m.from /\ one.parts # <<>>
         /\ Last(one.parts).is = note /\ DOMAIN m.parts \subseteq DOMAIN one.parts
         /\ \A j \in DOMAIN m.parts : one.parts[j] = m.parts[j]
         /\ \A j \in DOMAIN one.parts :
              j \in DOMAIN m.parts
                \/ (one.parts[j].is \notin {"call", "result", "image"} /\ ~one.parts[j].image)
<1> DEFINE p == [is |-> note, id |-> 0, image |-> FALSE]
<1>1. m.parts \in Seq(TranscriptParts)
  BY DEF TranscriptMessages
<1>2. p \in TranscriptParts /\ p.is = note /\ ~p.image
  BY DEF TranscriptParts
<1>3. note \notin {"call", "result", "image"}
  BY DEF Notes
<1>4. one = [m EXCEPT !.parts = Append(m.parts, p)]
  BY DEF Noted, Part
<1> HIDE DEF p
<1>5. one \in TranscriptMessages /\ one.from = m.from /\ one.parts = Append(m.parts, p)
  <2>1. Append(m.parts, p) \in Seq(TranscriptParts)
    BY <1>1, <1>2, AppendProperties
  <2>2. QED
    BY <2>1, <1>4 DEF TranscriptMessages
<1>6. /\ DOMAIN one.parts = DOMAIN m.parts \cup {Len(m.parts) + 1}
      /\ \A j \in DOMAIN m.parts : one.parts[j] = m.parts[j]
      /\ one.parts[Len(m.parts) + 1] = p /\ Last(one.parts) = p
  BY <1>1, <1>2, <1>5, AppendedIs
<1>7. one.parts # <<>>
  <2>1. Len(m.parts) \in Nat /\ Len(one.parts) = Len(m.parts) + 1
    BY <1>1, <1>2, <1>5, AppendedIs
  <2>2. QED
    BY <2>1, EmptySeq
<1>8. \A j \in DOMAIN one.parts :
        j \in DOMAIN m.parts
          \/ (one.parts[j].is \notin {"call", "result", "image"} /\ ~one.parts[j].image)
  BY <1>2, <1>3, <1>6
<1>9. QED
  BY <1>2, <1>5, <1>6, <1>7, <1>8

\* What a transcript has become when a note ends it.
Finalized(h, note, new) ==
  /\ new \in Seq(TranscriptMessages) /\ Len(new) > 0
  /\ Last(new).from = "user" /\ Last(Last(new).parts).is = note
  /\ MessagesShaped(new) /\ ResultsDiffer(new) /\ CallsAnswered(new, FALSE)
  /\ ResultsBelow(new, Len(new) * CallsPerTurn)
  /\ NoneShown(h) => NoneShown(new)
  /\ \A ids : ImagesIn(h, ids) => ImagesIn(new, ids)
  /\ Cardinality(Spoken(new)) = Cardinality(Spoken(h))
  /\ Cardinality(Calling(new)) = Cardinality(Calling(h))

\* The note is the last thing the model reads, and no more than a note.
LEMMA FinalizedIs ==
  ASSUME NEW h \in Seq(TranscriptMessages), Len(h) > 0, NEW note \in Notes,
         MessagesShaped(h), ResultsDiffer(h), CallsAnswered(h, FALSE),
         ResultsBelow(h, Len(h) * CallsPerTurn), NEW new, new = FinalizePrompt(h, note)
  PROVE  Finalized(h, note, new)
<1> DEFINE l == Len(h)
<1>1. /\ l \in Nat /\ DOMAIN h = 1..l /\ l \in DOMAIN h /\ h[l] \in TranscriptMessages
      /\ \A i \in DOMAIN h : h[i] \in TranscriptMessages
  BY LenProperties, ElementOfSeq
<1>2. CASE Last(h).from = "user"
  <2> DEFINE m == Noted(h[l], note)
  <2>1. new = [h EXCEPT ![l] = m]
    BY <1>1, <1>2 DEF FinalizePrompt, Last, Noted
  <2>2. /\ m \in TranscriptMessages /\ m.from = h[l].from /\ m.parts # <<>>
        /\ Last(m.parts).is = note /\ DOMAIN h[l].parts \subseteq DOMAIN m.parts
        /\ \A j \in DOMAIN h[l].parts : m.parts[j] = h[l].parts[j]
        /\ \A j \in DOMAIN m.parts :
             j \in DOMAIN h[l].parts
               \/ (m.parts[j].is \notin {"call", "result", "image"} /\ ~m.parts[j].image)
    BY <1>1, NotedIs
  <2> HIDE DEF m
  <2>3. /\ new \in Seq(TranscriptMessages) /\ Len(new) = l /\ DOMAIN new = DOMAIN h
        /\ new[l] = m /\ \A i \in DOMAIN h : i # l => new[i] = h[i]
    <3>1. new \in Seq(TranscriptMessages) /\ Len(new) = Len(h)
      BY <2>1, <2>2, <1>1, ExceptSeq
    <3>2. DOMAIN new = DOMAIN h /\ new[l] = m /\ \A i \in DOMAIN h : i # l => new[i] = h[i]
      BY <2>1, <1>1
    <3>3. QED
      BY <3>1, <3>2
  <2>4. \A i \in DOMAIN h :
          /\ new[i].from = h[i].from /\ DOMAIN h[i].parts \subseteq DOMAIN new[i].parts
          /\ \A j \in DOMAIN h[i].parts : new[i].parts[j] = h[i].parts[j]
          /\ \A j \in DOMAIN new[i].parts :
               j \in DOMAIN h[i].parts
                 \/ (new[i].parts[j].is \notin {"call", "result", "image"} /\ ~new[i].parts[j].image)
          /\ h[i].from = "user" /\ h[i].parts # <<>> => new[i].parts # <<>>
    BY <2>2, <2>3
  <2>5. Last(new) = m /\ Last(h) = h[l]
    BY <2>3, <1>1 DEF Last
  <2>6. MessagesShaped(new)
    <3> SUFFICES ASSUME NEW i \in DOMAIN h
                 PROVE  ShapedMessage(new[i])
      BY <2>3 DEF MessagesShaped
    <3>1. ShapedMessage(h[i])
      BY DEF MessagesShaped
    <3>2. i = l \/ new[i] = h[i]
      BY <2>3
    <3>3. CASE new[i] = h[i]
      BY <3>1, <3>3
    <3>4. CASE i = l
      <4>1. m.from = "user" /\ ShapedMessage(h[l])
        BY <2>2, <2>5, <1>2, <3>1, <3>4
      <4>2. ShapedMessage(m)
        BY <2>2, <4>1 DEF ShapedMessage
      <4>3. QED
        BY <4>2, <2>3, <3>4
    <3>5. QED
      BY <3>2, <3>3, <3>4
  <2>7. ResultsDiffer(new)
    BY <2>3, <2>4 DEF ResultsDiffer
  <2>8. CallsAnswered(new, FALSE)
    <3> SUFFICES ASSUME NEW i \in DOMAIN new, NEW j \in DOMAIN new[i].parts,
                        new[i].parts[j].is = "call"
                 PROVE  IF i < Len(new)
                        THEN \E k \in DOMAIN new[i + 1].parts :
                               /\ new[i + 1].parts[k].is = "result"
                               /\ new[i + 1].parts[k].id = new[i].parts[j].id
                        ELSE FALSE
      BY Zenon DEF CallsAnswered
    <3>0. i \in DOMAIN h
      BY <2>3
    <3>1. j \in DOMAIN h[i].parts /\ new[i].parts[j] = h[i].parts[j]
      BY <3>0, <2>4
    <3>2. /\ i < l
          /\ \E k \in DOMAIN h[i + 1].parts :
               h[i + 1].parts[k].is = "result" /\ h[i + 1].parts[k].id = h[i].parts[j].id
      BY <3>0, <3>1 DEF CallsAnswered
    <3>3. i + 1 \in DOMAIN h
      BY <3>0, <3>2, <1>1
    <3>4. QED
      BY <3>1, <3>2, <3>3, <2>3, <2>4
  <2>9. ResultsBelow(new, Len(new) * CallsPerTurn)
    BY <2>3, <2>4 DEF ResultsBelow
  <2>10. NoneShown(h) => NoneShown(new)
    BY <2>3, <2>4 DEF NoneShown
  <2>11. \A ids : ImagesIn(h, ids) => ImagesIn(new, ids)
    <3> SUFFICES ASSUME NEW ids, ImagesIn(h, ids), NEW id \in ids
                 PROVE  \E i \in DOMAIN new : \E j \in DOMAIN new[i].parts :
                          new[i].parts[j].id = id /\ new[i].parts[j].image
      BY DEF ImagesIn
    <3>1. PICK i \in DOMAIN h : \E j \in DOMAIN h[i].parts : h[i].parts[j].id = id /\ h[i].parts[j].image
      BY DEF ImagesIn
    <3>2. QED
      BY <3>1, <2>3, <2>4
  <2>12. Spoken(new) = Spoken(h)
    BY <2>3, <2>4 DEF Spoken
  <2>13. Calling(new) = Calling(h)
    <3>1. \A i \in DOMAIN h :
            (\E j \in DOMAIN new[i].parts : new[i].parts[j].is = "call")
              <=> (\E j \in DOMAIN h[i].parts : h[i].parts[j].is = "call")
      BY <2>4
    <3>2. QED
      BY <3>1, <2>3 DEF Calling, PartsOf, ToSet
  <2>14. QED
    BY <2>2, <2>3, <2>5, <2>6, <2>7, <2>8, <2>9, <2>10, <2>11, <2>12, <2>13, <1>1, <1>2 DEF Finalized
<1>3. CASE Last(h).from # "user"
  <2> DEFINE p == Part(note, 0, FALSE)
             m == User(<<p>>)
  <2>1. new = Append(h, m)
    BY <1>3 DEF FinalizePrompt
  <2>2. /\ m \in TranscriptMessages /\ m.from = "user" /\ DOMAIN m.parts = {1}
        /\ m.parts[1] = p /\ Last(m.parts) = p /\ m.parts # <<>>
        /\ p.is = note /\ ~p.image
    <3>1. p \in TranscriptParts /\ p.is = note /\ ~p.image
      BY DEF Part, TranscriptParts
    <3> HIDE DEF p
    <3>2. /\ <<p>> \in Seq(TranscriptParts) /\ Len(<<p>>) = 1 /\ <<p>>[1] = p /\ DOMAIN <<p>> = 1..1
          /\ <<p>> # <<>>
      BY <3>1
    <3>3. Last(<<p>>) = p /\ DOMAIN <<p>> = {1}
      BY <3>2 DEF Last
    <3>4. m = [from |-> "user", parts |-> <<p>>]
      BY DEF User
    <3> HIDE DEF m
    <3>5. m \in TranscriptMessages
      BY <3>2, <3>4 DEF TranscriptMessages
    <3>6. m.from = "user" /\ m.parts = <<p>>
      BY <3>4
    <3>7. QED
      BY <3>1, <3>2, <3>3, <3>5, <3>6
  <2>3. p.is \notin {"call", "result", "image"}
    BY <2>2 DEF Notes
  <2> HIDE DEF m, p
  <2>4. ShapedMessage(m)
    BY <2>2, <2>3 DEF ShapedMessage
  <2>5. /\ \A j \in DOMAIN m.parts : m.parts[j].is # "result"
        /\ \A j \in DOMAIN m.parts : m.parts[j].is # "call"
    BY <2>2, <2>3
  <2>6. /\ new \in Seq(TranscriptMessages) /\ Len(new) = l + 1 /\ Last(new) = m
    BY <2>1, <2>2, AppendedIs
  <2>7. /\ MessagesShaped(new) /\ ResultsDiffer(new) /\ CallsAnswered(new, FALSE)
        /\ ResultsBelow(new, Len(h) * CallsPerTurn)
        /\ NoneShown(h) => NoneShown(new)
        /\ \A ids : ImagesIn(h, ids) => ImagesIn(new, ids)
    BY <2>1, <2>2, <2>4, <2>5, AppendedKeeps
  <2>8. /\ Cardinality(Spoken(new)) = Cardinality(Spoken(h))
        /\ Cardinality(Calling(new)) = Cardinality(Calling(h))
    BY <2>1, <2>2, <2>5, AppendedCounts
  <2>9. ResultsBelow(new, Len(new) * CallsPerTurn)
    <3>1. /\ l * CallsPerTurn \in Nat /\ (l + 1) * CallsPerTurn \in Nat
          /\ l * CallsPerTurn <= (l + 1) * CallsPerTurn
      <4>1. l + 1 \in Nat /\ l <= l + 1
        BY <1>1
      <4>2. QED
        BY <4>1, <1>1, Scaled
    <3>2. QED
      BY <3>1, <2>6, <2>7, BelowMore
  <2>10. Len(new) > 0
    BY <2>6, <1>1
  <2>11. QED
    BY <2>2, <2>6, <2>7, <2>8, <2>9, <2>10 DEF Finalized
<1>4. QED
  BY <1>2, <1>3

\* What is below another effort is on the ladder, or nothing at all.
LEMMA RungIs ==
  ASSUME NEW e
  PROVE  Rung(e) \in Nat /\ Rung("medium") > 0
<1> DEFINE At(x) == {i \in 1..Len(Ladder) : Ladder[i] = x}
<1>1. \A x : Rung(x) = IF At(x) # {} THEN Min(At(x)) ELSE 0
  BY DEF Rung, SelectInSeq
<1>2. ASSUME NEW S \in SUBSET Nat, S # {}
      PROVE  Min(S) \in S
  <2>1. \E x \in S : \A y \in S : x <= y
    BY <1>2, LeastNumber
  <2>2. QED
    BY <2>1, Zenon DEF Min
<1>3. \A x : At(x) \subseteq Nat \ {0}
  OBVIOUS
<1>4. 2 \in At("medium")
  BY DEF Ladder
<1> HIDE DEF At
<1>5. Rung(e) \in Nat
  BY <1>1, <1>2, <1>3
<1>6. Rung("medium") \in Nat \ {0}
  BY <1>1, <1>2, <1>3, <1>4
<1>7. QED
  BY <1>5, <1>6

\* An effort is lowered along the ladder, or not at all.
LEMMA LoweredIs ==
  ASSUME NEW e \in Efforts
  PROVE  /\ LowerEffort(e) \in Efforts
         /\ LowerEffort(e) = e \/ (Rung(LowerEffort(e)) > 0 /\ Rung(LowerEffort(e)) < Rung(e))
<1>1. CASE Rung(e) > Rung("medium")
  <2>1. LowerEffort(e) = "medium"
    BY <1>1 DEF LowerEffort
  <2>2. Rung("medium") < Rung(e) /\ Rung("medium") > 0
    BY <1>1, RungIs
  <2>3. QED
    BY <2>1, <2>2 DEF Efforts
<1>2. CASE ~(Rung(e) > Rung("medium"))
  BY <1>2 DEF LowerEffort
<1>3. QED
  BY <1>1, <1>2

\* The forced turn, and what it is told.
LEMMA ForcedTurnKeeps ==
  ASSUME TranscriptInv, ForcedTurn
  PROVE  TranscriptInv'
<1>1. /\ stage \in Notes /\ stage' = "forced" /\ history' = FinalizePrompt(history, stage)
      /\ SendCompletion(TRUE, "none",
                        IF stage = "cut off" THEN LowerEffort(arm.effort) ELSE arm.effort)
      /\ UNCHANGED <<arm, left, resent, sawImage, imaged, turns, ended>>
  BY DEF ForcedTurn
<1>2. /\ stage \notin InTools \cup {"run", "resume", "done", "forced", "single"}
      /\ stage = "turns spent" \/ stage \in {"stopped", "cut off"}
      /\ stage' \notin InTools \cup InRun \cup Notes \cup {"done", "single"}
      /\ stage = "turns spent" => stage \in InRun
  BY <1>1 DEF InTools, InRun, OneRun, Notes
<1>3. TranscriptType
  BY DEF TranscriptInv
<1>4. /\ history \in Seq(TranscriptMessages) /\ Len(history) > 0
      /\ MessagesShaped(history) /\ ResultsDiffer(history) /\ CallsAnswered(history, FALSE)
      /\ ResultsBelow(history, Len(history) * CallsPerTurn) /\ ImagesIn(history, imaged)
  <2>1. CallsAnswered(history, FALSE)
    BY <1>2, Zenon DEF TranscriptInv, TranscriptShape, CallsAnswered
  <2>2. QED
    BY <2>1 DEF TranscriptInv, TranscriptType, TranscriptShape, ImagesKept
<1>5. /\ history' \in Seq(TranscriptMessages) /\ Len(history') > 0
      /\ Last(history').from = "user" /\ Last(Last(history').parts).is = stage
      /\ MessagesShaped(history') /\ ResultsDiffer(history') /\ CallsAnswered(history', FALSE)
      /\ ResultsBelow(history', Len(history') * CallsPerTurn)
      /\ NoneShown(history) => NoneShown(history')
      /\ ImagesIn(history', imaged)
      /\ Cardinality(Spoken(history')) = Cardinality(Spoken(history))
      /\ Cardinality(Calling(history')) = Cardinality(Calling(history))
  <2>1. stage \in Notes /\ history' = FinalizePrompt(history, stage)
    BY <1>1
  <2>2. ImagesIn(history, imaged)
    BY <1>4
  <2>3. Finalized(history, stage, history')
    BY <2>1, <1>4, FinalizedIs
  <2>4. QED
    BY <2>2, <2>3, Zenon DEF Finalized
<1>6. /\ request' \in Requests /\ attempts \in Nat /\ attempts' = attempts + 1
      /\ request'.effort = arm.effort
           \/ (Rung(request'.effort) > 0 /\ Rung(request'.effort) < Rung(arm.effort))
  <2> DEFINE effort == IF stage = "cut off" THEN LowerEffort(arm.effort) ELSE arm.effort
  <2>1. arm.effort \in {"unset", "none", "low", "high"}
    BY <1>3 DEF TranscriptType
  <2>2. arm.effort \in Efforts
    BY <2>1 DEF Efforts
  <2>3. /\ effort \in Efforts
        /\ effort = arm.effort \/ (Rung(effort) > 0 /\ Rung(effort) < Rung(arm.effort))
    BY <2>2, LoweredIs
  <2>4. SendCompletion(TRUE, "none", effort)
    BY <1>1
  <2> HIDE DEF effort
  <2>5. "none" \in ToolChoices /\ TRUE \in BOOLEAN
    BY DEF ToolChoices
  <2>6. request' \in Requests /\ attempts \in Nat /\ attempts' = attempts + 1 /\ request'.effort = effort
    BY <2>3, <2>4, <2>5, <1>3, SentWith
  <2>7. QED
    BY <2>3, <2>6
<1>7. TranscriptType'
  <2>1. attempts' \in Nat
    BY <1>6
  <2>2. QED
    BY <2>1, <1>1, <1>3, <1>5, <1>6 DEF TranscriptType
<1>8. TranscriptShape'
  <2>1. CallsAnswered(history', stage' \in InTools)
    BY <1>2, <1>5 DEF CallsAnswered
  <2>2. QED
    BY <2>1, <1>2, <1>5 DEF TranscriptShape
<1>9. ImagesKept'
  <2>1. RewritesToolImages' <=> RewritesToolImages
    BY <1>1 DEF RewritesToolImages
  <2>2. RewritesToolImages => stage = "turns spent" \/ NoneShown(history)
    BY <1>2 DEF TranscriptInv, ImagesKept
  <2>3. QED
    BY <2>1, <2>2, <1>1, <1>5 DEF ImagesKept
<1>10. CountModelTurns' = CountModelTurns
  BY <1>5 DEF CountModelTurns, Spoken
<1>11. /\ CountModelTurns <= PhaseTurns /\ attempts <= Sends(PhaseTurns) /\ arm.tools
       /\ Len(turns) <= attempts
  BY <1>1 DEF TranscriptInv, TurnsCounted, BudgetKept
<1>12. /\ attempts' <= Sends(PhaseTurns) + 1 /\ Len(turns) <= attempts' /\ Len(turns) < attempts'
  <2>1. attempts \in Nat /\ attempts' = attempts + 1
    BY <1>6
  <2>2. Sends(PhaseTurns) \in Nat
    BY PhaseTurnsAssumption DEF Sends, MalformedResends
  <2>3. Len(turns) \in Nat
    BY <1>3, LenProperties DEF TranscriptType
  <2>4. QED
    BY <2>1, <2>2, <2>3, <1>11
<1>13. TurnsCounted' /\ BudgetKept'
  <2>1. Len(turns') = Len(turns) /\ Cardinality(Called(turns')) = Cardinality(Called(turns))
    BY <1>1 DEF Called
  <2>2. CountModelTurns' <= PhaseTurns
    BY <1>10, <1>11
  <2>3. Len(turns') <= attempts' /\ Len(turns') < attempts'
    BY <2>1, <1>12
  <2>4. Cardinality(Called(turns')) = Cardinality(Calling(history'))
    BY <2>1, <1>5 DEF TranscriptInv, TurnsCounted
  <2>5. TurnsCounted'
    BY <2>2, <2>3, <2>4 DEF TurnsCounted
  <2>6. stage' \notin OneRun \cup {"run", "resume"}
    BY <1>1 DEF OneRun, InTools
  <2>7. arm'.tools /\ MostSent' = Sends(PhaseTurns) + 1
    BY <1>1, <1>11 DEF MostSent
  <2>8. attempts' <= MostSent'
    BY <2>7, <1>12
  <2>9. BudgetKept'
    BY <2>6, <2>7, <2>8, <1>2, Zenon DEF BudgetKept
  <2>10. QED
    BY <2>5, <2>9
<1>14. LastTurnTold'
  <2>1. NoteIsTrue(stage)
    BY <1>1 DEF TranscriptInv, LastTurnTold
  <2>2. Last(Last(history').parts).is = stage
    BY <1>5
  <2>3. turns' = turns /\ resent' = resent
    BY <1>1
  <2>4. NoteIsTrue(Last(Last(history).parts).is)'
    BY <2>1, <2>2, <2>3, <1>10, Zenon DEF NoteIsTrue
  <2>5. ended'.advice = "none"
    BY <1>1, <1>2 DEF TranscriptInv, LastTurnTold
  <2>6. QED
    BY <2>4, <2>5, <1>1, <1>2, <1>6 DEF LastTurnTold
<1>15. QED
  BY <1>7, <1>8, <1>9, <1>13, <1>14 DEF TranscriptInv

\* Every step of a phase keeps TranscriptInv.
LEMMA TranscriptStep ==
  ASSUME TranscriptInv, [TranscriptNext]_transcriptVars
  PROVE  TranscriptInv'
<1>1. CASE UNCHANGED transcriptVars
  <2>1. UNCHANGED <<arm, history, stage, left, resent, sawImage, imaged, turns, attempts, request, ended>>
    BY <1>1 DEF transcriptVars
  <2>2. TranscriptType'
    BY <2>1 DEF TranscriptInv, TranscriptType
  <2>3. TranscriptShape'
    BY <2>1 DEF TranscriptInv, TranscriptShape
  <2>4. ImagesKept'
    BY <2>1 DEF TranscriptInv, ImagesKept, RewritesToolImages
  <2>5. CountModelTurns' = CountModelTurns /\ MostSent' = MostSent
    BY <2>1 DEF CountModelTurns, MostSent
  <2>6. TurnsCounted' /\ BudgetKept'
    BY <2>1, <2>5 DEF TranscriptInv, TurnsCounted, BudgetKept
  <2>7. LastTurnTold'
    BY <2>1, <2>5 DEF TranscriptInv, LastTurnTold, NoteIsTrue, NoAnswerYet
  <2>8. QED
    BY <2>2, <2>3, <2>4, <2>6, <2>7 DEF TranscriptInv
<1>2. CASE TranscriptNext
  BY <1>2, CompleteKeeps, CompleteAgainKeeps, BeginRunKeeps, RepeatTurnAskedKeeps, CallToolsKeeps, RunToolsKeeps, SkipToolsKeeps,
     WritesAnswerKeeps, WritesNothingKeeps, RewriteAndResumeKeeps, TurnsSpentKeeps,
     ForcedTurnKeeps, ForcedAnswerKeeps, Zenon DEF TranscriptNext
<1>3. QED
  BY <1>1, <1>2

\* A phase starts in TranscriptInv.
LEMMA TranscriptStart ==
  ASSUME TranscriptInit
  PROVE  TranscriptInv
<1>1. PICK attached \in 0..1 : history = <<UserTurn("asked", attached)>>
  BY DEF TranscriptInit
<1> DEFINE ps == <<Part("text", 0, FALSE)>> \o [i \in 1..attached |-> Part("image", 0, TRUE)]
           m == [from |-> "user", parts |-> ps]
<1>2. /\ ps \in Seq(TranscriptParts) /\ ps # <<>>
      /\ \A j \in DOMAIN ps : ps[j].is \notin {"call", "result"}
  <2> DEFINE t == Part("text", 0, FALSE)
             g == Part("image", 0, TRUE)
             gs == [i \in 1..attached |-> g]
  <2>1. /\ t \in TranscriptParts /\ t.is \notin {"call", "result"}
        /\ g \in TranscriptParts /\ g.is \notin {"call", "result"}
    BY DEF Part, TranscriptParts
  <2>2. ps = <<t>> \o gs
    OBVIOUS
  <2> HIDE DEF ps, t, g
  <2>3. attached \in Nat
    OBVIOUS
  <2>4. gs \in Seq(TranscriptParts) /\ Len(gs) = attached
    BY <2>1, <2>3
  <2>5. <<t>> \in Seq(TranscriptParts) /\ Len(<<t>>) = 1 /\ <<t>>[1] = t
    BY <2>1
  <2>6. /\ ps \in Seq(TranscriptParts) /\ Len(ps) = 1 + attached
        /\ \A j \in 1..(1 + attached) : ps[j] = IF j <= 1 THEN <<t>>[j] ELSE gs[j - 1]
    BY <2>2, <2>4, <2>5, ConcatProperties
  <2>7. DOMAIN ps = 1..(1 + attached)
    BY <2>6, LenProperties
  <2>8. \A j \in 1..(1 + attached) : ps[j] = t \/ ps[j] = g
    BY <2>3, <2>5, <2>6
  <2>9. Len(ps) > 0
    BY <2>3, <2>6
  <2>10. ps # <<>>
    BY <2>9, EmptySeq
  <2>11. QED
    BY <2>1, <2>6, <2>7, <2>8, <2>10
<1>3. history = <<m>>
  BY <1>1 DEF UserTurn, User
<1>4. m.from = "user" /\ m.parts = ps
  OBVIOUS
<1>5. m \in TranscriptMessages
  BY <1>2 DEF TranscriptMessages
<1> HIDE DEF m, ps
<1>6. /\ history \in Seq(TranscriptMessages) /\ Len(history) = 1 /\ DOMAIN history = {1}
      /\ history[1] = m /\ Last(history) = m
  <2>1. <<m>> \in Seq(TranscriptMessages) /\ Len(<<m>>) = 1 /\ <<m>>[1] = m /\ DOMAIN <<m>> = 1..1
    BY <1>5
  <2>2. Last(<<m>>) = m
    BY <2>1 DEF Last
  <2>3. QED
    BY <2>1, <2>2, <1>3
<1>7. stage \in {"resume", "single"} /\ attempts = 0 /\ turns = <<>> /\ imaged = {} /\ sawImage = FALSE
      /\ left = 0 /\ resent = 0 /\ (stage = "resume" <=> arm.tools)
  BY DEF TranscriptInit
<1>8. TranscriptType
  <2>1. turns \in Seq(TurnRecords)
    BY <1>7
  <2>2. request \in Requests
    BY DEF TranscriptInit, Requests, ToolChoices, Efforts
  <2>3. /\ arm \in [vision : BOOLEAN, toolImages : BOOLEAN, tools : BOOLEAN,
                    effort : {"unset", "none", "low", "high"}, cache : {"short", "off"}]
        /\ ended \in [how : {"no", "answer", "empty", "failed"}, advice : {"none", "budget", "retry"}]
    BY DEF TranscriptInit
  <2>4. stage \in {"single", "done", "forced"} \cup InRun \cup Notes
    BY <1>7 DEF InRun
  <2>5. history \in Seq(TranscriptMessages) /\ Len(history) > 0
    BY <1>6
  <2>6. /\ sawImage \in BOOLEAN /\ imaged \subseteq Nat /\ attempts \in Nat
        /\ left \in Nat /\ resent \in 0..MalformedResends
    <3>1. resent = 0 /\ left = 0 /\ attempts = 0
      BY <1>7
    <3>2. resent \in 0..MalformedResends
      BY <3>1 DEF MalformedResends
    <3>3. left \in Nat /\ attempts \in Nat
      BY <3>1
    <3>4. sawImage \in BOOLEAN /\ imaged \subseteq Nat
      BY <1>7
    <3>5. QED
      BY <3>2, <3>3, <3>4
  <2>7. QED
    BY <2>1, <2>2, <2>3, <2>4, <2>5, <2>6, Zenon DEF TranscriptType
<1>9. TranscriptShape
  <2>1. MessagesShaped(history)
    BY <1>2, <1>4, <1>6 DEF MessagesShaped, ShapedMessage
  <2>2. ResultsDiffer(history) /\ ResultsBelow(history, Len(history) * CallsPerTurn)
    BY <1>2, <1>4, <1>6 DEF ResultsDiffer, ResultsBelow
  <2>3. CallsAnswered(history, stage \in InTools)
    BY <1>2, <1>4, <1>6 DEF CallsAnswered
  <2>4. QED
    BY <2>1, <2>2, <2>3, <1>4, <1>6, <1>7 DEF TranscriptShape, InTools
<1>10. ImagesKept
  BY <1>2, <1>4, <1>6, <1>7 DEF ImagesKept, NoneShown, ImagesIn
<1>11. TurnsCounted /\ BudgetKept
  <2>1. Spoken(history) = {} /\ Calling(history) = {} /\ Called(turns) = {}
    BY <1>2, <1>4, <1>6, <1>7 DEF Spoken, Calling, Called, PartsOf, ToSet
  <2>2. CountModelTurns = 0 /\ Cardinality(Calling(history)) = 0 /\ Cardinality(Called(turns)) = 0
    BY <2>1, FS_EmptySet DEF CountModelTurns, Spoken
  <2>3. Len(turns) = 0
    BY <1>7
  <2>4. 0 <= PhaseTurns /\ 0 <= Sends(PhaseTurns) + 1 /\ 0 <= Sends(0) /\ 0 <= 1 + MalformedResends
    BY PhaseTurnsAssumption DEF Sends, MalformedResends
  <2>5. stage \notin OneRun \cup InTools \cup Notes \cup {"run", "forced"}
    BY <1>7 DEF OneRun, InTools, Notes
  <2>6. TurnsCounted
    BY <2>2, <2>3, <2>4, <2>5, <1>7 DEF TurnsCounted
  <2>7. attempts <= MostSent
    BY <2>4, <1>7 DEF MostSent
  <2>8. stage \in InRun => arm.tools
    BY <1>7 DEF InRun, OneRun, InTools
  <2>9. stage = "resume" => attempts <= Sends(CountModelTurns)
    BY <2>2, <2>4, <1>7
  <2>10. stage = "single" => ~arm.tools /\ attempts = resent
    BY <1>7
  <2>11. BudgetKept
    BY <2>5, <2>7, <2>8, <2>9, <2>10, Zenon DEF BudgetKept
  <2>12. QED
    BY <2>6, <2>11
<1>12. LastTurnTold
  BY <1>7 DEF TranscriptInit, LastTurnTold, InRun, OneRun, InTools, Notes, NoAnswerYet
<1>13. QED
  BY <1>8, <1>9, <1>10, <1>11, <1>12 DEF TranscriptInv

\* TranscriptInv holds of every phase.
THEOREM TranscriptInvAlways == TranscriptSpec => []TranscriptInv
<1>1. TranscriptInit => TranscriptInv
  BY TranscriptStart
<1>2. TranscriptInv /\ [TranscriptNext]_transcriptVars => TranscriptInv'
  BY TranscriptStep
<1>3. QED
  BY <1>1, <1>2, PTL DEF TranscriptSpec

\* A call that is answered once, by the message after it.
LEMMA AnsweredOnce ==
  ASSUME history \in Seq(TranscriptMessages), CallsAnswered(history, FALSE), ResultsDiffer(history),
         NEW i \in DOMAIN history, NEW j \in DOMAIN history[i].parts,
         history[i].parts[j].is = "call", NEW id, id = history[i].parts[j].id
  PROVE  /\ Cardinality(PlacesOf("result", id)) = 1
         /\ i < Len(history)
         /\ \E q \in PartsOf(history[i + 1]) : q.is = "result" /\ q.id = id
<1> DEFINE At(n, k) == history[n].parts[k].is = "result" /\ history[n].parts[k].id = id
<1>1. i < Len(history) /\ \E k \in DOMAIN history[i + 1].parts : At(i + 1, k)
  BY DEF CallsAnswered
<1>2. i + 1 \in DOMAIN history
  BY <1>1, LenProperties
<1>3. PICK k \in DOMAIN history[i + 1].parts : At(i + 1, k)
  BY <1>1
<1>4. \A n \in DOMAIN history : \A l \in DOMAIN history[n].parts :
        At(n, l) => n = i + 1 /\ l = k
  BY <1>2, <1>3 DEF ResultsDiffer
<1>5. PlacesOf("result", id) = {<<i + 1, k>>}
  <2> DEFINE All == UNION {{n} \X DOMAIN history[n].parts : n \in DOMAIN history}
  <2>1. PlacesOf("result", id) = {spot \in All : At(spot[1], spot[2])}
    BY Zenon DEF PlacesOf
  <2>2. ASSUME NEW spot \in All, At(spot[1], spot[2])
        PROVE  spot = <<i + 1, k>>
    <3>1. PICK n \in DOMAIN history : spot \in {n} \X DOMAIN history[n].parts
      OBVIOUS
    <3>2. spot = <<n, spot[2]>> /\ spot[1] = n /\ spot[2] \in DOMAIN history[n].parts
      BY <3>1
    <3> HIDE DEF At
    <3>3. At(n, spot[2])
      BY <2>2, <3>2
    <3>4. n = i + 1 /\ spot[2] = k
      BY <1>4, <3>2, <3>3
    <3>5. QED
      BY <3>2, <3>4
  <2>3. <<i + 1, k>> \in All /\ At(<<i + 1, k>>[1], <<i + 1, k>>[2])
    BY <1>2, <1>3
  <2> HIDE DEF All, At
  <2>4. QED
    BY <2>1, <2>2, <2>3
<1>6. QED
  <2>1. Cardinality(PlacesOf("result", id)) = 1
    BY <1>5, FS_Singleton
  <2>2. history[i + 1].parts[k] \in PartsOf(history[i + 1])
    BY <1>3 DEF PartsOf, ToSet
  <2>3. QED
    BY <2>1, <2>2, <1>1, <1>3

\* A transcript a completion is sent, in the words of TranscriptHolds.
LEMMA SentTranscript ==
  ASSUME TranscriptInv, Sending
  PROVE  /\ Last(history).from = "user"
         /\ \A i \in DOMAIN history : \A p \in PartsOf(history[i]) :
              /\ p.is = "call" =>
                   /\ Cardinality(PlacesOf("result", p.id)) = 1
                   /\ i < Len(history)
                   /\ \E q \in PartsOf(history[i + 1]) : q.is = "result" /\ q.id = p.id
              /\ p.is = "result" => ~\E q \in PartsOf(history[i]) : q.is = "image"
              /\ p.is = "result" /\ p.image =>
                   ~RewritesToolImages \/ \E q \in PartsOf(Last(history)) : q.is = "turns spent"
         /\ \A id \in imaged : \E i \in DOMAIN history : \E p \in PartsOf(history[i]) :
              p.id = id /\ p.image
<1>1. /\ stage \in {"run", "forced", "single"} /\ stage \notin InTools
      /\ stage = "run" => ~(RewritesToolImages /\ sawImage)
  BY DEF Sending, MayAsk, InTools
<1>2. /\ history \in Seq(TranscriptMessages) /\ Len(history) > 0
      /\ MessagesShaped(history) /\ ResultsDiffer(history) /\ ImagesIn(history, imaged)
      /\ Last(history).from = "user"
  BY <1>1 DEF TranscriptInv, TranscriptType, TranscriptShape, ImagesKept
<1>3. CallsAnswered(history, FALSE)
  BY <1>1, Zenon DEF TranscriptInv, TranscriptShape, CallsAnswered
<1>4. \A i \in DOMAIN history : \A p \in PartsOf(history[i]) :
        \E j \in DOMAIN history[i].parts : p = history[i].parts[j]
  BY DEF PartsOf, ToSet
<1>5. ASSUME NEW i \in DOMAIN history, NEW p \in PartsOf(history[i]), p.is = "call"
      PROVE  /\ Cardinality(PlacesOf("result", p.id)) = 1
             /\ i < Len(history)
             /\ \E q \in PartsOf(history[i + 1]) : q.is = "result" /\ q.id = p.id
  <2>1. PICK j \in DOMAIN history[i].parts : p = history[i].parts[j]
    BY <1>4
  <2>2. history[i].parts[j].is = "call" /\ p.id = history[i].parts[j].id
    BY <2>1, <1>5
  <2>3. QED
    BY <2>2, <1>2, <1>3, AnsweredOnce
<1>6. ASSUME NEW i \in DOMAIN history, NEW p \in PartsOf(history[i]), p.is = "result"
      PROVE  ~\E q \in PartsOf(history[i]) : q.is = "image"
  <2>1. ShapedMessage(history[i])
    BY <1>2 DEF MessagesShaped
  <2>2. QED
    BY <2>1, <1>4, <1>6 DEF ShapedMessage
<1>7. ASSUME NEW i \in DOMAIN history, NEW p \in PartsOf(history[i]), p.is = "result", p.image
      PROVE  ~RewritesToolImages \/ \E q \in PartsOf(Last(history)) : q.is = "turns spent"
  <2>1. ~NoneShown(history)
    BY <1>4, <1>7 DEF NoneShown
  <2>2. ~RewritesToolImages \/ (stage = "forced" /\ Last(Last(history).parts).is = "turns spent")
    BY <2>1, <1>1 DEF TranscriptInv, ImagesKept
  <2>3. Last(Last(history).parts) \in PartsOf(Last(history))
    <3> DEFINE m == Last(history)
    <3>1. Len(history) \in DOMAIN history /\ m = history[Len(history)] /\ m \in TranscriptMessages
      <4>1. Len(history) \in Nat /\ DOMAIN history = 1..Len(history)
        BY <1>2, LenProperties
      <4>2. Len(history) \in 1..Len(history)
        BY <4>1, <1>2
      <4>3. QED
        BY <4>1, <4>2, <1>2, ElementOfSeq DEF Last
    <3>2. m.parts \in Seq(TranscriptParts) /\ m.parts # <<>>
      BY <3>1, <1>2 DEF TranscriptMessages, MessagesShaped, ShapedMessage
    <3> HIDE DEF m
    <3>3. Len(m.parts) \in Nat \ {0}
      BY <3>2, EmptySeq
    <3>4. Len(m.parts) \in DOMAIN m.parts
      BY <3>2, <3>3, LenProperties
    <3>5. Last(m.parts) \in PartsOf(m)
      BY <3>4 DEF Last, PartsOf, ToSet
    <3>6. QED
      BY <3>5 DEF m
  <2>4. QED
    BY <2>2, <2>3
<1>8. ASSUME NEW id \in imaged
      PROVE  \E i \in DOMAIN history : \E p \in PartsOf(history[i]) : p.id = id /\ p.image
  <2>1. PICK i \in DOMAIN history : \E j \in DOMAIN history[i].parts :
          history[i].parts[j].id = id /\ history[i].parts[j].image
    BY <1>2 DEF ImagesIn
  <2>2. PICK j \in DOMAIN history[i].parts :
          history[i].parts[j].id = id /\ history[i].parts[j].image
    BY <2>1
  <2>3. history[i].parts[j] \in PartsOf(history[i])
    BY DEF PartsOf, ToSet
  <2>4. QED
    BY <2>2, <2>3
<1>9. QED
  BY <1>2, <1>5, <1>6, <1>7, <1>8

\* Every completion of a phase is sent a transcript a provider takes, with every call
\* answered once and every image still in it, and a failed phase's accounts of its turns
\* are true, wherever turns are repeated: for every number of turns and of calls a turn
\* makes.
THEOREM TranscriptsAreSound == TranscriptSpec => []TranscriptIsSound
<1>1. ASSUME TranscriptInv
      PROVE  TranscriptIsSound
  <2>1. stage = "forced" =>
          /\ NoteIsTrue(Last(Last(history).parts).is)
          /\ request.effort = arm.effort
               \/ (Rung(request.effort) > 0 /\ Rung(request.effort) < Rung(arm.effort))
    BY <1>1 DEF TranscriptInv, LastTurnTold
  <2>2. TranscriptHolds
    BY <1>1, <2>1, SentTranscript, Zenon DEF TranscriptHolds
  <2>3. AccountsAgree
    <3>1. ended.advice = "budget" => IsOutputLimit(Last(turns).finish)
      BY <1>1 DEF TranscriptInv, LastTurnTold
    <3>2. attempts <= IF arm.tools THEN (1 + MalformedResends) * PhaseTurns + 1
                      ELSE 1 + MalformedResends
      BY <1>1 DEF TranscriptInv, BudgetKept, MostSent, Sends
    <3>3. QED
      BY <1>1, <3>1, <3>2, Zenon DEF TranscriptInv, TurnsCounted, AccountsAgree, Called, Calling
  <2>4. QED
    BY <2>2, <2>3 DEF TranscriptIsSound
<1>2. QED
  BY <1>1, TranscriptInvAlways, PTL
=============================================================================
