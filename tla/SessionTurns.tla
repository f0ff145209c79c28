---------------------------- MODULE SessionTurns ----------------------------
(***************************************************************************)
(* consult_session_turn (consult/engine.rs) over either session backend:   *)
(* replay the thread, ask the model, record the answer.  Nothing is held   *)
(* across the model call, so turns of one thread and of others interleave, *)
(* and the thread may be evicted while one of its turns is in flight.      *)
(***************************************************************************)
EXTENDS Naturals, Sequences, FiniteSets

CONSTANTS Sessions,
          TurnCalls,    \* bound: consult calls in one run
          Capacity     \* session_capacity

ASSUME CapacityAssumption == Capacity \in Nat

VARIABLES threads, recency, shown
VARIABLES place,     \* where each turn is in consult_session_turn
          bound,     \* the session each turn is bound to
          evicted    \* history: threads shed while the turn was in flight

Turns == 1..TurnCalls

Store == INSTANCE SessionLru WITH Callers <- Turns, Capacities <- {Capacity}

storeVars == <<threads, recency, shown>>
turnVars == <<storeVars, place, bound, evicted>>

\* "recorded" and "warned" both return an answer; "failed" returns an error.
Places == {"new", "asking", "answered", "recorded", "warned", "failed", "dropped"}

InFlight(t) == place[t] \in {"asking", "answered"}
Elems(q) == {q[i] : i \in 1..Len(q)}

TurnsTypeOK ==
  /\ place \in [Turns -> Places]
  /\ bound \in [Turns -> Sessions]
  /\ evicted \in [Turns -> SUBSET Sessions]
  /\ threads \in [Sessions -> Seq(Turns)]
  /\ shown \in [Turns -> Seq(Turns)]
  /\ recency \in Seq(Sessions) /\ Len(recency) <= Capacity

TurnsInit ==
  /\ Store!Init
  /\ place = [t \in Turns |-> "new"]
  /\ bound \in [Turns -> Sessions]
  /\ evicted = [t \in Turns |-> {}]
-----------------------------------------------------------------------------
Move(t, from, to) == place[t] = from /\ place' = [place EXCEPT ![t] = to]

\* history(id).await? : the thread is in the prompt from here on.
Replay(t) ==
  /\ Move(t, "new", "asking")
  /\ Store!Replay(t, bound[t])
  /\ UNCHANGED <<bound, evicted>>

\* A replay error is fatal, before anything is paid for.
ReplayFails(t) ==
  /\ Move(t, "new", "failed")
  /\ UNCHANGED <<storeVars, bound, evicted>>

ModelAnswers(t) ==
  /\ Move(t, "asking", "answered")
  /\ UNCHANGED <<storeVars, bound, evicted>>

\* consult_with's `?` : nothing is recorded.
ConsultFails(t) ==
  /\ Move(t, "asking", "failed")
  /\ UNCHANGED <<storeVars, bound, evicted>>

Record(t) ==
  /\ Move(t, "answered", "recorded")
  /\ Store!Record(bound[t], t, Capacity)
  /\ evicted' = [u \in Turns |->
       evicted[u] \cup {s \in Sessions : InFlight(u) /\ threads[s] # <<>> /\ threads'[s] = <<>>}]
  /\ UNCHANGED bound

\* A record error keeps the answer and adds the warning.
RecordFails(t) ==
  /\ Move(t, "answered", "warned")
  /\ UNCHANGED <<storeVars, bound, evicted>>

\* The future is dropped at an await: job_cancel, or the client went away.
Dropped(t) ==
  /\ InFlight(t)
  /\ place' = [place EXCEPT ![t] = "dropped"]
  /\ UNCHANGED <<storeVars, bound, evicted>>

TurnsNext == \E t \in Turns :
  \/ Replay(t) \/ ReplayFails(t) \/ ModelAnswers(t) \/ ConsultFails(t)
  \/ Record(t) \/ RecordFails(t) \/ Dropped(t)

TurnsSpec == TurnsInit /\ [][TurnsNext]_turnVars
-----------------------------------------------------------------------------
(***************************************************************************)
(* Properties.                                                             *)
(***************************************************************************)

\* A stored answer was given in the context its place in the thread shows: what
\* it replayed is a beginning of the thread before it, unless the thread was
\* shed meanwhile, and then none of it is left ("keeping the thread of a
\* conversation across calls").
ContextIsAPrefix ==
  \A s \in Sessions : \A i \in 1..Len(threads[s]) :
    LET seen == shown[threads[s][i]]
    IN \/ Len(seen) < i /\ seen = SubSeq(threads[s], 1, Len(seen))
       \/ Elems(seen) \cap Elems(threads[s]) = {} /\ s \in evicted[threads[s][i]]

\* "A failed consult never poisons the thread" (consult_session_turn): whatever
\* a turn replays was answered and recorded, and in the session it asked of.
OnlyAnswersReplayed ==
  \A t \in Turns : \A u \in Elems(shown[t]) :
    place[u] = "recorded" /\ bound[u] = bound[t]

\* A turn told recorded stays in its thread until the whole thread is shed, and
\* only a turn of another session sheds it.
RecordedTurnStays ==
  [][\A s \in Sessions : \A t \in Elems(threads[s]) :
       \/ t \in Elems(threads'[s])
       \/ threads'[s] = <<>> /\ \E u \in Turns : bound[u] # s /\ place'[u] # place[u]]_turnVars

\* Together: an answer was given in the context its place shows, only answers are
\* replayed, in the session they were asked of, and a recorded turn stays until its
\* thread is shed.
ThreadIsHonest == [](TurnsTypeOK /\ ContextIsAPrefix /\ OnlyAnswersReplayed) /\ RecordedTurnStays
=============================================================================
