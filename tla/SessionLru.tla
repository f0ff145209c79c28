----------------------------- MODULE SessionLru -----------------------------
(***************************************************************************)
(* What both session backends promise (session.rs): a set of threads of    *)
(* turns, shed by capacity alone and least recently used first, where      *)
(* reading or appending touches a thread.  The in-memory SessionStore does *)
(* each operation under one mutex, so it is this module as it stands.      *)
(***************************************************************************)
EXTENDS Naturals, Sequences

CONSTANTS Sessions,    \* session ids
          Callers,     \* whoever replays
          Turns,       \* (question, answer) pairs
          Capacities   \* session_capacity of each process on the store

VARIABLES threads,   \* turns of each session, oldest first; <<>> when unknown
          recency,   \* known sessions, most recently used first
          shown      \* what each caller's last replay returned

lruVars == <<threads, recency, shown>>

Known(s) == \E i \in 1..Len(recency) : recency[i] = s

\* Where s stands, or would be appended.
PlaceOf(s) ==
  CHOOSE i \in 1..(Len(recency) + 1) :
    IF Known(s) THEN i <= Len(recency) /\ recency[i] = s ELSE i = Len(recency) + 1

\* s to the front, and what stood before it back by one.
Touched(s) ==
  [i \in 1..(IF Known(s) THEN Len(recency) ELSE Len(recency) + 1) |->
     IF i = 1 THEN s ELSE IF i <= PlaceOf(s) THEN recency[i - 1] ELSE recency[i]]

Init == /\ threads = [s \in Sessions |-> <<>>]
        /\ recency = <<>>
        /\ shown = [c \in Callers |-> <<>>]

\* Mutant of Replay: the most recent thread, whichever session was named.
ReplayAnywhere(c, s) ==
  /\ shown' = [shown EXCEPT ![c] = IF recency = <<>> THEN <<>> ELSE threads[recency[1]]]
  /\ UNCHANGED <<threads, recency>>

\* history: an unknown session is read as empty and not created.
Replay(c, s) == /\ shown' = [shown EXCEPT ![c] = threads[s]]
                /\ recency' = IF Known(s) THEN Touched(s) ELSE recency
                /\ UNCHANGED threads

\* record: append, creating the session, and shed what is past the capacity.
Record(s, t, capacity) ==
  LET order == Touched(s)
      kept == SubSeq(order, 1, IF Len(order) > capacity THEN capacity ELSE Len(order))
  IN /\ recency' = kept
     /\ threads' = [x \in Sessions |->
          CASE x = s -> Append(threads[s], t)
            [] x # s /\ (\E i \in 1..Len(kept) : kept[i] = x) -> threads[x]
            [] OTHER -> <<>>]
     /\ UNCHANGED shown

Next == \E s \in Sessions :
          \/ \E c \in Callers : Replay(c, s)
          \/ \E t \in Turns, capacity \in Capacities : Record(s, t, capacity)

Spec == Init /\ [][Next]_lruVars
=============================================================================
