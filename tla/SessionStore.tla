---------------------------- MODULE SessionStore ----------------------------
(***************************************************************************)
(* The persistent session store (store.rs): a sessions table with a        *)
(* clock-free LRU key and a turns table, shared by the MCP server and the  *)
(* CLI.  Every operation opens a fresh connection and runs its statements  *)
(* in one BEGIN IMMEDIATE transaction; a statement may fail, the future    *)
(* may be dropped at any await (job_cancel) and the process may be killed. *)
(***************************************************************************)
EXTENDS Naturals, Sequences, FiniteSets

CONSTANTS Sessions, Conns,
          Capacity,    \* session_capacity of the process behind each connection
          MaxTurns,    \* bound: record_turn calls in one run
          MaxTouch,    \* bound: touch keys allocated
          None         \* no connection holds the write lock

ASSUME StoreAssumption == /\ Capacity \in [Conns -> Nat \ {0}]
                          /\ MaxTurns \in Nat /\ MaxTouch \in Nat
                          /\ None \notin Conns

VARIABLES touch,     \* sessions.touch_seq, 0 where there is no row
          turns,     \* rows of the turns table
          lock,      \* connection between its BEGIN IMMEDIATE and its end
          conn,      \* each connection: its statement and what it wrote so far
          asked,     \* record_turn calls so far; a turn is its number
          told,      \* history: what each record_turn returned
          shown      \* history: what each connection's last replay returned

vars == <<touch, turns, lock, conn, asked, told, shown>>

Turns == 1..MaxTurns
Rows == [session : Sessions, seq : Nat, turn : Turns]
Closed == [pc |-> "closed"]

InTransaction(c) == lock = c

TypeOK ==
  /\ touch \in [Sessions -> 0..MaxTouch]
  /\ turns \in SUBSET Rows
  /\ lock \in Conns \cup {None}
  /\ asked \in 0..MaxTurns
  /\ told \in [Turns -> {"nothing", "recorded", "error"}]
  /\ shown \in [Conns -> Seq(Turns)]
  /\ \A c \in Conns : InTransaction(c) => conn[c].touch \in [Sessions -> 0..MaxTouch]

Init ==
  /\ touch = [s \in Sessions |-> 0]
  /\ turns = {}
  /\ lock = None
  /\ conn = [c \in Conns |-> Closed]
  /\ asked = 0
  /\ told = [t \in Turns |-> "nothing"]
  /\ shown = [c \in Conns |-> <<>>]
-----------------------------------------------------------------------------
(* What the statements compute.                                            *)

\* SELECT COALESCE(MAX(touch_seq), 0).
TopKey(keys) ==
  CHOOSE k \in {0} \cup {keys[s] : s \in Sessions} : \A s \in Sessions : keys[s] <= k

RowsOf(s, table) == {r \in table : r.session = s}

\* SELECT ... WHERE session_id = s ORDER BY seq ASC.
ThreadOf(s, table) ==
  [i \in 1..Cardinality(RowsOf(s, table)) |->
     (CHOOSE r \in RowsOf(s, table) :
        Cardinality({q \in RowsOf(s, table) : q.seq < r.seq}) = i - 1).turn]

\* SELECT COALESCE(MAX(seq), -1) + 1.
NextSeq(s, table) ==
  CHOOSE n \in 0..Cardinality(table) :
    /\ \A r \in RowsOf(s, table) : r.seq < n
    /\ n = 0 \/ \E r \in RowsOf(s, table) : r.seq = n - 1

\* SELECT id ... ORDER BY touch_seq DESC LIMIT -1 OFFSET capacity.
MoreRecent(s, keys) == {x \in Sessions : keys[x] > keys[s]}
Live(keys) == {s \in Sessions : keys[s] > 0}
\* Mutant of Victims: the most recently used are shed.
NewestVictims(keys, capacity) ==
  {s \in Live(keys) : Cardinality(Live(keys) \ MoreRecent(s, keys)) > capacity}
Victims(keys, capacity) ==
  {s \in Live(keys) : Cardinality(MoreRecent(s, keys)) >= capacity}
-----------------------------------------------------------------------------
(* The transaction.                                                        *)

Open(op, s, t) == [pc |-> "begun", op |-> op, session |-> s, turn |-> t, key |-> 0,
                   touch |-> touch, turns |-> turns, read |-> <<>>]

Write(c, fields) == conn' = [conn EXCEPT ![c] = fields]

BeginImmediate(c, draft) == lock = None /\ Write(c, draft) /\ lock' = c

BeginRecord(c, s) ==
  /\ conn[c] = Closed
  /\ asked < MaxTurns
  /\ asked' = asked + 1
  /\ BeginImmediate(c, Open("record", s, asked + 1))
  /\ UNCHANGED <<touch, turns, told, shown>>

BeginReplay(c, s) ==
  /\ conn[c] = Closed
  /\ BeginImmediate(c, Open("replay", s, 0))
  /\ UNCHANGED <<touch, turns, asked, told, shown>>

\* next_touch; replay of an unknown session goes straight to its read.
NextTouch(c) ==
  LET d == conn[c]
  IN /\ d.pc = "begun"
     /\ IF d.op = "replay" /\ d.touch[d.session] = 0
        THEN Write(c, [d EXCEPT !.pc = "read"])
        ELSE /\ TopKey(d.touch) < MaxTouch
             /\ Write(c, [d EXCEPT !.pc = "keyed", !.key = TopKey(d.touch) + 1])
     /\ UNCHANGED <<touch, turns, lock, asked, told, shown>>

\* The UPDATE of replay, the upsert of record_turn.
PromoteRow(c) ==
  LET d == conn[c]
  IN /\ d.pc = "keyed"
     /\ Write(c, [d EXCEPT !.pc = IF d.op = "replay" THEN "read" ELSE "insert",
                           !.touch[d.session] = d.key])
     /\ UNCHANGED <<touch, turns, lock, asked, told, shown>>

ReadThread(c) ==
  LET d == conn[c]
  IN /\ d.pc = "read"
     /\ Write(c, [d EXCEPT !.pc = "commit", !.read = ThreadOf(d.session, d.turns)])
     /\ UNCHANGED <<touch, turns, lock, asked, told, shown>>

InsertTurn(c) ==
  LET d == conn[c]
      row == [session |-> d.session, seq |-> NextSeq(d.session, d.turns), turn |-> d.turn]
  IN /\ d.pc = "insert"
     /\ Write(c, [d EXCEPT !.pc = "evict", !.turns = @ \cup {row}])
     /\ UNCHANGED <<touch, turns, lock, asked, told, shown>>

\* Mutant of EvictOverCapacity: the turns are left to a cascade nobody declared.
EvictLeavesTurns(c) ==
  LET d == conn[c]
      gone == Victims(d.touch, Capacity[c])
  IN /\ d.pc = "evict"
     /\ Write(c, [d EXCEPT !.pc = "commit",
                    !.touch = [s \in Sessions |-> IF s \in gone THEN 0 ELSE @[s]]])
     /\ UNCHANGED <<touch, turns, lock, asked, told, shown>>

EvictOverCapacity(c) ==
  LET d == conn[c]
      gone == Victims(d.touch, Capacity[c])
  IN /\ d.pc = "evict"
     /\ Write(c, [d EXCEPT !.pc = "commit",
                    !.turns = {r \in @ : r.session \notin gone},
                    !.touch = [s \in Sessions |-> IF s \in gone THEN 0 ELSE @[s]]])
     /\ UNCHANGED <<touch, turns, lock, asked, told, shown>>

Commit(c) ==
  LET d == conn[c]
  IN /\ d.pc = "commit"
     /\ touch' = d.touch
     /\ turns' = d.turns
     /\ lock' = None
     /\ shown' = IF d.op = "replay" THEN [shown EXCEPT ![c] = d.read] ELSE shown
     /\ Write(c, [d EXCEPT !.pc = "committed"])
     /\ UNCHANGED <<asked, told>>

Return(c) ==
  /\ conn[c].pc = "committed"
  /\ told' = IF conn[c].op = "record" THEN [told EXCEPT ![conn[c].turn] = "recorded"]
                                      ELSE told
  /\ conn' = [conn EXCEPT ![c] = Closed]
  /\ UNCHANGED <<touch, turns, lock, asked, shown>>
-----------------------------------------------------------------------------
(* Failures.                                                               *)

\* A statement or the COMMIT fails: ROLLBACK, by name or with the connection.
StatementFails(c) ==
  /\ InTransaction(c)
  /\ told' = IF conn[c].op = "record" THEN [told EXCEPT ![conn[c].turn] = "error"]
                                      ELSE told
  /\ lock' = None
  /\ conn' = [conn EXCEPT ![c] = Closed]
  /\ UNCHANGED <<touch, turns, asked, shown>>

\* The write lock does not come free within BUSY_TIMEOUT.
Busy(c) ==
  /\ conn[c] = Closed
  /\ lock # None
  /\ asked < MaxTurns
  /\ asked' = asked + 1
  /\ told' = [told EXCEPT ![asked + 1] = "error"]
  /\ UNCHANGED <<touch, turns, lock, conn, shown>>

\* The future is dropped, or its process killed: the connection goes with it.
Abandon(c) ==
  /\ conn[c] # Closed
  /\ conn' = [conn EXCEPT ![c] = Closed]
  /\ lock' = IF lock = c THEN None ELSE lock
  /\ UNCHANGED <<touch, turns, asked, told, shown>>

Next == \E c \in Conns :
  \/ \E s \in Sessions : BeginRecord(c, s) \/ BeginReplay(c, s)
  \/ NextTouch(c) \/ PromoteRow(c) \/ ReadThread(c) \/ InsertTurn(c)
  \/ EvictOverCapacity(c) \/ Commit(c) \/ Return(c)
  \/ StatementFails(c) \/ Busy(c) \/ Abandon(c)

Spec == Init /\ [][Next]_vars
-----------------------------------------------------------------------------
(***************************************************************************)
(* Properties.                                                             *)
(***************************************************************************)

\* The two tables are the same capacity LRU as the in-memory store, with
\* "correctness resting on the enclosing transaction" (next_touch): recency is
\* the order of the touch keys, a thread the order of its seq numbers, and a
\* replay returns the thread as of the instant it promotes it.
Lru == INSTANCE SessionLru WITH
         Callers <- Conns,
         Capacities <- {Capacity[c] : c \in Conns},
         threads <- [s \in Sessions |-> ThreadOf(s, turns)],
         recency <- [i \in 1..Cardinality(Live(touch)) |->
                       CHOOSE s \in Live(touch) : Cardinality(MoreRecent(s, touch)) = i - 1]
LruSpec == Lru!Spec

\* "No two committed writes tie" (next_touch), a turn belongs to a session that
\* has a row, and the ordinals of a thread have no gap (evict_over_capacity).
TablesAgree ==
  /\ \A s, x \in Live(touch) : touch[s] = touch[x] => s = x
  /\ \A r \in turns : /\ touch[r.session] > 0
                      /\ r.seq < Cardinality(RowsOf(r.session, turns))
                      /\ \A q \in turns : q.session = r.session /\ q.seq = r.seq => q = r
  /\ \A s \in Live(touch) : RowsOf(s, turns) # {}

\* "Session turn NOT recorded" (consult_session_turn) is never said of a turn
\* that a later replay brings back, and a turn never enters two threads.
WarnedIsNotStored ==
  \A r \in turns : /\ told[r.turn] # "error"
                   /\ \A q \in turns : q.turn = r.turn => q = r

\* Together: the tables hold whole threads, and only turns their callers believe recorded.
TurnsAreWhole == TablesAgree /\ WarnedIsNotStored
=============================================================================
