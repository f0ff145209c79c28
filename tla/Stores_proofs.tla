--------------------------- MODULE Stores_proofs ---------------------------
(***************************************************************************)
(* Proofs about the state database: the session rows and turn rows that    *)
(* SessionStore's transactions write, for every set of sessions and of      *)
(* connections and every capacity; the migrations of StoreMigration, for    *)
(* every set of processes that open the file; the batch handles in it       *)
(* (BatchHandles), and what is told of a batch of any size (BatchResults).  *)
(***************************************************************************)
EXTENDS SessionStore, StoreMigration, BatchHandles, BatchResults,
        FunctionTheorems, FiniteSetTheorems, SequenceTheorems, FiniteSums, TLAPS

-----------------------------------------------------------------------------
(* The invariant of the session store. *)

\* The two tables of a committed state, and of a draft at most of its statements.
Whole(keys, table) ==
  /\ \A s, x \in Live(keys) : keys[s] = keys[x] => s = x
  /\ \A r \in table : /\ keys[r.session] > 0
                      /\ r.seq < Cardinality(RowsOf(r.session, table))
                      /\ \A q \in table : q.session = r.session /\ q.seq = r.seq => q = r
  /\ \A s \in Live(keys) : RowsOf(s, table) # {}

\* Each turn has one row, and its caller was not told that it has none.
Once(table) ==
  \A r \in table : /\ r.turn \in 1..asked /\ told[r.turn] # "error"
                   /\ \A q \in table : q.turn = r.turn => q = r

Reads == {<<>>} \cup {ThreadOf(s, table) : s \in Sessions, table \in SUBSET Rows}
Drafts == [pc : {"begun", "keyed", "read", "insert", "evict", "commit", "committed"},
           op : {"record", "replay"}, session : Sessions, turn : 0..MaxTurns,
           key : 0..MaxTouch, touch : [Sessions -> 0..MaxTouch], turns : SUBSET Rows,
           read : Reads]

\* What a transaction has written at each of its statements: a new row comes between
\* the promotion that makes its session live and the eviction that may drop it.
DraftHolds(d) ==
  /\ d.pc # "committed"
  /\ IsFiniteSet(d.turns) /\ Once(d.turns)
  /\ d.pc # "insert" => Whole(d.touch, d.turns)
  /\ d.pc \in {"insert", "evict"} => d.op = "record"
  /\ d.pc = "read" => d.op = "replay"
  /\ d.pc = "keyed" => /\ \A s \in Sessions : d.touch[s] < d.key
                       /\ d.op = "replay" => d.touch[d.session] > 0
  /\ d.pc = "insert" =>
       /\ d.touch[d.session] > 0
       /\ \A s, x \in Live(d.touch) : d.touch[s] = d.touch[x] => s = x
       /\ \A r \in d.turns : /\ d.touch[r.session] > 0
                             /\ r.seq < Cardinality(RowsOf(r.session, d.turns))
                             /\ \A q \in d.turns : q.session = r.session /\ q.seq = r.seq => q = r
       /\ \A s \in Live(d.touch) : s # d.session => RowsOf(s, d.turns) # {}
  /\ d.op = "record" =>
       /\ d.turn \in 1..asked /\ told[d.turn] # "error"
       /\ \A r \in turns : r.turn # d.turn
       /\ d.pc \in {"begun", "keyed", "insert"} => \A r \in d.turns : r.turn # d.turn

ConnHolds(c) ==
  \/ conn[c] = Closed /\ lock # c
  \/ /\ conn[c] \in Drafts /\ conn[c].pc = "committed" /\ lock # c
     /\ conn[c].op = "record" => conn[c].turn \in 1..asked
  \/ conn[c] \in Drafts /\ lock = c /\ DraftHolds(conn[c])

StoreTypeOK ==
  /\ touch \in [Sessions -> 0..MaxTouch]
  /\ turns \in SUBSET Rows /\ IsFiniteSet(turns)
  /\ lock \in Conns \cup {None}
  /\ asked \in 0..MaxTurns
  /\ told \in [Turns -> {"nothing", "recorded", "error"}]
  /\ conn = [c \in Conns |-> conn[c]]

StoreInv ==
  /\ StoreTypeOK
  /\ Whole(touch, turns) /\ Once(turns)
  /\ \A t \in Turns : t > asked => told[t] = "nothing"
  /\ \A c \in Conns : ConnHolds(c)

\* COALESCE(MAX(touch_seq), 0) is no less than any key.
LEMMA TopKeyIsTop ==
  ASSUME NEW keys \in [Sessions -> 0..MaxTouch]
  PROVE  TopKey(keys) \in 0..MaxTouch /\ \A s \in Sessions : keys[s] <= TopKey(keys)
<1> DEFINE Keys == {0} \cup {keys[s] : s \in Sessions}
           Gaps == {MaxTouch - k : k \in Keys}
<1>1. Keys \subseteq 0..MaxTouch /\ Gaps \subseteq Nat /\ Gaps # {}
  BY StoreAssumption
<1>2. PICK g \in Gaps : \A h \in Gaps : g <= h
  <2> HIDE DEF Gaps
  <2>1. QED
    BY <1>1, LeastNumber
<1>3. PICK k \in Keys : g = MaxTouch - k
  OBVIOUS
<1>4. \A m \in Keys : m <= k
  <2> TAKE m \in Keys
  <2>1. g <= MaxTouch - m
    BY <1>2
  <2>2. QED
    BY <1>1, <1>3, <2>1, StoreAssumption
<1>5. k \in Keys /\ \A s \in Sessions : keys[s] <= k
  BY <1>4
<1>6. TopKey(keys) \in Keys /\ \A s \in Sessions : keys[s] <= TopKey(keys)
  <2> HIDE DEF Keys
  <2>1. \E m \in Keys : \A s \in Sessions : keys[s] <= m
    BY <1>5
  <2>2. TopKey(keys) = CHOOSE m \in Keys : \A s \in Sessions : keys[s] <= m
    BY DEF TopKey, Keys
  <2>3. QED
    BY <2>1, <2>2
<1>7. QED
  BY <1>1, <1>6

\* The rows of one session, as a set of their own.
LEMMA RowsAreFinite ==
  ASSUME NEW table \in SUBSET Rows, IsFiniteSet(table), NEW s
  PROVE  /\ IsFiniteSet(RowsOf(s, table)) /\ RowsOf(s, table) \subseteq table
         /\ Cardinality(RowsOf(s, table)) \in Nat
         /\ Cardinality(RowsOf(s, table)) <= Cardinality(table) /\ Cardinality(table) \in Nat
<1>1. RowsOf(s, table) \in SUBSET table
  BY DEF RowsOf
<1>2. QED
  BY <1>1, FS_Subset, FS_CardinalityType

\* Every number below the length of a gapless thread is a row's.
LEMMA NumbersAreTaken ==
  ASSUME NEW table \in SUBSET Rows, IsFiniteSet(table), NEW s \in Sessions,
         \A r \in RowsOf(s, table) :
           /\ r.seq < Cardinality(RowsOf(s, table))
           /\ \A q \in RowsOf(s, table) : q.seq = r.seq => q = r
  PROVE  \A m \in 0..Cardinality(RowsOf(s, table)) - 1 : \E r \in RowsOf(s, table) : r.seq = m
<1> DEFINE R == RowsOf(s, table)
           n == Cardinality(R)
           f == [r \in R |-> r.seq]
<1>1. n \in Nat /\ n \in 0..Cardinality(table) /\ IsFiniteSet(R) /\ \A r \in R : r.seq \in Nat
  BY RowsAreFinite DEF Rows
<1>2. f \in Injection(R, 0..n - 1)
  <2>1. \A r \in R : r.seq \in 0..n - 1
    BY <1>1
  <2>2. f \in [R -> 0..n - 1]
    BY <2>1
  <2>3. \A a, b \in R : f[a] = f[b] => a = b
    OBVIOUS
  <2> HIDE DEF f, R, n
  <2>4. QED
    BY <2>2, <2>3, Fun_IsInj
<1>3. IsFiniteSet(0..n - 1) /\ Cardinality(0..n - 1) = n
  <2>1. 0 \in Int /\ n - 1 \in Int
    BY <1>1
  <2>2. QED
    BY <1>1, <2>1, FS_Interval
<1>4. f \in Surjection(R, 0..n - 1)
  <2> HIDE DEF f, R
  <2>1. QED
    BY <1>2, <1>3, FS_Injection
<1>5. QED
  BY <1>4 DEF Surjection

\* COALESCE(MAX(seq), -1) + 1 of a thread without a gap is its length.
LEMMA NextSeqIsCount ==
  ASSUME NEW table \in SUBSET Rows, IsFiniteSet(table), NEW s \in Sessions,
         \A r \in RowsOf(s, table) :
           /\ r.seq < Cardinality(RowsOf(s, table))
           /\ \A q \in RowsOf(s, table) : q.seq = r.seq => q = r
  PROVE  NextSeq(s, table) = Cardinality(RowsOf(s, table))
<1> DEFINE R == RowsOf(s, table)
           n == Cardinality(R)
           Follows(m) == /\ \A r \in R : r.seq < m
                         /\ m = 0 \/ \E r \in R : r.seq = m - 1
<1>1. n \in Nat /\ n \in 0..Cardinality(table) /\ \A r \in R : r.seq \in Nat
  BY RowsAreFinite DEF Rows
<1>2. \A m \in 0..n - 1 : \E r \in R : r.seq = m
  BY NumbersAreTaken
<1>3. Follows(n)
  BY <1>1, <1>2
<1>4. ASSUME NEW m \in Nat, Follows(m) PROVE m = n
  BY <1>1, <1>2, <1>4
<1>5. NextSeq(s, table) = CHOOSE m \in 0..Cardinality(table) : Follows(m)
  BY DEF NextSeq
<1> HIDE DEF Follows, n
<1>6. QED
  BY <1>1, <1>3, <1>4, <1>5, RowsAreFinite DEF n

\* What the three writes leave: the upsert or UPDATE, the INSERT, the two DELETEs.
Promoted(keys, s, k) == [keys EXCEPT ![s] = k]
NewRow(s, table, t) == [session |-> s, seq |-> NextSeq(s, table), turn |-> t]
Kept(table, gone) == {r \in table : r.session \notin gone}
LeftLive(keys, gone) == [s \in Sessions |-> IF s \in gone THEN 0 ELSE keys[s]]

\* A session goes to the front: its key is above all others.
LEMMA PromotedIsUnique ==
  ASSUME NEW keys \in [Sessions -> 0..MaxTouch], NEW s \in Sessions, NEW k \in 0..MaxTouch,
         \A x \in Sessions : keys[x] < k,
         \A x, y \in Live(keys) : keys[x] = keys[y] => x = y
  PROVE  /\ Promoted(keys, s, k) \in [Sessions -> 0..MaxTouch]
         /\ \A x, y \in Live(Promoted(keys, s, k)) :
              Promoted(keys, s, k)[x] = Promoted(keys, s, k)[y] => x = y
         /\ Promoted(keys, s, k)[s] > 0 /\ Live(Promoted(keys, s, k)) = Live(keys) \cup {s}
         /\ \A x \in Sessions : keys[x] > 0 => Promoted(keys, s, k)[x] > 0
<1> DEFINE promoted == Promoted(keys, s, k)
<1>1. /\ promoted \in [Sessions -> 0..MaxTouch]
      /\ \A x \in Sessions : promoted[x] = IF x = s THEN k ELSE keys[x]
  BY DEF Promoted
<1>2. k > 0 /\ \A x \in Sessions : keys[x] \in Nat /\ keys[x] < k
  OBVIOUS
<1>3. QED
  BY <1>1, <1>2 DEF Live

\* The row of a new turn follows the last of its thread.
LEMMA InsertIsWhole ==
  ASSUME NEW keys \in [Sessions -> 0..MaxTouch], NEW table \in SUBSET Rows, IsFiniteSet(table),
         NEW s \in Sessions, NEW t \in Turns, keys[s] > 0,
         \A x, y \in Live(keys) : keys[x] = keys[y] => x = y,
         \A r \in table : /\ keys[r.session] > 0
                          /\ r.seq < Cardinality(RowsOf(r.session, table))
                          /\ \A q \in table : q.session = r.session /\ q.seq = r.seq => q = r,
         \A x \in Live(keys) : x # s => RowsOf(x, table) # {}
  PROVE  /\ Whole(keys, table \cup {NewRow(s, table, t)})
         /\ NewRow(s, table, t) \in Rows /\ NewRow(s, table, t).turn = t
         /\ IsFiniteSet(table \cup {NewRow(s, table, t)})
<1> DEFINE added == NewRow(s, table, t)
           n == Cardinality(RowsOf(s, table))
           longer == table \cup {added}
<1>1. NextSeq(s, table) = n /\ n \in Nat
  <2>1. \A r \in RowsOf(s, table) :
           /\ r.seq < Cardinality(RowsOf(s, table))
           /\ \A q \in RowsOf(s, table) : q.seq = r.seq => q = r
    BY ZenonT(60) DEF RowsOf
  <2>2. QED
    BY <2>1, NextSeqIsCount, RowsAreFinite
<1>2. added \in Rows /\ added.turn = t /\ added.session = s /\ added.seq = n
  BY <1>1 DEF Rows, NewRow
<1> HIDE DEF added
<1>3. IsFiniteSet(longer)
  BY FS_AddElement
<1>4. added \notin table
  <2>1. \A r \in table : r.session = s => r.seq < n
    OBVIOUS
  <2>2. QED
    BY <1>1, <1>2, <2>1
<1>5. RowsOf(s, longer) = RowsOf(s, table) \cup {added} /\ added \notin RowsOf(s, table)
  BY <1>2, <1>4 DEF RowsOf
<1>6. Cardinality(RowsOf(s, longer)) = n + 1
  <2>1. IsFiniteSet(RowsOf(s, table))
    BY RowsAreFinite
  <2>2. Cardinality(RowsOf(s, table) \cup {added}) = Cardinality(RowsOf(s, table)) + 1
    BY ONLY <1>5, <2>1, FS_AddElement
  <2>3. QED
    BY <1>5, <2>2
<1>7. \A x \in Sessions : x # s => RowsOf(x, longer) = RowsOf(x, table)
  BY <1>2 DEF RowsOf
<1> HIDE DEF n
<1>8. ASSUME NEW r \in longer
      PROVE  /\ keys[r.session] > 0
             /\ r.seq < Cardinality(RowsOf(r.session, longer))
             /\ \A q \in longer : q.session = r.session /\ q.seq = r.seq => q = r
  <2>1. \A q \in table : q.session \in Sessions /\ q.seq \in Nat /\ (q.session = s => q.seq < n)
    BY DEF Rows, n
  <2>2. CASE r = added
    BY <1>1, <1>2, <1>6, <2>1, <2>2
  <2>3. CASE r \in table /\ r.session = s
    BY <1>1, <1>2, <1>6, <2>1, <2>3
  <2>4. CASE r \in table /\ r.session # s
    BY <1>2, <1>7, <2>1, <2>4
  <2>5. QED
    BY <2>2, <2>3, <2>4
<1>9. \A x \in Live(keys) : RowsOf(x, longer) # {}
  BY <1>5, <1>7 DEF Live
<1>10. QED
  BY <1>2, <1>3, <1>8, <1>9 DEF Whole, added

\* Shed sessions leave both tables, and the others are as they were.
LEMMA EvictIsWhole ==
  ASSUME NEW keys \in [Sessions -> 0..MaxTouch], NEW table \in SUBSET Rows, IsFiniteSet(table),
         Whole(keys, table), NEW gone
  PROVE  /\ Whole(LeftLive(keys, gone), Kept(table, gone))
         /\ Kept(table, gone) \in SUBSET Rows /\ IsFiniteSet(Kept(table, gone))
         /\ LeftLive(keys, gone) \in [Sessions -> 0..MaxTouch] /\ Kept(table, gone) \subseteq table
<1> DEFINE stays == Kept(table, gone)
           left == LeftLive(keys, gone)
<1>1. stays \in SUBSET Rows /\ stays \in SUBSET table /\ left \in [Sessions -> 0..MaxTouch]
  BY StoreAssumption DEF Kept, LeftLive
<1>2. IsFiniteSet(stays)
  BY <1>1, FS_Subset
<1>3. \A s \in Sessions : s \notin gone => RowsOf(s, stays) = RowsOf(s, table) /\ left[s] = keys[s]
  BY DEF RowsOf, Kept, LeftLive
<1>4. \A r \in stays : r.session \in Sessions /\ r.session \notin gone /\ r \in table
  BY DEF Rows, Kept
<1>5. Live(left) = Live(keys) \ gone
  BY DEF Live, LeftLive
<1>6. Whole(left, stays)
  BY <1>3, <1>4, <1>5 DEF Whole, Live
<1>7. QED
  BY <1>1, <1>2, <1>6

-----------------------------------------------------------------------------
(* The transaction, one statement at a time. *)

\* A draft's program counter, key, tables and result move; its caller stays.
LEMMA DraftMoves ==
  ASSUME NEW d \in Drafts
  PROVE  /\ d.pc \in {"begun", "keyed", "read", "insert", "evict", "commit", "committed"}
         /\ d.op \in {"record", "replay"} /\ d.session \in Sessions /\ d.turn \in 0..MaxTurns
         /\ d.key \in 0..MaxTouch /\ d.touch \in [Sessions -> 0..MaxTouch]
         /\ d.turns \in SUBSET Rows /\ d.read \in Reads /\ d # Closed
         /\ DOMAIN d = {"pc", "op", "session", "turn", "key", "touch", "turns", "read"}
<1>1. QED
  BY ONLY d \in Drafts DEF Drafts, Closed

\* A draft with its statement, key, tables and result as given.
Draft(d, p, k, keys, table, rd) ==
  [pc |-> p, op |-> d.op, session |-> d.session, turn |-> d.turn, key |-> k,
   touch |-> keys, turns |-> table, read |-> rd]

\* The updates the statements make of a draft, field by field.
LEMMA DraftUpdates ==
  ASSUME NEW d \in Drafts
  PROVE  /\ \A p : [d EXCEPT !.pc = p]
             = Draft(d, p, d.key, d.touch, d.turns, d.read)
         /\ \A p, k : [d EXCEPT !.pc = p, !.key = k]
             = Draft(d, p, k, d.touch, d.turns, d.read)
         /\ \A p, rd : [d EXCEPT !.pc = p, !.read = rd]
             = Draft(d, p, d.key, d.touch, d.turns, rd)
         /\ \A p, tb : [d EXCEPT !.pc = p, !.turns = tb]
             = Draft(d, p, d.key, d.touch, tb, d.read)
         /\ \A p, ks : [d EXCEPT !.pc = p, !.touch = ks]
             = Draft(d, p, d.key, ks, d.turns, d.read)
         /\ \A p, tb, ks : [d EXCEPT !.pc = p, !.turns = tb, !.touch = ks]
             = Draft(d, p, d.key, ks, tb, d.read)
<1>1. DOMAIN d = {"pc", "op", "session", "turn", "key", "touch", "turns", "read"}
  BY DEF Drafts
<1>2. ASSUME NEW p
      PROVE  [d EXCEPT !.pc = p] = Draft(d, p, d.key, d.touch, d.turns, d.read)
  <2> DEFINE e == [d EXCEPT !.pc = p]
  <2>1. DOMAIN e = DOMAIN d /\ e = [f \in DOMAIN d |-> e[f]]
    OBVIOUS
  <2>2. /\ e.pc = p /\ e.op = d.op /\ e.session = d.session /\ e.turn = d.turn /\ e.key = d.key
        /\ e.touch = d.touch /\ e.turns = d.turns /\ e.read = d.read
    BY <1>1
  <2> HIDE DEF e
  <2>3. e = Draft(d, p, d.key, d.touch, d.turns, d.read)
    BY ONLY <1>1, <2>1, <2>2 DEF Draft
  <2>4. QED
    BY <2>3 DEF e
<1>3. ASSUME NEW p, NEW k
      PROVE  [d EXCEPT !.pc = p, !.key = k] = Draft(d, p, k, d.touch, d.turns, d.read)
  <2> DEFINE e == [d EXCEPT !.pc = p, !.key = k]
  <2>1. DOMAIN e = DOMAIN d /\ e = [f \in DOMAIN d |-> e[f]]
    OBVIOUS
  <2>2. /\ e.pc = p /\ e.op = d.op /\ e.session = d.session /\ e.turn = d.turn /\ e.key = k
        /\ e.touch = d.touch /\ e.turns = d.turns /\ e.read = d.read
    BY <1>1
  <2> HIDE DEF e
  <2>3. e = Draft(d, p, k, d.touch, d.turns, d.read)
    BY ONLY <1>1, <2>1, <2>2 DEF Draft
  <2>4. QED
    BY <2>3 DEF e
<1>4. ASSUME NEW p, NEW rd
      PROVE  [d EXCEPT !.pc = p, !.read = rd] = Draft(d, p, d.key, d.touch, d.turns, rd)
  <2> DEFINE e == [d EXCEPT !.pc = p, !.read = rd]
  <2>1. DOMAIN e = DOMAIN d /\ e = [f \in DOMAIN d |-> e[f]]
    OBVIOUS
  <2>2. /\ e.pc = p /\ e.op = d.op /\ e.session = d.session /\ e.turn = d.turn /\ e.key = d.key
        /\ e.touch = d.touch /\ e.turns = d.turns /\ e.read = rd
    BY <1>1
  <2> HIDE DEF e
  <2>3. e = Draft(d, p, d.key, d.touch, d.turns, rd)
    BY ONLY <1>1, <2>1, <2>2 DEF Draft
  <2>4. QED
    BY <2>3 DEF e
<1>5. ASSUME NEW p, NEW tb
      PROVE  [d EXCEPT !.pc = p, !.turns = tb] = Draft(d, p, d.key, d.touch, tb, d.read)
  <2> DEFINE e == [d EXCEPT !.pc = p, !.turns = tb]
  <2>1. DOMAIN e = DOMAIN d /\ e = [f \in DOMAIN d |-> e[f]]
    OBVIOUS
  <2>2. /\ e.pc = p /\ e.op = d.op /\ e.session = d.session /\ e.turn = d.turn /\ e.key = d.key
        /\ e.touch = d.touch /\ e.turns = tb /\ e.read = d.read
    BY <1>1
  <2> HIDE DEF e
  <2>3. e = Draft(d, p, d.key, d.touch, tb, d.read)
    BY ONLY <1>1, <2>1, <2>2 DEF Draft
  <2>4. QED
    BY <2>3 DEF e
<1>6. ASSUME NEW p, NEW ks
      PROVE  [d EXCEPT !.pc = p, !.touch = ks] = Draft(d, p, d.key, ks, d.turns, d.read)
  <2> DEFINE e == [d EXCEPT !.pc = p, !.touch = ks]
  <2>1. DOMAIN e = DOMAIN d /\ e = [f \in DOMAIN d |-> e[f]]
    OBVIOUS
  <2>2. /\ e.pc = p /\ e.op = d.op /\ e.session = d.session /\ e.turn = d.turn /\ e.key = d.key
        /\ e.touch = ks /\ e.turns = d.turns /\ e.read = d.read
    BY <1>1
  <2> HIDE DEF e
  <2>3. e = Draft(d, p, d.key, ks, d.turns, d.read)
    BY ONLY <1>1, <2>1, <2>2 DEF Draft
  <2>4. QED
    BY <2>3 DEF e
<1>7. ASSUME NEW p, NEW tb, NEW ks
      PROVE  [d EXCEPT !.pc = p, !.turns = tb, !.touch = ks] = Draft(d, p, d.key, ks, tb, d.read)
  <2> DEFINE e == [d EXCEPT !.pc = p, !.turns = tb, !.touch = ks]
  <2>1. DOMAIN e = DOMAIN d /\ e = [f \in DOMAIN d |-> e[f]]
    OBVIOUS
  <2>2. /\ e.pc = p /\ e.op = d.op /\ e.session = d.session /\ e.turn = d.turn /\ e.key = d.key
        /\ e.touch = ks /\ e.turns = tb /\ e.read = d.read
    BY <1>1
  <2> HIDE DEF e
  <2>3. e = Draft(d, p, d.key, ks, tb, d.read)
    BY ONLY <1>1, <2>1, <2>2 DEF Draft
  <2>4. QED
    BY <2>3 DEF e
<1>8. QED
  BY ONLY <1>2, <1>3, <1>4, <1>5, <1>6, <1>7, Zenon

\* A draft so updated is one, and its call is as it was.
LEMMA DraftIsTyped ==
  ASSUME NEW d \in Drafts,
         NEW p \in {"begun", "keyed", "read", "insert", "evict", "commit", "committed"},
         NEW k \in 0..MaxTouch, NEW keys \in [Sessions -> 0..MaxTouch],
         NEW table \in SUBSET Rows, NEW rd \in Reads,
         NEW e, e = Draft(d, p, k, keys, table, rd)
  PROVE  /\ e \in Drafts /\ e.pc = p /\ e.op = d.op /\ e.session = d.session /\ e.turn = d.turn
         /\ e.key = k /\ e.touch = keys /\ e.turns = table /\ e.read = rd
<1>1. d.op \in {"record", "replay"} /\ d.session \in Sessions /\ d.turn \in 0..MaxTurns
  BY DraftMoves
<1>2. QED
  BY ONLY <1>1, p \in {"begun", "keyed", "read", "insert", "evict", "commit", "committed"},
     k \in 0..MaxTouch, keys \in [Sessions -> 0..MaxTouch], table \in SUBSET Rows, rd \in Reads,
     e = Draft(d, p, k, keys, table, rd) DEF Drafts, Draft

\* A connection that does not move keeps what it holds.
LEMMA OthersHold ==
  ASSUME NEW x \in Conns, ConnHolds(x), conn'[x] = conn[x],
         lock' = x <=> lock = x,
         asked \in Nat, asked' \in Nat, asked' >= asked,
         lock = x => /\ turns' = turns
                     /\ \A t \in 1..asked : told[t] # "error" => told'[t] # "error"
  PROVE  ConnHolds(x)'
<1>1. 1..asked \subseteq 1..asked'
  OBVIOUS
<1>2. CASE conn[x] = Closed /\ lock # x
  BY <1>2 DEF ConnHolds
<1>3. CASE /\ conn[x] \in Drafts /\ conn[x].pc = "committed" /\ lock # x
           /\ conn[x].op = "record" => conn[x].turn \in 1..asked
  BY <1>1, <1>3 DEF ConnHolds
<1>4. CASE conn[x] \in Drafts /\ lock = x /\ DraftHolds(conn[x])
  <2>1. Once(conn[x].turns)'
    BY <1>1, <1>4 DEF DraftHolds, Once
  <2>2. conn[x].op = "record" =>
          /\ conn[x].turn \in 1..asked' /\ told'[conn[x].turn] # "error"
          /\ \A r \in turns' : r.turn # conn[x].turn
    BY <1>1, <1>4 DEF DraftHolds
  <2>3. DraftHolds(conn[x])'
    BY <1>4, <2>1, <2>2 DEF DraftHolds, Whole
  <2>4. QED
    BY <1>4, <2>3 DEF ConnHolds
<1>5. QED
  BY <1>2, <1>3, <1>4 DEF ConnHolds

\* One statement of the connection that holds the write lock.
LEMMA StatementHolds ==
  ASSUME StoreInv, NEW c \in Conns, lock = c, NEW e \in Drafts, DraftHolds(e),
         Write(c, e), UNCHANGED <<touch, turns, lock, asked, told>>
  PROVE  StoreInv'
<1>1. /\ touch' = touch /\ turns' = turns /\ lock' = lock /\ asked' = asked /\ told' = told
      /\ asked \in Nat
  BY DEF StoreInv, StoreTypeOK
<1>2. conn'[c] = e /\ \A x \in Conns : x # c => conn'[x] = conn[x]
  BY DEF StoreInv, StoreTypeOK, Write
<1>3. StoreTypeOK'
  BY <1>1 DEF StoreInv, StoreTypeOK, Write
<1>4. ConnHolds(c)'
  <2>1. DraftHolds(conn[c])'
    BY <1>1, <1>2 DEF DraftHolds, Once, Whole
  <2>2. QED
    BY <1>1, <1>2, <2>1 DEF ConnHolds
<1>5. \A x \in Conns : x # c => ConnHolds(x)'
  BY <1>1, <1>2, OthersHold DEF StoreInv
<1>6. QED
  BY <1>1, <1>3, <1>4, <1>5 DEF StoreInv, Once, Whole

\* What the connection with a draft at one of its statements holds.
LEMMA HolderHolds ==
  ASSUME StoreInv, NEW c \in Conns, conn[c].pc \notin {"closed", "committed"}
  PROVE  conn[c] \in Drafts /\ lock = c /\ DraftHolds(conn[c])
<1>1. Closed.pc = "closed"
  BY DEF Closed
<1>2. QED
  BY <1>1 DEF StoreInv, ConnHolds

\* next_touch, or the read of a session that is not there.
LEMMA NextTouchStep ==
  ASSUME StoreInv, NEW c \in Conns, NextTouch(c)
  PROVE  StoreInv'
<1> DEFINE d == conn[c]
<1>1. d \in Drafts /\ lock = c /\ DraftHolds(d) /\ d.pc = "begun"
  BY HolderHolds DEF NextTouch
<1>2. CASE d.op = "replay" /\ d.touch[d.session] = 0
  <2> DEFINE e == Draft(d, "read", d.key, d.touch, d.turns, d.read)
  <2>1. Write(c, e) /\ UNCHANGED <<touch, turns, lock, asked, told>>
    BY <1>1, <1>2, DraftUpdates DEF NextTouch
  <2>2. /\ e \in Drafts /\ e.pc = "read" /\ e.op = d.op /\ e.turn = d.turn
        /\ e.touch = d.touch /\ e.turns = d.turns
    BY <1>1, DraftIsTyped, DraftMoves
  <2> HIDE DEF d, e
  <2>3. DraftHolds(e)
    BY <1>1, <1>2, <2>2 DEF DraftHolds, Whole, Once
  <2>4. QED
    BY <1>1, <2>1, <2>2, <2>3, StatementHolds
<1>3. CASE ~(d.op = "replay" /\ d.touch[d.session] = 0)
  <2> DEFINE k == TopKey(d.touch) + 1
             e == Draft(d, "keyed", k, d.touch, d.turns, d.read)
  <2>1. /\ TopKey(d.touch) < MaxTouch /\ UNCHANGED <<touch, turns, lock, asked, told>>
        /\ Write(c, [d EXCEPT !.pc = "keyed", !.key = k])
    BY <1>3 DEF NextTouch
  <2>7. Write(c, e)
    <3> HIDE DEF d, k
    <3>1. [d EXCEPT !.pc = "keyed", !.key = k] = Draft(d, "keyed", k, d.touch, d.turns, d.read)
      BY <1>1, DraftUpdates
    <3>2. QED
      BY <2>1, <3>1
  <2>2. k \in 0..MaxTouch /\ \A s \in Sessions : d.touch[s] < k
    <3>1. d.touch \in [Sessions -> 0..MaxTouch]
      BY <1>1, DraftMoves
    <3>2. TopKey(d.touch) \in 0..MaxTouch /\ \A s \in Sessions : d.touch[s] <= TopKey(d.touch)
      BY <3>1, TopKeyIsTop
    <3>3. \A s \in Sessions : d.touch[s] \in 0..MaxTouch
      BY <3>1
    <3> HIDE DEF d
    <3>4. QED
      BY <2>1, <3>2, <3>3, StoreAssumption
  <2> HIDE DEF k
  <2>3. /\ e \in Drafts /\ e.pc = "keyed" /\ e.op = d.op /\ e.turn = d.turn /\ e.key = k
        /\ e.session = d.session /\ e.touch = d.touch /\ e.turns = d.turns
    BY <1>1, <2>2, DraftIsTyped, DraftMoves
  <2> HIDE DEF d, e
  <2>4. e.op = "replay" => e.touch[e.session] > 0
    BY <1>1, <1>3, <2>3, DraftMoves
  <2>5. DraftHolds(e)
    BY <1>1, <2>2, <2>3, <2>4 DEF DraftHolds, Whole, Once
  <2>6. QED
    BY <1>1, <2>1, <2>7, <2>3, <2>5, StatementHolds
<1>4. QED
  BY <1>2, <1>3

\* The UPDATE of replay and the upsert of record_turn.
LEMMA PromoteRowStep ==
  ASSUME StoreInv, NEW c \in Conns, PromoteRow(c)
  PROVE  StoreInv'
<1> DEFINE d == conn[c]
           p == IF d.op = "replay" THEN "read" ELSE "insert"
           promoted == Promoted(d.touch, d.session, d.key)
           u == [d EXCEPT !.pc = p, !.touch[d.session] = d.key]
           e == Draft(d, p, d.key, promoted, d.turns, d.read)
<1>1. d \in Drafts /\ lock = c /\ DraftHolds(d) /\ d.pc = "keyed"
  BY HolderHolds DEF PromoteRow
<1>2. Write(c, u) /\ UNCHANGED <<touch, turns, lock, asked, told>>
  BY DEF PromoteRow
<1>3. u = e
  <2> HIDE DEF d, p
  <2>1. DOMAIN d = {"pc", "op", "session", "turn", "key", "touch", "turns", "read"}
    BY <1>1, DraftMoves
  <2>2. DOMAIN u = DOMAIN d /\ u = [f \in DOMAIN d |-> u[f]]
    OBVIOUS
  <2>3. /\ u.pc = p /\ u.op = d.op /\ u.session = d.session /\ u.turn = d.turn /\ u.key = d.key
        /\ u.touch = promoted /\ u.turns = d.turns /\ u.read = d.read
    BY <2>1 DEF Promoted
  <2> HIDE DEF u, promoted
  <2>4. QED
    BY ONLY <2>1, <2>2, <2>3 DEF Draft
<1>4. /\ d.op \in {"record", "replay"} /\ d.session \in Sessions /\ d.turn \in 0..MaxTurns
      /\ d.key \in 0..MaxTouch /\ d.touch \in [Sessions -> 0..MaxTouch]
      /\ d.turns \in SUBSET Rows /\ d.read \in Reads
  BY <1>1, DraftMoves
<1>5. \A s \in Sessions : d.touch[s] < d.key
  BY <1>1 DEF DraftHolds
<1>6. \A x, y \in Live(d.touch) : d.touch[x] = d.touch[y] => x = y
  BY <1>1 DEF DraftHolds, Whole
<1>7. /\ promoted \in [Sessions -> 0..MaxTouch]
      /\ \A x, y \in Live(promoted) : promoted[x] = promoted[y] => x = y
      /\ promoted[d.session] > 0 /\ Live(promoted) = Live(d.touch) \cup {d.session}
      /\ \A x \in Sessions : d.touch[x] > 0 => promoted[x] > 0
  <2> HIDE DEF d
  <2>1. QED
    BY ONLY <1>4, <1>5, <1>6, PromotedIsUnique
<1>8. p \in {"read", "insert"} /\ (p = "read" <=> d.op = "replay")
  OBVIOUS
<1> HIDE DEF p, promoted
<1>9. /\ e \in Drafts /\ e.pc = p /\ e.op = d.op /\ e.turn = d.turn /\ e.session = d.session
      /\ e.key = d.key /\ e.touch = promoted /\ e.turns = d.turns
  BY <1>1, <1>4, <1>7, <1>8, DraftIsTyped
<1> HIDE DEF e, d, u
<1>10. /\ \A r \in d.turns : /\ r.session \in Sessions /\ d.touch[r.session] > 0
                             /\ r.seq < Cardinality(RowsOf(r.session, d.turns))
                             /\ \A q \in d.turns : q.session = r.session /\ q.seq = r.seq => q = r
       /\ \A s \in Live(d.touch) : RowsOf(s, d.turns) # {}
  BY <1>1, <1>4 DEF DraftHolds, Whole, Rows
<1>11. CASE d.op = "replay"
  <2>1. d.session \in Live(d.touch)
    BY <1>1, <1>4, <1>11 DEF DraftHolds, Live
  <2>2. Whole(e.touch, e.turns)
    BY <1>7, <1>9, <1>10, <2>1 DEF Whole
  <2>3. DraftHolds(e)
    BY <1>1, <1>8, <1>9, <1>11, <2>2 DEF DraftHolds
  <2>4. QED
    BY <1>1, <1>2, <1>3, <1>9, <2>3, StatementHolds
<1>12. CASE d.op = "record"
  <2>1. /\ e.touch[e.session] > 0
        /\ \A s, x \in Live(e.touch) : e.touch[s] = e.touch[x] => s = x
    BY <1>7, <1>9
  <2>2. \A r \in e.turns :
          /\ e.touch[r.session] > 0
          /\ r.seq < Cardinality(RowsOf(r.session, e.turns))
          /\ \A q \in e.turns : q.session = r.session /\ q.seq = r.seq => q = r
    BY <1>7, <1>9, <1>10
  <2>3. \A s \in Live(e.touch) : s # e.session => RowsOf(s, e.turns) # {}
    BY <1>7, <1>9, <1>10
  <2>4. DraftHolds(e)
    BY <1>1, <1>8, <1>9, <1>12, <2>1, <2>2, <2>3 DEF DraftHolds
  <2>5. QED
    BY <1>1, <1>2, <1>3, <1>9, <2>4, StatementHolds
<1>13. QED
  BY <1>4, <1>11, <1>12

\* The SELECT of replay.
LEMMA ReadThreadStep ==
  ASSUME StoreInv, NEW c \in Conns, ReadThread(c)
  PROVE  StoreInv'
<1> DEFINE d == conn[c]
           rd == ThreadOf(d.session, d.turns)
           e == Draft(d, "commit", d.key, d.touch, d.turns, rd)
<1>1. d \in Drafts /\ lock = c /\ DraftHolds(d) /\ d.pc = "read"
  BY HolderHolds DEF ReadThread
<1>2. /\ UNCHANGED <<touch, turns, lock, asked, told>>
      /\ Write(c, [d EXCEPT !.pc = "commit", !.read = rd])
  BY DEF ReadThread
<1>3. rd \in Reads
  BY <1>1, DraftMoves DEF Reads
<1> HIDE DEF d, rd
<1>4. [d EXCEPT !.pc = "commit", !.read = rd] = e
  <2>1. d \in Drafts
    BY <1>1
  <2>2. \A p, k : [d EXCEPT !.pc = p, !.read = k] = Draft(d, p, d.key, d.touch, d.turns, k)
    BY ONLY <2>1, DraftUpdates, Zenon
  <2>3. QED
    BY <2>2
<1>5. /\ e \in Drafts /\ e.pc = "commit" /\ e.op = d.op /\ e.turn = d.turn
      /\ e.touch = d.touch /\ e.turns = d.turns
  BY <1>1, <1>3, DraftIsTyped, DraftMoves
<1> HIDE DEF e
<1>6. DraftHolds(e)
  BY <1>1, <1>5 DEF DraftHolds, Whole, Once
<1>7. QED
  BY <1>1, <1>2, <1>4, <1>5, <1>6, StatementHolds

\* The INSERT of a turn.
LEMMA InsertTurnStep ==
  ASSUME StoreInv, NEW c \in Conns, InsertTurn(c)
  PROVE  StoreInv'
<1> DEFINE d == conn[c]
           added == NewRow(d.session, d.turns, d.turn)
           longer == d.turns \cup {added}
           e == Draft(d, "evict", d.key, d.touch, longer, d.read)
<1>1. d \in Drafts /\ lock = c /\ DraftHolds(d) /\ d.pc = "insert"
  BY HolderHolds DEF InsertTurn
<1>2. /\ UNCHANGED <<touch, turns, lock, asked, told>>
      /\ Write(c, [d EXCEPT !.pc = "evict", !.turns = longer])
  BY DEF InsertTurn, NewRow
<1>3. /\ d.session \in Sessions /\ d.key \in 0..MaxTouch /\ d.touch \in [Sessions -> 0..MaxTouch]
      /\ d.turns \in SUBSET Rows /\ d.read \in Reads
  BY <1>1, DraftMoves
<1>4. /\ d.op = "record" /\ IsFiniteSet(d.turns) /\ Once(d.turns) /\ d.turn \in 1..asked
      /\ told[d.turn] # "error" /\ (\A r \in turns : r.turn # d.turn)
      /\ \A r \in d.turns : r.turn # d.turn
  BY <1>1 DEF DraftHolds
<1>5. d.turn \in Turns
  <2>1. asked \in 0..MaxTurns
    BY DEF StoreInv, StoreTypeOK
  <2>2. QED
    BY ONLY <1>4, <2>1, StoreAssumption DEF Turns
<1>6. Whole(d.touch, longer) /\ added \in Rows /\ added.turn = d.turn /\ IsFiniteSet(longer)
  <2>1. /\ d.touch[d.session] > 0
        /\ \A s, x \in Live(d.touch) : d.touch[s] = d.touch[x] => s = x
        /\ \A r \in d.turns : /\ d.touch[r.session] > 0
                              /\ r.seq < Cardinality(RowsOf(r.session, d.turns))
                              /\ \A q \in d.turns : q.session = r.session /\ q.seq = r.seq => q = r
        /\ \A s \in Live(d.touch) : s # d.session => RowsOf(s, d.turns) # {}
    BY <1>1 DEF DraftHolds
  <2> HIDE DEF d
  <2>2. QED
    BY ONLY <1>3, <1>4, <1>5, <2>1, InsertIsWhole, SMTT(60)
<1> HIDE DEF d, added
<1>7. [d EXCEPT !.pc = "evict", !.turns = longer] = e
  BY <1>1, DraftUpdates
<1>8. /\ e \in Drafts /\ e.pc = "evict" /\ e.op = d.op /\ e.turn = d.turn
      /\ e.touch = d.touch /\ e.turns = longer
  BY <1>1, <1>3, <1>6, DraftIsTyped
<1>9. Once(longer)
  BY <1>4, <1>6 DEF Once
<1> HIDE DEF e, longer
<1>10. DraftHolds(e)
  BY <1>4, <1>6, <1>8, <1>9 DEF DraftHolds
<1>11. QED
  BY <1>1, <1>2, <1>7, <1>8, <1>10, StatementHolds

\* evict_over_capacity.
LEMMA EvictStep ==
  ASSUME StoreInv, NEW c \in Conns, EvictOverCapacity(c)
  PROVE  StoreInv'
<1> DEFINE d == conn[c]
           gone == Victims(d.touch, Capacity[c])
           stays == Kept(d.turns, gone)
           left == LeftLive(d.touch, gone)
           e == Draft(d, "commit", d.key, left, stays, d.read)
<1>1. d \in Drafts /\ lock = c /\ DraftHolds(d) /\ d.pc = "evict"
  BY HolderHolds DEF EvictOverCapacity
<1>2. /\ UNCHANGED <<touch, turns, lock, asked, told>>
      /\ Write(c, [d EXCEPT !.pc = "commit", !.turns = stays, !.touch = left])
  BY DEF EvictOverCapacity, Kept, LeftLive
<1>3. /\ d.session \in Sessions /\ d.key \in 0..MaxTouch /\ d.touch \in [Sessions -> 0..MaxTouch]
      /\ d.turns \in SUBSET Rows /\ d.read \in Reads
  BY <1>1, DraftMoves
<1>4. /\ d.op = "record" /\ IsFiniteSet(d.turns) /\ Once(d.turns) /\ Whole(d.touch, d.turns)
      /\ d.turn \in 1..asked /\ told[d.turn] # "error" /\ \A r \in turns : r.turn # d.turn
  BY <1>1 DEF DraftHolds
<1> HIDE DEF d, gone
<1>5. /\ Whole(left, stays) /\ stays \in SUBSET Rows /\ IsFiniteSet(stays)
      /\ left \in [Sessions -> 0..MaxTouch] /\ stays \subseteq d.turns
  BY ONLY <1>3, <1>4, EvictIsWhole
<1>6. [d EXCEPT !.pc = "commit", !.turns = stays, !.touch = left] = e
  <2>1. d \in Drafts
    BY <1>1
  <2>2. \A p, tb, ks : [d EXCEPT !.pc = p, !.turns = tb, !.touch = ks]
                        = Draft(d, p, d.key, ks, tb, d.read)
    BY ONLY <2>1, DraftUpdates, Zenon
  <2>3. QED
    BY <2>2
<1> HIDE DEF stays, left
<1>7. /\ e \in Drafts /\ e.pc = "commit" /\ e.op = d.op /\ e.turn = d.turn
      /\ e.touch = left /\ e.turns = stays
  BY <1>1, <1>3, <1>5, DraftIsTyped
<1>8. Once(stays)
  BY <1>4, <1>5 DEF Once
<1> HIDE DEF e
<1>9. DraftHolds(e)
  BY <1>4, <1>5, <1>7, <1>8 DEF DraftHolds
<1>10. QED
  BY <1>1, <1>2, <1>6, <1>7, <1>9, StatementHolds

\* A connection begins on the committed tables.
LEMMA OpenIsDraft ==
  ASSUME StoreInv, NEW op \in {"record", "replay"}, NEW s \in Sessions, NEW t \in 0..MaxTurns,
         NEW d, d = Open(op, s, t)
  PROVE  /\ d \in Drafts /\ d.pc = "begun" /\ d.op = op /\ d.session = s /\ d.turn = t
         /\ d.touch = touch /\ d.turns = turns
<1>1. /\ touch \in [Sessions -> 0..MaxTouch] /\ turns \in SUBSET Rows /\ 0 \in 0..MaxTouch
      /\ <<>> \in Reads
  BY StoreAssumption DEF StoreInv, StoreTypeOK, Reads
<1>2. QED
  BY ONLY <1>1, op \in {"record", "replay"}, s \in Sessions, t \in 0..MaxTurns, d = Open(op, s, t)
     DEF Drafts, Open

\* record_turn begins: its turn is new, so no row has it.
LEMMA BeginRecordStep ==
  ASSUME StoreInv, NEW c \in Conns, NEW s \in Sessions, BeginRecord(c, s)
  PROVE  StoreInv'
<1> DEFINE d == Open("record", s, asked + 1)
<1>1. /\ touch' = touch /\ turns' = turns /\ told' = told /\ lock = None /\ lock' = c
      /\ asked' = asked + 1 /\ asked < MaxTurns /\ conn' = [conn EXCEPT ![c] = d]
  BY DEF BeginRecord, BeginImmediate, Write
<1>2. /\ asked \in Nat /\ asked' \in 0..MaxTurns /\ asked' \in Turns /\ asked' \in Nat
      /\ conn = [x \in Conns |-> conn[x]] /\ None \notin Conns
  BY <1>1, StoreAssumption DEF StoreInv, StoreTypeOK, Turns
<1>3. /\ d \in Drafts /\ d.pc = "begun" /\ d.op = "record" /\ d.turn = asked' /\ d.touch = touch
      /\ d.turns = turns
  BY <1>1, <1>2, OpenIsDraft
<1> HIDE DEF d
<1>4. conn'[c] = d /\ (\A x \in Conns : x # c => conn'[x] = conn[x])
      /\ conn' = [x \in Conns |-> conn'[x]]
  BY <1>1, <1>2
<1>5. StoreTypeOK'
  BY <1>1, <1>2, <1>4 DEF StoreInv, StoreTypeOK
<1>6. told'[asked'] # "error" /\ \A r \in turns : r.turn # asked' /\ r.turn \in 1..asked'
  BY <1>1, <1>2 DEF StoreInv, Once
<1>7. Once(turns)'
  BY <1>1, <1>6 DEF StoreInv, Once
<1>8. ConnHolds(c)'
  <2>1. IsFiniteSet(turns) /\ Whole(touch, turns)
    BY DEF StoreInv, StoreTypeOK
  <2>2. asked' \in 1..asked'
    BY <1>2 DEF Turns
  <2>3. Once(conn[c].turns)'
    BY <1>1, <1>3, <1>4, <1>7 DEF Once
  <2>4. DraftHolds(conn[c])'
    BY <1>1, <1>3, <1>4, <1>6, <2>1, <2>2, <2>3 DEF DraftHolds, Whole
  <2>5. QED
    BY <1>1, <1>3, <1>4, <2>4 DEF ConnHolds
<1>9. \A x \in Conns : x # c => ConnHolds(x)'
  BY <1>1, <1>2, <1>4, OthersHold DEF StoreInv
<1>10. \A t \in Turns : t > asked' => told'[t] = "nothing"
  BY <1>1, <1>2 DEF StoreInv, Turns
<1>11. QED
  BY <1>1, <1>5, <1>7, <1>8, <1>9, <1>10 DEF StoreInv, Whole

\* replay begins.
LEMMA BeginReplayStep ==
  ASSUME StoreInv, NEW c \in Conns, NEW s \in Sessions, BeginReplay(c, s)
  PROVE  StoreInv'
<1> DEFINE d == Open("replay", s, 0)
<1>1. /\ touch' = touch /\ turns' = turns /\ told' = told /\ lock = None /\ lock' = c
      /\ asked' = asked /\ conn' = [conn EXCEPT ![c] = d]
  BY DEF BeginReplay, BeginImmediate, Write
<1>2. /\ asked \in Nat /\ conn = [x \in Conns |-> conn[x]] /\ None \notin Conns /\ 0 \in 0..MaxTurns
  BY StoreAssumption DEF StoreInv, StoreTypeOK
<1>3. /\ d \in Drafts /\ d.pc = "begun" /\ d.op = "replay" /\ d.touch = touch /\ d.turns = turns
  BY <1>2, OpenIsDraft
<1> HIDE DEF d
<1>4. conn'[c] = d /\ (\A x \in Conns : x # c => conn'[x] = conn[x])
      /\ conn' = [x \in Conns |-> conn'[x]]
  BY <1>1, <1>2
<1>5. StoreTypeOK'
  BY <1>1, <1>4 DEF StoreInv, StoreTypeOK
<1>6. DraftHolds(d)
  BY <1>3 DEF DraftHolds, StoreInv, StoreTypeOK, Whole, Once
<1>7. ConnHolds(c)'
  BY <1>1, <1>3, <1>4, <1>6 DEF ConnHolds, DraftHolds, Whole, Once
<1>8. \A x \in Conns : x # c => ConnHolds(x)'
  BY <1>1, <1>2, <1>4, OthersHold DEF StoreInv
<1>9. QED
  BY <1>1, <1>5, <1>7, <1>8 DEF StoreInv, Whole, Once

\* COMMIT publishes what the transaction wrote.
LEMMA CommitStep ==
  ASSUME StoreInv, NEW c \in Conns, Commit(c)
  PROVE  StoreInv'
<1> DEFINE d == conn[c]
           e == Draft(d, "committed", d.key, d.touch, d.turns, d.read)
<1>1. d \in Drafts /\ lock = c /\ DraftHolds(d) /\ d.pc = "commit"
  BY HolderHolds DEF Commit
<1>2. /\ touch' = d.touch /\ turns' = d.turns /\ lock' = None /\ asked' = asked /\ told' = told
      /\ conn' = [conn EXCEPT ![c] = [d EXCEPT !.pc = "committed"]]
  BY DEF Commit, Write
<1>3. /\ d.touch \in [Sessions -> 0..MaxTouch] /\ d.turns \in SUBSET Rows
      /\ d.key \in 0..MaxTouch /\ d.read \in Reads
  BY <1>1, DraftMoves
<1>4. /\ Whole(d.touch, d.turns) /\ Once(d.turns) /\ IsFiniteSet(d.turns)
      /\ d.op = "record" => d.turn \in 1..asked
  BY <1>1 DEF DraftHolds
<1>5. asked \in Nat /\ conn = [x \in Conns |-> conn[x]] /\ None \notin Conns
  BY StoreAssumption DEF StoreInv, StoreTypeOK
<1> HIDE DEF d
<1>6. [d EXCEPT !.pc = "committed"] = e
  <2>1. d \in Drafts
    BY <1>1
  <2>2. \A p : [d EXCEPT !.pc = p] = Draft(d, p, d.key, d.touch, d.turns, d.read)
    BY ONLY <2>1, DraftUpdates, Zenon
  <2>3. QED
    BY <2>2
<1>7. e \in Drafts /\ e.pc = "committed" /\ e.op = d.op /\ e.turn = d.turn
  BY <1>1, <1>3, DraftIsTyped
<1> HIDE DEF e
<1>8. conn'[c] = e /\ (\A x \in Conns : x # c => conn'[x] = conn[x])
      /\ conn' = [x \in Conns |-> conn'[x]]
  BY <1>2, <1>5, <1>6
<1>9. StoreTypeOK'
  BY <1>2, <1>3, <1>4, <1>8 DEF StoreInv, StoreTypeOK
<1>10. ConnHolds(c)'
  BY <1>2, <1>4, <1>5, <1>7, <1>8 DEF ConnHolds
<1>11. \A x \in Conns : x # c => ConnHolds(x)'
  <2> TAKE x \in Conns
  <2> HAVE x # c
  <2>1. lock # x /\ lock' # x /\ conn'[x] = conn[x]
    BY <1>1, <1>2, <1>5, <1>8
  <2>2. QED
    BY <1>2, <1>5, <2>1, OthersHold DEF StoreInv
<1>12. Whole(touch, turns)' /\ Once(turns)'
  BY <1>2, <1>4 DEF Whole, Once
<1>13. QED
  BY <1>2, <1>9, <1>10, <1>11, <1>12 DEF StoreInv

\* A connection closes; its call may have been told that its turn is or is not recorded.
LEMMA CloseStep ==
  ASSUME StoreInv, NEW c \in Conns, conn[c] # Closed,
         conn' = [conn EXCEPT ![c] = Closed], lock' = IF lock = c THEN None ELSE lock,
         UNCHANGED <<touch, turns, asked>>,
         \/ told' = told
         \/ conn[c].op = "record" /\ told' = [told EXCEPT ![conn[c].turn] = "recorded"]
         \/ /\ conn[c].op = "record" /\ told' = [told EXCEPT ![conn[c].turn] = "error"]
            /\ lock = c
  PROVE  StoreInv'
<1> DEFINE t == conn[c].turn
<1>1. /\ touch' = touch /\ turns' = turns /\ asked' = asked /\ asked \in Nat
      /\ conn = [x \in Conns |-> conn[x]] /\ None \notin Conns /\ asked <= MaxTurns
      /\ told \in [Turns -> {"nothing", "recorded", "error"}] /\ MaxTurns \in Nat
  BY StoreAssumption DEF StoreInv, StoreTypeOK
<1>2. conn[c].op = "record" => t \in 1..asked /\ t \in Turns
  <2>1. conn[c].op = "record" => t \in 1..asked
    BY DEF StoreInv, ConnHolds, DraftHolds
  <2> HIDE DEF t
  <2>2. QED
    BY <1>1, <2>1 DEF Turns
<1>3. lock = c /\ conn[c].op = "record" => \A r \in turns : r.turn # t
  <2>1. lock = c => DraftHolds(conn[c])
    BY DEF StoreInv, ConnHolds
  <2>2. QED
    BY <2>1 DEF DraftHolds
<1>4. conn'[c] = Closed /\ (\A x \in Conns : x # c => conn'[x] = conn[x])
      /\ conn' = [x \in Conns |-> conn'[x]]
  BY <1>1
<1> HIDE DEF t
<1>5. /\ told' \in [Turns -> {"nothing", "recorded", "error"}]
      /\ \A u \in Turns : u > asked => told'[u] = "nothing"
      /\ \A u \in Turns : told[u] # "error" =>
            told'[u] # "error" \/ (u = t /\ lock = c /\ conn[c].op = "record")
  <2>1. CASE told' = told
    BY <1>1, <2>1 DEF StoreInv
  <2>2. CASE conn[c].op = "record" /\ told' = [told EXCEPT ![t] = "recorded"]
    BY <1>1, <1>2, <2>2 DEF StoreInv, Turns
  <2>3. CASE conn[c].op = "record" /\ told' = [told EXCEPT ![t] = "error"] /\ lock = c
    BY <1>1, <1>2, <2>3 DEF StoreInv, Turns
  <2>4. QED
    BY <2>1, <2>2, <2>3 DEF t
<1>6. 1..asked \subseteq Turns
  BY <1>1 DEF Turns
<1>7. StoreTypeOK'
  BY <1>1, <1>4, <1>5 DEF StoreInv, StoreTypeOK
<1>8. Once(turns)' /\ Whole(touch, turns)'
  BY <1>1, <1>3, <1>5, <1>6 DEF StoreInv, Once, Whole
<1>9. ConnHolds(c)'
  BY <1>1, <1>4 DEF ConnHolds
<1>10. \A x \in Conns : x # c => ConnHolds(x)'
  <2> TAKE x \in Conns
  <2> HAVE x # c
  <2>1. (lock' = x <=> lock = x) /\ conn'[x] = conn[x]
    BY <1>1, <1>4
  <2>2. lock = x => \A u \in 1..asked : told[u] # "error" => told'[u] # "error"
    BY <1>5, <1>6
  <2>3. QED
    BY <1>1, <2>1, <2>2, OthersHold DEF StoreInv
<1>11. QED
  BY <1>1, <1>5, <1>7, <1>8, <1>9, <1>10 DEF StoreInv

\* record_turn gives up on the write lock: its turn is told to be lost, and no row has
\* it.
LEMMA BusyStep ==
  ASSUME StoreInv, NEW c \in Conns, Busy(c)
  PROVE  StoreInv'
<1>1. /\ touch' = touch /\ turns' = turns /\ lock' = lock /\ conn' = conn
      /\ asked' = asked + 1 /\ told' = [told EXCEPT ![asked + 1] = "error"] /\ asked < MaxTurns
  BY DEF Busy
<1>2. /\ asked \in Nat /\ asked' \in 0..MaxTurns /\ asked' \in Nat /\ 1..asked \subseteq Turns
      /\ told \in [Turns -> {"nothing", "recorded", "error"}] /\ asked + 1 \in Turns
  BY <1>1, StoreAssumption DEF StoreInv, StoreTypeOK, Turns
<1>3. /\ told' \in [Turns -> {"nothing", "recorded", "error"}]
      /\ \A u \in Turns : u > asked' => told'[u] = "nothing"
      /\ \A u \in 1..asked : told'[u] = told[u] /\ u \in 1..asked'
  BY <1>1, <1>2 DEF StoreInv, Turns
<1>4. StoreTypeOK'
  BY <1>1, <1>2, <1>3 DEF StoreInv, StoreTypeOK
<1>5. Once(turns)' /\ Whole(touch, turns)'
  BY <1>1, <1>3 DEF StoreInv, Once, Whole
<1>6. \A x \in Conns : ConnHolds(x)'
  BY <1>1, <1>2, <1>3, OthersHold DEF StoreInv
<1>7. QED
  BY <1>3, <1>4, <1>5, <1>6 DEF StoreInv

-----------------------------------------------------------------------------
(* The session store. *)

\* No session, no turn, no transaction.
LEMMA StoreInvInit == Init => StoreInv
<1> SUFFICES ASSUME Init PROVE StoreInv
  OBVIOUS
<1>1. StoreTypeOK
  BY StoreAssumption, FS_EmptySet DEF Init, StoreTypeOK
<1>2. Whole(touch, turns) /\ Once(turns)
  BY DEF Init, Whole, Once, Live
<1>3. \A c \in Conns : ConnHolds(c)
  BY StoreAssumption DEF Init, ConnHolds
<1>4. QED
  BY <1>1, <1>2, <1>3 DEF StoreInv, Init

\* Every step keeps the invariant.
LEMMA StoreInvStep == StoreInv /\ [Next]_vars => StoreInv'
<1> SUFFICES ASSUME StoreInv, [Next]_vars PROVE StoreInv'
  OBVIOUS
<1>1. CASE UNCHANGED vars
  BY <1>1 DEF vars, StoreInv, StoreTypeOK, Whole, Once, ConnHolds, DraftHolds
<1>2. ASSUME NEW c \in Conns, NEW s \in Sessions, BeginRecord(c, s) \/ BeginReplay(c, s)
      PROVE  StoreInv'
  BY <1>2, BeginRecordStep, BeginReplayStep
<1>3. ASSUME NEW c \in Conns,
             \/ NextTouch(c) \/ PromoteRow(c) \/ ReadThread(c) \/ InsertTurn(c)
             \/ EvictOverCapacity(c) \/ Commit(c) \/ Busy(c)
      PROVE  StoreInv'
  BY <1>3, NextTouchStep, PromoteRowStep, ReadThreadStep, InsertTurnStep, EvictStep, CommitStep,
     BusyStep
<1>4. ASSUME NEW c \in Conns, Return(c)
      PROVE  StoreInv'
  <2>1. conn[c] # Closed /\ lock # c
    BY <1>4 DEF Return, Closed, StoreInv, ConnHolds, DraftHolds
  <2>2. QED
    BY <1>4, <2>1, CloseStep DEF Return
<1>5. ASSUME NEW c \in Conns, StatementFails(c)
      PROVE  StoreInv'
  <2>1. conn[c] # Closed /\ lock = c
    BY <1>5 DEF StatementFails, InTransaction, StoreInv, ConnHolds, Drafts, Closed
  <2>2. QED
    BY <1>5, <2>1, CloseStep DEF StatementFails
<1>6. ASSUME NEW c \in Conns, Abandon(c)
      PROVE  StoreInv'
  BY <1>6, CloseStep DEF Abandon
<1>7. QED
  BY <1>1, <1>2, <1>3, <1>4, <1>5, <1>6 DEF Next

\* TurnsAreWhole (store.rs): whoever runs record_turn and replay, at whatever capacity,
\* and whichever statement fails, is dropped or is killed with its process, no two
\* sessions tie, every turn row has its session and a gapless ordinal, every session has
\* a turn, and a turn its caller was told is not recorded is in no thread.
THEOREM ThreadsAreWhole == Spec => []TurnsAreWhole
<1>1. StoreInv => TurnsAreWhole
  BY DEF StoreInv, Whole, Once, TurnsAreWhole, TablesAgree, WarnedIsNotStored
<1>2. QED
  BY StoreInvInit, StoreInvStep, <1>1, PTL DEF Spec

-----------------------------------------------------------------------------
(* The two tables are an LRU: ranks by key, threads by number. *)

\* Session keys as the transactions leave them: no two live ones tie.
Ranked(keys) == /\ keys \in [Sessions -> 0..MaxTouch]
                /\ \A s, x \in Live(keys) : keys[s] = keys[x] => s = x
RankOf(s, keys) == Cardinality(MoreRecent(s, keys))

\* Distinct keys below a bound are finitely many.
LEMMA LiveIsFinite ==
  ASSUME NEW keys, Ranked(keys)
  PROVE  IsFiniteSet(Live(keys)) /\ Cardinality(Live(keys)) \in Nat
<1> DEFINE f == [s \in Live(keys) |-> keys[s]]
<1>1. f \in [Live(keys) -> 0..MaxTouch] /\ \A a, b \in Live(keys) : f[a] = f[b] => a = b
  BY DEF Ranked, Live
<1>2. IsFiniteSet(0..MaxTouch)
  BY StoreAssumption, FS_Interval
<1> HIDE DEF f
<1>3. f \in Injection(Live(keys), 0..MaxTouch)
  BY <1>1, Fun_IsInj
<1>4. IsFiniteSet(Live(keys))
  BY <1>2, <1>3, FS_Injection
<1>5. QED
  BY <1>4, FS_CardinalityType

\* A rank is how many were used since: higher keys have lower ranks, and none is shared.
LEMMA RanksFollowKeys ==
  ASSUME NEW keys, Ranked(keys)
  PROVE  /\ \A s \in Live(keys) : RankOf(s, keys) \in 0..Cardinality(Live(keys)) - 1
         /\ \A s, x \in Live(keys) : RankOf(s, keys) < RankOf(x, keys) <=> keys[s] > keys[x]
         /\ \A s, x \in Live(keys) : RankOf(s, keys) = RankOf(x, keys) => s = x
<1>1. IsFiniteSet(Live(keys)) /\ Cardinality(Live(keys)) \in Nat
  BY LiveIsFinite
<1>2. /\ \A s \in Live(keys) : s \in Sessions /\ keys[s] \in 1..MaxTouch
      /\ \A s \in Sessions : keys[s] \in Nat /\ (keys[s] > 0 => s \in Live(keys))
  BY StoreAssumption DEF Ranked, Live
<1>3. ASSUME NEW s \in Live(keys)
      PROVE  /\ MoreRecent(s, keys) \subseteq Live(keys) /\ s \notin MoreRecent(s, keys)
             /\ IsFiniteSet(MoreRecent(s, keys)) /\ RankOf(s, keys) \in Nat
             /\ RankOf(s, keys) < Cardinality(Live(keys))
  <2>1. MoreRecent(s, keys) \in SUBSET Live(keys) /\ s \notin MoreRecent(s, keys)
    BY <1>2 DEF MoreRecent
  <2>2. MoreRecent(s, keys) # Live(keys)
    BY <2>1
  <2>3. /\ IsFiniteSet(MoreRecent(s, keys))
        /\ Cardinality(MoreRecent(s, keys)) <= Cardinality(Live(keys))
        /\ Cardinality(MoreRecent(s, keys)) # Cardinality(Live(keys))
    BY <1>1, <2>1, <2>2, FS_Subset
  <2>4. RankOf(s, keys) \in Nat
    BY <2>3, FS_CardinalityType DEF RankOf
  <2>5. QED
    BY <1>1, <2>1, <2>3, <2>4 DEF RankOf
<1>4. ASSUME NEW s \in Live(keys), NEW x \in Live(keys), keys[s] > keys[x]
      PROVE  RankOf(s, keys) < RankOf(x, keys)
  <2>1. MoreRecent(s, keys) \in SUBSET MoreRecent(x, keys)
    BY <1>2, <1>4 DEF MoreRecent
  <2>2. s \in MoreRecent(x, keys) /\ s \notin MoreRecent(s, keys)
    BY <1>2, <1>4 DEF MoreRecent
  <2>3. /\ Cardinality(MoreRecent(s, keys)) <= Cardinality(MoreRecent(x, keys))
        /\ Cardinality(MoreRecent(s, keys)) # Cardinality(MoreRecent(x, keys))
    BY <1>3, <2>1, <2>2, FS_Subset
  <2>4. QED
    BY <1>3, <2>3 DEF RankOf
<1>5. ASSUME NEW s \in Live(keys), NEW x \in Live(keys)
      PROVE  keys[s] > keys[x] \/ keys[x] > keys[s] \/ s = x
  BY <1>2 DEF Ranked
<1>6. \A s \in Live(keys) : RankOf(s, keys) \in Nat /\ RankOf(s, keys) < Cardinality(Live(keys))
  BY <1>3
<1>7. QED
  BY <1>1, <1>2, <1>4, <1>5, <1>6

\* Every rank below their number is one live session's.
LEMMA RanksAreTaken ==
  ASSUME NEW keys, Ranked(keys), NEW i \in 0..Cardinality(Live(keys)) - 1
  PROVE  \E s \in Live(keys) : RankOf(s, keys) = i
<1> DEFINE L == Live(keys)
           n == Cardinality(L)
           f == [s \in L |-> RankOf(s, keys)]
<1>1. IsFiniteSet(L) /\ n \in Nat
  BY LiveIsFinite
<1>2. f \in [L -> 0..n - 1] /\ \A a, b \in L : f[a] = f[b] => a = b
  BY RanksFollowKeys
<1>3. IsFiniteSet(0..n - 1) /\ Cardinality(0..n - 1) = n
  <2>1. 0 \in Int /\ n - 1 \in Int
    BY <1>1
  <2>2. QED
    BY <1>1, <2>1, FS_Interval
<1> HIDE DEF f
<1>4. f \in Injection(L, 0..n - 1)
  BY <1>2, Fun_IsInj
<1>5. f \in Surjection(L, 0..n - 1)
  BY <1>3, <1>4, FS_Injection
<1>6. \E s \in L : f[s] = i
  BY <1>5 DEF Surjection
<1>7. QED
  BY <1>6 DEF f

\* The order of the live sessions, as SessionStore's Lru reads it from the keys.
OrderOf(keys) ==
  [i \in 1..Cardinality(Live(keys)) |->
     CHOOSE s \in Live(keys) : Cardinality(MoreRecent(s, keys)) = i - 1]

\* The session at each place of the order has the rank of that place.
LEMMA OrderIsRanked ==
  ASSUME NEW keys, Ranked(keys), NEW i \in 1..Cardinality(Live(keys))
  PROVE  OrderOf(keys)[i] \in Live(keys) /\ RankOf(OrderOf(keys)[i], keys) = i - 1
<1>1. Cardinality(Live(keys)) \in Nat
  BY LiveIsFinite
<1>2. i - 1 \in 0..Cardinality(Live(keys)) - 1
  BY <1>1
<1>3. \E s \in Live(keys) : Cardinality(MoreRecent(s, keys)) = i - 1
  BY <1>2, RanksAreTaken DEF RankOf
<1>4. OrderOf(keys)[i] = CHOOSE s \in Live(keys) : Cardinality(MoreRecent(s, keys)) = i - 1
  BY DEF OrderOf
<1>5. QED
  BY <1>3, <1>4 DEF RankOf

\* Sessions listed by rank are the order.
LEMMA OrderIs ==
  ASSUME NEW keys, Ranked(keys), NEW n, n = Cardinality(Live(keys)),
         NEW g \in [1..n -> Live(keys)], \A i \in 1..n : RankOf(g[i], keys) = i - 1
  PROVE  OrderOf(keys) = g
<1>1. \A i \in 1..n : OrderOf(keys)[i] = g[i]
  <2> TAKE i \in 1..n
  <2>1. OrderOf(keys)[i] \in Live(keys) /\ RankOf(OrderOf(keys)[i], keys) = i - 1
    BY OrderIsRanked
  <2>2. QED
    BY <2>1, RanksFollowKeys
<1>2. OrderOf(keys) = [i \in 1..n |-> OrderOf(keys)[i]]
  BY DEF OrderOf
<1>3. QED
  BY <1>1, <1>2

-----------------------------------------------------------------------------
\* A new top key: the session goes to rank 0, and what was before it back by one.
LEMMA PromotionRanks ==
  ASSUME NEW keys, Ranked(keys), NEW s \in Sessions, NEW k \in 0..MaxTouch,
         \A x \in Sessions : keys[x] < k
  PROVE  LET moved == Promoted(keys, s, k)
         IN  /\ Ranked(moved) /\ Live(moved) = Live(keys) \cup {s} /\ RankOf(s, moved) = 0
             /\ \A x \in Live(keys) \ {s} :
                  RankOf(x, moved) = IF keys[s] > keys[x] THEN RankOf(x, keys)
                                                          ELSE RankOf(x, keys) + 1
<1> DEFINE moved == Promoted(keys, s, k)
<1>1. /\ Ranked(moved) /\ Live(moved) = Live(keys) \cup {s}
  BY PromotedIsUnique DEF Ranked
<1>2. /\ \A x \in Sessions : moved[x] = IF x = s THEN k ELSE keys[x]
      /\ \A x \in Sessions : keys[x] \in Nat /\ moved[x] \in Nat
  BY DEF Promoted, Ranked
<1> HIDE DEF moved
<1>3. RankOf(s, moved) = 0
  <2>1. MoreRecent(s, moved) = {}
    BY <1>2 DEF MoreRecent
  <2>2. QED
    BY <2>1, FS_EmptySet DEF RankOf
<1>4. ASSUME NEW x \in Live(keys), x # s
      PROVE  RankOf(x, moved) = IF keys[s] > keys[x] THEN RankOf(x, keys) ELSE RankOf(x, keys) + 1
  <2>1. x \in Sessions
    BY DEF Live
  <2>2. MoreRecent(x, moved) = MoreRecent(x, keys) \cup {s}
    BY <1>2, <1>4, <2>1 DEF MoreRecent
  <2>3. IsFiniteSet(MoreRecent(x, keys))
    <3>1. MoreRecent(x, keys) \in SUBSET Live(keys)
      BY <1>2, <2>1 DEF MoreRecent, Live
    <3>2. QED
      BY <3>1, LiveIsFinite, FS_Subset
  <2>4. s \in MoreRecent(x, keys) <=> keys[s] > keys[x]
    BY DEF MoreRecent
  <2>5. Cardinality(MoreRecent(x, keys) \cup {s})
          = IF s \in MoreRecent(x, keys) THEN Cardinality(MoreRecent(x, keys))
                                         ELSE Cardinality(MoreRecent(x, keys)) + 1
    BY ONLY <2>3, FS_AddElement
  <2>6. QED
    BY <2>2, <2>4, <2>5 DEF RankOf
<1>5. QED
  BY <1>1, <1>3, <1>4 DEF moved

\* The order Lru reads from the committed keys.
Order == OrderOf(touch)

\* Who Lru knows, and where, in terms of keys.
LEMMA OrderOfTheLru ==
  ASSUME Ranked(touch), NEW s \in Sessions
  PROVE  /\ Len(Order) = Cardinality(Live(touch)) /\ Len(Order) \in Nat
         /\ Lru!Known(s) <=> s \in Live(touch)
         /\ Lru!PlaceOf(s) = IF s \in Live(touch) THEN RankOf(s, touch) + 1 ELSE Len(Order) + 1
<1> DEFINE n == Cardinality(Live(touch))
<1>1. n \in Nat
  BY LiveIsFinite
<1>2. Order = [i \in 1..n |-> Order[i]] /\ Len(Order) = n
  BY <1>1 DEF Order, OrderOf
<1>3. \A i \in 1..n : Order[i] \in Live(touch) /\ RankOf(Order[i], touch) = i - 1
  BY OrderIsRanked DEF Order
<1>4. s \in Live(touch) => RankOf(s, touch) + 1 \in 1..n
  BY <1>1, RanksFollowKeys
<1>5. \A i \in 1..n : Order[i] = s <=> s \in Live(touch) /\ i = RankOf(s, touch) + 1
  <2> TAKE i \in 1..n
  <2>1. Order[i] = s => s \in Live(touch) /\ i = RankOf(s, touch) + 1
    BY <1>1, <1>3
  <2>2. s \in Live(touch) /\ i = RankOf(s, touch) + 1 => Order[i] = s
    <3>1. s \in Live(touch) => RankOf(s, touch) \in Nat
      BY <1>1, RanksFollowKeys
    <3>2. QED
      BY <1>3, <3>1, RanksFollowKeys
  <2>3. QED
    BY <2>1, <2>2
<1>6. Lru!Known(s) <=> \E i \in 1..Len(Order) : Order[i] = s
  BY DEF Lru!Known, Order, OrderOf
<1>7. Lru!Known(s) <=> s \in Live(touch)
  BY <1>2, <1>4, <1>5, <1>6
<1>8. Lru!PlaceOf(s) = CHOOSE i \in 1..(Len(Order) + 1) :
        IF Lru!Known(s) THEN i <= Len(Order) /\ Order[i] = s ELSE i = Len(Order) + 1
  BY DEF Lru!PlaceOf, Order, OrderOf
<1>11. Len(Order) = Cardinality(Live(touch)) /\ Len(Order) \in Nat
  BY <1>1, <1>2 DEF n
<1> HIDE DEF n
<1>9. CASE s \in Live(touch)
  <2>1. \A i \in 1..(n + 1) : i <= n /\ Order[i] = s <=> i = RankOf(s, touch) + 1
    BY <1>1, <1>4, <1>5, <1>9
  <2> DEFINE Stands(i) == IF Lru!Known(s) THEN i <= Len(Order) /\ Order[i] = s
                                          ELSE i = Len(Order) + 1
  <2>2. \A i \in 1..(Len(Order) + 1) : Stands(i) <=> i = RankOf(s, touch) + 1
    BY <1>2, <1>7, <1>9, <2>1 DEF n
  <2>3. RankOf(s, touch) + 1 \in 1..(Len(Order) + 1)
    BY <1>1, <1>2, <1>4, <1>9 DEF n
  <2>4. Lru!PlaceOf(s) = CHOOSE i \in 1..(Len(Order) + 1) : Stands(i)
    BY <1>8
  <2> HIDE DEF Stands
  <2>5. Lru!PlaceOf(s) = RankOf(s, touch) + 1
    BY <2>2, <2>3, <2>4
  <2>6. QED
    BY <1>7, <1>9, <1>11, <2>5
<1>10. CASE s \notin Live(touch)
  BY <1>1, <1>2, <1>7, <1>8, <1>10 DEF n
<1>12. QED
  BY <1>7, <1>9, <1>10, <1>11

\* next_touch and the promotion touch a session as Lru does.
LEMMA PromotionTouches ==
  ASSUME Ranked(touch), NEW s \in Sessions, NEW k \in 0..MaxTouch, \A x \in Sessions : touch[x] < k
  PROVE  OrderOf(Promoted(touch, s, k)) = Lru!Touched(s)
<1> DEFINE moved == Promoted(touch, s, k)
           n == Cardinality(Live(touch))
           m == IF Lru!Known(s) THEN Len(Order) ELSE Len(Order) + 1
           g == Lru!Touched(s)
           p == Lru!PlaceOf(s)
<1>1. /\ Ranked(moved) /\ Live(moved) = Live(touch) \cup {s} /\ RankOf(s, moved) = 0
      /\ \A x \in Live(touch) \ {s} :
           RankOf(x, moved) = IF touch[s] > touch[x] THEN RankOf(x, touch)
                                                     ELSE RankOf(x, touch) + 1
  BY PromotionRanks
<1>2. /\ Len(Order) = n /\ n \in Nat /\ (Lru!Known(s) <=> s \in Live(touch))
      /\ p = IF s \in Live(touch) THEN RankOf(s, touch) + 1 ELSE n + 1
  BY OrderOfTheLru
<1>3. g = [i \in 1..m |->
             IF i = 1 THEN s ELSE IF i <= p THEN Order[i - 1] ELSE Order[i]]
  BY DEF Lru!Touched, Order, OrderOf
<1>4. m = Cardinality(Live(moved))
  <2>1. Cardinality(Live(touch) \cup {s})
          = IF s \in Live(touch) THEN Cardinality(Live(touch)) ELSE Cardinality(Live(touch)) + 1
    BY LiveIsFinite, FS_AddElement
  <2>2. QED
    BY <1>1, <1>2, <2>1
<1>5. \A i \in 1..n : Order[i] \in Live(touch) /\ RankOf(Order[i], touch) = i - 1
  BY OrderIsRanked DEF Order
<1>6. /\ s \in Live(touch) => p \in 1..n /\ \A x \in Live(touch) :
                                  touch[s] > touch[x] <=> p < RankOf(x, touch) + 1
      /\ s \notin Live(touch) => \A x \in Live(touch) : ~(touch[s] > touch[x])
      /\ \A x \in Live(touch) : RankOf(x, touch) \in 0..n - 1
  <2>1. /\ \A x \in Live(touch) : RankOf(x, touch) \in 0..n - 1
        /\ \A y, x \in Live(touch) : RankOf(y, touch) < RankOf(x, touch) <=> touch[y] > touch[x]
    BY RanksFollowKeys
  <2>2. s \notin Live(touch) => touch[s] = 0
    BY DEF Ranked, Live
  <2>3. \A x \in Live(touch) : touch[x] \in Nat
    BY DEF Ranked, Live
  <2> HIDE DEF p, n
  <2>4. s \notin Live(touch) => \A x \in Live(touch) : ~(touch[s] > touch[x])
    BY <2>2, <2>3
  <2>5. QED
    BY <1>2, <2>1, <2>4
<1> HIDE DEF moved, n, m, g, p
<1>7. ASSUME NEW i \in 1..m PROVE g[i] \in Live(moved) /\ RankOf(g[i], moved) = i - 1
  <2>1. CASE i = 1
    BY <1>1, <1>3, <2>1
  <2>2. CASE i # 1 /\ i <= p
    <3>1. i - 1 \in 1..n /\ i \in Nat
      BY <1>2, <1>6, <2>2 DEF m
    <3>2. g[i] = Order[i - 1]
      BY <1>3, <2>2
    <3> DEFINE x == Order[i - 1]
    <3>3. x \in Live(touch) /\ RankOf(x, touch) = (i - 1) - 1
      BY <1>5, <3>1
    <3>4. x # s
      BY <1>2, <2>2, <3>1, <3>3
    <3>5. ~(touch[s] > touch[x])
      <4> HIDE DEF x
      <4>1. QED
        BY <1>2, <1>6, <2>2, <3>1, <3>3
    <3> HIDE DEF x
    <3>6. RankOf(x, moved) = i - 1 /\ x \in Live(moved)
      BY <1>1, <3>1, <3>3, <3>4, <3>5
    <3>7. QED
      BY <3>2, <3>6 DEF x
  <2>3. CASE i # 1 /\ ~(i <= p)
    <3>1. i \in 1..n /\ s \in Live(touch) /\ p \in 1..n
      BY <1>2, <1>6, <2>3 DEF m
    <3>2. g[i] = Order[i]
      BY <1>3, <2>3
    <3> DEFINE x == Order[i]
    <3>3. x \in Live(touch) /\ RankOf(x, touch) = i - 1
      BY <1>5, <3>1
    <3>4. x # s
      BY <1>2, <2>3, <3>1, <3>3
    <3>5. touch[s] > touch[x]
      <4> HIDE DEF x
      <4>1. QED
        BY <1>2, <1>6, <2>3, <3>1, <3>3
    <3> HIDE DEF x
    <3>6. RankOf(x, moved) = i - 1 /\ x \in Live(moved)
      BY <1>1, <3>1, <3>3, <3>4, <3>5
    <3>7. QED
      BY <3>2, <3>6 DEF x
  <2>4. QED
    BY <2>1, <2>2, <2>3
<1>8. g \in [1..m -> Live(moved)]
  <2>1. DOMAIN g = 1..m /\ g = [i \in 1..m |-> g[i]]
    BY <1>3
  <2>2. QED
    BY <1>7, <2>1
<1>9. OrderOf(moved) = g
  <2>1. Ranked(moved) /\ \A i \in 1..m : RankOf(g[i], moved) = i - 1
    BY <1>1, <1>7
  <2>2. QED
    BY ONLY <1>4, <1>8, <2>1, OrderIs
<1>10. QED
  BY <1>9 DEF moved, g

-----------------------------------------------------------------------------
\* The order of the sessions that stay when those of rank capacity and more are shed.
LEMMA EvictionCuts ==
  ASSUME NEW keys, Ranked(keys), NEW cap \in Nat \ {0}
  PROVE  LET left == LeftLive(keys, Victims(keys, cap))
             order == OrderOf(keys)
             m == IF Len(order) > cap THEN cap ELSE Len(order)
         IN  /\ OrderOf(left) = SubSeq(order, 1, m)
             /\ \A s \in Sessions :
                  s \in Live(left) <=>
                    \E i \in 1..Len(SubSeq(order, 1, m)) : SubSeq(order, 1, m)[i] = s
<1> DEFINE gone == Victims(keys, cap)
           left == LeftLive(keys, gone)
           order == OrderOf(keys)
           n == Cardinality(Live(keys))
           m == IF n > cap THEN cap ELSE n
           cut == SubSeq(order, 1, m)
<1>1. /\ n \in Nat /\ IsFiniteSet(Live(keys)) /\ m \in Nat /\ m <= n /\ m <= cap
      /\ order \in [1..n -> Live(keys)] /\ Len(order) = n
      /\ \A i \in 1..n : RankOf(order[i], keys) = i - 1
  <2>1. n \in Nat /\ IsFiniteSet(Live(keys))
    BY LiveIsFinite
  <2>2. order = [i \in 1..n |-> order[i]] /\ Len(order) = n
    BY <2>1 DEF OrderOf
  <2>3. \A i \in 1..n : order[i] \in Live(keys) /\ RankOf(order[i], keys) = i - 1
    BY OrderIsRanked
  <2> HIDE DEF order, n
  <2>4. QED
    BY <2>1, <2>2, <2>3
<1>2. /\ \A s \in Live(keys) : RankOf(s, keys) \in 0..n - 1
      /\ \A s, x \in Live(keys) : RankOf(s, keys) < RankOf(x, keys) <=> keys[s] > keys[x]
      /\ \A s, x \in Live(keys) : RankOf(s, keys) = RankOf(x, keys) => s = x
  BY RanksFollowKeys
<1>3. /\ \A s \in Sessions : left[s] = IF s \in gone THEN 0 ELSE keys[s]
      /\ \A s \in Sessions : keys[s] \in Nat /\ left[s] \in Nat
      /\ left \in [Sessions -> 0..MaxTouch]
  BY StoreAssumption DEF LeftLive, Ranked
<1>4. \A s : s \in gone <=> s \in Live(keys) /\ RankOf(s, keys) >= cap
  BY DEF Victims, RankOf
<1> HIDE DEF gone, left, order, n, cut
<1>5. /\ Live(left) \subseteq Live(keys)
      /\ \A s \in Live(keys) : s \in Live(left) <=> RankOf(s, keys) < m
  <2>1. \A s \in Live(keys) : RankOf(s, keys) >= cap \/ RankOf(s, keys) < cap
    BY <1>1, <1>2
  <2>2. \A s \in Live(keys) : RankOf(s, keys) < m <=> RankOf(s, keys) < cap
    BY <1>1, <1>2
  <2>3. \A s \in Live(keys) : ~(RankOf(s, keys) >= cap /\ RankOf(s, keys) < cap)
    BY <1>1, <1>2
  <2>4. \A s \in Sessions : s \in Live(left) <=> s \in Live(keys) /\ s \notin gone
    BY <1>3 DEF Live
  <2>5. Live(left) \subseteq Sessions /\ Live(keys) \subseteq Sessions
    BY DEF Live
  <2>6. QED
    BY <1>4, <2>1, <2>2, <2>3, <2>4, <2>5
<1>6. Ranked(left)
  <2>1. \A s \in Live(left) : s \in Live(keys) /\ left[s] = keys[s]
    BY <1>3, <1>5 DEF Live
  <2>2. QED
    BY <1>3, <2>1 DEF Ranked
<1>7. ASSUME NEW x \in Live(left) PROVE RankOf(x, left) = RankOf(x, keys)
  <2>1. x \in Live(keys) /\ RankOf(x, keys) < m /\ left[x] = keys[x] /\ keys[x] > 0
    BY <1>3, <1>5 DEF Live
  <2>2. ASSUME NEW y \in Sessions PROVE left[y] > left[x] <=> keys[y] > keys[x]
    <3>1. left[y] > left[x] => keys[y] > keys[x]
      <4>1. keys[x] \in Nat /\ left[y] \in Nat /\ (y \in gone => left[y] = 0)
        BY <1>3 DEF Live
      <4>2. y \notin gone => left[y] = keys[y]
        BY <1>3
      <4>3. QED
        BY <2>1, <4>1, <4>2
    <3>2. ASSUME keys[y] > keys[x] PROVE left[y] > left[x]
      <4>1. y \in Live(keys) /\ RankOf(y, keys) < RankOf(x, keys)
        BY <1>2, <1>3, <2>1, <3>2 DEF Live
      <4>2. RankOf(y, keys) < m
        BY <1>1, <1>2, <2>1, <4>1
      <4>3. y \in Live(left)
        BY <1>5, <4>1, <4>2
      <4>4. left[y] = keys[y]
        BY <1>3, <4>3 DEF Live
      <4>5. QED
        BY <2>1, <3>2, <4>4
    <3>3. QED
      BY <3>1, <3>2
  <2>3. MoreRecent(x, left) = MoreRecent(x, keys)
    BY <2>2 DEF MoreRecent
  <2>4. QED
    BY <2>3 DEF RankOf
<1>8. Cardinality(Live(left)) = m
  <2> DEFINE f == [s \in Live(left) |-> RankOf(s, keys)]
  <2>1. f \in [Live(left) -> 0..m - 1]
    BY <1>1, <1>2, <1>5
  <2>2. \A a, b \in Live(left) : f[a] = f[b] => a = b
    BY <1>2, <1>5
  <2>3. \A i \in 0..m - 1 : \E s \in Live(left) : f[s] = i
    <3> TAKE i \in 0..m - 1
    <3>1. i + 1 \in 1..n /\ i \in Nat
      BY <1>1
    <3>2. order[i + 1] \in Live(keys) /\ RankOf(order[i + 1], keys) = i
      BY <1>1, <3>1
    <3>3. QED
      BY <1>1, <1>5, <3>1, <3>2
  <2> HIDE DEF f
  <2>4. f \in Injection(Live(left), 0..m - 1)
    BY <2>1, <2>2, Fun_IsInj
  <2>5. f \in Surjection(Live(left), 0..m - 1)
    BY <2>1, <2>3 DEF Surjection
  <2>6. IsFiniteSet(Live(left))
    BY <1>6, LiveIsFinite
  <2>7. Cardinality(0..m - 1) = Cardinality(Live(left))
    BY <2>4, <2>5, <2>6, FS_Surjection
  <2>8. Cardinality(0..m - 1) = m
    <3>1. 0 \in Int /\ m - 1 \in Int
      BY <1>1
    <3>2. QED
      BY <1>1, <3>1, FS_Interval, SMTT(30)
  <2>9. QED
    BY <2>7, <2>8
<1>9. cut = [i \in 1..m |-> order[i]] /\ Len(cut) = m
  <2>1. order \in Seq(Live(keys))
    BY <1>1 DEF n
  <2>2. 1..(1 + m - 1) = 1..m /\ \A i \in 1..m : i + 1 - 1 = i
    BY <1>1
  <2>3. QED
    BY <1>1, <2>1, <2>2 DEF cut
<1>10. \A i \in 1..m : order[i] \in Live(left) /\ RankOf(order[i], left) = i - 1
  BY <1>1, <1>5, <1>7
<1>11. OrderOf(left) = cut
  <2>1. cut \in [1..m -> Live(left)] /\ \A i \in 1..m : RankOf(cut[i], left) = i - 1
    BY <1>9, <1>10
  <2>2. QED
    BY ONLY <1>6, <1>8, <2>1, OrderIs
<1>12. ASSUME NEW s \in Sessions
       PROVE  s \in Live(left) <=> \E i \in 1..Len(cut) : cut[i] = s
  <2>1. ASSUME s \in Live(left) PROVE \E i \in 1..m : order[i] = s
    <3>1. s \in Live(keys) /\ RankOf(s, keys) < m /\ RankOf(s, keys) \in 0..n - 1
      BY <1>2, <1>5, <2>1
    <3> DEFINE i == RankOf(s, keys) + 1
    <3>2. i \in 1..m /\ i \in 1..n /\ RankOf(order[i], keys) = RankOf(s, keys)
      BY <1>1, <3>1
    <3>3. order[i] \in Live(keys)
      BY <1>1, <3>2
    <3>4. order[i] = s
      BY <1>2, <3>1, <3>2, <3>3
    <3>5. QED
      BY <3>2, <3>4
  <2>2. QED
    BY <1>9, <1>10, <2>1
<1>13. QED
  BY <1>1, <1>11, <1>12 DEF cut, left, gone, order

-----------------------------------------------------------------------------
\* The thread of a session whose rows are numbered without gaps.
Numbered(s, table) ==
  /\ table \in SUBSET Rows /\ IsFiniteSet(table)
  /\ \A r \in RowsOf(s, table) :
       /\ r.seq < Cardinality(RowsOf(s, table))
       /\ \A q \in RowsOf(s, table) : q.seq = r.seq => q = r

\* Below a row of the thread stand as many as its number says.
LEMMA NumbersAreRanks ==
  ASSUME NEW table, NEW s \in Sessions, Numbered(s, table)
  PROVE  /\ \A m \in 0..Cardinality(RowsOf(s, table)) - 1 : \E r \in RowsOf(s, table) : r.seq = m
         /\ \A r \in RowsOf(s, table) :
              Cardinality({q \in RowsOf(s, table) : q.seq < r.seq}) = r.seq
<1> DEFINE R == RowsOf(s, table)
           n == Cardinality(R)
<1>1. IsFiniteSet(R) /\ n \in Nat /\ \A r \in R : r.seq \in 0..n - 1
  BY RowsAreFinite DEF Rows, Numbered
<1>2. \A a, b \in R : a.seq = b.seq => a = b
  BY DEF Numbered
<1>3. \A m \in Nat : IsFiniteSet(0..m - 1) /\ Cardinality(0..m - 1) = m
  <2> TAKE m \in Nat
  <2>1. 0 \in Int /\ m - 1 \in Int
    OBVIOUS
  <2>2. QED
    BY <2>1, FS_Interval
<1>4. \A m \in 0..n - 1 : \E r \in R : r.seq = m
  BY NumbersAreTaken DEF Numbered
<1> HIDE DEF R, n
<1>5. ASSUME NEW r \in R PROVE Cardinality({q \in R : q.seq < r.seq}) = r.seq
  <2> DEFINE B == {q \in R : q.seq < r.seq}
             g == [q \in B |-> q.seq]
  <2>1. IsFiniteSet(B)
    <3>1. B \in SUBSET R
      OBVIOUS
    <3>2. QED
      BY <1>1, <3>1, FS_Subset
  <2>2. g \in [B -> 0..r.seq - 1] /\ \A a, b \in B : g[a] = g[b] => a = b
    BY <1>1, <1>2
  <2>3. \A m \in 0..r.seq - 1 : \E q \in B : g[q] = m
    <3> TAKE m \in 0..r.seq - 1
    <3>1. m \in 0..n - 1 /\ m < r.seq
      BY <1>1
    <3>2. PICK q \in R : q.seq = m
      BY <1>4, <3>1
    <3>3. q \in B
      BY <3>1, <3>2
    <3>4. QED
      BY <3>2, <3>3
  <2> HIDE DEF B, g
  <2>4. g \in Injection(B, 0..r.seq - 1)
    BY <2>2, Fun_IsInj
  <2>5. g \in Surjection(B, 0..r.seq - 1)
    BY <2>2, <2>3 DEF Surjection
  <2>6. Cardinality(0..r.seq - 1) = Cardinality(B)
    BY <2>1, <2>4, <2>5, FS_Surjection
  <2>7. r.seq \in Nat
    BY <1>1
  <2>8. QED
    BY <1>3, <2>6, <2>7 DEF B
<1>6. QED
  BY <1>4, <1>5 DEF R, n

\* A thread is its rows, each where its number says.
LEMMA ThreadIsNumbered ==
  ASSUME NEW table, NEW s \in Sessions, Numbered(s, table)
  PROVE  /\ ThreadOf(s, table) \in Seq(Turns)
         /\ Len(ThreadOf(s, table)) = Cardinality(RowsOf(s, table))
         /\ \A i \in 1..Len(ThreadOf(s, table)) : \E r \in RowsOf(s, table) : r.seq = i - 1
         /\ \A r \in RowsOf(s, table) : ThreadOf(s, table)[r.seq + 1] = r.turn
<1> DEFINE R == RowsOf(s, table)
           n == Cardinality(R)
           th == ThreadOf(s, table)
           Row(i) == CHOOSE r \in R : Cardinality({q \in R : q.seq < r.seq}) = i - 1
<1>1. n \in Nat /\ \A r \in R : r.seq \in 0..n - 1 /\ r.turn \in Turns
  <2>1. n \in Nat
    BY RowsAreFinite DEF Numbered
  <2>2. \A r \in R : r.seq \in Nat /\ r.turn \in Turns /\ r.seq < n
    BY DEF Rows, Numbered, RowsOf
  <2> HIDE DEF R, n
  <2>3. QED
    BY <2>1, <2>2
<1>2. /\ \A m \in 0..n - 1 : \E r \in R : r.seq = m
      /\ \A r \in R : Cardinality({q \in R : q.seq < r.seq}) = r.seq
      /\ \A a, b \in R : a.seq = b.seq => a = b
  BY NumbersAreRanks DEF Numbered
<1>3. th = [i \in 1..n |-> Row(i).turn]
  BY DEF ThreadOf
<1> HIDE DEF R, n, th
<1>4. ASSUME NEW i \in 1..n PROVE Row(i) \in R /\ Row(i).seq = i - 1
  <2>1. i - 1 \in 0..n - 1
    BY <1>1
  <2>2. \E r \in R : Cardinality({q \in R : q.seq < r.seq}) = i - 1
    BY <1>2, <2>1
  <2>3. Row(i) \in R /\ Cardinality({q \in R : q.seq < Row(i).seq}) = i - 1
    BY <2>2
  <2>4. QED
    BY <1>2, <2>3
<1> HIDE DEF Row
<1>5. \A i \in 1..n : th[i] = Row(i).turn /\ th[i] \in Turns
  BY <1>1, <1>3, <1>4
<1>6. th \in Seq(Turns) /\ Len(th) = n
  <2>1. th \in [1..n -> Turns]
    BY <1>3, <1>5
  <2>2. th \in UNION {[1..k -> Turns] : k \in Nat}
    BY <1>1, <2>1, Zenon
  <2>3. th \in Seq(Turns)
    BY <2>2, SeqDef
  <2>4. DOMAIN th = 1..n /\ DOMAIN th = 1..Len(th) /\ Len(th) \in Nat
    BY <2>1, <2>3, LenProperties
  <2>5. QED
    BY <1>1, <2>3, <2>4
<1>7. ASSUME NEW r \in R PROVE th[r.seq + 1] = r.turn
  <2>1. r.seq + 1 \in 1..n /\ (r.seq + 1) - 1 = r.seq
    BY <1>1
  <2>2. Row(r.seq + 1) \in R /\ Row(r.seq + 1).seq = r.seq
    BY <1>4, <2>1
  <2>3. Row(r.seq + 1) = r
    BY <1>2, <2>2
  <2>4. QED
    BY <1>5, <2>1, <2>3
<1>8. \A i \in 1..n : \E r \in R : r.seq = i - 1
  BY <1>4
<1>9. QED
  BY <1>6, <1>7, <1>8 DEF R, n, th

\* The row of a new turn appends it.
LEMMA InsertAppends ==
  ASSUME NEW table, NEW s \in Sessions, Numbered(s, table), NEW t \in Turns
  PROVE  LET longer == table \cup {NewRow(s, table, t)}
         IN  /\ ThreadOf(s, longer) = Append(ThreadOf(s, table), t)
             /\ \A x \in Sessions : x # s => ThreadOf(x, longer) = ThreadOf(x, table)
<1> DEFINE n == Cardinality(RowsOf(s, table))
           added == NewRow(s, table, t)
           longer == table \cup {added}
           old == ThreadOf(s, table)
           new == ThreadOf(s, longer)
<1>1. n \in Nat /\ \A r \in RowsOf(s, table) : r.seq \in 0..n - 1
  BY RowsAreFinite DEF Rows, Numbered, RowsOf
<1>2. added = [session |-> s, seq |-> n, turn |-> t]
  BY NextSeqIsCount DEF NewRow, Numbered
<1>3. added \in Rows /\ added.session = s /\ added.seq = n /\ added.turn = t
  BY <1>1, <1>2 DEF Rows
<1> HIDE DEF added
<1>4. RowsOf(s, longer) = RowsOf(s, table) \cup {added} /\ added \notin RowsOf(s, table)
  BY <1>1, <1>3 DEF RowsOf
<1>5. Cardinality(RowsOf(s, longer)) = n + 1
  <2>1. IsFiniteSet(RowsOf(s, table))
    BY RowsAreFinite DEF Numbered
  <2>2. Cardinality(RowsOf(s, table) \cup {added}) = Cardinality(RowsOf(s, table)) + 1
    BY ONLY <1>4, <2>1, FS_AddElement
  <2>3. QED
    BY <1>4, <2>2
<1>6. Numbered(s, longer)
  <2>1. longer \in SUBSET Rows /\ IsFiniteSet(longer)
    BY <1>3, FS_AddElement DEF Numbered
  <2>2. \A r \in RowsOf(s, longer) :
          r.seq < n + 1 /\ \A q \in RowsOf(s, longer) : q.seq = r.seq => q = r
    <3>1. \A a, b \in RowsOf(s, table) : a.seq = b.seq => a = b
      BY DEF Numbered
    <3> HIDE DEF n, longer
    <3>2. QED
      BY <1>1, <1>3, <1>4, <3>1
  <2>3. QED
    BY <1>5, <2>1, <2>2 DEF Numbered
<1>7. /\ old \in Seq(Turns) /\ Len(old) = n
      /\ \A i \in 1..n : \E r \in RowsOf(s, table) : r.seq = i - 1
      /\ \A r \in RowsOf(s, table) : old[r.seq + 1] = r.turn
  BY ThreadIsNumbered
<1>8. /\ new \in Seq(Turns) /\ Len(new) = n + 1
      /\ \A r \in RowsOf(s, longer) : new[r.seq + 1] = r.turn
  BY <1>5, <1>6, ThreadIsNumbered
<1> HIDE DEF old, new, longer, n
<1>9. new = Append(old, t)
  <2>1. /\ Append(old, t) \in Seq(Turns) /\ Len(Append(old, t)) = n + 1
        /\ \A i \in 1..n : Append(old, t)[i] = old[i]
        /\ Append(old, t)[n + 1] = t
    BY <1>7, AppendProperties
  <2>2. ASSUME NEW i \in 1..n PROVE new[i] = old[i]
    <3>1. PICK r \in RowsOf(s, table) : r.seq = i - 1
      BY <1>7
    <3>2. r.seq + 1 = i
      BY <1>1, <3>1
    <3>3. QED
      BY <1>4, <1>7, <1>8, <3>2
  <2>3. new[n + 1] = t
    BY <1>3, <1>4, <1>8
  <2>4. \A i \in 1..(n + 1) : i \in 1..n \/ i = n + 1
    BY <1>1
  <2>5. \A i \in 1..Len(new) : new[i] = Append(old, t)[i]
    BY <1>8, <2>1, <2>2, <2>3, <2>4
  <2>6. QED
    BY <1>8, <2>1, <2>5, SeqEqual
<1>10. \A x \in Sessions : x # s => RowsOf(x, longer) = RowsOf(x, table)
  BY <1>3 DEF RowsOf, longer
<1>11. ASSUME NEW x \in Sessions, x # s PROVE ThreadOf(x, longer) = ThreadOf(x, table)
  <2>1. RowsOf(x, longer) = RowsOf(x, table)
    BY <1>10, <1>11
  <2>2. QED
    BY <2>1 DEF ThreadOf
<1>12. QED
  BY <1>9, <1>11 DEF new, old, longer, added

\* A shed session has no thread, and the others keep theirs.
LEMMA EvictionEmpties ==
  ASSUME NEW table, NEW gone, NEW s \in Sessions
  PROVE  ThreadOf(s, Kept(table, gone)) = IF s \in gone THEN <<>> ELSE ThreadOf(s, table)
<1>1. CASE s \in gone
  <2>1. RowsOf(s, Kept(table, gone)) = {}
    BY <1>1 DEF RowsOf, Kept
  <2>2. Cardinality({}) = 0
    BY FS_EmptySet
  <2>3. QED
    BY <1>1, <2>1, <2>2 DEF ThreadOf
<1>2. CASE s \notin gone
  <2>1. RowsOf(s, Kept(table, gone)) = RowsOf(s, table)
    BY <1>2 DEF RowsOf, Kept
  <2>2. QED
    BY <1>2, <2>1 DEF ThreadOf
<1>3. QED
  BY <1>1, <1>2

-----------------------------------------------------------------------------
(* What a transaction has made of the tables it found: it alone can change them. *)

\* next_touch's key is above those of the tables; the promoted keys; the turns with the
\* call's own.
Rising(d) == \A s \in Sessions : touch[s] < d.key
Fronted(d) == Promoted(touch, d.session, d.key)
WithTurn(d) == turns \cup {NewRow(d.session, turns, d.turn)}
OverCapacity(c, d) == Victims(Fronted(d), Capacity[c])

DraftFollows(c, d) ==
  /\ d.pc = "begun" => d.touch = touch /\ d.turns = turns
  /\ d.pc = "keyed" => /\ d.touch = touch /\ d.turns = turns /\ Rising(d)
                       /\ d.op = "replay" => touch[d.session] > 0
  /\ d.op = "replay" /\ d.pc \in {"read", "commit"} =>
       /\ d.turns = turns
       /\ IF touch[d.session] > 0 THEN Rising(d) /\ d.touch = Fronted(d) ELSE d.touch = touch
       /\ d.pc = "commit" => d.read = ThreadOf(d.session, turns)
  /\ d.pc \in {"insert", "evict"} =>
       /\ Rising(d) /\ d.touch = Fronted(d)
       /\ d.turns = IF d.pc = "insert" THEN turns ELSE WithTurn(d)
  /\ d.op = "record" /\ d.pc = "commit" =>
       /\ Rising(d) /\ d.touch = LeftLive(Fronted(d), OverCapacity(c, d))
       /\ d.turns = Kept(WithTurn(d), OverCapacity(c, d))

DraftsFollow == \A c \in Conns : lock = c => DraftFollows(c, conn[c])

\* One statement of the holder.
LEMMA StatementFollows ==
  ASSUME StoreInv, NEW c \in Conns, lock = c, UNCHANGED <<touch, turns, lock>>,
         NEW e, Write(c, e), DraftFollows(c, e)
  PROVE  DraftsFollow'
<1>1. conn'[c] = e
  BY DEF StoreInv, StoreTypeOK, Write
<1>2. DraftFollows(c, conn[c])'
  BY <1>1 DEF DraftFollows, Rising, Fronted, WithTurn, OverCapacity
<1>3. QED
  BY <1>2 DEF DraftsFollow

\* The fields of a draft are all there are.
LEMMA HolderFollows ==
  ASSUME StoreInv, DraftsFollow, NEW c \in Conns, conn[c].pc \notin {"closed", "committed"}
  PROVE  /\ lock = c /\ DraftFollows(c, conn[c]) /\ DraftHolds(conn[c]) /\ conn[c] \in Drafts
         /\ conn[c].op \in {"record", "replay"}
         /\ DOMAIN conn[c] = {"pc", "op", "session", "turn", "key", "touch", "turns", "read"}
<1>1. lock = c /\ DraftHolds(conn[c]) /\ conn[c] \in Drafts
  BY HolderHolds
<1>2. QED
  BY <1>1, DraftMoves DEF DraftsFollow

\* next_touch takes its key above those of the tables it began with.
LEMMA NextTouchFollows ==
  ASSUME StoreInv, DraftsFollow, NEW c \in Conns, NextTouch(c) PROVE DraftsFollow'
<1> DEFINE d == conn[c]
<1>1. d.pc = "begun" /\ UNCHANGED <<touch, turns, lock>>
  BY DEF NextTouch
<1>2. /\ lock = c /\ d.op \in {"record", "replay"} /\ d.touch = touch /\ d.turns = turns
      /\ DOMAIN d = {"pc", "op", "session", "turn", "key", "touch", "turns", "read"}
  BY <1>1, HolderFollows DEF DraftFollows
<1>3. CASE d.op = "replay" /\ d.touch[d.session] = 0
  <2> DEFINE e == [d EXCEPT !.pc = "read"]
  <2>1. Write(c, e)
    BY <1>3 DEF NextTouch
  <2>2. /\ e.pc = "read" /\ e.op = d.op /\ e.session = d.session /\ e.touch = touch
        /\ e.turns = turns
    BY <1>2
  <2> HIDE DEF e
  <2>3. DraftFollows(c, e)
    BY <1>2, <1>3, <2>2 DEF DraftFollows
  <2>4. QED
    BY <1>1, <1>2, <2>1, <2>3, StatementFollows
<1>4. CASE ~(d.op = "replay" /\ d.touch[d.session] = 0)
  <2> DEFINE k == TopKey(d.touch) + 1
             e == [d EXCEPT !.pc = "keyed", !.key = k]
  <2>1. Write(c, e)
    BY <1>4 DEF NextTouch
  <2>2. /\ e.pc = "keyed" /\ e.op = d.op /\ e.session = d.session /\ e.touch = touch
        /\ e.turns = turns /\ e.key = k
    BY <1>2
  <2>3. touch \in [Sessions -> 0..MaxTouch] /\ \A s \in Sessions : touch[s] \in Nat
    BY DEF StoreInv, StoreTypeOK
  <2>4. \A s \in Sessions : touch[s] < k
    <3>1. TopKey(touch) \in Nat /\ \A s \in Sessions : touch[s] <= TopKey(touch)
      BY <2>3, TopKeyIsTop, StoreAssumption
    <3>2. QED
      BY <1>2, <2>3, <3>1
  <2>5. d.op = "replay" => touch[d.session] > 0
    <3>1. d.session \in Sessions
      BY <1>1, HolderFollows, DraftMoves
    <3>2. QED
      BY <1>2, <1>4, <2>3, <3>1
  <2> HIDE DEF e, k
  <2>6. DraftFollows(c, e)
    BY <2>2, <2>4, <2>5 DEF DraftFollows, Rising
  <2>7. QED
    BY <1>1, <1>2, <2>1, <2>6, StatementFollows
<1>5. QED
  BY <1>3, <1>4

\* The promotion fronts its session in them.
LEMMA PromoteRowFollows ==
  ASSUME StoreInv, DraftsFollow, NEW c \in Conns, PromoteRow(c) PROVE DraftsFollow'
<1> DEFINE d == conn[c]
           p == IF d.op = "replay" THEN "read" ELSE "insert"
           e == [d EXCEPT !.pc = p, !.touch[d.session] = d.key]
<1>1. d.pc = "keyed" /\ UNCHANGED <<touch, turns, lock>> /\ Write(c, e)
  BY DEF PromoteRow
<1>2. /\ lock = c /\ d.op \in {"record", "replay"} /\ d.touch = touch /\ d.turns = turns
      /\ Rising(d) /\ (d.op = "replay" => touch[d.session] > 0)
      /\ DOMAIN d = {"pc", "op", "session", "turn", "key", "touch", "turns", "read"}
  BY <1>1, HolderFollows DEF DraftFollows
<1>3. /\ e.pc = p /\ e.op = d.op /\ e.session = d.session /\ e.turns = turns /\ e.key = d.key
      /\ e.touch = Promoted(touch, d.session, d.key)
  BY <1>2 DEF Promoted
<1> HIDE DEF e
<1>4. Rising(e) /\ e.touch = Fronted(e)
  BY <1>2, <1>3 DEF Rising, Fronted
<1>5. DraftFollows(c, e)
  BY <1>2, <1>3, <1>4 DEF DraftFollows
<1>6. QED
  BY <1>1, <1>2, <1>5, StatementFollows

\* The SELECT reads the thread of the tables as they were found.
LEMMA ReadThreadFollows ==
  ASSUME StoreInv, DraftsFollow, NEW c \in Conns, ReadThread(c) PROVE DraftsFollow'
<1> DEFINE d == conn[c]
           e == [d EXCEPT !.pc = "commit", !.read = ThreadOf(d.session, d.turns)]
<1>1. d.pc = "read" /\ UNCHANGED <<touch, turns, lock>> /\ Write(c, e)
  BY DEF ReadThread
<1>2. lock = c /\ d.op = "replay" /\ DraftFollows(c, d)
  BY <1>1, HolderFollows DEF DraftHolds
<1>3. DOMAIN d = {"pc", "op", "session", "turn", "key", "touch", "turns", "read"}
  BY <1>1, HolderFollows
<1>4. /\ d.turns = turns
      /\ IF touch[d.session] > 0 THEN Rising(d) /\ d.touch = Fronted(d) ELSE d.touch = touch
  BY <1>1, <1>2 DEF DraftFollows
<1>5. /\ e.pc = "commit" /\ e.op = d.op /\ e.session = d.session /\ e.turns = turns
      /\ e.key = d.key /\ e.touch = d.touch /\ e.read = ThreadOf(d.session, turns)
  BY <1>3, <1>4
<1> HIDE DEF e, d
<1>6. DraftFollows(c, e)
  BY <1>2, <1>4, <1>5 DEF DraftFollows, Rising, Fronted
<1>7. QED
  BY <1>1, <1>2, <1>6, StatementFollows

\* The INSERT adds the call's own turn to them.
LEMMA InsertTurnFollows ==
  ASSUME StoreInv, DraftsFollow, NEW c \in Conns, InsertTurn(c) PROVE DraftsFollow'
<1> DEFINE d == conn[c]
           added == NewRow(d.session, d.turns, d.turn)
           e == [d EXCEPT !.pc = "evict", !.turns = d.turns \cup {added}]
<1>1. d.pc = "insert" /\ UNCHANGED <<touch, turns, lock>> /\ Write(c, e)
  BY DEF InsertTurn, NewRow
<1>2. lock = c /\ d.op = "record" /\ DraftFollows(c, d)
  BY <1>1, HolderFollows DEF DraftHolds
<1>3. DOMAIN d = {"pc", "op", "session", "turn", "key", "touch", "turns", "read"}
  BY <1>1, HolderFollows
<1>4. d.turns = turns /\ Rising(d) /\ d.touch = Fronted(d)
  BY <1>1, <1>2 DEF DraftFollows
<1>5. /\ e.pc = "evict" /\ e.op = d.op /\ e.session = d.session /\ e.turn = d.turn
      /\ e.key = d.key /\ e.touch = d.touch /\ e.turns = d.turns \cup {added}
  BY <1>3
<1> HIDE DEF e
<1>6. DraftFollows(c, e)
  BY <1>2, <1>4, <1>5 DEF DraftFollows, Rising, Fronted, WithTurn
<1>7. QED
  BY <1>1, <1>2, <1>6, StatementFollows

\* evict_over_capacity sheds by the keys as promoted.
LEMMA EvictFollows ==
  ASSUME StoreInv, DraftsFollow, NEW c \in Conns, EvictOverCapacity(c) PROVE DraftsFollow'
<1> DEFINE d == conn[c]
           gone == Victims(d.touch, Capacity[c])
           e == [d EXCEPT !.pc = "commit", !.turns = Kept(d.turns, gone),
                          !.touch = LeftLive(d.touch, gone)]
<1>1. d.pc = "evict" /\ UNCHANGED <<touch, turns, lock>> /\ Write(c, e)
  BY DEF EvictOverCapacity, Kept, LeftLive
<1>2. lock = c /\ d.op = "record" /\ DraftFollows(c, d)
  BY <1>1, HolderFollows DEF DraftHolds
<1>3. DOMAIN d = {"pc", "op", "session", "turn", "key", "touch", "turns", "read"}
  BY <1>1, HolderFollows
<1>4. d.turns = WithTurn(d) /\ Rising(d) /\ d.touch = Fronted(d)
  BY <1>1, <1>2 DEF DraftFollows
<1> HIDE DEF gone
<1>5. /\ e.pc = "commit" /\ e.op = d.op /\ e.session = d.session /\ e.turn = d.turn
      /\ e.key = d.key /\ e.touch = LeftLive(d.touch, gone) /\ e.turns = Kept(d.turns, gone)
  BY <1>3
<1> HIDE DEF e
<1>6. Rising(e) /\ Fronted(e) = d.touch /\ WithTurn(e) = d.turns /\ OverCapacity(c, e) = gone
  BY <1>4, <1>5 DEF Rising, Fronted, WithTurn, OverCapacity, gone
<1>7. DraftFollows(c, e)
  BY <1>2, <1>5, <1>6 DEF DraftFollows
<1>8. QED
  BY <1>1, <1>2, <1>7, StatementFollows

\* BEGIN IMMEDIATE reads the tables as they are.
LEMMA BeginFollows ==
  ASSUME StoreInv, NEW c \in Conns, NEW s \in Sessions, BeginRecord(c, s) \/ BeginReplay(c, s)
  PROVE  DraftsFollow'
<1>1. PICK op, t : conn' = [conn EXCEPT ![c] = Open(op, s, t)]
  BY DEF BeginRecord, BeginReplay, BeginImmediate, Write
<1>2. lock' = c /\ UNCHANGED <<touch, turns>>
  BY DEF BeginRecord, BeginReplay, BeginImmediate
<1>3. conn'[c] = Open(op, s, t)
  BY <1>1 DEF StoreInv, StoreTypeOK
<1>4. conn'[c].pc = "begun" /\ conn'[c].touch = touch /\ conn'[c].turns = turns
  BY <1>3 DEF Open
<1>5. DraftFollows(c, conn[c])'
  BY <1>2, <1>4 DEF DraftFollows
<1>6. QED
  BY <1>2, <1>5 DEF DraftsFollow

\* Nobody holds the lock afterwards, or whoever does has not moved.
LEMMA OthersFollow ==
  ASSUME StoreInv, DraftsFollow,
         \A x \in Conns : lock' = x =>
           /\ lock = x /\ conn'[x] = conn[x]
           /\ touch' = touch /\ turns' = turns
  PROVE  DraftsFollow'
<1> SUFFICES ASSUME NEW x \in Conns, lock' = x PROVE DraftFollows(x, conn[x])'
  BY DEF DraftsFollow
<1>1. DraftFollows(x, conn[x]) /\ conn'[x] = conn[x] /\ touch' = touch /\ turns' = turns
  BY DEF DraftsFollow
<1>2. QED
  BY <1>1 DEF DraftFollows, Rising, Fronted, WithTurn, OverCapacity

\* Every step leaves the holder of the lock, if any, with such a draft.
LEMMA FollowStep == StoreInv /\ DraftsFollow /\ [Next]_vars => DraftsFollow'
<1> SUFFICES ASSUME StoreInv, DraftsFollow, [Next]_vars PROVE DraftsFollow'
  OBVIOUS
<1>1. CASE UNCHANGED vars
  BY <1>1, OthersFollow DEF vars
<1>2. ASSUME NEW c \in Conns, NEW s \in Sessions, BeginRecord(c, s) \/ BeginReplay(c, s)
      PROVE  DraftsFollow'
  BY <1>2, BeginFollows
<1>3. ASSUME NEW c \in Conns,
             NextTouch(c) \/ PromoteRow(c) \/ ReadThread(c) \/ InsertTurn(c) \/ EvictOverCapacity(c)
      PROVE  DraftsFollow'
  BY <1>3, NextTouchFollows, PromoteRowFollows, ReadThreadFollows, InsertTurnFollows, EvictFollows
<1>4. None \notin Conns /\ conn = [x \in Conns |-> conn[x]]
  BY StoreAssumption DEF StoreInv, StoreTypeOK
<1>5. ASSUME NEW c \in Conns, Commit(c) \/ StatementFails(c) PROVE DraftsFollow'
  <2>1. lock' = None
    BY <1>5 DEF Commit, StatementFails
  <2>2. QED
    BY <1>4, <2>1, OthersFollow
<1>6. ASSUME NEW c \in Conns, Return(c) PROVE DraftsFollow'
  <2>1. lock # c
    BY <1>6 DEF Return, StoreInv, ConnHolds, DraftHolds, Closed
  <2>2. /\ lock' = lock /\ touch' = touch /\ turns' = turns
        /\ \A x \in Conns : x # c => conn'[x] = conn[x]
    BY <1>4, <1>6 DEF Return
  <2>3. QED
    BY <2>1, <2>2, OthersFollow
<1>7. ASSUME NEW c \in Conns, Abandon(c) PROVE DraftsFollow'
  <2>1. /\ lock' = (IF lock = c THEN None ELSE lock) /\ touch' = touch /\ turns' = turns
        /\ \A x \in Conns : x # c => conn'[x] = conn[x]
    BY <1>4, <1>7 DEF Abandon
  <2>2. QED
    BY <1>4, <2>1, OthersFollow
<1>8. ASSUME NEW c \in Conns, Busy(c) PROVE DraftsFollow'
  BY <1>8, OthersFollow DEF Busy
<1>9. QED
  BY <1>1, <1>2, <1>3, <1>5, <1>6, <1>7, <1>8 DEF Next

-----------------------------------------------------------------------------
(* The refinement. *)

Threads == [s \in Sessions |-> ThreadOf(s, turns)]

\* Lru's two operations and its start, over the threads and the order of the tables.
LEMMA LruReplays ==
  ASSUME NEW c \in Conns, NEW s \in Sessions, shown' = [shown EXCEPT ![c] = ThreadOf(s, turns)],
         turns' = turns, Order' = IF Lru!Known(s) THEN Lru!Touched(s) ELSE Order
  PROVE  Lru!Replay(c, s)
<1>1. Threads[s] = ThreadOf(s, turns) /\ Threads' = Threads
  BY DEF Threads
<1>2. QED
  BY <1>1 DEF Lru!Replay, Order, OrderOf, Threads

\* The same of a record: the thread longer by its turn, and those past the cut gone.
LEMMA LruRecords ==
  ASSUME NEW s \in Sessions, NEW t \in Turns, NEW cap \in Nat, shown' = shown,
         LET order == Lru!Touched(s)
             cut == SubSeq(order, 1, IF Len(order) > cap THEN cap ELSE Len(order))
         IN  /\ Order' = cut
             /\ ThreadOf(s, turns)' = Append(ThreadOf(s, turns), t)
             /\ \A x \in Sessions : x # s =>
                  ThreadOf(x, turns)' = IF \E i \in 1..Len(cut) : cut[i] = x
                                        THEN ThreadOf(x, turns) ELSE <<>>
  PROVE  Lru!Record(s, t, cap)
<1> DEFINE order == Lru!Touched(s)
           cut == SubSeq(order, 1, IF Len(order) > cap THEN cap ELSE Len(order))
           Then(x) == CASE x = s -> Append(Threads[s], t)
                        [] x # s /\ (\E i \in 1..Len(cut) : cut[i] = x) -> Threads[x]
                        [] OTHER -> <<>>
<1>1. Threads' = [x \in Sessions |-> Then(x)]
  <2>1. /\ Threads' = [x \in Sessions |-> ThreadOf(x, turns)']
        /\ \A x \in Sessions : Threads[x] = ThreadOf(x, turns)
    BY DEF Threads
  <2>2. ASSUME NEW x \in Sessions PROVE ThreadOf(x, turns)' = Then(x)
    <3>1. CASE x = s
      BY <2>1, <3>1
    <3>2. CASE x # s
      <4> HIDE DEF cut
      <4>1. ThreadOf(x, turns)' = IF \E i \in 1..Len(cut) : cut[i] = x
                                  THEN ThreadOf(x, turns) ELSE <<>>
        BY <3>2 DEF cut
      <4>2. QED
        BY <2>1, <3>2, <4>1
    <3>3. QED
      BY <3>1, <3>2
  <2> HIDE DEF Then
  <2>3. QED
    BY <2>1, <2>2
<1>2. Order' = cut
  OBVIOUS
<1>3. QED
  BY ONLY shown' = shown, <1>1, <1>2, Zenon DEF Lru!Record, Order, OrderOf, Threads

\* Empty tables are an empty cache.
LEMMA LruStarts == Init => Lru!Init
<1> SUFFICES ASSUME Init PROVE Lru!Init
  OBVIOUS
<1>1. Live(touch) = {} /\ (\A s \in Sessions : RowsOf(s, turns) = {}) /\ Cardinality({}) = 0
  BY FS_EmptySet DEF Init, Live, RowsOf
<1>2. OrderOf(touch) = <<>>
  BY <1>1 DEF OrderOf
<1>3. \A s \in Sessions : ThreadOf(s, turns) = <<>>
  <2> TAKE s \in Sessions
  <2>1. RowsOf(s, turns) = {}
    BY <1>1
  <2>2. QED
    BY <1>1, <2>1 DEF ThreadOf
<1>4. [s \in Sessions |-> ThreadOf(s, turns)] = [s \in Sessions |-> <<>>]
  BY <1>3
<1>5. QED
  BY <1>2, <1>4 DEF Init, Lru!Init, OrderOf

\* The committed tables number the turns of each thread.
LEMMA TablesAreNumbered ==
  ASSUME StoreInv
  PROVE  Ranked(touch) /\ \A s \in Sessions : Numbered(s, turns)
<1>1. Ranked(touch) /\ turns \in SUBSET Rows /\ IsFiniteSet(turns)
  BY DEF StoreInv, StoreTypeOK, Whole, Ranked
<1>2. \A r \in turns : /\ r.seq < Cardinality(RowsOf(r.session, turns))
                       /\ \A q \in turns : q.session = r.session /\ q.seq = r.seq => q = r
  BY DEF StoreInv, Whole
<1>3. ASSUME NEW s \in Sessions, NEW r \in RowsOf(s, turns)
      PROVE  /\ r.seq < Cardinality(RowsOf(s, turns))
             /\ \A q \in RowsOf(s, turns) : q.seq = r.seq => q = r
  <2>1. r \in turns /\ r.session = s /\ \A q \in RowsOf(s, turns) : q \in turns /\ q.session = s
    BY DEF RowsOf
  <2>2. QED
    BY <1>2, <2>1
<1>4. QED
  BY <1>1, <1>3 DEF Numbered

\* COMMIT of a replay.
LEMMA CommitReplays ==
  ASSUME StoreInv, DraftsFollow, NEW c \in Conns, Commit(c), conn[c].op = "replay",
         NEW s, s = conn[c].session
  PROVE  Lru!Replay(c, s)
<1> DEFINE d == conn[c]
<1>1. /\ d.pc = "commit" /\ touch' = d.touch /\ turns' = d.turns
      /\ shown' = [shown EXCEPT ![c] = d.read]
  BY DEF Commit
<1>2. s \in Sessions /\ d.key \in 0..MaxTouch /\ DraftFollows(c, d)
  BY <1>1, HolderFollows, DraftMoves
<1>3. /\ d.turns = turns /\ d.read = ThreadOf(s, turns)
      /\ IF touch[s] > 0 THEN Rising(d) /\ d.touch = Fronted(d) ELSE d.touch = touch
  BY <1>1, <1>2 DEF DraftFollows
<1> HIDE DEF d
<1>4. /\ Ranked(touch) /\ (Lru!Known(s) <=> touch[s] > 0)
  BY <1>2, TablesAreNumbered, OrderOfTheLru DEF Live
<1>5. Order' = IF Lru!Known(s) THEN Lru!Touched(s) ELSE Order
  <2>1. CASE touch[s] > 0
    <3>1. touch' = Promoted(touch, s, d.key)
      BY <1>1, <1>3, <2>1 DEF Fronted, d
    <3>2. OrderOf(Promoted(touch, s, d.key)) = Lru!Touched(s)
      BY <1>2, <1>3, <1>4, <2>1, PromotionTouches DEF Rising
    <3>3. QED
      BY <1>4, <2>1, <3>1, <3>2 DEF Order
  <2>2. CASE ~(touch[s] > 0)
    BY <1>1, <1>3, <1>4, <2>2 DEF Order
  <2>3. QED
    BY <2>1, <2>2
<1>6. shown' = [shown EXCEPT ![c] = ThreadOf(s, turns)] /\ turns' = turns
  BY <1>1, <1>3
<1>7. QED
  BY <1>2, <1>5, <1>6, LruReplays

\* COMMIT of a record_turn.
LEMMA CommitRecords ==
  ASSUME StoreInv, DraftsFollow, NEW c \in Conns, Commit(c), conn[c].op = "record",
         NEW s, s = conn[c].session, NEW t, t = conn[c].turn
  PROVE  Lru!Record(s, t, Capacity[c]) /\ t \in Turns
<1> DEFINE d == conn[c]
           cap == Capacity[c]
           front == Promoted(touch, s, d.key)
           gone == Victims(front, cap)
           longer == turns \cup {NewRow(s, turns, t)}
           order == Lru!Touched(s)
           cut == SubSeq(order, 1, IF Len(order) > cap THEN cap ELSE Len(order))
<1>1. /\ d.pc = "commit" /\ touch' = d.touch /\ turns' = d.turns /\ shown' = shown
  BY DEF Commit
<1>2. s \in Sessions /\ d.key \in 0..MaxTouch /\ DraftFollows(c, d) /\ DraftHolds(d)
  BY <1>1, HolderFollows, DraftMoves
<1>3. /\ \A x \in Sessions : touch[x] < d.key
      /\ d.touch = LeftLive(front, gone) /\ d.turns = Kept(longer, gone)
  BY <1>1, <1>2 DEF DraftFollows, Rising, Fronted, WithTurn, OverCapacity
<1>4. t \in Turns
  <2>1. t \in 1..asked /\ asked \in 0..MaxTurns
    BY <1>2 DEF DraftHolds, StoreInv, StoreTypeOK
  <2>2. QED
    BY ONLY <2>1, StoreAssumption DEF Turns
<1>5. Ranked(touch) /\ Numbered(s, turns) /\ cap \in Nat \ {0}
  BY <1>2, TablesAreNumbered, StoreAssumption
<1>6. \A r \in turns : touch[r.session] > 0
  BY DEF StoreInv, Whole
<1> HIDE DEF d, cap
<1>7. /\ Ranked(front) /\ Live(front) = Live(touch) \cup {s} /\ RankOf(s, front) = 0
  BY <1>2, <1>3, <1>5, PromotionRanks
<1>8. OrderOf(front) = order
  BY <1>2, <1>3, <1>5, PromotionTouches
<1>9. /\ ThreadOf(s, longer) = Append(ThreadOf(s, turns), t)
      /\ \A x \in Sessions : x # s => ThreadOf(x, longer) = ThreadOf(x, turns)
  BY <1>2, <1>4, <1>5, InsertAppends
<1>10. /\ OrderOf(LeftLive(front, gone)) = cut
       /\ \A x \in Sessions :
            x \in Live(LeftLive(front, gone)) <=> \E i \in 1..Len(cut) : cut[i] = x
  <2>1. LET left == LeftLive(front, Victims(front, cap))
            was == OrderOf(front)
            m == IF Len(was) > cap THEN cap ELSE Len(was)
        IN  /\ OrderOf(left) = SubSeq(was, 1, m)
            /\ \A x \in Sessions : x \in Live(left) <=>
                 \E i \in 1..Len(SubSeq(was, 1, m)) : SubSeq(was, 1, m)[i] = x
    <3> HIDE DEF front
    <3>1. QED
      BY <1>5, <1>7, EvictionCuts
  <2> HIDE DEF front
  <2>2. QED
    BY <1>8, <2>1
<1> HIDE DEF front, longer, order
<1>11. s \notin gone
  BY <1>5, <1>7 DEF Victims, RankOf
<1>12. ASSUME NEW x \in Sessions
       PROVE  ThreadOf(x, turns)' = IF x \in gone THEN <<>> ELSE ThreadOf(x, longer)
  <2>1. turns' = Kept(longer, gone)
    BY <1>1, <1>3
  <2>2. QED
    BY <2>1, EvictionEmpties
<1> HIDE DEF cut
<1>13. ASSUME NEW x \in Sessions, x # s
       PROVE  ThreadOf(x, turns)' = IF \E i \in 1..Len(cut) : cut[i] = x
                                    THEN ThreadOf(x, turns) ELSE <<>>
  <2>1. x \in Live(LeftLive(front, gone)) <=> x \notin gone /\ x \in Live(front)
    BY DEF Live, LeftLive
  <2>2. x \in Live(front) <=> x \in Live(touch)
    BY <1>7, <1>13
  <2>3. ASSUME x \notin Live(touch) PROVE ThreadOf(x, turns) = <<>>
    <3>1. RowsOf(x, turns) = {}
      BY <1>6, <2>3 DEF RowsOf, Live
    <3>2. Cardinality({}) = 0
      BY FS_EmptySet
    <3>3. QED
      BY <3>1, <3>2 DEF ThreadOf
  <2>4. ThreadOf(x, turns)' = IF x \in gone THEN <<>> ELSE ThreadOf(x, turns)
    BY <1>9, <1>12, <1>13
  <2>5. QED
    BY <1>10, <2>1, <2>2, <2>3, <2>4
<1>14. ThreadOf(s, turns)' = Append(ThreadOf(s, turns), t)
  BY <1>2, <1>9, <1>11, <1>12
<1>15. Order' = cut
  BY <1>1, <1>3, <1>10 DEF Order
<1>16. Lru!Record(s, t, cap)
  BY <1>1, <1>2, <1>4, <1>5, <1>13, <1>14, <1>15, LruRecords DEF cut, order
<1>17. QED
  BY <1>4, <1>16 DEF cap

\* A step is a COMMIT, or leaves what Lru sees as it is.
LEMMA LruStep == StoreInv /\ DraftsFollow /\ [Next]_vars => [Lru!Next]_Lru!lruVars
<1> SUFFICES ASSUME StoreInv, DraftsFollow, [Next]_vars PROVE [Lru!Next]_Lru!lruVars
  OBVIOUS
<1>1. ASSUME NEW c \in Conns, Commit(c) PROVE Lru!Next
  <2>1. conn[c].pc = "commit"
    BY <1>1 DEF Commit
  <2>2. conn[c].op \in {"record", "replay"} /\ conn[c].session \in Sessions
    BY <2>1, HolderFollows, DraftMoves
  <2>3. PICK s, t : s = conn[c].session /\ t = conn[c].turn
    OBVIOUS
  <2>4. CASE conn[c].op = "replay"
    <3>1. Lru!Replay(c, s)
      BY <1>1, <2>3, <2>4, CommitReplays
    <3>2. QED
      BY <2>2, <2>3, <3>1 DEF Lru!Next
  <2>5. CASE conn[c].op = "record"
    <3>1. Lru!Record(s, t, Capacity[c]) /\ t \in Turns
      BY <1>1, <2>3, <2>5, CommitRecords
    <3>2. Capacity[c] \in {Capacity[x] : x \in Conns}
      OBVIOUS
    <3>3. QED
      BY <2>2, <2>3, <3>1, <3>2 DEF Lru!Next
  <2>6. QED
    BY <2>2, <2>4, <2>5
<1>2. CASE UNCHANGED <<touch, turns, shown>>
  <2>1. Order' = Order /\ Threads' = Threads /\ shown' = shown
    BY <1>2 DEF Order, Threads
  <2>2. QED
    BY ONLY <2>1, Zenon DEF Lru!lruVars, Order, OrderOf, Threads
<1>3. QED
  BY <1>1, <1>2
  DEF Next, vars, BeginRecord, BeginReplay, BeginImmediate, NextTouch, PromoteRow, ReadThread,
      InsertTurn, EvictOverCapacity, Return, StatementFails, Busy, Abandon

\* SessionStore's two tables are the capacity LRU that the in-memory store is (LruSpec):
\* whatever connections of whatever processes interleave, fail, are dropped or wait, a
\* committed replay returns the thread as of the instant it fronts it, a committed record
\* appends to it and sheds the least recently used, and nothing else is ever seen.
THEOREM SessionsAreAnLru == Spec => LruSpec
<1>1. Init => DraftsFollow
  BY StoreAssumption DEF Init, DraftsFollow
<1>2. QED
  BY StoreInvInit, StoreInvStep, <1>1, FollowStep, LruStarts, LruStep, PTL
  DEF Spec, LruSpec, Lru!Spec

-----------------------------------------------------------------------------
(* The migrations. *)

\* Where each open is, what the file has for it already.
ArmsAreApplied ==
  \A p \in Processes :
    /\ place[p] = "applying" => Behind(version[p]) /\ SchemaOf(version[p]) \subseteq schema
    /\ place[p] = "bumping" => Behind(version[p]) /\ SchemaOf(version[p] + 1) \subseteq schema
    /\ place[p] \in {"pruning", "open"} => schema = Tables \cup {Column}

MigrationInv == MigrationTypeOK /\ VersionNeverAhead /\ ArmsAreApplied

\* A schema is what its version says, and the newest has everything.
LEMMA Schemas ==
  /\ SchemaOf(0) = {} /\ SchemaOf(1) = Tables
  /\ \A v \in Nat : v \notin {0, 1} => SchemaOf(v) = Tables \cup {Column}
  /\ \A v \in Nat : SchemaOf(v) \subseteq Tables \cup {Column}
<1>1. SchemaOf(0) = {} /\ SchemaOf(1) = Tables
  BY DEF SchemaOf
<1>2. ASSUME NEW v \in Nat, v \notin {0, 1} PROVE SchemaOf(v) = Tables \cup {Column}
  BY <1>2 DEF SchemaOf
<1>3. ASSUME NEW v \in Nat PROVE SchemaOf(v) \subseteq Tables \cup {Column}
  BY <1>1, <1>2
<1>4. QED
  BY <1>1, <1>2, <1>3

\* A process goes to another place and every other stays.
LEMMA PlaceMoves ==
  ASSUME MigrationTypeOK, NEW p \in Processes, NEW to \in Places, Goto(p, to)
  PROVE  /\ place' \in [Processes -> Places] /\ place'[p] = to
         /\ \A q \in Processes : q # p => place'[q] = place[q]
BY DEF MigrationTypeOK, Goto

\* The file begins at a version whose schema it has.
LEMMA MigrationInvInit == MigrationInit => MigrationInv
<1> SUFFICES ASSUME MigrationInit
             PROVE  MigrationInv
  OBVIOUS
<1>1. userVersion \in Nat /\ schema \in SUBSET (Tables \cup {Column})
  BY Schemas, MigrationAssumption DEF MigrationInit
<1>2. \A p \in Processes : place[p] = "closed"
  BY DEF MigrationInit
<1>3. MigrationTypeOK
  BY <1>1, MigrationAssumption DEF MigrationInit, MigrationTypeOK, Places
<1>4. QED
  BY <1>1, <1>2, <1>3 DEF MigrationInit, MigrationInv, VersionNeverAhead, ArmsAreApplied

\* Every statement of every open keeps it.
LEMMA MigrationInvStep == MigrationInv /\ [MigrationNext]_migrationVars => MigrationInv'
<1> SUFFICES ASSUME MigrationInv, [MigrationNext]_migrationVars
             PROVE  MigrationInv'
  OBVIOUS
<1> DEFINE All == Tables \cup {Column}
<1> USE DEF MigrationInv, MigrationTypeOK, VersionNeverAhead, ArmsAreApplied, Behind, SCHEMA_VERSION
<1>a. /\ {"closed", "reading", "applying", "bumping", "pruning", "open", "refused"} = Places
  BY DEF Places
<1>1. ASSUME NEW p \in Processes, OpenBegin(p) PROVE MigrationInv'
  <2>1. Goto(p, "reading") /\ UNCHANGED <<userVersion, schema, version>> /\ opens' \in 0..MaxOpens
    BY <1>1, MigrationAssumption DEF OpenBegin
  <2>2. QED
    BY <1>a, <2>1, PlaceMoves
<1>2. ASSUME NEW p \in Processes, ReadVersion(p) PROVE MigrationInv'
  <2>1. /\ version' \in [Processes -> Nat] /\ version'[p] = userVersion
        /\ \A q \in Processes : q # p => version'[q] = version[q]
        /\ UNCHANGED <<userVersion, schema, opens>>
    BY <1>2 DEF ReadVersion
  <2>2. CASE userVersion < 2
    <3>1. Goto(p, "applying")
      BY <1>2, <2>2 DEF ReadVersion
    <3>2. QED
      BY <1>a, <2>1, <2>2, <3>1, PlaceMoves
  <2>3. CASE ~(userVersion < 2)
    <3>1. Goto(p, "pruning")
      BY <1>2, <2>3 DEF ReadVersion
    <3>2. SchemaOf(userVersion) = All
      BY <2>3, Schemas
    <3>3. QED
      BY <1>a, <2>1, <3>1, <3>2, PlaceMoves
  <2>4. QED
    BY <2>2, <2>3
<1>3. ASSUME NEW p \in Processes, ApplyV1(p) PROVE MigrationInv'
  <2>1. version[p] = 0 /\ place[p] = "applying" /\ UNCHANGED <<userVersion, version, opens>>
    BY <1>3 DEF ApplyV1
  <2>2. CASE \E t \in Tables \ schema : schema' = schema \cup {t} /\ UNCHANGED place
    BY <2>1, <2>2
  <2>3. CASE Tables \subseteq schema /\ Goto(p, "bumping") /\ UNCHANGED schema
    BY <1>a, <2>1, <2>3, PlaceMoves, Schemas
  <2>4. QED
    BY <1>3, <2>2, <2>3 DEF ApplyV1
<1>4. ASSUME NEW p \in Processes, ApplyV2(p) PROVE MigrationInv'
  <2>1. version[p] = 1 /\ place[p] = "applying" /\ UNCHANGED <<userVersion, version, opens>>
    BY <1>4 DEF ApplyV2
  <2>2. CASE Goto(p, "refused") /\ UNCHANGED schema
    BY <1>a, <2>1, <2>2, PlaceMoves
  <2>3. CASE schema' = schema \cup {Column} /\ Goto(p, "bumping")
    <3>1. Tables \subseteq schema
      BY <2>1, Schemas
    <3>2. SchemaOf(2) = All /\ schema' = All
      BY <2>3, <3>1, Schemas
    <3>3. QED
      BY <1>a, <2>1, <2>3, <3>1, <3>2, PlaceMoves
  <2>4. QED
    BY <1>4, <2>2, <2>3 DEF ApplyV2
<1>5. ASSUME NEW p \in Processes, BumpVersion(p) PROVE MigrationInv'
  <2>1. /\ version' \in [Processes -> Nat] /\ version'[p] = version[p] + 1
        /\ \A q \in Processes : q # p => version'[q] = version[q]
        /\ userVersion' = version[p] + 1 /\ place[p] = "bumping"
        /\ UNCHANGED <<schema, opens>>
    BY <1>5 DEF BumpVersion
  <2>2. CASE version[p] + 1 < 2
    <3>1. Goto(p, "applying")
      BY <1>5, <2>2 DEF BumpVersion
    <3>2. QED
      BY <1>a, <2>1, <2>2, <3>1, PlaceMoves
  <2>3. CASE ~(version[p] + 1 < 2)
    <3>1. Goto(p, "pruning")
      BY <1>5, <2>3 DEF BumpVersion
    <3>2. version[p] = 1 /\ SchemaOf(2) = All
      BY <2>1, <2>3, Schemas
    <3>3. schema = All
      BY <2>1, <3>2
    <3>4. QED
      BY <1>a, <2>1, <3>1, <3>3, PlaceMoves
  <2>4. QED
    BY <2>2, <2>3
<1>6. ASSUME NEW p \in Processes, Prune(p) PROVE MigrationInv'
  <2>1. place[p] = "pruning" /\ UNCHANGED <<userVersion, schema, version, opens>>
    BY <1>6 DEF Prune
  <2>2. \E to \in {"open", "refused"} : Goto(p, to)
    BY <1>6 DEF Prune
  <2>3. QED
    BY <1>a, <2>1, <2>2, PlaceMoves
<1>7. ASSUME NEW p \in Processes, Killed(p) PROVE MigrationInv'
  <2>1. Goto(p, "closed") /\ UNCHANGED <<userVersion, schema, version, opens>>
    BY <1>7 DEF Killed
  <2>2. QED
    BY <1>a, <2>1, PlaceMoves
<1>8. CASE UNCHANGED migrationVars
  BY <1>8 DEF migrationVars
<1>9. QED
  BY <1>1, <1>2, <1>3, <1>4, <1>5, <1>6, <1>7, <1>8 DEF MigrationNext

\* SchemaIsWhole (StoreMigration): however many processes open a file of any version at
\* once, and whoever is killed between two statements, an open store has the whole schema
\* and user_version never claims what the file does not have.
THEOREM MigrationIsWhole == MigrationSpec => []SchemaIsWhole
<1>1. MigrationInv => SchemaIsWhole
  BY DEF MigrationInv, ArmsAreApplied, SchemaIsWhole, OpenMeansMigrated
<1>2. QED
  BY <1>1, MigrationInvInit, MigrationInvStep, PTL DEF MigrationSpec

-----------------------------------------------------------------------------
(* The batch handles of the file. *)

\* What is dated is dated in the past, and by the order of a submit: the provider
\* creates, kaibo writes the row; an unfinished submit has created nothing.
Dated ==
  /\ clock \in Nat
  /\ born \in [Batches -> SUBSET Nat] /\ row \in [Batches -> SUBSET Nat]
  /\ \A b \in Batches :
       /\ \A t \in born[b] : t <= clock
       /\ \A t \in row[b] : \A u \in born[b] : u <= t

\* Born before it is kept, told, recorded or pruned.
BornFirst ==
  /\ submitAt \in [Batches -> {"new", "uploaded", "accepted", "told", "failed"}]
  /\ \A b \in Batches :
       /\ submitAt[b] \in {"new", "uploaded"} => born[b] = {}
       /\ submitAt[b] = "accepted" => born[b] # {}
       /\ row[b] # {} \/ b \in pruned \/ b \in kept => born[b] # {}

\* A batch is kept for its time and no longer.
KeptInTime == \A b \in kept \cap Batches : \A t \in born[b] : clock <= t + Retention

HandlesInv ==
  /\ Dated /\ BornFirst /\ KeptInTime
  /\ kept \subseteq Batches /\ pruned \subseteq Batches
  /\ PrunedIsGone

\* A row is old enough to be pruned only when the provider's time is up.
LEMMA StaleIsGone ==
  ASSUME HandlesInv, NEW b \in Batches, NEW t \in row[b], t + Ttl < clock
  PROVE  b \notin kept
<1>1. PICK u \in born[b] : TRUE
  BY DEF HandlesInv, BornFirst
<1>2. /\ u \in Nat /\ t \in Nat /\ clock \in Nat /\ u <= t
  BY <1>1 DEF HandlesInv, Dated
<1>3. u + Retention < clock
  BY <1>2, RetentionAssumption
<1>4. b \in kept => clock <= u + Retention
  BY <1>1 DEF HandlesInv, KeptInTime
<1>5. QED
  BY <1>2, <1>3, <1>4, RetentionAssumption

\* Pruning old rows, of the table as it is or with the row of a batch just taken.
LEMMA PruningKeeps ==
  ASSUME HandlesInv, NEW r \in [Batches -> SUBSET Nat], PruneRows(r),
         UNCHANGED <<clock, born, kept>>,
         submitAt' \in [Batches -> {"new", "uploaded", "accepted", "told", "failed"}],
         \A b \in Batches : r[b] = row[b] \/ (r[b] = {clock} /\ born[b] # {}),
         \A b \in Batches : submitAt'[b] = submitAt[b] \/ submitAt'[b] \in {"told", "failed"}
  PROVE  HandlesInv'
<1>1. \A b \in Batches : row'[b] = {} \/ row'[b] = r[b]
  BY DEF PruneRows
<1>2. row' \in [Batches -> SUBSET Nat]
  BY DEF PruneRows
<1>3. Dated'
  BY <1>1, <1>2 DEF HandlesInv, Dated
<1>4. ASSUME NEW b \in Stale(r) PROVE b \in Batches /\ born[b] # {} /\ b \notin kept
  <2>1. PICK t \in r[b] : t + Ttl < clock
    BY DEF Stale
  <2>2. b \in Batches
    BY DEF Stale
  <2>3. r[b] = row[b]
    BY <2>1, <2>2, RetentionAssumption DEF HandlesInv, Dated
  <2>4. QED
    BY <2>1, <2>2, <2>3, StaleIsGone DEF HandlesInv, BornFirst
<1>5. pruned' = pruned \cup Stale(r)
  BY DEF PruneRows
<1>6. BornFirst'
  BY <1>1, <1>4, <1>5 DEF HandlesInv, BornFirst
<1>7. KeptInTime'
  BY DEF HandlesInv, KeptInTime
<1>8. PrunedIsGone' /\ kept' \subseteq Batches /\ pruned' \subseteq Batches
  BY <1>4, <1>5 DEF HandlesInv, PrunedIsGone
<1>9. QED
  BY <1>3, <1>6, <1>7, <1>8 DEF HandlesInv

\* A provider takes a batch, whether kaibo hears of it or not.
LEMMA TakingKeeps ==
  ASSUME HandlesInv, NEW b \in Batches, Accepted(b) \/ AcceptedUnheard(b)
  PROVE  HandlesInv'
<1>1. submitAt[b] \in {"new", "uploaded"}
  BY DEF Accepted, AcceptedUnheard, Ready
<1>2. /\ born' = [born EXCEPT ![b] = {clock}] /\ kept' = kept \cup {b}
      /\ UNCHANGED <<clock, row, pruned>>
      /\ submitAt'[b] \in {"accepted", "failed"}
      /\ \A x \in Batches : x # b => submitAt'[x] = submitAt[x]
      /\ submitAt' \in [Batches -> {"new", "uploaded", "accepted", "told", "failed"}]
  BY DEF Accepted, AcceptedUnheard, HandlesInv, BornFirst
<1>3. /\ born'[b] = {clock} /\ \A x \in Batches : x # b => born'[x] = born[x]
  BY <1>2 DEF HandlesInv, Dated
<1>4. born[b] = {} /\ row[b] = {} /\ b \notin pruned /\ b \notin kept
  BY <1>1 DEF HandlesInv, BornFirst
<1>5. Dated'
  BY <1>2, <1>3, <1>4 DEF HandlesInv, Dated
<1>6. BornFirst'
  BY <1>2, <1>3, <1>4 DEF HandlesInv, BornFirst
<1>7. KeptInTime'
  <2>1. ASSUME NEW x \in kept' \cap Batches, NEW t \in born'[x] PROVE clock' <= t + Retention
    BY <1>2, <1>3, RetentionAssumption DEF HandlesInv, Dated, KeptInTime
  <2>2. QED
    BY <2>1 DEF KeptInTime
<1>8. PrunedIsGone' /\ kept' \subseteq Batches /\ pruned' \subseteq Batches
  BY <1>2, <1>4 DEF HandlesInv, PrunedIsGone
<1>9. QED
  BY <1>5, <1>6, <1>7, <1>8 DEF HandlesInv

\* A step that moves a submit along and dates nothing.
LEMMA MovingKeeps ==
  ASSUME HandlesInv, UNCHANGED <<clock, born, kept, pruned>>,
         NEW b \in Batches,
         row' = row \/ (born[b] # {} /\ row' = [row EXCEPT ![b] = {clock}]),
         \/ submitAt[b] = "new" /\ submitAt' = [submitAt EXCEPT ![b] = "uploaded"]
         \/ submitAt' = [submitAt EXCEPT ![b] = "told"]
         \/ submitAt' = [submitAt EXCEPT ![b] = "failed"]
  PROVE  HandlesInv'
<1>1. /\ submitAt' \in [Batches -> {"new", "uploaded", "accepted", "told", "failed"}]
      /\ \A x \in Batches : \/ submitAt'[x] = submitAt[x]
                            \/ submitAt'[x] \in {"told", "failed"}
                            \/ submitAt[x] = "new" /\ submitAt'[x] = "uploaded"
  BY DEF HandlesInv, BornFirst
<1>2. /\ row' \in [Batches -> SUBSET Nat]
      /\ \A x \in Batches : row'[x] = row[x] \/ (row'[x] = {clock} /\ born[x] # {})
  BY DEF HandlesInv, Dated
<1>3. Dated'
  BY <1>2 DEF HandlesInv, Dated
<1>4. BornFirst'
  BY <1>1, <1>2 DEF HandlesInv, BornFirst
<1>5. QED
  BY <1>3, <1>4 DEF HandlesInv, KeptInTime, PrunedIsGone

\* The clock ticks, and what was kept for its time is dropped.
LEMMA TickKeeps == ASSUME HandlesInv, Tick PROVE HandlesInv'
<1>1. /\ clock' = clock + 1 /\ UNCHANGED <<submitAt, born, row, pruned>>
      /\ kept' = {b \in kept : \A t \in born[b] : clock + 1 <= t + Retention}
  BY DEF Tick
<1>2. Dated'
  BY <1>1 DEF HandlesInv, Dated
<1>3. QED
  BY <1>1, <1>2 DEF HandlesInv, BornFirst, KeptInTime, PrunedIsGone

\* Every step keeps the invariant of the handles.
LEMMA HandlesStep == HandlesInv /\ [HandlesNext]_handleVars => HandlesInv'
<1> SUFFICES ASSUME HandlesInv, [HandlesNext]_handleVars PROVE HandlesInv'
  OBVIOUS
<1>1. ASSUME NEW b \in Batches,
             \/ RefuseSubmit(b) \/ UploadInput(b) \/ SubmitFails(b) \/ PutBatchUnpruned(b)
             \/ TellUnrecorded(b) \/ KilledBeforeTelling(b)
      PROVE  HandlesInv'
  <2>1. UNCHANGED <<clock, born, kept, pruned>>
    BY <1>1 DEF RefuseSubmit, UploadInput, SubmitFails, PutBatchUnpruned, TellUnrecorded,
                KilledBeforeTelling
  <2>2. \/ submitAt[b] = "new" /\ submitAt' = [submitAt EXCEPT ![b] = "uploaded"]
        \/ submitAt' = [submitAt EXCEPT ![b] = "told"]
        \/ submitAt' = [submitAt EXCEPT ![b] = "failed"]
    BY <1>1 DEF RefuseSubmit, UploadInput, SubmitFails, PutBatchUnpruned, TellUnrecorded,
                KilledBeforeTelling, Go
  <2>3. row' = row \/ (submitAt[b] = "accepted" /\ row' = [row EXCEPT ![b] = {clock}])
    BY <1>1 DEF RefuseSubmit, UploadInput, SubmitFails, PutBatchUnpruned, TellUnrecorded,
                KilledBeforeTelling, Go
  <2>4. submitAt[b] = "accepted" => born[b] # {}
    BY DEF HandlesInv, BornFirst
  <2>5. QED
    BY <2>1, <2>2, <2>3, <2>4, MovingKeeps
<1>2. ASSUME NEW b \in Batches, Accepted(b) \/ AcceptedUnheard(b) PROVE HandlesInv'
  BY <1>2, TakingKeeps
<1>3. ASSUME NEW b \in Batches, PutBatch(b) PROVE HandlesInv'
  <2> DEFINE r == [row EXCEPT ![b] = {clock}]
  <2>1. /\ PruneRows(r) /\ UNCHANGED <<clock, born, kept>>
        /\ submitAt[b] = "accepted" /\ submitAt' = [submitAt EXCEPT ![b] = "told"]
    BY <1>3 DEF PutBatch, Go
  <2>2. /\ r \in [Batches -> SUBSET Nat]
        /\ \A x \in Batches : r[x] = row[x] \/ (r[x] = {clock} /\ born[x] # {})
    BY <2>1 DEF HandlesInv, Dated, BornFirst
  <2>3. /\ submitAt' \in [Batches -> {"new", "uploaded", "accepted", "told", "failed"}]
        /\ \A x \in Batches : submitAt'[x] = submitAt[x] \/ submitAt'[x] \in {"told", "failed"}
    BY <2>1 DEF HandlesInv, BornFirst
  <2> HIDE DEF r
  <2>4. QED
    BY <2>1, <2>2, <2>3, PruningKeeps
<1>4. ASSUME PruneRows(row), UNCHANGED <<clock, submitAt, born, kept>> PROVE HandlesInv'
  <2>1. /\ row \in [Batches -> SUBSET Nat]
        /\ submitAt' \in [Batches -> {"new", "uploaded", "accepted", "told", "failed"}]
    BY <1>4 DEF HandlesInv, Dated, BornFirst
  <2>2. QED
    BY <1>4, <2>1, PruningKeeps
<1>5. ASSUME UNCHANGED <<clock, submitAt, born, kept, row, pruned>> PROVE HandlesInv'
  BY <1>5 DEF HandlesInv, Dated, BornFirst, KeptInTime, PrunedIsGone
<1>6. CASE OpenPrunes
  BY <1>4, <1>6 DEF OpenPrunes
<1>7. CASE Tick
  BY <1>7, TickKeeps
<1>8. CASE JobList
  BY <1>5, <1>8 DEF JobList
<1>9. CASE CliList
  BY <1>4, <1>5, <1>9 DEF CliList
<1>10. CASE UNCHANGED handleVars
  BY <1>5, <1>10 DEF handleVars
<1>11. QED
  BY <1>1, <1>2, <1>3, <1>6, <1>7, <1>8, <1>9, <1>10 DEF HandlesNext

\* A listing shows what was found, in sight or hidden, and of the rows it read the rest.
LEMMA AskLists ==
  ASSUME NEW all \in BOOLEAN, NEW read \in BOOLEAN, NEW r, Ask(all, read, r)
  PROVE  LET seen == listing'.entries \cup listing'.hidden \cup listing'.recovered
         IN /\ listing'.read = read /\ (read => Handles(r) \subseteq seen)
            /\ \A b \in kept : BackendOf[b] \in listing'.whole => b \in seen
            /\ listing'.recovered \cap (listing'.entries \cup listing'.hidden) = {}
<1>1. PICK whole, found :
        /\ \A b \in kept : BackendOf[b] \in whole => b \in found
        /\ listing' = Listing(found, whole, all, read, r)
  BY DEF Ask
<1>2. /\ listing'.read = read /\ listing'.whole = whole
      /\ listing'.entries \cup listing'.hidden = found
      /\ listing'.recovered = IF read THEN Handles(r) \ found ELSE {}
  BY <1>1 DEF Listing
<1>3. QED
  BY <1>1, <1>2

\* Every step leaves the last listing, clears it, or makes one that tells all.
LEMMA ListingStep ==
  [HandlesNext]_handleVars =>
    \/ listing' = listing \/ listing' = NoListing
    \/ LET seen == listing'.entries \cup listing'.hidden \cup listing'.recovered
       IN /\ listing'.read => Handles(row') \subseteq seen
          /\ \A b \in kept : BackendOf[b] \in listing'.whole => b \in seen
          /\ listing'.recovered \cap (listing'.entries \cup listing'.hidden) = {}
<1> SUFFICES ASSUME [HandlesNext]_handleVars
             PROVE  \/ listing' = listing \/ listing' = NoListing
                    \/ LET seen == listing'.entries \cup listing'.hidden \cup listing'.recovered
                       IN /\ listing'.read => Handles(row') \subseteq seen
                          /\ \A b \in kept : BackendOf[b] \in listing'.whole => b \in seen
                          /\ listing'.recovered \cap (listing'.entries \cup listing'.hidden) = {}
  OBVIOUS
<1>1. CASE JobList
  <2>1. PICK all \in BOOLEAN, read \in BOOLEAN : Ask(all, read, row)
    BY <1>1 DEF JobList
  <2>2. row' = row
    BY <1>1 DEF JobList
  <2>3. QED
    BY <2>1, <2>2, AskLists
<1>2. CASE CliList
  <2>1. PICK all \in BOOLEAN : Ask(all, TRUE, row') \/ Ask(all, FALSE, row)
    BY <1>2 DEF CliList
  <2>2. QED
    BY <2>1, AskLists
<1>3. CASE \/ OpenPrunes \/ Tick
           \/ \E b \in Batches :
                \/ RefuseSubmit(b) \/ UploadInput(b) \/ Accepted(b) \/ AcceptedUnheard(b)
                \/ SubmitFails(b) \/ PutBatch(b) \/ PutBatchUnpruned(b) \/ TellUnrecorded(b)
                \/ KilledBeforeTelling(b)
  BY <1>3 DEF OpenPrunes, Tick, RefuseSubmit, UploadInput, Accepted, AcceptedUnheard, SubmitFails,
              PutBatch, PutBatchUnpruned, TellUnrecorded, KilledBeforeTelling, NotListing
<1>4. CASE UNCHANGED handleVars
  BY <1>4 DEF handleVars
<1>5. QED
  BY <1>1, <1>2, <1>3, <1>4 DEF HandlesNext

\* Handles are accounted for: a row in the file names a batch its provider took, and no
\* row goes while its batch can be collected; and every listing, whatever the backends
\* answer, shows once each handle it read and each batch of a backend that answered whole.
THEOREM HandlesHold == HandlesSpec => HandlesAreAccounted
<1>1. HandlesInit => HandlesInv /\ ListedOnce
  <2> SUFFICES ASSUME HandlesInit PROVE HandlesInv /\ ListedOnce
    OBVIOUS
  <2>1. Dated /\ BornFirst /\ KeptInTime /\ PrunedIsGone
    BY DEF HandlesInit, Dated, BornFirst, KeptInTime, PrunedIsGone
  <2>2. ListedOnce
    BY DEF HandlesInit, ListedOnce, NoListing
  <2>3. QED
    BY <2>1, <2>2 DEF HandlesInit, HandlesInv
<1>2. ListedOnce /\ [HandlesNext]_handleVars => ListedOnce'
  BY ListingStep DEF ListedOnce, NoListing
<1>3. HandlesInv => RowsWereTaken /\ PrunedIsGone
  BY DEF HandlesInv, BornFirst, RowsWereTaken
<1>4. [HandlesNext]_handleVars =>
        [listing' # listing =>
           LET seen == listing'.entries \cup listing'.hidden \cup listing'.recovered
           IN /\ listing'.read => Handles(row') \subseteq seen
              /\ \A b \in kept : BackendOf[b] \in listing'.whole => b \in seen]_handleVars
  BY ListingStep DEF NoListing
<1>5. QED
  BY <1>1, <1>2, <1>3, <1>4, HandlesStep, PTL
  DEF HandlesSpec, HandlesAreAccounted, NothingUnlisted

-----------------------------------------------------------------------------
(* What is told of one batch. *)

Over == remote \in Ended(lane)

\* The requests are numbered from zero, each is in a state of its lane, and a batch
\* that ended whole has left none of them waiting.
ItemsInv ==
  /\ lane \in Lanes
  /\ remote \in {"none", "running", "cancelling"} \cup Ended(lane)
  /\ remote # "none" => \E n \in 1..MaxItems : requests = RequestIds(n)
  /\ item \in [requests -> Ran(lane) \cup {Queued, Canceled, Dropped}]
  /\ remote = WholeEnd[lane] => \A i \in requests : item[i] # Queued

\* A batch that ended with no line of its own, where that is a failure.
NothingCame == LinesOf = {} /\ (remote = WholeEnd[lane] => lane \in {"openai", "openrouter"})

\* What a poll shows of the items as they are: nothing yet, or the reason of a failure,
\* or an answer for each line and, of a whole batch whose count is known, the absentees.
ShownAs(show, known) ==
  \/ show.tag \in {"nothing", "progress", "cancelling"} /\ DOMAIN show.answers = {}
  \/ show.tag = "failed" /\ DOMAIN show.answers = {} /\ Over /\ NothingCame
  \/ /\ show.tag = "done" /\ Over /\ ~NothingCame
     /\ DOMAIN show.answers =
          LinesOf \cup (IF known /\ remote = WholeEnd[lane] THEN requests ELSE {})
     /\ \A i \in DOMAIN show.answers :
          show.answers[i] = IF i \in LinesOf THEN Answer(item[i]) ELSE "missing"

ResultsInv == ItemsInv /\ ShownAs(reply, counted)

\* Each lane ends in states of its own, none of them a state of a batch that runs.
LEMMA EndsDiffer ==
  ASSUME lane \in Lanes
  PROVE  /\ WholeEnd[lane] \in {"ended", "succeeded", "completed"}
         /\ WholeEnd[lane] \in Ended(lane)
         /\ Ended(lane) \subseteq {"ended", "succeeded", "completed",
                                     "failed", "expired", "cancelled"}
         /\ lane = "anthropic" => Ended(lane) = {WholeEnd[lane]}
         /\ lane = "gemini" => WholeEnd[lane] = "succeeded"
         /\ lane \in {"openai", "openrouter"} => WholeEnd[lane] = "completed"
         /\ WholeEnd[lane] \notin PartialEnds(lane)
  BY DEF Lanes, WholeEnd, PartialEnds, Ended

\* The answer of a line is the lane's word for it: whole or cut as the stop says, and
\* never the word for an absentee.
LEMMA AnswerIs ==
  ASSUME lane \in Lanes, NEW o \in Ran(lane) \cup {Canceled}
  PROVE  /\ Answer(o) # "missing"
         /\ (Answer(o) = "whole") <=> (o.said = "text" /\ o.stop \in Finished[lane])
         /\ (Answer(o) = "incomplete") <=> (o.said = "text" /\ o.stop \in Unfinished[lane])
<1>1. o.said \in {"text", "thought", "nothing"}
  BY DEF Ran, Canceled
<1>2. CASE lane = "anthropic"
  <2>1. /\ Finished[lane] = {"end_turn", "stop_sequence", "none"}
        /\ Unfinished[lane] = {"max_tokens", "refusal"}
    BY <1>2 DEF Lanes, Finished, Unfinished
  <2>2. o.stop \in {"end_turn", "stop_sequence", "none",
                  "max_tokens", "refusal", "errored", "canceled"}
    BY <2>1 DEF Ran, Canceled
  <2>3. Answer(o) = AnthropicAnswer(o)
    BY <1>2 DEF Answer
  <2>4. QED
    BY <1>1, <2>1, <2>2, <2>3 DEF AnthropicAnswer, AnthropicGate, MessageText, Gated
<1>3. CASE lane = "gemini"
  <2>1. Finished[lane] = {"STOP", "none"} /\ Unfinished[lane] = {"MAX_TOKENS", "SAFETY"}
    BY <1>3 DEF Lanes, Finished, Unfinished
  <2>2. \/ o.stop \in {"STOP", "none", "MAX_TOKENS", "SAFETY", "errored"}
        \/ o.stop = "canceled" /\ o.said = "nothing"
    BY <2>1 DEF Ran, Canceled
  <2>3. Answer(o) = GeminiAnswer(o)
    BY <1>3 DEF Answer
  <2>4. QED
    BY <1>1, <2>1, <2>2, <2>3 DEF GeminiAnswer, GeminiGate, GeminiText, Gated
<1>4. CASE lane = "openai"
  <2>1. Finished[lane] = {"completed", "none"} /\ Unfinished[lane] = {"incomplete", "failed"}
    BY <1>4 DEF Lanes, Finished, Unfinished
  <2>2. \/ o.stop \in {"completed", "none", "incomplete", "failed", "errored"}
        \/ o.stop = "canceled" /\ o.said = "nothing"
    BY <2>1 DEF Ran, Canceled
  <2>3. Answer(o) = OpenaiAnswer(o)
    BY <1>4 DEF Answer
  <2>4. QED
    BY <1>1, <2>1, <2>2, <2>3 DEF OpenaiAnswer, OpenaiGate, OpenaiText, Gated
<1>5. CASE lane = "openrouter"
  <2>1. Finished[lane] = {"stop", "none"} /\ Unfinished[lane] = {"length", "error"}
    BY <1>5 DEF Lanes, Finished, Unfinished
  <2>2. \/ o.stop \in {"stop", "none", "length", "error", "errored"}
        \/ o.stop = "canceled" /\ o.said = "nothing"
    BY <2>1 DEF Ran, Canceled
  <2>3. Answer(o) = OpenrouterAnswer(o)
    BY <1>5 DEF Answer
  <2>4. QED
    BY <1>1, <2>1, <2>2, <2>3 DEF OpenrouterAnswer, OpenrouterGate, OpenrouterText, Gated
<1>6. QED
  BY <1>2, <1>3, <1>4, <1>5 DEF Lanes

\* The count of a handle's row, when it is there, is the number of requests.
LEMMA CountIs ==
  ASSUME ItemsInv, remote # "none", NEW count \in Counts
  PROVE  UNION {0..(n - 1) : n \in count} = IF count = {} THEN {} ELSE requests
<1>1. CASE count = {}
  BY <1>1
<1>2. CASE count = {CHOOSE n \in 1..MaxItems : requests = 0..(n - 1)}
  <2>1. \E n \in 1..MaxItems : requests = 0..(n - 1)
    BY DEF ItemsInv, RequestIds
  <2>2. PICK k \in 1..MaxItems : k = (CHOOSE n \in 1..MaxItems : requests = 0..(n - 1))
                                 /\ requests = 0..(k - 1)
    BY <2>1
  <2>3. count = {k}
    BY <1>2, <2>2
  <2>4. UNION {0..(n - 1) : n \in {k}} = 0..(k - 1)
    OBVIOUS
  <2>5. QED
    BY <2>2, <2>3, <2>4
<1>3. QED
  BY <1>1, <1>2 DEF Counts

\* The four lanes' ends are one: a failure where nothing came, and otherwise the lines
\* with the absentees of a whole batch.
LEMMA TerminalIs ==
  ASSUME ItemsInv, Over, NEW count
  PROVE  Terminal(count) =
           IF NothingCame THEN Showing("failed", NoAnswers)
           ELSE Showing("done", CrossCheck(LinesOf, IF remote = WholeEnd[lane] THEN count ELSE {}))
<1>1. lane \in Lanes
  BY DEF ItemsInv
<1> HIDE DEF Lanes
<1>2. CASE lane = "anthropic"
  <2>1. remote = WholeEnd[lane]
    BY <1>1, <1>2, EndsDiffer DEF Over
  <2>2. QED
    BY <1>2, <2>1 DEF Terminal, PollAnthropic, NothingCame
<1>3. CASE lane = "gemini"
  <2>1. WholeEnd[lane] = "succeeded"
    BY <1>1, <1>3, EndsDiffer
  <2>2. Terminal(count) = PollGemini(count)
    BY <1>3 DEF Terminal
  <2>3. QED
    BY <1>3, <2>1, <2>2 DEF PollGemini, NothingCame
<1>4. CASE lane = "openai"
  <2>1. WholeEnd[lane] = "completed"
    BY <1>1, <1>4, EndsDiffer
  <2>2. Terminal(count) = PollOpenai(count)
    BY <1>4 DEF Terminal
  <2>3. QED
    BY <1>4, <2>1, <2>2 DEF PollOpenai, FinalizeOpenai, NothingCame
<1>5. CASE lane = "openrouter"
  <2>1. WholeEnd[lane] = "completed"
    BY <1>1, <1>5, EndsDiffer
  <2>2. Terminal(count) = PollOpenrouter(count)
    BY <1>5 DEF Terminal
  <2>3. QED
    BY <1>5, <2>1, <2>2 DEF PollOpenrouter, FinalizeOpenai, NothingCame
<1>6. QED
  BY <1>1, <1>2, <1>3, <1>4, <1>5 DEF Lanes

\* A poll shows the items as they are, and once the batch is over it says so.
LEMMA PollShows ==
  ASSUME ItemsInv, remote # "none", NEW count \in Counts, PollWith(count)
  PROVE  ShownAs(reply', counted') /\ (Over => reply'.tag \in {"done", "failed"})
<1>1. /\ Ended(lane) \cap {"none", "running", "cancelling"} = {}
      /\ Over \/ remote \in {"running", "cancelling"}
  BY EndsDiffer DEF ItemsInv, Over
<1>2. CASE ~Over
  <2>1. reply'.tag \in {"progress", "cancelling"} /\ DOMAIN reply'.answers = {}
    BY <1>1, <1>2 DEF PollWith, Showing, NoAnswers
  <2>2. QED
    BY <1>2, <2>1 DEF ShownAs
<1>3. CASE Over
  <2>1. reply' = Terminal(count) /\ counted' = (count # {})
    BY <1>1, <1>3 DEF PollWith, Over
  <2>2. CASE NothingCame
    <3>1. reply' = Showing("failed", NoAnswers)
      BY <1>3, <2>1, <2>2, TerminalIs
    <3>2. reply'.tag = "failed" /\ DOMAIN reply'.answers = {}
      BY <3>1 DEF Showing, NoAnswers
    <3>3. QED
      BY <1>3, <2>2, <3>2 DEF ShownAs
  <2>3. CASE ~NothingCame
    <3> DEFINE c == IF remote = WholeEnd[lane] THEN count ELSE {}
               e == IF counted' /\ remote = WholeEnd[lane] THEN requests ELSE {}
    <3>1. reply' = Showing("done", CrossCheck(LinesOf, c))
      BY <1>3, <2>1, <2>3, TerminalIs
    <3>2. UNION {0..(n - 1) : n \in c} = e
      <4>1. UNION {0..(n - 1) : n \in {}} = {}
        OBVIOUS
      <4>2. QED
        BY <2>1, <4>1, CountIs
    <3> HIDE DEF c, e
    <3>3. CrossCheck(LinesOf, c) =
            [i \in LinesOf \cup e |-> IF i \in LinesOf THEN Answer(item[i]) ELSE "missing"]
      BY <3>2 DEF CrossCheck
    <3>4. reply'.tag = "done" /\ reply'.answers = CrossCheck(LinesOf, c)
      BY <3>1 DEF Showing
    <3>5. /\ DOMAIN reply'.answers = LinesOf \cup e
          /\ \A i \in DOMAIN reply'.answers :
               reply'.answers[i] = IF i \in LinesOf THEN Answer(item[i]) ELSE "missing"
      BY <3>3, <3>4
    <3>6. QED
      BY <1>3, <2>3, <3>4, <3>5 DEF ShownAs, e
  <2>4. QED
    BY <2>2, <2>3
<1>4. QED
  BY <1>2, <1>3

\* A poll is shown of items that stay as they are.
LEMMA ShownStays ==
  ASSUME ShownAs(reply', counted'), UNCHANGED <<lane, requests, remote, item>>
  PROVE  ShownAs(reply, counted)'
<1>1. (Over <=> Over') /\ (NothingCame <=> NothingCame') /\ LinesOf = LinesOf'
  BY DEF Over, NothingCame, LinesOf
<1>2. \A o : Answer(o)' = Answer(o)
  BY DEF Answer
<1>3. QED
  BY <1>1, <1>2 DEF ShownAs

\* What the provider or the caller does to a batch that is not over keeps the items
\* sound, and what was shown before it was over claimed nothing.
LEMMA ItemsStep ==
  ASSUME ItemsInv, [SubmitBatch \/ RunItem \/ EndWhole \/ EndPartial \/ CancelBatch]_resultVars
  PROVE  ItemsInv'
<1>1. lane \in Lanes /\ lane' = lane
  BY DEF ItemsInv, SubmitBatch, RunItem, EndWhole, EndPartial, CancelBatch, resultVars
<1>2. WholeEnd[lane] \notin {"none", "running", "cancelling"} \cup PartialEnds(lane)
  BY <1>1, EndsDiffer
<1>3. CASE SubmitBatch
  <2>1. PICK n \in 1..MaxItems :
          requests' = RequestIds(n) /\ item' = [i \in RequestIds(n) |-> Queued]
    BY <1>3 DEF SubmitBatch
  <2>2. remote' = "running"
    BY <1>3 DEF SubmitBatch
  <2>3. QED
    BY <1>1, <1>2, <2>1, <2>2 DEF ItemsInv
<1>4. CASE RunItem
  <2>1. PICK i \in requests, o \in Ran(lane) \cup {Dropped} : item' = [item EXCEPT ![i] = o]
    BY <1>4 DEF RunItem
  <2>2. remote \in {"running", "cancelling"} /\ UNCHANGED <<lane, requests, remote>>
    BY <1>4 DEF RunItem, Unended
  <2>3. item' \in [requests' -> Ran(lane') \cup {Queued, Canceled, Dropped}]
    BY <1>1, <2>1, <2>2 DEF ItemsInv
  <2>4. QED
    BY <1>1, <1>2, <2>2, <2>3 DEF ItemsInv
<1>5. CASE EndWhole
  <2>1. /\ item' = [i \in requests |-> IF item[i] = Queued THEN Canceled ELSE item[i]]
        /\ remote' = WholeEnd[lane] /\ UNCHANGED requests
        /\ remote \in {"running", "cancelling"}
    BY <1>5 DEF EndWhole, Unended
  <2>2. Canceled # Queued
    BY DEF Canceled, Queued
  <2>3. \A i \in requests : item'[i] # Queued
    BY <2>1, <2>2
  <2>4. remote' \in Ended(lane)
    BY <1>1, <2>1, EndsDiffer
  <2>5. item' \in [requests' -> Ran(lane') \cup {Queued, Canceled, Dropped}]
    BY <1>1, <2>1 DEF ItemsInv
  <2>6. QED
    BY <1>1, <2>1, <2>3, <2>4, <2>5 DEF ItemsInv
<1>6. CASE EndPartial
  BY <1>1, <1>2, <1>6 DEF EndPartial, Unended, ItemsInv, Ended
<1>7. CASE CancelBatch
  <2>1. remote' \in {"cancelling"} \cup PartialEnds(lane) /\ remote = "running"
    BY <1>1, <1>7 DEF CancelBatch, CancelledTo, PartialEnds
  <2>2. remote' \in {"none", "running", "cancelling"} \cup Ended(lane)
    BY <2>1 DEF Ended
  <2>3. QED
    BY <1>1, <1>2, <1>7, <2>1, <2>2 DEF CancelBatch, ItemsInv
<1>8. CASE UNCHANGED resultVars
  BY <1>8 DEF ItemsInv, resultVars
<1>9. QED
  BY <1>3, <1>4, <1>5, <1>6, <1>7, <1>8

\* Every step keeps the items sound and what was shown of them true.
LEMMA ResultsStep == ResultsInv /\ [ResultsNext]_resultVars => ResultsInv'
<1> SUFFICES ASSUME ResultsInv, [ResultsNext]_resultVars PROVE ResultsInv'
  OBVIOUS
<1>1. ItemsInv /\ ShownAs(reply, counted)
  BY DEF ResultsInv
<1>2. CASE JobGet \/ CliGet
  <2>1. PICK count \in Counts : PollWith(count)
    BY <1>2 DEF JobGet, CliGet
  <2>2. remote # "none" /\ UNCHANGED <<lane, requests, remote, item>>
    BY <1>2 DEF JobGet, CliGet
  <2>3. ShownAs(reply', counted')
    BY <1>1, <2>1, <2>2, PollShows
  <2>4. ShownAs(reply, counted)'
    BY <2>2, <2>3, ShownStays
  <2>5. ItemsInv'
    BY <1>1, <2>2 DEF ItemsInv
  <2>6. QED
    BY <2>4, <2>5 DEF ResultsInv
<1>3. CASE SubmitBatch \/ RunItem \/ EndWhole \/ EndPartial \/ CancelBatch
  <2>1. ItemsInv'
    BY <1>1, <1>3, ItemsStep
  <2>2. remote \in {"none", "running", "cancelling"} /\ reply' = reply /\ counted' = counted
    BY <1>3 DEF SubmitBatch, RunItem, EndWhole, EndPartial, CancelBatch, Unended
  <2>3. ~Over
    BY <1>1, <2>2, EndsDiffer DEF ItemsInv, Over
  <2>4. ShownAs(reply, counted)'
    BY <1>1, <2>2, <2>3 DEF ShownAs
  <2>5. QED
    BY <2>1, <2>4 DEF ResultsInv
<1>4. CASE UNCHANGED resultVars
  <2>1. UNCHANGED <<lane, requests, remote, item, reply, counted>>
    BY <1>4 DEF resultVars
  <2>2. ShownAs(reply', counted')
    BY <1>1, <2>1
  <2>3. QED
    BY <1>1, <2>1, <2>2, ShownStays DEF ResultsInv, ItemsInv
<1>5. QED
  BY <1>2, <1>3, <1>4 DEF ResultsNext

\* What is shown of the items is true of them.
LEMMA ShownIsTrue ==
  ResultsInv => AbsenteesAreReal /\ EveryItemToldOf /\ CutIsMarked /\ FailedHasNoAnswer
<1> SUFFICES ASSUME ResultsInv
             PROVE  AbsenteesAreReal /\ EveryItemToldOf /\ CutIsMarked /\ FailedHasNoAnswer
  OBVIOUS
<1>1. lane \in Lanes /\ item \in [requests -> Ran(lane) \cup {Queued, Canceled, Dropped}]
  BY DEF ResultsInv, ItemsInv
<1>2. ASSUME NEW i \in DOMAIN reply.answers
      PROVE  /\ i \in requests
             /\ \/ i \in LinesOf /\ reply.answers[i] = Answer(item[i])
                \/ i \notin LinesOf /\ reply.answers[i] = "missing" /\ item[i] = Dropped
  <2>1. /\ i \in LinesOf \cup (IF counted /\ remote = WholeEnd[lane] THEN requests ELSE {})
        /\ reply.answers[i] = IF i \in LinesOf THEN Answer(item[i]) ELSE "missing"
    BY <1>2 DEF ResultsInv, ShownAs
  <2>2. CASE i \in LinesOf
    BY <2>1, <2>2 DEF LinesOf
  <2>3. CASE i \notin LinesOf
    <3>1. i \in requests /\ item[i] # Queued
      BY <2>1, <2>3 DEF ResultsInv, ItemsInv
    <3>2. QED
      BY <1>1, <2>1, <2>3, <3>1 DEF LinesOf
  <2>4. QED
    BY <2>2, <2>3
<1>3. ASSUME NEW i \in LinesOf
      PROVE  /\ Answer(item[i]) # "missing"
             /\ (Answer(item[i]) = "whole") <=>
                  (item[i].said = "text" /\ item[i].stop \in Finished[lane])
             /\ (Answer(item[i]) = "incomplete") <=>
                  (item[i].said = "text" /\ item[i].stop \in Unfinished[lane])
  BY <1>1, AnswerIs DEF LinesOf
<1>4. AbsenteesAreReal
  BY <1>2, <1>3 DEF AbsenteesAreReal, Told
<1>5. CutIsMarked
  <2>1. Dropped.said # "text"
    BY DEF Dropped
  <2>2. QED
    BY <1>2, <1>3, <2>1 DEF CutIsMarked
<1>6. EveryItemToldOf
  BY DEF EveryItemToldOf, ResultsInv, ShownAs, LinesOf
<1>7. FailedHasNoAnswer
  BY DEF FailedHasNoAnswer, ResultsInv, ShownAs, NothingCame, LinesOf
<1>8. QED
  BY <1>4, <1>5, <1>6, <1>7

\* A later poll shows the same items: only an absentee can become unknown again.
LEMMA ToldStep ==
  ResultsInv /\ [ResultsNext]_resultVars =>
    /\ reply.tag = "failed" => reply'.tag = "failed"
    /\ reply.tag = "done" =>
         /\ reply'.tag = "done"
         /\ \A i \in DOMAIN reply.answers :
              \/ reply.answers[i] = "missing"
              \/ i \in DOMAIN reply'.answers /\ reply'.answers[i] = reply.answers[i]
<1> SUFFICES ASSUME ResultsInv, [ResultsNext]_resultVars
             PROVE  /\ reply.tag = "failed" => reply'.tag = "failed"
                    /\ reply.tag = "done" =>
                         /\ reply'.tag = "done"
                         /\ \A i \in DOMAIN reply.answers :
                              \/ reply.answers[i] = "missing"
                              \/ i \in DOMAIN reply'.answers /\ reply'.answers[i] = reply.answers[i]
  OBVIOUS
<1>1. ItemsInv /\ ShownAs(reply, counted)
  BY DEF ResultsInv
<1>2. CASE JobGet \/ CliGet
  <2>1. PICK count \in Counts : PollWith(count)
    BY <1>2 DEF JobGet, CliGet
  <2>2. remote # "none"
    BY <1>2 DEF JobGet, CliGet
  <2>3. ShownAs(reply', counted') /\ (Over => reply'.tag \in {"done", "failed"})
    BY <1>1, <2>1, <2>2, PollShows
  <2>4. QED
    BY <1>1, <2>3 DEF ShownAs
<1>3. CASE reply' = reply
  BY <1>3
<1>4. QED
  BY <1>2, <1>3
  DEF ResultsNext, SubmitBatch, RunItem, EndWhole, EndPartial, CancelBatch, resultVars

\* Whatever a batch's provider does with its items and in which state it ends, a poll
\* tells of each item what became of it, marks what was cut, calls missing only what the
\* provider dropped, and a later poll tells the same.
THEOREM AnswersHold == ResultsSpec => AnswersAreTold
<1>1. ResultsInit => ResultsInv
  <2> SUFFICES ASSUME ResultsInit PROVE ResultsInv
    OBVIOUS
  <2>1. ItemsInv
    BY EndsDiffer DEF ResultsInit, ItemsInv
  <2>2. ShownAs(reply, counted)
    BY DEF ResultsInit, ShownAs, Showing, NoAnswers
  <2>3. QED
    BY <2>1, <2>2 DEF ResultsInv
<1>2. ResultsInv /\ [ResultsNext]_resultVars =>
        [/\ reply.tag = "failed" => reply'.tag = "failed"
         /\ reply.tag = "done" =>
              /\ reply'.tag = "done"
              /\ \A i \in DOMAIN reply.answers :
                   \/ reply.answers[i] = "missing"
                   \/ i \in DOMAIN reply'.answers
                        /\ reply'.answers[i] = reply.answers[i]]_resultVars
  BY ToldStep
<1>3. QED
  BY <1>1, <1>2, ResultsStep, ShownIsTrue, PTL DEF ResultsSpec, AnswersAreTold, ToldStays
=============================================================================
