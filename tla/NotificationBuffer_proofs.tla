---------------------- MODULE NotificationBuffer_proofs ----------------------
(***************************************************************************)
(* Proofs about the log ring and the waits on it: no wakeup is lost and    *)
(* every record reaches one wait, for every set of waiters, capacity of    *)
(* the ring, set of levels and of limits.                                  *)
(***************************************************************************)
EXTENDS NotificationBuffer, FiniteSums, TLAPS

-----------------------------------------------------------------------------
(* Picked keeps a subsequence. *)

\* The scan, as far as the n-th element.
IsScan(f, s, at, n) ==
  f = [i \in 0..n |-> IF i = 0 THEN <<>>
                      ELSE IF i \in at THEN Append(f[i - 1], s[i]) ELSE f[i - 1]]

\* The scan of one more element.
LEMMA ScanExtends ==
  ASSUME NEW s, NEW at, NEW n \in Nat, NEW f, IsScan(f, s, at, n)
  PROVE  \E g : IsScan(g, s, at, n + 1)
<1> DEFINE last == IF n + 1 \in at THEN Append(f[n], s[n + 1]) ELSE f[n]
           g == [i \in 0..n + 1 |-> IF i <= n THEN f[i] ELSE last]
<1>1. \A i \in 0..n : f[i] = IF i = 0 THEN <<>>
                             ELSE IF i \in at THEN Append(f[i - 1], s[i]) ELSE f[i - 1]
  BY Zenon DEF IsScan
<1>2. ASSUME NEW i \in 0..n + 1
      PROVE  g[i] = IF i = 0 THEN <<>>
                    ELSE IF i \in at THEN Append(g[i - 1], s[i]) ELSE g[i - 1]
  <2> HIDE DEF last
  <2>1. CASE i = 0
    <3>1. g[i] = f[i] /\ i \in 0..n
      BY <2>1
    <3>2. QED
      BY <1>1, <2>1, <3>1
  <2>2. CASE i \in 1..n
    <3>1. g[i] = f[i] /\ g[i - 1] = f[i - 1] /\ i \in 0..n /\ i # 0
      BY <2>2
    <3> HIDE DEF g
    <3>2. QED
      BY <1>1, <3>1, Zenon
  <2>3. CASE i = n + 1
    <3>1. g[i] = last /\ g[i - 1] = f[n] /\ i # 0
      BY <2>3
    <3> HIDE DEF g
    <3>2. QED
      BY <2>3, <3>1, Zenon DEF last
  <2>4. QED
    BY <2>1, <2>2, <2>3
<1>3. g = [i \in 0..n + 1 |-> g[i]]
  OBVIOUS
<1> HIDE DEF g
<1>4. IsScan(g, s, at, n + 1)
  BY <1>2, <1>3, Zenon DEF IsScan
<1>5. QED
  BY <1>4

\* The function Picked defines by recursion exists at every length.
LEMMA ScanExists ==
  ASSUME NEW s, NEW at, NEW n \in Nat
  PROVE  \E f : IsScan(f, s, at, n)
<1> DEFINE T == {m \in Nat : ~\E f : IsScan(f, s, at, m)}
<1>1. T = {}
  <2>1. SUFFICES ASSUME T # {} PROVE FALSE
    OBVIOUS
  <2>2. PICK m \in T : \A k \in T : m <= k
    BY <2>1, LeastNumber
  <2>3. m # 0
    <3>1. IsScan([i \in {0} |-> <<>>], s, at, 0)
      <4>1. 0..0 = {0}
        OBVIOUS
      <4>2. QED
        BY <4>1 DEF IsScan
    <3>2. QED
      BY <3>1
  <2>4. m - 1 \in Nat /\ m - 1 \notin T
    BY <2>2, <2>3
  <2>5. PICK f : IsScan(f, s, at, m - 1)
    BY <2>4
  <2>6. \E g : IsScan(g, s, at, (m - 1) + 1)
    BY <2>4, <2>5, ScanExtends
  <2>7. (m - 1) + 1 = m
    OBVIOUS
  <2>8. QED
    BY <2>2, <2>6, <2>7
<1>2. QED
  BY <1>1

\* After i elements: a subsequence of them.
ScanHolds(t, s, at, i) ==
  /\ Len(t) <= i
  /\ \A a \in 1..Len(t) : \E j \in at : j <= i /\ t[a] = s[j]
  /\ \A j \in at : j <= i => \E a \in 1..Len(t) : t[a] = s[j]
  /\ \A a, b \in 1..Len(t) : a < b => \E j, k \in at : j < k /\ k <= i /\ t[a] = s[j] /\ t[b] = s[k]

\* The scan keeps the chosen elements, all of them, in the order they had (drain's
\* partition and retain).
LEMMA ScanIsSubsequence ==
  ASSUME NEW S, NEW s \in Seq(S), NEW at \in SUBSET (1..Len(s)), NEW f, IsScan(f, s, at, Len(s)),
         NEW n \in 0..Len(s)
  PROVE  f[n] \in Seq(S) /\ ScanHolds(f[n], s, at, n)
<1> DEFINE Good(i) == f[i] \in Seq(S) /\ ScanHolds(f[i], s, at, i)
           T == {m \in 0..Len(s) : ~Good(m)}
<1>1. Len(s) \in Nat /\ \A i \in 1..Len(s) : s[i] \in S
  OBVIOUS
<1>2. f[0] = <<>> /\ \A i \in 0..Len(s) : i # 0 =>
        f[i] = IF i \in at THEN Append(f[i - 1], s[i]) ELSE f[i - 1]
  <2>1. \A i \in 0..Len(s) : f[i] = IF i = 0 THEN <<>>
                             ELSE IF i \in at THEN Append(f[i - 1], s[i]) ELSE f[i - 1]
    BY Zenon DEF IsScan
  <2>2. 0 \in 0..Len(s)
    BY <1>1
  <2> HIDE DEF Good, T
  <2>3. QED
    BY <2>1, <2>2, Zenon
<1>3. Good(0)
  BY <1>1, <1>2 DEF ScanHolds
<1>4. ASSUME NEW m \in 0..Len(s), m # 0, Good(m - 1)
      PROVE  Good(m)
  <2> DEFINE old == f[m - 1]
  <2>1. /\ old \in Seq(S) /\ Len(old) \in Nat /\ Len(old) <= m - 1
        /\ \A a \in 1..Len(old) : \E j \in at : j <= m - 1 /\ old[a] = s[j]
        /\ \A j \in at : j <= m - 1 => \E a \in 1..Len(old) : old[a] = s[j]
        /\ \A a, b \in 1..Len(old) : a < b =>
             \E j, k \in at : j < k /\ k <= m - 1 /\ old[a] = s[j] /\ old[b] = s[k]
    BY <1>4 DEF ScanHolds
  <2>2. CASE m \notin at
    <3>1. f[m] = old
      BY <1>2, <1>4, <2>2
    <3>2. \A j \in at : j <= m <=> j <= m - 1
      BY <1>1, <1>4, <2>2
    <3> HIDE DEF old
    <3>3. ScanHolds(old, s, at, m)
      BY <1>1, <1>4, <2>1, <3>2 DEF ScanHolds
    <3>4. QED
      BY <2>1, <3>1, <3>3
  <2>3. CASE m \in at
    <3> DEFINE new == Append(old, s[m])
    <3>1. f[m] = new
      BY <1>2, <1>4, <2>3
    <3>2. /\ s[m] \in S /\ new \in Seq(S) /\ Len(new) = Len(old) + 1 /\ new[Len(old) + 1] = s[m]
          /\ \A a \in 1..Len(old) : new[a] = old[a]
      BY <1>1, <2>1, <2>3
    <3> HIDE DEF old, new
    <3>3. \A a \in 1..Len(new) : a \in 1..Len(old) \/ a = Len(old) + 1
      BY <2>1, <3>2
    <3>9. \A j \in at : j \in Nat
      BY <1>1
    <3>4. ASSUME NEW a \in 1..Len(new) PROVE \E j \in at : j <= m /\ new[a] = s[j]
      <4>1. CASE a \in 1..Len(old)
        <5>1. PICK j \in at : j <= m - 1 /\ old[a] = s[j]
          BY <2>1, <4>1
        <5>2. j <= m
          BY <3>9, <5>1
        <5>3. QED
          BY <3>2, <4>1, <5>1, <5>2
      <4>2. CASE a = Len(old) + 1
        <5>1. m <= m
          OBVIOUS
        <5>2. QED
          BY <2>3, <3>2, <4>2, <5>1
      <4>3. QED
        BY <3>3, <4>1, <4>2
    <3>5. ASSUME NEW j \in at, j <= m PROVE \E a \in 1..Len(new) : new[a] = s[j]
      <4>1. CASE j = m
        BY <2>1, <3>2, <4>1
      <4>2. CASE j # m
        <5>1. j <= m - 1
          BY <3>5, <3>9, <4>2
        <5>2. PICK a \in 1..Len(old) : old[a] = s[j]
          BY <2>1, <5>1
        <5>3. a \in 1..Len(new)
          BY <2>1, <3>2
        <5>4. QED
          BY <3>2, <5>2, <5>3
      <4>3. QED
        BY <4>1, <4>2
    <3>6. ASSUME NEW a \in 1..Len(new), NEW b \in 1..Len(new), a < b
          PROVE  \E j, k \in at : j < k /\ k <= m /\ new[a] = s[j] /\ new[b] = s[k]
      <4>1. a \in 1..Len(old)
        BY <2>1, <3>2, <3>6
      <4>2. CASE b \in 1..Len(old)
        <5>1. PICK j \in at, k \in at : j < k /\ k <= m - 1 /\ old[a] = s[j] /\ old[b] = s[k]
          BY <2>1, <3>6, <4>1, <4>2
        <5>2. k <= m
          BY <1>1, <5>1
        <5>3. QED
          BY <3>2, <4>1, <4>2, <5>1, <5>2
      <4>3. CASE b = Len(old) + 1
        <5>1. PICK j \in at : j <= m - 1 /\ old[a] = s[j]
          BY <2>1, <4>1
        <5>2. j < m /\ m <= m
          BY <1>1, <5>1
        <5>3. QED
          BY <2>3, <3>2, <4>1, <4>3, <5>1, <5>2
      <4>4. QED
        BY <3>3, <4>2, <4>3
    <3>7. ScanHolds(new, s, at, m)
      <4>1. Len(new) <= m
        BY <2>1, <3>2
      <4>2. QED
        BY <4>1, <3>4, <3>5, <3>6, Zenon DEF ScanHolds
    <3>8. QED
      BY <3>1, <3>2, <3>7
  <2>4. QED
    BY <2>2, <2>3
<1> HIDE DEF Good
<1>5. T = {}
  <2>1. SUFFICES ASSUME T # {} PROVE FALSE
    OBVIOUS
  <2>5. T \subseteq Nat
    BY <1>1
  <2>2. PICK m \in T : \A k \in T : m <= k
    BY <2>1, <2>5, LeastNumber, Zenon
  <2>3. m # 0 /\ m - 1 \in 0..Len(s) /\ m - 1 \notin T
    BY <1>1, <1>3, <2>2
  <2>4. QED
    BY <1>4, <2>2, <2>3
<1>6. QED
  BY <1>5 DEF Good

\* The elements of s at these positions, and a t that has them in that order.
Members(s, at) == {s[i] : i \in at}
InOrder(t, s, at) ==
  \A a, b \in 1..Len(t) : a < b => \E j, k \in at : j < k /\ t[a] = s[j] /\ t[b] = s[k]

\* Picked(s, at) holds exactly the elements of s at these positions, in the order they
\* had.
LEMMA PickedIsSubsequence ==
  ASSUME NEW S, NEW s \in Seq(S), NEW at \in SUBSET (1..Len(s))
  PROVE  /\ Picked(s, at) \in Seq(S) /\ Len(Picked(s, at)) <= Len(s)
         /\ Elems(Picked(s, at)) = Members(s, at)
         /\ InOrder(Picked(s, at), s, at)
<1> DEFINE n == Len(s)
           f == CHOOSE f : IsScan(f, s, at, n)
           t == Picked(s, at)
<1>1. n \in Nat
  OBVIOUS
<1>2. IsScan(f, s, at, n)
  <2>1. \E g : IsScan(g, s, at, n)
    BY <1>1, ScanExists
  <2>2. QED
    BY <2>1
<1>3. t = f[n]
  BY DEF Picked, IsScan
<1> HIDE DEF f, t
<1>4. t \in Seq(S) /\ ScanHolds(t, s, at, n)
  <2>1. \A m \in 0..Len(s) : f[m] \in Seq(S) /\ ScanHolds(f[m], s, at, m)
    BY <1>2, ScanIsSubsequence
  <2>2. n \in 0..Len(s)
    BY <1>1
  <2>3. QED
    BY <1>3, <2>1, <2>2
<1> HIDE DEF n
<1>5. \A j \in at : j <= n /\ j \in Nat
  BY <1>1 DEF n
<1>6. Elems(t) = Members(s, at)
  <2>1. \A a \in 1..Len(t) : \E j \in at : t[a] = s[j]
    BY <1>4, Zenon DEF ScanHolds
  <2>2. \A j \in at : \E a \in 1..Len(t) : t[a] = s[j]
    BY <1>4, <1>5, Zenon DEF ScanHolds
  <2>3. ASSUME NEW x \in Elems(t) PROVE x \in Members(s, at)
    <3>1. PICK a \in 1..Len(t) : x = t[a]
      BY DEF Elems
    <3>2. QED
      BY <2>1, <3>1 DEF Members
  <2>4. ASSUME NEW x \in Members(s, at) PROVE x \in Elems(t)
    <3>1. PICK j \in at : x = s[j]
      BY DEF Members
    <3>2. QED
      BY <2>2, <3>1 DEF Elems
  <2>5. QED
    BY <2>3, <2>4
<1>7. InOrder(t, s, at)
  <2>1. ASSUME NEW a \in 1..Len(t), NEW b \in 1..Len(t), a < b
        PROVE  \E j, k \in at : j < k /\ t[a] = s[j] /\ t[b] = s[k]
    <3>1. PICK j \in at, k \in at : j < k /\ k <= n /\ t[a] = s[j] /\ t[b] = s[k]
      BY <1>4, <2>1 DEF ScanHolds
    <3>2. QED
      BY <3>1
  <2>2. QED
    BY <2>1 DEF InOrder
<1>8. Len(t) <= n
  BY <1>4 DEF ScanHolds
<1>9. QED
  BY <1>4, <1>6, <1>7, <1>8 DEF t, n

-----------------------------------------------------------------------------
(* What the steps do to sequences. *)

Ordered(s) == \A i, k \in 1..Len(s) : i < k => s[i].seq < s[k].seq
Apart(s) == \A i, k \in 1..Len(s) : s[i] = s[k] => i = k

\* A drain takes the records at or above a floor and leaves the others, each half in the
\* order the ring had (drain's partition).
LEMMA DrainSplits ==
  ASSUME NEW s \in Seq(Records), Ordered(s), NEW f \in Nat
  PROVE  /\ AtOrAbove(f, s) \in Seq(Records) /\ Below(f, s) \in Seq(Records)
         /\ Len(Below(f, s)) <= Len(s)
         /\ Ordered(AtOrAbove(f, s)) /\ Ordered(Below(f, s))
         /\ Elems(AtOrAbove(f, s)) = {r \in Elems(s) : r.level >= f}
         /\ Elems(Below(f, s)) = {r \in Elems(s) : r.level < f}
<1> DEFINE high == {i \in 1..Len(s) : s[i].level >= f}
           low == {i \in 1..Len(s) : s[i].level < f}
<1>1. high \in SUBSET (1..Len(s)) /\ low \in SUBSET (1..Len(s))
  OBVIOUS
<1>2. AtOrAbove(f, s) = Picked(s, high) /\ Below(f, s) = Picked(s, low)
  BY DEF AtOrAbove, Below
<1>3. /\ Members(s, high) = {r \in Elems(s) : r.level >= f}
      /\ Members(s, low) = {r \in Elems(s) : r.level < f}
  BY DEF Elems, Members
<1> HIDE DEF high, low
<1>4. \A at \in SUBSET (1..Len(s)) : /\ Picked(s, at) \in Seq(Records)
                                        /\ Len(Picked(s, at)) <= Len(s)
                                        /\ Elems(Picked(s, at)) = Members(s, at)
                                        /\ Ordered(Picked(s, at))
  <2> TAKE at \in SUBSET (1..Len(s))
  <2>1. /\ Picked(s, at) \in Seq(Records) /\ Len(Picked(s, at)) <= Len(s)
        /\ Elems(Picked(s, at)) = Members(s, at) /\ InOrder(Picked(s, at), s, at)
    BY PickedIsSubsequence
  <2>2. \A j, k \in at : j < k => s[j].seq < s[k].seq
    BY DEF Ordered
  <2>3. Ordered(Picked(s, at))
    BY <2>1, <2>2, Zenon DEF Ordered, InOrder
  <2>4. QED
    BY <2>1, <2>3
<1>5. QED
  BY <1>1, <1>2, <1>3, <1>4

\* What a typed sequence holds is of its type.
LEMMA ElemsAre == ASSUME NEW S, NEW s \in Seq(S) PROVE \A x \in Elems(s) : x \in S
BY DEF Elems

\* Dropping positions keeps records ordered and waiters distinct.
LEMMA DropKeepsOrder ==
  ASSUME NEW S, NEW s \in Seq(S), NEW at \in SUBSET (1..Len(s))
  PROVE  /\ Ordered(s) => Ordered(Picked(s, at))
         /\ Apart(s) => Apart(Picked(s, at))
<1>1. Picked(s, at) \in Seq(S) /\ InOrder(Picked(s, at), s, at)
  BY PickedIsSubsequence
<1>2. Ordered(s) => \A j, k \in at : j < k => s[j].seq < s[k].seq
  BY DEF Ordered
<1>3. Ordered(s) => Ordered(Picked(s, at))
  BY <1>1, <1>2, Zenon DEF Ordered, InOrder
<1>4. Apart(s) => \A j, k \in at : j < k => s[j] # s[k]
  BY DEF Apart
<1>5. ASSUME Apart(s), NEW a \in 1..Len(Picked(s, at)), NEW b \in 1..Len(Picked(s, at)), a < b
      PROVE  Picked(s, at)[a] # Picked(s, at)[b]
  <2>1. PICK j \in at, k \in at : j < k /\ Picked(s, at)[a] = s[j] /\ Picked(s, at)[b] = s[k]
    BY <1>1, <1>5 DEF InOrder
  <2>2. s[j] # s[k]
    BY <1>4, <1>5, <2>1
  <2>3. QED
    BY <2>1, <2>2, Zenon
<1>6. \A a, b \in 1..Len(Picked(s, at)) : a < b \/ b < a \/ a = b
  BY <1>1
<1>7. Apart(s) => Apart(Picked(s, at))
  BY <1>5, <1>6, Zenon DEF Apart
<1>8. QED
  BY <1>3, <1>7

\* The elements of a concatenation are those of its two halves, and positions carry over.
LEMMA ConcatIs ==
  ASSUME NEW S, NEW s \in Seq(S), NEW t \in Seq(S)
  PROVE  /\ s \o t \in Seq(S) /\ Len(s \o t) = Len(s) + Len(t) /\ Len(s) \in Nat /\ Len(t) \in Nat
         /\ \A i \in 1..Len(s \o t) : (s \o t)[i] = IF i <= Len(s) THEN s[i] ELSE t[i - Len(s)]
         /\ Elems(s \o t) = Elems(s) \cup Elems(t)
<1>1. /\ s \o t \in Seq(S) /\ Len(s \o t) = Len(s) + Len(t) /\ Len(s) \in Nat /\ Len(t) \in Nat
      /\ \A i \in 1..Len(s \o t) : (s \o t)[i] = IF i <= Len(s) THEN s[i] ELSE t[i - Len(s)]
  OBVIOUS
<1>2. \A i \in 1..Len(s \o t) : (s \o t)[i] \in Elems(s) \cup Elems(t)
  <2> TAKE i \in 1..Len(s \o t)
  <2>1. CASE i <= Len(s)
    BY <1>1, <2>1 DEF Elems
  <2>2. CASE ~(i <= Len(s))
    <3>1. i - Len(s) \in 1..Len(t)
      BY <1>1, <2>2
    <3>2. QED
      BY <1>1, <2>2, <3>1 DEF Elems
  <2>3. QED
    BY <2>1, <2>2
<1>3. \A i \in 1..Len(s) : s[i] \in Elems(s \o t)
  <2> TAKE i \in 1..Len(s)
  <2>1. i \in 1..Len(s \o t) /\ (s \o t)[i] = s[i]
    BY <1>1
  <2>2. QED
    BY <2>1 DEF Elems
<1>4. \A i \in 1..Len(t) : t[i] \in Elems(s \o t)
  <2> TAKE i \in 1..Len(t)
  <2>1. i + Len(s) \in 1..Len(s \o t) /\ ~(i + Len(s) <= Len(s)) /\ (i + Len(s)) - Len(s) = i
    BY <1>1
  <2>2. (s \o t)[i + Len(s)] = t[i]
    BY <1>1, <2>1
  <2>3. QED
    BY <2>1, <2>2 DEF Elems
<1>5. \A x : x \in Elems(s \o t) <=> x \in Elems(s) \cup Elems(t)
  BY <1>2, <1>3, <1>4 DEF Elems
<1>6. QED
  BY <1>1, <1>5

\* Trimming the tail keeps its newest records, in order.
LEMMA LastNIs ==
  ASSUME NEW S, NEW s \in Seq(S), NEW n \in Nat
  PROVE  /\ LastN(s, n) \in Seq(S)
         /\ n > 0 /\ Len(s) > 0 =>
              Len(LastN(s, n)) > 0 /\ LastN(s, n)[Len(LastN(s, n))] = s[Len(s)]
<1> DEFINE m == (IF Len(s) > n THEN Len(s) - n ELSE 0) + 1
<1>1. /\ Len(s) \in Nat /\ m \in Nat /\ m >= 1 /\ m <= Len(s) + 1
      /\ n > 0 /\ Len(s) > 0 => m <= Len(s)
  OBVIOUS
<1>2. LastN(s, n) = SubSeq(s, m, Len(s))
  BY DEF LastN
<1> HIDE DEF m
<1>3. /\ SubSeq(s, m, Len(s)) \in Seq(S) /\ Len(SubSeq(s, m, Len(s))) = Len(s) - m + 1
      /\ \A i \in 1..(Len(s) - m + 1) : SubSeq(s, m, Len(s))[i] = s[m + i - 1]
  <2>1. \A i \in m..Len(s) : s[i] \in S
    BY <1>1
  <2>2. QED
    BY <1>1, <2>1
<1>4. CASE n > 0 /\ Len(s) > 0
  <2>1. Len(s) - m + 1 \in 1..(Len(s) - m + 1) /\ m + (Len(s) - m + 1) - 1 = Len(s)
    BY <1>1, <1>4
  <2>2. QED
    BY <1>2, <1>3, <2>1
<1>5. QED
  BY <1>2, <1>3, <1>4

-----------------------------------------------------------------------------
(* The invariants. *)

Calls == [pc : Pcs, drain : 0..7, sample : 0..7, limit : Nat, tail : Seq(Records), woke : BOOLEAN]

\* Every record a waiter has is older than those of its level still in the ring.
TakenIsOlder ==
  \A w \in Waiters : \A r \in Elems(delivered[w]) :
    /\ r.seq <= pushed
    /\ \A q \in Elems(ring) : q.level = r.level => r.seq < q.seq

RingIsOrdered == Ordered(ring) /\ \A r \in Elems(ring) : r.seq <= pushed

RingInv == RingTypeOK /\ RingIsOrdered /\ TakenIsOlder /\ DeliverOnceInOrder /\ EarlyReturnShowsWhy

\* A parked waiter is in the queue or has been handed a notification.
QueueIsParked ==
  /\ Apart(queue)
  /\ Elems(queue) \cap notified = {}
  /\ Elems(queue) \cup notified = {w \in Waiters : call[w].pc = "parked"}

\* While a wake-level record is buffered, its wakeup is on its way.
WakeIsPending ==
  WakeLevel(ring) => owed > 0 \/ permit \/ \E w \in Waiters : AboutToDrain(w)

WakeInv ==
  /\ QueueIsParked
  /\ permit => queue = <<>>
  /\ \A w \in Waiters : call[w].drain <= WakeFloor
  /\ WakeIsPending

-----------------------------------------------------------------------------
(* What the steps do to a call. *)

ShowsWhy(w) ==
  ReturnedEarly(w) /\ call[w].sample = WakeFloor /\ call[w].limit > 0 => WakeLevel(call[w].tail)

\* A call after a drain.
Absorbed(c, p, wk, t) == [c EXCEPT !.pc = p, !.woke = wk, !.tail = t]

\* A drain rewrites three fields of a call and leaves its floors and limit.
LEMMA CallUpdates ==
  ASSUME NEW c \in Calls, NEW p \in Pcs, NEW wk \in BOOLEAN, NEW t \in Seq(Records)
  PROVE  /\ Absorbed(c, p, wk, t) \in Calls
         /\ Absorbed(c, p, wk, t).pc = p /\ Absorbed(c, p, wk, t).tail = t
         /\ Absorbed(c, p, wk, t).drain = c.drain /\ Absorbed(c, p, wk, t).sample = c.sample
         /\ Absorbed(c, p, wk, t).limit = c.limit
<1> DEFINE e == Absorbed(c, p, wk, t)
<1>7. e = [c EXCEPT !.pc = p, !.woke = wk, !.tail = t]
  BY DEF Absorbed
<1> HIDE DEF e
<1>1. /\ DOMAIN c = {"pc", "drain", "sample", "limit", "tail", "woke"}
      /\ c.drain \in 0..7 /\ c.sample \in 0..7 /\ c.limit \in Nat
  BY ONLY c \in Calls DEF Calls
<1>2. DOMAIN e = DOMAIN c /\ e = [f \in DOMAIN c |-> e[f]]
  BY ONLY <1>7
<1>3. /\ e.pc = p /\ e.woke = wk /\ e.tail = t
      /\ e.drain = c.drain /\ e.sample = c.sample /\ e.limit = c.limit
  BY ONLY <1>1, <1>7
<1>4. e = [pc |-> p, drain |-> c.drain, sample |-> c.sample, limit |-> c.limit, tail |-> t,
           woke |-> wk]
  BY ONLY <1>1, <1>2, <1>3
<1>5. e \in Calls
  BY <1>1, <1>4 DEF Calls
<1>6. QED
  BY <1>3, <1>5 DEF e

\* A waiter's step that only moves its pc rewrites that field alone.
LEMMA CallMoves ==
  ASSUME RingTypeOK, NEW w \in Waiters, NEW p \in Pcs, call' = [call EXCEPT ![w].pc = p]
  PROVE  /\ call' \in [Waiters -> Calls] /\ call'[w].pc = p
         /\ \A v \in Waiters : /\ v # w => call'[v] = call[v]
                               /\ call'[v].drain = call[v].drain
<1>1. call \in [Waiters -> Calls]
  BY DEF RingTypeOK, Calls
<1>2. call[w] \in Calls
  BY <1>1
<1> DEFINE e == [call[w] EXCEPT !.pc = p]
<1>3. e \in Calls /\ e.pc = p /\ e.drain = call[w].drain
  BY ONLY <1>2, p \in Pcs DEF Calls
<1>4. call' = [call EXCEPT ![w] = e]
  OBVIOUS
<1> HIDE DEF e
<1>5. QED
  BY ONLY <1>1, <1>3, <1>4, w \in Waiters

\* DeliverOnceInOrder of these histories and this ring.
DeliveredOnce(d, rg) ==
  \A w \in Waiters :
    /\ \A i, k \in 1..Len(d[w]) :
         i < k /\ d[w][i].level = d[w][k].level => d[w][i].seq < d[w][k].seq
    /\ Elems(d[w]) \cap Elems(rg) = {}
    /\ \A v \in Waiters \ {w} : Elems(d[w]) \cap Elems(d[v]) = {}

\* DeliverOnceInOrder, as a statement of the two variables it is about.
LEMMA DeliveredOnceIs ==
  /\ DeliverOnceInOrder = DeliveredOnce(delivered, ring)
  /\ DeliverOnceInOrder' = DeliveredOnce(delivered', ring')
BY Zenon DEF DeliverOnceInOrder, DeliveredOnce, Elems

\* A step that leaves the records, the histories and the counters alone keeps RingInv.
LEMMA RingFrame ==
  ASSUME RingInv, UNCHANGED <<ring, pushed, delivered>>,
         owed' \in Nat, permit' \in BOOLEAN, queue' \in Seq(Waiters), notified' \in SUBSET Waiters,
         expired' \in SUBSET Waiters, call' \in [Waiters -> Calls],
         \A w \in Waiters : ShowsWhy(w)'
  PROVE  RingInv'
<1>1. ring' = ring /\ pushed' = pushed /\ delivered' = delivered
  OBVIOUS
<1>2. RingTypeOK'
  BY <1>1 DEF RingInv, RingTypeOK, Calls
<1>3. RingIsOrdered' /\ TakenIsOlder' /\ DeliverOnceInOrder'
  <2>1. RingIsOrdered'
    BY <1>1 DEF RingInv, RingIsOrdered, Ordered, Elems
  <2>2. TakenIsOlder'
    BY <1>1 DEF RingInv, TakenIsOlder, Elems
  <2>3. DeliverOnceInOrder'
    BY <1>1, DeliveredOnceIs DEF RingInv
  <2>4. QED
    BY <2>1, <2>2, <2>3
<1>4. EarlyReturnShowsWhy'
  BY DEF EarlyReturnShowsWhy, ShowsWhy
<1>5. QED
  BY <1>2, <1>3, <1>4 DEF RingInv

\* What a wait shows stays what it was while its call and its deadline do.
LEMMA ShowsStill ==
  ASSUME RingInv, NEW w \in Waiters, call'[w] = call[w], w \in expired => w \in expired'
  PROVE  ShowsWhy(w)'
BY DEF RingInv, EarlyReturnShowsWhy, ShowsWhy, ReturnedEarly, WakeLevel, Elems

\* notify_one wakes the longest parked waiter, or stores the permit when none is parked:
\* it loses no waiter and leaves somebody to run.
LEMMA WakeOneKeeps ==
  ASSUME queue \in Seq(Waiters), permit \in BOOLEAN, NEW handed \in SUBSET Waiters,
         WakeOne(queue, handed), Apart(queue), Elems(queue) \cap handed = {},
         permit => queue = <<>>
  PROVE  /\ queue' \in Seq(Waiters) /\ permit' \in BOOLEAN /\ notified' \in SUBSET Waiters
         /\ Apart(queue') /\ Elems(queue') \cap notified' = {}
         /\ Elems(queue') \cup notified' = Elems(queue) \cup handed
         /\ permit' => queue' = <<>>
         /\ permit' \/ \E w \in Waiters : w \in notified'
<1>1. CASE queue = <<>>
  BY <1>1 DEF WakeOne
<1>2. CASE queue # <<>>
  <2> DEFINE h == Head(queue)
             t == Tail(queue)
  <2>1. /\ queue' = t /\ notified' = handed \cup {h} /\ permit' = permit /\ ~permit
    BY <1>2 DEF WakeOne
  <2>2. /\ t \in Seq(Waiters) /\ h \in Waiters /\ h = queue[1] /\ Len(queue) \in Nat
        /\ Len(queue) >= 1 /\ Len(t) = Len(queue) - 1 /\ \A i \in 1..Len(t) : t[i] = queue[i + 1]
    BY <1>2
  <2> HIDE DEF h, t
  <2>3. Apart(t)
    BY <2>2 DEF Apart
  <2>4. \A i \in 1..Len(t) : t[i] # h /\ t[i] \in Elems(queue)
    BY <2>2 DEF Apart, Elems
  <2>5. h \in Elems(queue)
    BY <2>2 DEF Elems
  <2>6. \A i \in 1..Len(queue) : queue[i] = h \/ queue[i] \in Elems(t)
    <3> TAKE i \in 1..Len(queue)
    <3>1. CASE i = 1
      BY <2>2, <3>1
    <3>2. CASE i # 1
      <4>1. i - 1 \in 1..Len(t) /\ queue[i] = t[i - 1]
        BY <2>2, <3>2
      <4>2. QED
        BY <4>1 DEF Elems
    <3>3. QED
      BY <3>1, <3>2
  <2>7. Elems(queue) = Elems(t) \cup {h} /\ h \notin Elems(t)
    BY <2>4, <2>5, <2>6 DEF Elems
  <2>8. QED
    BY <2>1, <2>2, <2>3, <2>7
<1>3. QED
  BY <1>1, <1>2

-----------------------------------------------------------------------------
(* The ring, one step at a time. *)

\* Records leave the ring, none comes in.
LEMMA RingShrinks ==
  ASSUME RingInv, ring' \in Seq(Records), Len(ring') <= Len(ring), Ordered(ring'),
         \A r \in Elems(ring') : r \in Elems(ring),
         UNCHANGED <<pushed, owed, permit, queue, notified, expired, call, delivered>>
  PROVE  RingInv'
<1>1. /\ pushed' = pushed /\ delivered' = delivered /\ call' = call /\ expired' = expired
      /\ owed' = owed /\ permit' = permit /\ queue' = queue /\ notified' = notified
      /\ Elems(ring)' = Elems(ring')
  BY DEF Elems
<1>2. RingTypeOK'
  <2>1. Len(ring') \in Nat /\ Len(ring) \in Nat /\ RingCap \in Nat
    BY RingAssumption DEF RingInv, RingTypeOK
  <2>2. QED
    BY <1>1, <2>1 DEF RingInv, RingTypeOK
<1>3. RingIsOrdered'
  BY <1>1 DEF RingInv, RingIsOrdered, Ordered, Elems
<1>4. TakenIsOlder'
  BY <1>1 DEF RingInv, TakenIsOlder, Elems
<1>5. DeliverOnceInOrder'
  <2>1. \A w \in Waiters : Elems(delivered'[w]) \cap Elems(ring') = {}
    BY <1>1, DeliveredOnceIs DEF RingInv, DeliveredOnce
  <2>2. QED
    BY <1>1, <2>1, DeliveredOnceIs DEF RingInv, DeliveredOnce
<1>6. EarlyReturnShowsWhy'
  BY <1>1 DEF RingInv, EarlyReturnShowsWhy, ReturnedEarly, WakeLevel, Elems
<1>7. QED
  BY <1>2, <1>3, <1>4, <1>5, <1>6 DEF RingInv

\* discard_job_pings takes records out and delivers none.
LEMMA DiscardKeeps ==
  ASSUME RingInv, NEW job, DiscardJobPings(job)
  PROVE  RingInv' /\ \A r \in Elems(ring') : r \in Elems(ring)
<1> DEFINE at == {i \in 1..Len(ring) : ring[i].job # job}
<1>1. ring \in Seq(Records) /\ at \in SUBSET (1..Len(ring)) /\ Ordered(ring)
  BY DEF RingInv, RingTypeOK, RingIsOrdered
<1>2. ring' = Picked(ring, at)
  BY DEF DiscardJobPings
<1> HIDE DEF at
<1>3. /\ ring' \in Seq(Records) /\ Len(ring') <= Len(ring) /\ Elems(ring') = Members(ring, at)
  BY <1>1, <1>2, PickedIsSubsequence
<1>4. Ordered(ring')
  BY <1>1, <1>2, DropKeepsOrder
<1>5. \A r \in Elems(ring') : r \in Elems(ring)
  BY <1>1, <1>3 DEF Members, Elems
<1>6. QED
  BY <1>3, <1>4, <1>5, RingShrinks DEF DiscardJobPings, notifyVars

\* push appends a newer record and evicts the oldest at the cap: nothing delivered comes
\* back.
LEMMA PushKeeps ==
  ASSUME RingInv, NEW level \in Levels, NEW job \in Jobs \cup {NoJob}, Push(level, job)
  PROVE  RingInv'
<1> DEFINE record == [seq |-> pushed + 1, level |-> level, job |-> job]
           room == IF Len(ring) = RingCap THEN Tail(ring) ELSE ring
<1>1. /\ ring' = Append(room, record) /\ pushed' = pushed + 1 /\ owed' = owed + 1
      /\ permit' = permit /\ queue' = queue /\ notified' = notified /\ expired' = expired
      /\ call' = call /\ delivered' = delivered /\ pushed < MaxRecords
  BY DEF Push
<1>2. /\ ring \in Seq(Records) /\ Len(ring) <= RingCap /\ Len(ring) \in Nat /\ RingCap \in Nat
      /\ RingCap >= 1 /\ pushed \in Nat /\ pushed' \in 0..MaxRecords /\ Ordered(ring)
      /\ (\A r \in Elems(ring) : r.seq <= pushed) /\ owed' \in Nat
  BY <1>1, RingAssumption DEF RingInv, RingTypeOK, RingIsOrdered
<1>3. record \in Records /\ record.seq = pushed'
  BY <1>1, <1>2 DEF Records
<1>4. \A i \in 1..Len(ring) :
        ring[i] \in Elems(ring) /\ ring[i].seq <= pushed /\ ring[i].seq \in Nat
  <2> TAKE i \in 1..Len(ring)
  <2>1. ring[i] \in Records
    BY <1>2
  <2>2. ring[i] \in Elems(ring)
    BY DEF Elems
  <2>3. QED
    BY <1>2, <2>1, <2>2 DEF Records
<1>5. /\ room \in Seq(Records) /\ Len(room) \in Nat /\ Len(room) < RingCap /\ Ordered(room)
      /\ \A i \in 1..Len(room) : room[i] \in Elems(ring)
  <2>1. CASE Len(ring) = RingCap
    <3> DEFINE t == Tail(ring)
    <3>1. room = t
      BY <2>1
    <3>2. /\ t \in Seq(Records) /\ Len(t) = Len(ring) - 1 /\ \A i \in 1..Len(t) : t[i] = ring[i + 1]
      BY <1>2, <2>1
    <3> HIDE DEF t, room
    <3>3. \A i \in 1..Len(t) : i + 1 \in 1..Len(ring)
      BY <1>2, <3>2
    <3>4. Ordered(t)
      <4>1. ASSUME NEW i \in 1..Len(t), NEW k \in 1..Len(t), i < k
            PROVE  t[i].seq < t[k].seq
        <5>1. i + 1 \in 1..Len(ring) /\ k + 1 \in 1..Len(ring) /\ i + 1 < k + 1
          BY <3>3, <4>1
        <5>2. t[i] = ring[i + 1] /\ t[k] = ring[k + 1]
          BY <3>2
        <5>3. QED
          BY <1>2, <5>1, <5>2 DEF Ordered
      <4>2. QED
        BY <4>1 DEF Ordered
    <3>5. QED
      BY <1>2, <1>4, <2>1, <3>1, <3>2, <3>3, <3>4
  <2>2. CASE Len(ring) # RingCap
    BY <1>2, <1>4, <2>2
  <2>3. QED
    BY <2>1, <2>2
<1> HIDE DEF record, room
<1>6. /\ ring' \in Seq(Records) /\ Len(ring') = Len(room) + 1 /\ ring'[Len(room) + 1] = record
      /\ \A i \in 1..Len(room) : ring'[i] = room[i]
  BY <1>1, <1>3, <1>5
<1>7. \A r \in Elems(ring') : r = record \/ r \in Elems(ring)
  BY <1>5, <1>6 DEF Elems
<1>8. \A r \in Elems(ring) : r.seq <= pushed /\ r.seq \in Nat /\ r.seq < pushed'
  BY <1>1, <1>2, <1>4 DEF Elems
<1>9. Ordered(ring')
  <2>1. \A i \in 1..Len(room) : room[i].seq < record.seq
    BY <1>3, <1>5, <1>8
  <2>2. \A i, k \in 1..Len(room) : i < k => room[i].seq < room[k].seq
    BY <1>5 DEF Ordered
  <2>3. ASSUME NEW i \in 1..Len(ring'), NEW k \in 1..Len(ring'), i < k
        PROVE  ring'[i].seq < ring'[k].seq
    <3>1. i \in 1..Len(room) /\ (k \in 1..Len(room) \/ k = Len(room) + 1)
      BY <1>5, <1>6, <2>3
    <3>2. QED
      BY <1>6, <2>1, <2>2, <2>3, <3>1
  <2>4. QED
    BY <2>3 DEF Ordered
<1>10. \A w \in Waiters : \A r \in Elems(delivered[w]) :
         /\ r.seq <= pushed /\ r.seq \in Nat
         /\ \A q \in Elems(ring) : q.level = r.level => r.seq < q.seq
  <2> TAKE w \in Waiters
  <2> TAKE r \in Elems(delivered[w])
  <2>1. delivered[w] \in Seq(Records)
    BY DEF RingInv, RingTypeOK
  <2>2. r \in Records
    BY <2>1 DEF Elems
  <2>3. QED
    BY <2>2 DEF RingInv, TakenIsOlder, Records
<1>11. \A w \in Waiters : \A r \in Elems(delivered[w]) :
         /\ r.seq <= pushed'
         /\ \A q \in Elems(ring') : q.level = r.level => r.seq < q.seq
  <2> TAKE w \in Waiters
  <2> TAKE r \in Elems(delivered[w])
  <2>1. r.seq < pushed' /\ r.seq <= pushed'
    BY <1>1, <1>2, <1>10
  <2>2. QED
    BY <1>3, <1>7, <1>10, <2>1
<1>12. RingTypeOK'
  BY <1>1, <1>2, <1>5, <1>6 DEF RingInv, RingTypeOK
<1>13. RingIsOrdered'
  <2>1. \A r \in Elems(ring') : r.seq <= pushed'
    BY <1>2, <1>3, <1>7, <1>8
  <2>2. QED
    BY <1>9, <2>1 DEF RingIsOrdered, Ordered, Elems
<1>14. TakenIsOlder'
  BY <1>1, <1>11 DEF TakenIsOlder, Elems
<1>15. DeliverOnceInOrder'
  <2>1. \A w \in Waiters : Elems(delivered'[w]) \cap Elems(ring') = {}
    <3> TAKE w \in Waiters
    <3>1. \A r \in Elems(delivered[w]) : r \in Elems(ring') => r.seq < r.seq
      BY <1>11
    <3>2. \A r \in Elems(delivered[w]) : r.seq \in Nat
      BY <1>10
    <3>3. QED
      BY <1>1, <3>1, <3>2
  <2>2. QED
    BY <1>1, <2>1, DeliveredOnceIs DEF RingInv, DeliveredOnce
<1>16. EarlyReturnShowsWhy'
  BY <1>1 DEF RingInv, EarlyReturnShowsWhy, ReturnedEarly, WakeLevel, Elems
<1>17. QED
  BY <1>12, <1>13, <1>14, <1>15, <1>16 DEF RingInv

\* What a drain adds to what a waiter has: newer records of each level, in order.
LEMMA LongerIsInOrder ==
  ASSUME NEW old \in Seq(Records), NEW new \in Seq(Records), Ordered(new),
         \A i, k \in 1..Len(old) : i < k /\ old[i].level = old[k].level => old[i].seq < old[k].seq,
         \A r \in Elems(old) : \A q \in Elems(new) : q.level = r.level => r.seq < q.seq
  PROVE  \A i, k \in 1..Len(old \o new) :
           i < k /\ (old \o new)[i].level = (old \o new)[k].level
             => (old \o new)[i].seq < (old \o new)[k].seq
<1> DEFINE s == old \o new
           n == Len(old)
<1>1. /\ Len(s) = n + Len(new) /\ n \in Nat /\ Len(new) \in Nat
      /\ \A i \in 1..Len(s) : s[i] = IF i <= n THEN old[i] ELSE new[i - n]
  BY ConcatIs
<1> SUFFICES ASSUME NEW i \in 1..Len(s), NEW k \in 1..Len(s), i < k, s[i].level = s[k].level
             PROVE  s[i].seq < s[k].seq
  OBVIOUS
<1> HIDE DEF s, n
<1>2. CASE k <= n
  <2>1. i <= n /\ i \in 1..Len(old) /\ k \in 1..Len(old)
    BY <1>1, <1>2 DEF n
  <2>2. QED
    BY <1>1, <1>2, <2>1
<1>3. CASE ~(k <= n) /\ i <= n
  <2>1. i \in 1..Len(old) /\ k - n \in 1..Len(new) /\ s[i] = old[i] /\ s[k] = new[k - n]
    BY <1>1, <1>3 DEF n
  <2>2. old[i] \in Elems(old) /\ new[k - n] \in Elems(new)
    BY <2>1 DEF Elems
  <2>3. QED
    BY <2>1, <2>2
<1>4. CASE ~(i <= n)
  <2>1. /\ i - n \in 1..Len(new) /\ k - n \in 1..Len(new) /\ i - n < k - n
        /\ s[i] = new[i - n] /\ s[k] = new[k - n]
    BY <1>1, <1>4
  <2>2. QED
    BY <2>1 DEF Ordered
<1>5. QED
  BY <1>1, <1>2, <1>3, <1>4

\* The tail a waking drain leaves shows the record that woke it.
LEMMA TailShows ==
  ASSUME NEW tail \in Seq(Records), NEW drained \in Seq(Records), Ordered(drained),
         NEW limit \in Nat, limit > 0, \E r \in Elems(drained) : r.level >= WakeFloor
  PROVE  \E r \in Elems(LastN(tail \o AtOrAbove(WakeFloor, drained), limit)) : r.level >= WakeFloor
<1> DEFINE x == AtOrAbove(WakeFloor, drained)
           cat == tail \o x
           l == LastN(cat, limit)
<1>1. x \in Seq(Records) /\ Elems(x) = {r \in Elems(drained) : r.level >= WakeFloor}
  <2>1. WakeFloor \in Nat
    BY DEF WakeFloor
  <2>2. QED
    BY <2>1, DrainSplits
<1>2. Len(x) \in Nat /\ Len(x) > 0
  BY <1>1 DEF Elems
<1>3. x[Len(x)].level >= WakeFloor
  <2>1. x[Len(x)] \in Elems(x)
    BY <1>2 DEF Elems
  <2>2. QED
    BY <1>1, <2>1
<1> HIDE DEF x
<1>4. cat \in Seq(Records) /\ Len(cat) > 0 /\ cat[Len(cat)] = x[Len(x)]
  <2>1. /\ cat \in Seq(Records) /\ Len(cat) = Len(tail) + Len(x) /\ Len(tail) \in Nat
        /\ \A i \in 1..Len(cat) : cat[i] = IF i <= Len(tail) THEN tail[i] ELSE x[i - Len(tail)]
    BY <1>1, ConcatIs
  <2> HIDE DEF cat
  <2>2. QED
    BY <1>2, <2>1
<1> HIDE DEF cat
<1>5. l \in Seq(Records) /\ Len(l) > 0 /\ l[Len(l)] = cat[Len(cat)]
  BY <1>4, LastNIs
<1> HIDE DEF l
<1>6. l[Len(l)] \in Elems(l)
  <2>1. Len(l) \in 1..Len(l)
    BY <1>5
  <2>2. QED
    BY <2>1 DEF Elems
<1>7. QED
  BY <1>3, <1>4, <1>5, <1>6 DEF l, cat, x

\* A drain hands a waiter the records at or above its floor, each for the first time and
\* after those of its level, and leaves none of them in the ring.
LEMMA AbsorbKeeps ==
  ASSUME RingInv, NEW w \in Waiters, NEW other \in Pcs, Absorb(w, "returned", other),
         other = "returned" => w \in expired,
         UNCHANGED <<pushed, notifyVars, expired>>
  PROVE  /\ RingInv'
         /\ \A r \in Elems(ring') : r.level < call[w].drain
         /\ \A v \in Waiters : /\ v # w => call'[v] = call[v]
                               /\ call'[v].drain = call[v].drain
         /\ call'[w].pc \in {"returned", other}
<1> DEFINE c == call[w]
           f == c.drain
           drained == AtOrAbove(f, ring)
           kept == Below(f, ring)
           woke == \E r \in Elems(drained) : r.level >= WakeFloor
           shown == AtOrAbove(c.sample, drained)
           tail == LastN(c.tail \o shown, c.limit)
           p == IF woke THEN "returned" ELSE other
           e == Absorbed(c, p, woke, tail)
           longer == delivered[w] \o drained
<1>1. /\ ring' = kept /\ delivered' = [delivered EXCEPT ![w] = longer]
      /\ call' = [call EXCEPT ![w] = e]
      /\ pushed' = pushed /\ owed' = owed /\ permit' = permit /\ queue' = queue
      /\ notified' = notified /\ expired' = expired
  BY DEF Absorb, Absorbed, notifyVars
<1>2. /\ ring \in Seq(Records) /\ Ordered(ring) /\ call \in [Waiters -> Calls]
      /\ delivered \in [Waiters -> Seq(Records)] /\ Len(ring) <= RingCap
      /\ \A r \in Elems(ring) : r.seq <= pushed
  BY DEF RingInv, RingTypeOK, RingIsOrdered, Calls
<1>3. c \in Calls /\ delivered[w] \in Seq(Records)
  BY <1>2
<1>4. c.tail \in Seq(Records) /\ c.limit \in Nat /\ c.sample \in Nat /\ f \in Nat
  BY <1>3 DEF Calls
<1> HIDE DEF f
<1>5. /\ drained \in Seq(Records) /\ kept \in Seq(Records) /\ Len(kept) <= Len(ring)
      /\ Ordered(drained) /\ Ordered(kept)
      /\ Elems(drained) = {r \in Elems(ring) : r.level >= f}
      /\ Elems(kept) = {r \in Elems(ring) : r.level < f}
  BY <1>2, <1>4, DrainSplits
<1> HIDE DEF drained, kept, c
<1>6. shown \in Seq(Records)
  BY <1>4, <1>5, DrainSplits
<1> HIDE DEF shown
<1>7. tail \in Seq(Records)
  <2>1. c.tail \o shown \in Seq(Records)
    BY <1>4, <1>6
  <2>2. QED
    BY <1>4, <2>1, LastNIs
<1>8. p \in Pcs /\ woke \in BOOLEAN
  BY DEF Pcs
<1>9. /\ e \in Calls /\ e.pc = p /\ e.tail = tail /\ e.drain = c.drain
      /\ e.sample = c.sample /\ e.limit = c.limit
  <2> HIDE DEF p, woke, tail
  <2>1. QED
    BY <1>3, <1>7, <1>8, CallUpdates
<1> HIDE DEF e, longer
<1>10. /\ call' \in [Waiters -> Calls] /\ call'[w] = e
       /\ \A v \in Waiters : v # w => call'[v] = call[v]
  BY <1>1, <1>2, <1>9
<1>11. longer \in Seq(Records) /\ Elems(longer) = Elems(delivered[w]) \cup Elems(drained)
  BY <1>3, <1>5, ConcatIs DEF longer
<1>12. /\ delivered' \in [Waiters -> Seq(Records)] /\ delivered'[w] = longer
       /\ \A v \in Waiters : v # w => delivered'[v] = delivered[v]
  BY <1>1, <1>2, <1>11
<1>13. RingTypeOK'
  <2>1. Len(kept) \in Nat /\ Len(ring) \in Nat /\ RingCap \in Nat
    BY <1>2, <1>5, RingAssumption
  <2>2. Len(kept) <= RingCap
    BY <1>2, <1>5, <2>1
  <2>3. QED
    BY <1>1, <1>5, <1>10, <1>12, <2>2 DEF RingInv, RingTypeOK, Calls
<1>14. RingIsOrdered'
  BY <1>1, <1>2, <1>5 DEF RingIsOrdered, Ordered, Elems
<1>15. \A v \in Waiters : \A r \in Elems(delivered[v]) :
         r.seq <= pushed /\ \A q \in Elems(ring) : q.level = r.level => r.seq < q.seq
  BY DEF RingInv, TakenIsOlder
<1>16. \A v \in Waiters : \A r \in Elems(delivered'[v]) :
         r.seq <= pushed /\ \A q \in Elems(kept) : q.level = r.level => r.seq < q.seq
  <2> TAKE v \in Waiters
  <2> TAKE r \in Elems(delivered'[v])
  <2>1. CASE r \in Elems(delivered[v])
    BY <1>5, <1>15, <2>1
  <2>2. CASE v = w /\ r \in Elems(drained)
    <3>1. r.level >= f /\ r \in Elems(ring) /\ r \in Records
      BY <1>2, <1>5, <2>2, ElemsAre
    <3>2. \A q \in Elems(kept) : q.level < f /\ q \in Records
      BY <1>5, ElemsAre
    <3>3. \A q \in Elems(kept) : q.level # r.level
      <4>1. Levels \subseteq Nat
        BY RingAssumption
      <4>2. r.level \in Nat /\ \A q \in Elems(kept) : q.level \in Nat
        BY <3>1, <3>2, <4>1 DEF Records
      <4>3. QED
        BY <1>4, <3>1, <3>2, <4>2
    <3>4. QED
      BY <1>2, <3>1, <3>3
  <2>3. QED
    BY <1>11, <1>12, <2>1, <2>2
<1>17. TakenIsOlder'
  BY <1>1, <1>16 DEF TakenIsOlder, Elems
<1>18. DeliverOnceInOrder'
  <2>1. DeliveredOnce(delivered, ring)
    BY DeliveredOnceIs DEF RingInv
  <2>2. ASSUME NEW v \in Waiters
        PROVE  \A i, k \in 1..Len(delivered'[v]) :
                 i < k /\ delivered'[v][i].level = delivered'[v][k].level
                   => delivered'[v][i].seq < delivered'[v][k].seq
    <3>1. CASE v # w
      BY <1>12, <2>1, <3>1 DEF DeliveredOnce
    <3>2. CASE v = w
      <4>1. \A r \in Elems(delivered[w]) : \A q \in Elems(drained) :
              q.level = r.level => r.seq < q.seq
        BY <1>5, <1>15
      <4>2. \A i, k \in 1..Len(delivered[w]) :
              i < k /\ delivered[w][i].level = delivered[w][k].level
                => delivered[w][i].seq < delivered[w][k].seq
        BY <2>1 DEF DeliveredOnce
      <4>3. \A i, k \in 1..Len(longer) :
              i < k /\ longer[i].level = longer[k].level => longer[i].seq < longer[k].seq
        BY <1>3, <1>5, <4>1, <4>2, LongerIsInOrder DEF longer
      <4>4. QED
        BY <1>12, <3>2, <4>3
    <3>3. QED
      BY <3>1, <3>2
  <2>3. \A v \in Waiters : Elems(delivered'[v]) \cap Elems(kept) = {}
    <3> TAKE v \in Waiters
    <3>1. \A r \in Elems(kept) : r.seq \in Nat
      <4>1. \A r \in Elems(kept) : r \in Records
        BY <1>5, ElemsAre
      <4>2. QED
        BY <4>1 DEF Records
    <3>2. QED
      BY <1>16, <3>1
  <2>4. ASSUME NEW v \in Waiters, NEW u \in Waiters \ {v}
        PROVE  Elems(delivered'[v]) \cap Elems(delivered'[u]) = {}
    <3>1. \A x \in Waiters : Elems(delivered[x]) \cap Elems(drained) = {}
      BY <1>5, <2>1 DEF DeliveredOnce
    <3>2. \A x \in Waiters : \A y \in Waiters \ {x} :
            Elems(delivered[x]) \cap Elems(delivered[y]) = {}
      BY <2>1 DEF DeliveredOnce
    <3>3. Elems(delivered[v]) \cap Elems(delivered[u]) = {} /\ u # v
      BY <3>2
    <3>4. \A x \in Waiters : Elems(delivered'[x]) =
            IF x = w THEN Elems(delivered[w]) \cup Elems(drained) ELSE Elems(delivered[x])
      BY <1>11, <1>12
    <3>5. QED
      BY <3>1, <3>3, <3>4
  <2>5. DeliveredOnce(delivered', ring')
    BY <1>1, <2>2, <2>3, <2>4, Zenon DEF DeliveredOnce
  <2>6. QED
    BY <2>5, DeliveredOnceIs
<1>19. ShowsWhy(w)'
  <2>1. CASE woke
    <3>1. c.sample = WakeFloor /\ c.limit > 0 => \E r \in Elems(tail) : r.level >= WakeFloor
      <4>1. ASSUME c.sample = WakeFloor, c.limit > 0
            PROVE  \E r \in Elems(LastN(c.tail \o AtOrAbove(WakeFloor, drained), c.limit)) :
                     r.level >= WakeFloor
        BY <1>4, <1>5, <2>1, <4>1, TailShows
      <4>2. QED
        BY <4>1 DEF shown
    <3> HIDE DEF tail, woke
    <3>2. QED
      BY <1>9, <1>10, <3>1 DEF ShowsWhy, WakeLevel, Elems
  <2>2. CASE ~woke
    <3>1. p = other
      BY <2>2
    <3> HIDE DEF p
    <3>2. QED
      BY <1>1, <1>9, <1>10, <3>1 DEF ShowsWhy, ReturnedEarly
  <2>3. QED
    BY <2>1, <2>2
<1>20. EarlyReturnShowsWhy'
  <2>1. \A v \in Waiters : v # w => ShowsWhy(v)'
    BY <1>1, <1>10, ShowsStill
  <2>2. QED
    BY <1>19, <2>1 DEF EarlyReturnShowsWhy, ShowsWhy
<1>21. p \in {"returned", other}
  OBVIOUS
<1> HIDE DEF p
<1>22. QED
  BY <1>1, <1>5, <1>9, <1>10, <1>13, <1>14, <1>17, <1>18, <1>20, <1>21 DEF RingInv, f, c

-----------------------------------------------------------------------------
(* The wakeups, one step at a time. *)

Parked(calls) == {v \in Waiters : calls[v].pc = "parked"}

\* WakeInv of what remains, where a waiter is on its way to drain or none is needed.
LEMMA WakeFrame ==
  ASSUME Apart(queue'), Elems(queue') \cap notified' = {},
         Elems(queue') \cup notified' = Parked(call'), permit' => queue' = <<>>,
         \A v \in Waiters : call'[v].drain <= WakeFloor, WakeIsPending'
  PROVE  WakeInv'
BY DEF WakeInv, QueueIsParked, Parked, Apart, Elems

\* What WakeInv says, of the state before.
LEMMA WakeFacts ==
  ASSUME RingInv, WakeInv
  PROVE  /\ queue \in Seq(Waiters) /\ permit \in BOOLEAN /\ notified \in SUBSET Waiters
         /\ owed \in Nat /\ expired \in SUBSET Waiters /\ call \in [Waiters -> Calls]
         /\ Apart(queue) /\ Elems(queue) \cap notified = {}
         /\ Elems(queue) \cup notified = Parked(call) /\ (permit => queue = <<>>)
         /\ \A v \in Waiters : call[v].drain <= WakeFloor
BY DEF RingInv, RingTypeOK, WakeInv, QueueIsParked, Parked, Calls

\* push owes a wakeup for the record it appended.
LEMMA PushStep ==
  ASSUME RingInv, WakeInv, NEW level \in Levels, NEW job \in Jobs \cup {NoJob}, Push(level, job)
  PROVE  RingInv' /\ WakeInv'
<1>1. RingInv'
  BY PushKeeps
<1>2. /\ owed' = owed + 1 /\ permit' = permit /\ queue' = queue /\ notified' = notified
      /\ call' = call
  BY DEF Push
<1>3. owed' > 0
  BY <1>2, WakeFacts
<1>4. WakeIsPending'
  BY <1>3 DEF WakeIsPending
<1>5. QED
  BY <1>1, <1>2, <1>4, WakeFacts, WakeFrame

\* discard_job_pings only takes records away, so no wakeup is missing after it.
LEMMA DiscardStep ==
  ASSUME RingInv, WakeInv, NEW job, DiscardJobPings(job)
  PROVE  RingInv' /\ WakeInv'
<1>1. RingInv' /\ \A r \in Elems(ring') : r \in Elems(ring)
  BY DiscardKeeps
<1>2. /\ owed' = owed /\ permit' = permit /\ queue' = queue /\ notified' = notified
      /\ call' = call /\ expired' = expired
  BY DEF DiscardJobPings, notifyVars
<1>3. WakeIsPending'
  BY <1>1, <1>2 DEF WakeInv, WakeIsPending, WakeLevel, AboutToDrain, Waiting, Elems
<1>4. QED
  BY <1>1, <1>2, <1>3, WakeFacts, WakeFrame

\* The wakeup a push owed reaches a waiter or is stored.
LEMMA NotifyStep ==
  ASSUME RingInv, WakeInv, NotifyOne
  PROVE  RingInv' /\ WakeInv'
<1>1. /\ owed > 0 /\ owed' = owed - 1 /\ WakeOne(queue, notified)
      /\ UNCHANGED <<ring, pushed, delivered>> /\ expired' = expired /\ call' = call
  BY DEF NotifyOne, ringVars
<1>2. /\ queue' \in Seq(Waiters) /\ permit' \in BOOLEAN /\ notified' \in SUBSET Waiters
      /\ Apart(queue') /\ Elems(queue') \cap notified' = {}
      /\ Elems(queue') \cup notified' = Elems(queue) \cup notified
      /\ permit' => queue' = <<>>
      /\ permit' \/ \E w \in Waiters : w \in notified'
  BY <1>1, WakeFacts, WakeOneKeeps
<1>3. owed' \in Nat
  BY <1>1, WakeFacts
<1>4. \A w \in Waiters : ShowsWhy(w)'
  BY <1>1, ShowsStill
<1>5. RingInv'
  BY <1>1, <1>2, <1>3, <1>4, WakeFacts, RingFrame
<1>6. WakeIsPending'
  BY <1>2 DEF WakeIsPending, AboutToDrain
<1>7. QED
  BY <1>1, <1>2, <1>5, <1>6, WakeFacts, WakeFrame

\* A wait that starts is on its way to drain.
LEMMA WaitStartStep ==
  ASSUME RingInv, WakeInv, NEW w \in Waiters, NEW level \in WaitLevels, NEW token \in BOOLEAN,
         NEW limit \in Limits, WaitStart(w, level, token, limit)
  PROVE  RingInv' /\ WakeInv'
<1> DEFINE sample == LesserOf(level, WakeFloor)
           floor == IF token THEN LesserOf(InfoFloor, sample) ELSE sample
           e == [Fresh EXCEPT !.pc = "drain", !.sample = sample, !.limit = limit, !.drain = floor]
<1>1. /\ call[w].pc \in {"idle", "returned"} /\ call' = [call EXCEPT ![w] = e]
      /\ expired' = expired \ {w} /\ owed' = owed /\ permit' = permit /\ queue' = queue
      /\ notified' = notified /\ UNCHANGED <<ring, pushed, delivered>>
  BY DEF WaitStart, notifyVars, ringVars
<1>2. sample \in 0..7 /\ floor \in 0..7 /\ floor <= WakeFloor /\ limit \in Nat /\ "drain" \in Pcs
  BY RingAssumption DEF LesserOf, WakeFloor, InfoFloor, Pcs
<1>3. e \in Calls /\ e.pc = "drain" /\ e.drain = floor
  <2> HIDE DEF sample, floor
  <2>1. /\ DOMAIN e = {"pc", "drain", "sample", "limit", "tail", "woke"}
        /\ e = [f \in DOMAIN e |-> e[f]]
    BY ONLY TRUE DEF Fresh
  <2>2. /\ e.pc = "drain" /\ e.drain = floor /\ e.sample = sample /\ e.limit = limit
        /\ e.tail = <<>> /\ e.woke = FALSE
    BY ONLY TRUE DEF Fresh
  <2> HIDE DEF e
  <2>3. e = [pc |-> "drain", drain |-> floor, sample |-> sample, limit |-> limit, tail |-> <<>>,
             woke |-> FALSE]
    BY ONLY <2>1, <2>2
  <2>4. <<>> \in Seq(Records)
    OBVIOUS
  <2>5. e \in Calls
    BY <1>2, <2>3, <2>4 DEF Calls
  <2>6. QED
    BY <2>2, <2>5
<1> HIDE DEF e, floor
<1>4. /\ call' \in [Waiters -> Calls] /\ call'[w] = e
      /\ \A v \in Waiters : v # w => call'[v] = call[v]
  BY <1>1, <1>3, WakeFacts
<1>5. \A v \in Waiters : ShowsWhy(v)'
  <2>1. ShowsWhy(w)'
    BY <1>3, <1>4 DEF ShowsWhy, ReturnedEarly
  <2>2. \A v \in Waiters : v # w => ShowsWhy(v)'
    BY <1>1, <1>4, ShowsStill
  <2>3. QED
    BY <2>1, <2>2
<1>6. RingInv'
  BY <1>1, <1>4, <1>5, WakeFacts, RingFrame
<1>7. AboutToDrain(w)'
  BY <1>3, <1>4 DEF AboutToDrain
<1>8. WakeIsPending'
  BY <1>7 DEF WakeIsPending
<1>9. Parked(call') = Parked(call)
  BY <1>1, <1>3, <1>4 DEF Parked
<1>10. \A v \in Waiters : call'[v].drain <= WakeFloor
  BY <1>2, <1>3, <1>4, WakeFacts
<1>11. QED
  BY <1>1, <1>6, <1>8, <1>9, <1>10, WakeFacts, WakeFrame

\* A deadline that passes puts its waiter on its way to its final drain.
LEMMA ExpireStep ==
  ASSUME RingInv, WakeInv, NEW w \in Waiters, Expire(w)
  PROVE  RingInv' /\ WakeInv'
<1>1. /\ Waiting(w) /\ expired' = expired \cup {w} /\ owed' = owed /\ permit' = permit
      /\ queue' = queue /\ notified' = notified /\ call' = call
      /\ UNCHANGED <<ring, pushed, delivered>>
  BY DEF Expire, notifyVars, ringVars
<1>2. \A v \in Waiters : ShowsWhy(v)'
  BY <1>1, ShowsStill
<1>3. RingInv'
  BY <1>1, <1>2, WakeFacts, RingFrame
<1>4. AboutToDrain(w)'
  BY <1>1 DEF AboutToDrain, Waiting
<1>5. WakeIsPending'
  BY <1>4 DEF WakeIsPending
<1>6. QED
  BY <1>1, <1>3, <1>5, WakeFacts, WakeFrame

\* After a drain no wake-level record is buffered, because no waiter's floor is above the
\* wake level.
LEMMA DrainStep ==
  ASSUME RingInv, WakeInv, NEW w \in Waiters, Drain(w) \/ FinalDrain(w)
  PROVE  RingInv' /\ WakeInv'
<1>1. PICK other \in {"check", "returned"} :
        /\ Absorb(w, "returned", other) /\ (other = "returned" => w \in expired)
        /\ call[w].pc \in {"drain", "check"} /\ UNCHANGED <<pushed, notifyVars, expired>>
  BY DEF Drain, FinalDrain
<1>2. other \in Pcs
  BY DEF Pcs
<1>3. /\ RingInv'
      /\ \A r \in Elems(ring') : r.level < call[w].drain
      /\ \A v \in Waiters : (v # w => call'[v] = call[v]) /\ call'[v].drain = call[v].drain
      /\ call'[w].pc \in {"returned", other}
  BY <1>1, <1>2, AbsorbKeeps
<1>4. owed' = owed /\ permit' = permit /\ queue' = queue /\ notified' = notified
  BY <1>1 DEF notifyVars
<1>5. ~WakeLevel(ring')
  <2>1. ring' \in Seq(Records)
    BY <1>3 DEF RingInv, RingTypeOK
  <2>2. \A r \in Elems(ring') : r \in Records
    BY <2>1, ElemsAre
  <2>3. call[w].drain \in Nat /\ call[w].drain <= WakeFloor /\ WakeFloor \in Nat
    <3>1. call[w] \in Calls /\ call[w].drain <= WakeFloor
      BY WakeFacts
    <3>2. call[w].drain \in 0..7
      BY ONLY <3>1 DEF Calls
    <3>3. WakeFloor \in Nat
      BY DEF WakeFloor
    <3>4. QED
      BY ONLY <3>1, <3>2, <3>3
  <2>4. Levels \subseteq Nat
    BY RingAssumption
  <2>5. \A r \in Elems(ring') : r.level \in Nat
    BY <2>2, <2>4 DEF Records
  <2>6. QED
    BY <1>3, <2>3, <2>5 DEF WakeLevel
<1>6. WakeIsPending'
  BY <1>5 DEF WakeIsPending, WakeLevel, Elems
<1>7. Parked(call') = Parked(call)
  BY <1>1, <1>3 DEF Parked
<1>8. QED
  BY <1>3, <1>4, <1>6, <1>7, WakeFacts, WakeFrame

\* A waiter that moves on its way: its call goes to "drain".
LEMMA ToDrain ==
  ASSUME RingInv, WakeInv, NEW w \in Waiters, call' = [call EXCEPT ![w].pc = "drain"],
         UNCHANGED <<ring, pushed, delivered, owed, expired>>,
         queue' \in Seq(Waiters), permit' \in BOOLEAN, notified' \in SUBSET Waiters,
         Apart(queue'), Elems(queue') \cap notified' = {},
         Elems(queue') \cup notified' = Parked(call) \ {w}, permit' => queue' = <<>>
  PROVE  RingInv' /\ WakeInv'
<1>1. /\ call' \in [Waiters -> Calls] /\ call'[w].pc = "drain"
      /\ \A v \in Waiters : (v # w => call'[v] = call[v]) /\ call'[v].drain = call[v].drain
  BY CallMoves DEF RingInv, Pcs
<1>2. \A v \in Waiters : ShowsWhy(v)'
  <2>1. ShowsWhy(w)'
    BY <1>1 DEF ShowsWhy, ReturnedEarly
  <2>2. \A v \in Waiters : v # w => ShowsWhy(v)'
    BY <1>1, ShowsStill
  <2>3. QED
    BY <2>1, <2>2
<1>3. RingInv'
  BY <1>1, <1>2, WakeFacts, RingFrame
<1>4. AboutToDrain(w)'
  BY <1>1 DEF AboutToDrain
<1>5. WakeIsPending'
  BY <1>4 DEF WakeIsPending
<1>6. Parked(call') = Parked(call) \ {w}
  BY <1>1 DEF Parked
<1>7. QED
  BY <1>1, <1>3, <1>5, <1>6, WakeFacts, WakeFrame

\* notified() takes the stored permit or joins the queue: with the permit absent and a
\* wake-level record buffered, somebody else is on the way.
LEMMA ParkStep ==
  ASSUME RingInv, WakeInv, NEW w \in Waiters, Park(w)
  PROVE  RingInv' /\ WakeInv'
<1>1. /\ call[w].pc = "check" /\ w \notin expired /\ owed' = owed /\ notified' = notified
      /\ expired' = expired /\ UNCHANGED <<ring, pushed, delivered>>
  BY DEF Park, ringVars
<1>2. w \notin Parked(call)
  BY <1>1 DEF Parked
<1>3. CASE permit
  <2>1. permit' = FALSE /\ call' = [call EXCEPT ![w].pc = "drain"] /\ queue' = queue
    BY <1>3 DEF Park
  <2>2. Parked(call) \ {w} = Parked(call)
    BY <1>2
  <2>3. QED
    BY <1>1, <2>1, <2>2, WakeFacts, ToDrain
<1>4. CASE ~permit
  <2>1. queue' = Append(queue, w) /\ call' = [call EXCEPT ![w].pc = "parked"] /\ permit' = permit
    BY <1>4 DEF Park
  <2>2. /\ call' \in [Waiters -> Calls] /\ call'[w].pc = "parked"
        /\ \A v \in Waiters : (v # w => call'[v] = call[v]) /\ call'[v].drain = call[v].drain
    BY <2>1, CallMoves DEF RingInv, Pcs
  <2>3. /\ queue \in Seq(Waiters) /\ queue' \in Seq(Waiters) /\ Len(queue) \in Nat
        /\ Len(queue') = Len(queue) + 1 /\ queue'[Len(queue) + 1] = w
        /\ \A i \in 1..Len(queue) : queue'[i] = queue[i]
    BY <2>1, WakeFacts
  <2>4. w \notin Elems(queue) /\ w \notin notified
    BY <1>2, WakeFacts
  <2>5. Apart(queue')
    <3>1. \A i \in 1..Len(queue) : queue'[i] # w
      BY <2>3, <2>4 DEF Elems
    <3>2. \A i, k \in 1..Len(queue) : queue'[i] = queue'[k] => i = k
      BY <2>3, WakeFacts DEF Apart
    <3>3. \A i \in 1..Len(queue') : i \in 1..Len(queue) \/ i = Len(queue) + 1
      BY <2>3
    <3>4. QED
      BY <2>3, <3>1, <3>2, <3>3 DEF Apart
  <2>6. Elems(queue') = Elems(queue) \cup {w}
    <3>1. \A i \in 1..Len(queue') : i \in 1..Len(queue) \/ i = Len(queue) + 1
      BY <2>3
    <3>2. 1..Len(queue) \subseteq 1..Len(queue') /\ Len(queue) + 1 \in 1..Len(queue')
      BY <2>3
    <3>3. \A x : x \in Elems(queue') <=> x \in Elems(queue) \cup {w}
      BY <2>3, <3>1, <3>2 DEF Elems
    <3>4. QED
      BY <3>3
  <2>7. \A v \in Waiters : ShowsWhy(v)'
    <3>1. ShowsWhy(w)'
      BY <2>2 DEF ShowsWhy, ReturnedEarly
    <3>2. \A v \in Waiters : v # w => ShowsWhy(v)'
      BY <1>1, <2>2, ShowsStill
    <3>3. QED
      BY <3>1, <3>2
  <2>8. RingInv'
    BY <1>1, <2>1, <2>2, <2>3, <2>7, WakeFacts, RingFrame
  <2>9. Parked(call') = Parked(call) \cup {w}
    BY <2>2 DEF Parked
  <2>10. \A v \in Waiters : AboutToDrain(v) => v # w /\ AboutToDrain(v)'
    BY <1>1, <2>2, <2>4 DEF AboutToDrain, Waiting
  <2>11. WakeIsPending'
    BY <1>1, <1>4, <2>10 DEF WakeInv, WakeIsPending, WakeLevel, Elems
  <2>12. Elems(queue') \cap notified' = {} /\ Elems(queue') \cup notified' = Parked(call')
    BY <1>1, <2>4, <2>6, <2>9, WakeFacts
  <2>13. \A v \in Waiters : call'[v].drain <= WakeFloor
    BY <2>2, WakeFacts
  <2>14. ~permit'
    BY <1>4, <2>1
  <2>15. QED
    BY <2>5, <2>8, <2>11, <2>12, <2>13, <2>14, WakeFrame
<1>5. QED
  BY <1>3, <1>4

\* A notified waiter goes back to drain.
LEMMA WakeStep ==
  ASSUME RingInv, WakeInv, NEW w \in Waiters, Wake(w)
  PROVE  RingInv' /\ WakeInv'
<1>1. /\ w \in notified /\ notified' = notified \ {w} /\ call' = [call EXCEPT ![w].pc = "drain"]
      /\ owed' = owed /\ permit' = permit /\ queue' = queue /\ expired' = expired
      /\ UNCHANGED <<ring, pushed, delivered>>
  BY DEF Wake, ringVars
<1>2. /\ Elems(queue') \cap notified' = {} /\ Elems(queue') \cup notified' = Parked(call) \ {w}
  BY <1>1, WakeFacts
<1>3. QED
  BY <1>1, <1>2, WakeFacts, ToDrain

\* A waiter whose deadline wins the select passes on the notification it had been handed
\* (tokio's drop of Notified).
LEMMA SleepEndsStep ==
  ASSUME RingInv, WakeInv, NEW w \in Waiters, SleepEnds(w)
  PROVE  RingInv' /\ WakeInv'
<1>1. /\ call' = [call EXCEPT ![w].pc = "drain"] /\ owed' = owed /\ expired' = expired
      /\ UNCHANGED <<ring, pushed, delivered>>
  BY DEF SleepEnds, ringVars
<1>2. CASE w \in notified
  <2>1. WakeOne(queue, notified \ {w})
    BY <1>2 DEF SleepEnds
  <2>2. /\ notified \ {w} \in SUBSET Waiters /\ Elems(queue) \cap (notified \ {w}) = {}
        /\ Elems(queue) \cup (notified \ {w}) = Parked(call) \ {w}
    BY <1>2, WakeFacts
  <2>3. /\ queue' \in Seq(Waiters) /\ permit' \in BOOLEAN /\ notified' \in SUBSET Waiters
        /\ Apart(queue') /\ Elems(queue') \cap notified' = {}
        /\ Elems(queue') \cup notified' = Elems(queue) \cup (notified \ {w})
        /\ permit' => queue' = <<>>
    BY <2>1, <2>2, WakeFacts, WakeOneKeeps
  <2>4. QED
    BY <1>1, <2>2, <2>3, ToDrain
<1>3. CASE w \notin notified
  <2> DEFINE at == {i \in 1..Len(queue) : queue[i] # w}
  <2>1. queue' = Picked(queue, at) /\ permit' = permit /\ notified' = notified
    BY <1>3 DEF SleepEnds
  <2>2. at \in SUBSET (1..Len(queue)) /\ Members(queue, at) = Elems(queue) \ {w}
    BY DEF Members, Elems
  <2> HIDE DEF at
  <2>3. /\ queue' \in Seq(Waiters) /\ Len(queue') <= Len(queue)
        /\ Elems(queue') = Elems(queue) \ {w}
    BY <2>1, <2>2, WakeFacts, PickedIsSubsequence
  <2>4. Apart(queue')
    BY <2>1, <2>2, WakeFacts, DropKeepsOrder
  <2>5. permit' => queue' = <<>>
    BY <2>1, <2>3, WakeFacts
  <2>6. Elems(queue') \cap notified' = {} /\ Elems(queue') \cup notified' = Parked(call) \ {w}
    BY <1>3, <2>1, <2>3, WakeFacts
  <2>7. QED
    BY <1>1, <2>1, <2>3, <2>4, <2>5, <2>6, WakeFacts, ToDrain
<1>4. QED
  BY <1>2, <1>3

\* Nothing is buffered, owed or waited for at first.
LEMMA RingInvInit == RingInit => RingInv /\ WakeInv
<1> SUFFICES ASSUME RingInit PROVE RingInv /\ WakeInv
  OBVIOUS
<1>1. /\ ring = <<>> /\ pushed = 0 /\ owed = 0 /\ permit = FALSE /\ queue = <<>> /\ notified = {}
      /\ expired = {} /\ call = [w \in Waiters |-> Fresh] /\ delivered = [w \in Waiters |-> <<>>]
  BY DEF RingInit
<1>2. Fresh \in Calls /\ Fresh.pc = "idle" /\ Fresh.drain = 0
  BY DEF Fresh, Calls, Pcs
<1>3. Elems(<<>>) = {}
  BY DEF Elems
<1>4. RingTypeOK
  <2>1. ring \in Seq(Records) /\ queue \in Seq(Waiters) /\ Len(ring) <= RingCap
    BY <1>1, RingAssumption
  <2>2. pushed \in 0..MaxRecords /\ owed \in Nat /\ permit \in BOOLEAN
    <3>1. 0 \in 0..MaxRecords /\ 0 \in Nat /\ FALSE \in BOOLEAN
      BY RingAssumption
    <3>2. QED
      BY ONLY <1>1, <3>1
  <2>3. notified \in SUBSET Waiters /\ expired \in SUBSET Waiters
    BY <1>1
  <2>4. call \in [Waiters -> Calls]
    BY <1>1, <1>2
  <2>5. delivered \in [Waiters -> Seq(Records)]
    BY <1>1
  <2>6. QED
    BY <2>1, <2>2, <2>3, <2>4, <2>5 DEF RingTypeOK, Calls
<1>5. RingIsOrdered /\ TakenIsOlder /\ DeliverOnceInOrder
  BY <1>1, <1>3 DEF RingIsOrdered, Ordered, TakenIsOlder, DeliverOnceInOrder
<1>6. EarlyReturnShowsWhy
  BY <1>1, <1>2 DEF EarlyReturnShowsWhy, ReturnedEarly
<1>7. QueueIsParked
  BY <1>1, <1>2, <1>3 DEF QueueIsParked, Apart
<1>8. ~WakeLevel(ring)
  BY <1>1, <1>3 DEF WakeLevel
<1>9. \A w \in Waiters : call[w].drain <= WakeFloor
  BY <1>1, <1>2 DEF WakeFloor
<1>10. QED
  BY <1>1, <1>4, <1>5, <1>6, <1>7, <1>8, <1>9 DEF RingInv, WakeInv, WakeIsPending

\* Every step of the ring and of its waiters keeps both invariants.
LEMMA RingInvStep == RingInv /\ WakeInv /\ [RingNext]_bufferVars => RingInv' /\ WakeInv'
<1> SUFFICES ASSUME RingInv, WakeInv, [RingNext]_bufferVars PROVE RingInv' /\ WakeInv'
  OBVIOUS
<1>1. CASE UNCHANGED bufferVars
  <2>1. /\ ring' = ring /\ pushed' = pushed /\ owed' = owed /\ permit' = permit /\ queue' = queue
        /\ notified' = notified /\ expired' = expired /\ call' = call /\ delivered' = delivered
    BY <1>1 DEF bufferVars, ringVars, notifyVars
  <2>2. \A v \in Waiters : ShowsWhy(v)'
    BY <2>1, ShowsStill
  <2>3. RingInv'
    BY <2>1, <2>2, WakeFacts, RingFrame
  <2>4. WakeIsPending'
    BY <2>1 DEF WakeInv, WakeIsPending, WakeLevel, AboutToDrain, Waiting, Elems
  <2>5. QED
    BY <2>1, <2>3, <2>4, WakeFacts, WakeFrame
<1>2. CASE \E level \in Levels : Push(level, NoJob)
  BY <1>2, PushStep
<1>3. CASE \E job \in Jobs : Push(WakeFloor, job)
  BY <1>3, PushStep, RingAssumption
<1>4. CASE NotifyOne
  BY <1>4, NotifyStep
<1>5. CASE \E job \in Jobs : DiscardJobPings(job)
  BY <1>5, DiscardStep
<1>6. ASSUME NEW w \in Waiters,
             \E level \in WaitLevels, token \in BOOLEAN, limit \in Limits :
               WaitStart(w, level, token, limit)
      PROVE  RingInv' /\ WakeInv'
  BY <1>6, WaitStartStep
<1>7. ASSUME NEW w \in Waiters, Expire(w) PROVE RingInv' /\ WakeInv'
  BY <1>7, ExpireStep
<1>8. ASSUME NEW w \in Waiters, WaiterStep(w) PROVE RingInv' /\ WakeInv'
  BY <1>8, DrainStep, ParkStep, WakeStep, SleepEndsStep DEF WaiterStep
<1>9. QED
  BY <1>1, <1>2, <1>3, <1>4, <1>5, <1>6, <1>7, <1>8 DEF RingNext

\* Both invariants hold in every reachable state.
LEMMA RingInvAlways == RingSpec => [](RingInv /\ WakeInv)
BY RingInvInit, RingInvStep, PTL DEF RingSpec

\* A parked wait and a buffered record of the wake level never coexist without a wakeup
\* on its way: whatever the waiters, their levels and limits, the pushes and the
\* deadlines, no order of push, notify_one, drain and the select in wait_drain_with loses
\* the wakeup.
THEOREM NoWakeupIsLost == RingSpec => []NoLostWakeup
<1>1. RingInv /\ WakeInv => NoLostWakeup
  <2> SUFFICES ASSUME RingInv, WakeInv, WakeLevel(ring), NEW w \in Waiters, call[w].pc = "parked"
               PROVE  owed > 0 \/ \E v \in Waiters : AboutToDrain(v)
    BY DEF NoLostWakeup
  <2>1. CASE permit
    <3>1. w \in Elems(<<>>) \cup notified
      BY <2>1, WakeFacts DEF Parked
    <3>2. w \in notified
      BY <3>1 DEF Elems
    <3>3. QED
      BY <3>2 DEF AboutToDrain
  <2>2. CASE ~permit
    BY <2>2 DEF WakeInv, WakeIsPending
  <2>3. QED
    BY <2>1, <2>2
<1>2. QED
  BY <1>1, RingInvAlways, PTL

\* Each record reaches at most one wait, each wait gets the records of a level in the
\* order they were pushed, and a wait that returns before its deadline shows what it woke
\* for.
THEOREM RecordsReachOneWait == RingSpec => []RecordsAreDelivered
<1>1. RingInv /\ WakeInv => RecordsAreDelivered
  BY DEF RingInv, RecordsAreDelivered
<1>2. QED
  BY <1>1, RingInvAlways, PTL

=============================================================================
