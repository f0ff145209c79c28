----------------------------- MODULE FiniteSums -----------------------------
(***************************************************************************)
(* Induction by the least counterexample, and sums over finite sets: the    *)
(* lemmas about the models' operators that several of the proofs need.      *)
(***************************************************************************)
EXTENDS Integers, FiniteSets, FiniteSetTheorems, WellFoundedInduction, TLAPS

\* A non-empty set of naturals has a least one, because < on them is well-founded: the
\* step that stands for induction below.
LEMMA LeastNumber ==
  ASSUME NEW T, T \subseteq Nat, T # {}
  PROVE  \E n \in T : \A m \in T : n <= m
<1>1. \E n \in T : \A m \in T : <<m, n>> \notin OpToRel(<, Nat)
  BY NatLessThanWellFounded, WFMin, Zenon
<1>2. PICK n \in T : \A m \in T : <<m, n>> \notin OpToRel(<, Nat)
  BY <1>1
<1>3. ASSUME NEW m \in T PROVE n <= m
  <2>1. m \in Nat /\ n \in Nat
    OBVIOUS
  <2>2. ~(m < n)
    <3>1. <<m, n>> \in Nat \X Nat /\ <<m, n>>[1] = m /\ <<m, n>>[2] = n
      BY <2>1
    <3>2. <<m, n>> \notin {ss \in Nat \X Nat : ss[1] < ss[2]}
      BY <1>2, Zenon DEF OpToRel
    <3>3. QED
      BY <3>1, <3>2, Zenon
  <2>3. QED
    BY <2>1, <2>2
<1>4. QED
  BY <1>3

\* The element a fold takes first.
FirstOf(s) == CHOOSE x \in s : TRUE
RestOf(s) == s \ {FirstOf(s)}

\* Taking the chosen element out of a finite set leaves a finite set one smaller.
LEMMA AnyIs ==
  ASSUME NEW S, IsFiniteSet(S), S # {}
  PROVE  /\ FirstOf(S) \in S /\ RestOf(S) \subseteq S /\ RestOf(S) # S /\ IsFiniteSet(RestOf(S))
         /\ Cardinality(S) \in Nat /\ Cardinality(S) > 0
         /\ Cardinality(RestOf(S)) = Cardinality(S) - 1
<1>1. FirstOf(S) \in S
  BY Zenon DEF FirstOf
<1>2. IsFiniteSet(RestOf(S)) /\ Cardinality(RestOf(S)) = Cardinality(S) - 1
  BY <1>1, FS_RemoveElement DEF RestOf
<1>3. Cardinality(S) \in Nat /\ Cardinality(S) # 0
  BY FS_CardinalityType, FS_EmptySet
<1>4. QED
  BY <1>1, <1>2, <1>3 DEF RestOf

\* A non-empty family of subsets of a finite set has a smallest member: a property of
\* finite sets fails first at a set whose proper subsets have it.
LEMMA SmallestSet ==
  ASSUME NEW U, IsFiniteSet(U), NEW T \in SUBSET (SUBSET U), T # {}
  PROVE  \E s \in T : \A t \in T : t \subseteq s => t = s
<1> DEFINE Sizes == {Cardinality(s) : s \in T}
<1>1. \A s \in T : IsFiniteSet(s) /\ Cardinality(s) \in Nat
  <2> TAKE s \in T
  <2>1. s \in SUBSET U
    OBVIOUS
  <2>2. IsFiniteSet(s)
    BY <2>1, FS_Subset
  <2>3. QED
    BY <2>2, FS_CardinalityType
<1>2. Sizes \subseteq Nat /\ Sizes # {}
  BY <1>1
<1>3. PICK n \in Sizes : \A m \in Sizes : n <= m
  BY <1>2, LeastNumber
<1>4. PICK s \in T : Cardinality(s) = n
  OBVIOUS
<1>5. ASSUME NEW t \in T, t \subseteq s PROVE t = s
  <2>1. IsFiniteSet(s) /\ t \in SUBSET s /\ Cardinality(s) <= Cardinality(t)
    BY <1>1, <1>3, <1>4, <1>5
  <2>2. Cardinality(t) <= Cardinality(s) /\ (Cardinality(s) = Cardinality(t) => s = t)
    BY <2>1, FS_Subset
  <2>3. Cardinality(t) \in Nat /\ Cardinality(s) \in Nat
    BY <1>1
  <2>4. QED
    BY <2>1, <2>2, <2>3
<1>6. QED
  BY <1>5

\* What the fold of a sum is: a function of the subsets, here of those of at most n
\* elements, and of all of them.
IsFoldTo(it, f, U, n) ==
  it = [s \in {t \in SUBSET U : Cardinality(t) <= n} |->
          IF s = {} THEN 0 ELSE f[FirstOf(s)] + it[RestOf(s)]]
IsFold(it, f, U) == it = [s \in SUBSET U |-> IF s = {} THEN 0 ELSE f[FirstOf(s)] + it[RestOf(s)]]

\* The fold that is defined on the subsets of n elements extends to those of n + 1.
LEMMA SumToExtends ==
  ASSUME NEW U, IsFiniteSet(U), NEW f, NEW n \in Nat, NEW it, IsFoldTo(it, f, U, n)
  PROVE  \E g : IsFoldTo(g, f, U, n + 1)
<1> DEFINE Dom(k) == {t \in SUBSET U : Cardinality(t) <= k}
           Next1(s) == IF s = {} THEN 0 ELSE f[FirstOf(s)] + it[RestOf(s)]
           g == [s \in Dom(n + 1) |-> IF s \in Dom(n) THEN it[s] ELSE Next1(s)]
<1>1. \A s \in SUBSET U : IsFiniteSet(s) /\ Cardinality(s) \in Nat
  BY FS_Subset, FS_CardinalityType
<1>2. \A s \in Dom(n) : it[s] = Next1(s)
  BY Zenon DEF IsFoldTo
<1>3. ASSUME NEW s \in Dom(n + 1) PROVE g[s] = Next1(s)
  BY <1>2
<1>4. ASSUME NEW s \in Dom(n + 1), s # {} PROVE g[RestOf(s)] = it[RestOf(s)]
  <2>1. RestOf(s) \in Dom(n)
    <3>1. s \in SUBSET U /\ IsFiniteSet(s) /\ Cardinality(s) <= n + 1
      BY <1>1
    <3>2. /\ RestOf(s) \in SUBSET U /\ Cardinality(s) \in Nat
          /\ Cardinality(RestOf(s)) = Cardinality(s) - 1
      BY <1>4, <3>1, AnyIs
    <3>3. QED
      BY <3>1, <3>2
  <2>2. Dom(n) \subseteq Dom(n + 1)
    BY <1>1
  <2> HIDE DEF Dom
  <2>3. QED
    BY <2>1, <2>2
<1>5. g = [s \in Dom(n + 1) |-> g[s]]
  OBVIOUS
<1> HIDE DEF g
<1>6. IsFoldTo(g, f, U, n + 1)
  <2>1. \A s \in Dom(n + 1) : g[s] = IF s = {} THEN 0 ELSE f[FirstOf(s)] + g[RestOf(s)]
    BY <1>3, <1>4
  <2>2. g = [s \in Dom(n + 1) |-> IF s = {} THEN 0 ELSE f[FirstOf(s)] + g[RestOf(s)]]
    BY <1>5, <2>1, Zenon
  <2>3. QED
    BY <2>2, Zenon DEF IsFoldTo
<1>7. QED
  BY <1>6

\* So the recursive function of the fold exists on every finite set.
LEMMA SumExists ==
  ASSUME NEW U, IsFiniteSet(U), NEW f
  PROVE  \E it : IsFold(it, f, U)
<1> DEFINE T == {n \in Nat : ~\E it : IsFoldTo(it, f, U, n)}
<1>1. T = {}
  <2>1. SUFFICES ASSUME T # {} PROVE FALSE
    OBVIOUS
  <2>2. PICK n \in T : \A k \in T : n <= k
    BY <2>1, LeastNumber
  <2>3. n # 0
    <3>1. {t \in SUBSET U : Cardinality(t) <= 0} = {{}}
      <4>1. \A t \in SUBSET U : IsFiniteSet(t) /\ Cardinality(t) \in Nat
        BY FS_Subset, FS_CardinalityType
      <4>2. QED
        BY <4>1, FS_EmptySet
    <3>2. IsFoldTo([s \in {{}} |-> 0], f, U, 0)
      <4>1. [s \in {{}} |-> 0]
          = [s \in {{}} |-> IF s = {} THEN 0 ELSE f[FirstOf(s)] + [r \in {{}} |-> 0][RestOf(s)]]
        OBVIOUS
      <4>2. QED
        BY <3>1, <4>1, Zenon DEF IsFoldTo
    <3>3. QED
      BY <3>2
  <2>4. n - 1 \in Nat /\ n - 1 \notin T /\ (n - 1) + 1 = n
    BY <2>2, <2>3
  <2>5. PICK it : IsFoldTo(it, f, U, n - 1)
    BY <2>4
  <2>6. \E g : IsFoldTo(g, f, U, (n - 1) + 1)
    BY <2>4, <2>5, SumToExtends
  <2>7. QED
    BY <2>2, <2>4, <2>6
<1>2. Cardinality(U) \in Nat
  BY FS_CardinalityType
<1>3. PICK it : IsFoldTo(it, f, U, Cardinality(U))
  BY <1>1, <1>2
<1>4. {t \in SUBSET U : Cardinality(t) <= Cardinality(U)} = SUBSET U
  BY FS_Subset
<1>5. IsFold(it, f, U)
  BY <1>3, <1>4, Zenon DEF IsFoldTo, IsFold
<1>6. QED
  BY <1>5

\* The sum of f over a finite set, MapThenSumSet with a function for the operator.
Sum(f, S) == (CHOOSE it : IsFold(it, f, S))[S]

\* Two folds agree on the sets that both are defined on.
LEMMA SumsAgree ==
  ASSUME NEW U, IsFiniteSet(U), NEW V, IsFiniteSet(V), NEW f,
         NEW it, IsFold(it, f, U), NEW ot, IsFold(ot, f, V),
         NEW S \in SUBSET U, S \in SUBSET V
  PROVE  it[S] = ot[S]
<1> DEFINE T == {s \in SUBSET S : it[s] # ot[s]}
<1>1. T = {}
  <2>1. SUFFICES ASSUME T # {} PROVE FALSE
    OBVIOUS
  <2>2. IsFiniteSet(S)
    BY FS_Subset
  <2>3. PICK s \in T : \A t \in T : t \subseteq s => t = s
    <3>1. T \in SUBSET (SUBSET S)
      OBVIOUS
    <3> HIDE DEF T
    <3>2. QED
      BY <2>1, <2>2, <3>1, SmallestSet
  <2>4. /\ it[s] = (IF s = {} THEN 0 ELSE f[FirstOf(s)] + it[RestOf(s)])
        /\ ot[s] = (IF s = {} THEN 0 ELSE f[FirstOf(s)] + ot[RestOf(s)])
    <3>1. s \in SUBSET U /\ s \in SUBSET V
      OBVIOUS
    <3>2. /\ \A t \in SUBSET U : it[t] = (IF t = {} THEN 0 ELSE f[FirstOf(t)] + it[RestOf(t)])
          /\ \A t \in SUBSET V : ot[t] = (IF t = {} THEN 0 ELSE f[FirstOf(t)] + ot[RestOf(t)])
      BY Zenon DEF IsFold
    <3> HIDE DEF T
    <3>3. QED
      BY <3>1, <3>2, Zenon
  <2>5. s # {}
    BY <2>3, <2>4
  <2>6. IsFiniteSet(s)
    BY <2>2, FS_Subset
  <2>7. RestOf(s) \in SUBSET S /\ RestOf(s) \notin T
    BY <2>3, <2>5, <2>6, AnyIs
  <2>8. QED
    BY <2>3, <2>4, <2>5, <2>7
<1>2. QED
  BY <1>1

\* The sum takes out the chosen element and goes on with the rest.
LEMMA SumIs ==
  ASSUME NEW S, IsFiniteSet(S), NEW f
  PROVE  Sum(f, S) = IF S = {} THEN 0 ELSE f[FirstOf(S)] + Sum(f, RestOf(S))
<1>1. \E it : IsFold(it, f, S)
  BY SumExists
<1> DEFINE it == CHOOSE it : IsFold(it, f, S)
           ot == CHOOSE ot : IsFold(ot, f, RestOf(S))
<1>2. IsFold(it, f, S) /\ Sum(f, S) = it[S]
  BY <1>1, Zenon DEF Sum
<1>3. it[S] = IF S = {} THEN 0 ELSE f[FirstOf(S)] + it[RestOf(S)]
  <2> HIDE DEF it
  <2>1. \A t \in SUBSET S : it[t] = (IF t = {} THEN 0 ELSE f[FirstOf(t)] + it[RestOf(t)])
    BY <1>2, Zenon DEF IsFold
  <2>2. S \in SUBSET S
    OBVIOUS
  <2>3. QED
    BY <2>1, <2>2, Zenon
<1>4. ASSUME S # {} PROVE it[RestOf(S)] = Sum(f, RestOf(S))
  <2>1. IsFiniteSet(RestOf(S)) /\ RestOf(S) \in SUBSET S
    BY <1>4, AnyIs
  <2>2. \E g : IsFold(g, f, RestOf(S))
    BY <2>1, SumExists
  <2>3. IsFold(ot, f, RestOf(S)) /\ Sum(f, RestOf(S)) = ot[RestOf(S)]
    BY <2>2, Zenon DEF Sum
  <2> HIDE DEF it, ot
  <2>4. QED
    BY <1>2, <2>1, <2>3, SumsAgree
<1> HIDE DEF it
<1>5. QED
  BY <1>2, <1>3, <1>4

\* f adds naturals over S.
Adds(f, S) == IsFiniteSet(S) /\ \A x \in S : f[x] \in Nat

\* A sum of naturals is a natural.
LEMMA SumIsNatural ==
  ASSUME NEW S, NEW f, Adds(f, S)
  PROVE  Sum(f, S) \in Nat
<1> DEFINE T == {s \in SUBSET S : Sum(f, s) \notin Nat}
<1>1. IsFiniteSet(S) /\ \A s \in SUBSET S : IsFiniteSet(s)
  BY FS_Subset DEF Adds
<1>2. T = {}
  <2>1. SUFFICES ASSUME T # {} PROVE FALSE
    OBVIOUS
  <2>2. PICK s \in T : \A t \in T : t \subseteq s => t = s
    <3>1. T \in SUBSET (SUBSET S)
      OBVIOUS
    <3> HIDE DEF T
    <3>2. QED
      BY <1>1, <2>1, <3>1, SmallestSet
  <2>3. Sum(f, s) = IF s = {} THEN 0 ELSE f[FirstOf(s)] + Sum(f, RestOf(s))
    BY <1>1, SumIs
  <2>4. s # {}
    BY <2>2, <2>3
  <2>5. FirstOf(s) \in s /\ RestOf(s) \in SUBSET S /\ RestOf(s) \notin T
    BY <1>1, <2>2, <2>4, AnyIs
  <2>6. QED
    BY <2>2, <2>3, <2>4, <2>5 DEF Adds
<1>3. QED
  BY <1>2

\* Any element can be taken out of a sum first, whichever the fold takes.
LEMMA SumTakesOut ==
  ASSUME NEW S, NEW f, Adds(f, S), NEW x \in S
  PROVE  Sum(f, S) = f[x] + Sum(f, S \ {x})
<1> DEFINE T == {s \in SUBSET S : \E y \in s : Sum(f, s) # f[y] + Sum(f, s \ {y})}
<1>1. IsFiniteSet(S) /\ \A s \in SUBSET S : IsFiniteSet(s) /\ Adds(f, s) /\ Sum(f, s) \in Nat
  <2>1. \A s \in SUBSET S : Adds(f, s)
    BY FS_Subset DEF Adds
  <2>2. QED
    BY <2>1, SumIsNatural DEF Adds
<1>2. T = {}
  <2>1. SUFFICES ASSUME T # {} PROVE FALSE
    OBVIOUS
  <2>2. PICK s \in T : \A t \in T : t \subseteq s => t = s
    <3>1. T \in SUBSET (SUBSET S)
      OBVIOUS
    <3> HIDE DEF T
    <3>2. QED
      BY <1>1, <2>1, <3>1, SmallestSet
  <2>3. PICK y \in s : Sum(f, s) # f[y] + Sum(f, s \ {y})
    OBVIOUS
  <2> DEFINE z == FirstOf(s)
  <2>4. z \in s /\ Sum(f, s) = f[z] + Sum(f, s \ {z})
    BY <1>1, <2>3, AnyIs, SumIs DEF RestOf
  <2> HIDE DEF z
  <2>5. y # z
    BY <2>3, <2>4
  <2>6. s \ {z} \notin T /\ s \ {y} \notin T
    BY <2>2, <2>3, <2>4
  <2>7. Sum(f, s \ {z}) = f[y] + Sum(f, (s \ {z}) \ {y})
    BY <2>3, <2>5, <2>6
  <2>8. Sum(f, s \ {y}) = f[z] + Sum(f, (s \ {y}) \ {z})
    BY <2>4, <2>5, <2>6
  <2>9. (s \ {z}) \ {y} = (s \ {y}) \ {z}
    OBVIOUS
  <2>10. /\ f[y] \in Nat /\ f[z] \in Nat /\ Sum(f, (s \ {z}) \ {y}) \in Nat
    BY <1>1, <2>4 DEF Adds
  <2>11. Sum(f, s) = f[z] + (f[y] + Sum(f, (s \ {z}) \ {y}))
    BY <2>4, <2>7, Zenon
  <2>12. Sum(f, s) # f[y] + (f[z] + Sum(f, (s \ {z}) \ {y}))
    BY <2>3, <2>8, <2>9, Zenon
  <2>13. \A i, j, k \in Nat : i + (j + k) = j + (i + k)
    OBVIOUS
  <2>14. QED
    BY <2>10, <2>11, <2>12, <2>13, Zenon
<1>3. QED
  BY <1>2

\* The arithmetic of one term more.
LEMMA OneMore ==
  ASSUME NEW c \in Nat, NEW b \in Nat, c # 0
  PROVE  (c - 1) * b + b = c * b /\ (c - 1) * b \in Nat
<1>1. PICK n \in Nat : c = n + 1
  <2>1. c - 1 \in Nat /\ c = (c - 1) + 1
    OBVIOUS
  <2>2. QED
    BY <2>1
<1>2. (n + 1) * b = n * b + b /\ n * b \in Nat /\ c - 1 = n
  BY <1>1
<1>3. QED
  BY <1>1, <1>2

\* A sum is at most its number of terms times a bound of them.
LEMMA SumAtMost ==
  ASSUME NEW S, NEW f, Adds(f, S), NEW b \in Nat, \A x \in S : f[x] <= b
  PROVE  Sum(f, S) <= Cardinality(S) * b
<1> DEFINE T == {s \in SUBSET S : ~(Sum(f, s) <= Cardinality(s) * b)}
<1>1. IsFiniteSet(S) /\ \A s \in SUBSET S : IsFiniteSet(s) /\ Adds(f, s) /\ Sum(f, s) \in Nat
  <2>1. \A s \in SUBSET S : Adds(f, s)
    BY FS_Subset DEF Adds
  <2>2. QED
    BY <2>1, SumIsNatural DEF Adds
<1>2. T = {}
  <2>1. SUFFICES ASSUME T # {} PROVE FALSE
    OBVIOUS
  <2>2. PICK s \in T : \A t \in T : t \subseteq s => t = s
    <3>1. T \in SUBSET (SUBSET S)
      OBVIOUS
    <3> HIDE DEF T
    <3>2. QED
      BY <1>1, <2>1, <3>1, SmallestSet
  <2>3. IsFiniteSet(s) /\ s \in SUBSET S /\ Cardinality(s) \in Nat
    BY <1>1, FS_CardinalityType
  <2>4. s # {}
    <3>1. SUFFICES ASSUME s = {} PROVE FALSE
      OBVIOUS
    <3>2. Sum(f, s) = 0 /\ Cardinality(s) = 0
      BY <2>3, <3>1, SumIs, FS_EmptySet
    <3>3. 0 * b = 0
      OBVIOUS
    <3>4. QED
      BY <2>2, <3>2, <3>3
  <2>5. /\ FirstOf(s) \in S /\ RestOf(s) \in SUBSET S /\ RestOf(s) \notin T
        /\ Cardinality(RestOf(s)) = Cardinality(s) - 1
    BY <2>2, <2>3, <2>4, AnyIs
  <2>6. Sum(f, s) = f[FirstOf(s)] + Sum(f, RestOf(s))
    BY <2>3, <2>4, SumIs
  <2>7. (Cardinality(s) - 1) * b + b = Cardinality(s) * b /\ (Cardinality(s) - 1) * b \in Nat
    <3>1. Cardinality(s) # 0
      BY <2>3, <2>4, FS_EmptySet
    <3>2. QED
      BY <2>3, <3>1, OneMore
  <2>8. Sum(f, RestOf(s)) <= (Cardinality(s) - 1) * b /\ f[FirstOf(s)] <= b /\ f[FirstOf(s)] \in Nat
        /\ Sum(f, RestOf(s)) \in Nat
    BY <1>1, <2>5 DEF Adds
  <2>9. Sum(f, s) <= (Cardinality(s) - 1) * b + b
    BY <2>6, <2>7, <2>8
  <2>10. QED
    BY <2>2, <2>7, <2>9
<1>3. QED
  BY <1>2

\* Each term is at most the sum.
LEMMA SumHoldsEach ==
  ASSUME NEW S, NEW f, Adds(f, S), NEW x \in S
  PROVE  f[x] <= Sum(f, S)
<1>1. Sum(f, S) = f[x] + Sum(f, S \ {x})
  BY SumTakesOut
<1>2. Adds(f, S \ {x})
  BY FS_Subset DEF Adds
<1>3. Sum(f, S \ {x}) \in Nat /\ f[x] \in Nat
  BY <1>2, SumIsNatural DEF Adds
<1>4. QED
  BY <1>1, <1>3

\* Smaller terms, smaller sum.
LEMMA SumBelow ==
  ASSUME NEW S, NEW f, NEW g, Adds(f, S), Adds(g, S), \A x \in S : g[x] <= f[x]
  PROVE  Sum(g, S) <= Sum(f, S)
<1> DEFINE T == {s \in SUBSET S : ~(Sum(g, s) <= Sum(f, s))}
<1>1. \A s \in SUBSET S : IsFiniteSet(s) /\ Sum(f, s) \in Nat /\ Sum(g, s) \in Nat
  <2>1. \A s \in SUBSET S : Adds(f, s) /\ Adds(g, s)
    BY FS_Subset DEF Adds
  <2>2. QED
    BY <2>1, SumIsNatural DEF Adds
<1>2. T = {}
  <2>1. SUFFICES ASSUME T # {} PROVE FALSE
    OBVIOUS
  <2>2. PICK s \in T : \A t \in T : t \subseteq s => t = s
    <3>1. T \in SUBSET (SUBSET S) /\ IsFiniteSet(S)
      BY DEF Adds
    <3> HIDE DEF T
    <3>2. QED
      BY <2>1, <3>1, SmallestSet
  <2>3. /\ Sum(f, s) = IF s = {} THEN 0 ELSE f[FirstOf(s)] + Sum(f, RestOf(s))
        /\ Sum(g, s) = IF s = {} THEN 0 ELSE g[FirstOf(s)] + Sum(g, RestOf(s))
    BY <1>1, SumIs
  <2>4. s # {}
    BY <2>2, <2>3
  <2>5. FirstOf(s) \in S /\ RestOf(s) \in SUBSET S /\ RestOf(s) \notin T
    BY <1>1, <2>2, <2>4, AnyIs
  <2>6. /\ f[FirstOf(s)] \in Nat /\ g[FirstOf(s)] \in Nat /\ g[FirstOf(s)] <= f[FirstOf(s)]
        /\ Sum(f, RestOf(s)) \in Nat /\ Sum(g, RestOf(s)) \in Nat
        /\ Sum(g, RestOf(s)) <= Sum(f, RestOf(s))
    BY <1>1, <2>5 DEF Adds
  <2>7. Sum(g, s) <= Sum(f, s)
    BY <2>3, <2>4, <2>6
  <2>8. QED
    BY <2>2, <2>7
<1>3. QED
  BY <1>2

\* When each term of one sum is covered by a term of its own in the other, the first is
\* at most the second.
LEMMA SumInto ==
  ASSUME NEW S, NEW U, NEW f, NEW g, NEW h, Adds(f, U), Adds(g, S),
         \A x \in S : h[x] \in U /\ g[x] <= f[h[x]],
         \A x, y \in S : h[x] = h[y] => x = y
  PROVE  Sum(g, S) <= Sum(f, U)
<1> DEFINE Over(s) == {u \in SUBSET U : (\A x \in s : h[x] \in u) /\ ~(Sum(g, s) <= Sum(f, u))}
           T == {s \in SUBSET S : Over(s) # {}}
<1>1. /\ \A s \in SUBSET S : IsFiniteSet(s) /\ Sum(g, s) \in Nat
      /\ \A u \in SUBSET U : Adds(f, u) /\ Sum(f, u) \in Nat
  <2>1. /\ \A s \in SUBSET S : Adds(g, s)
        /\ \A u \in SUBSET U : Adds(f, u)
    BY FS_Subset DEF Adds
  <2>2. QED
    BY <2>1, SumIsNatural DEF Adds
<1>2. T = {}
  <2>1. SUFFICES ASSUME T # {} PROVE FALSE
    OBVIOUS
  <2>2. PICK s \in T : \A t \in T : t \subseteq s => t = s
    <3>1. T \in SUBSET (SUBSET S) /\ IsFiniteSet(S)
      BY DEF Adds
    <3> HIDE DEF T
    <3>2. QED
      BY <2>1, <3>1, SmallestSet
  <2>3. PICK u \in Over(s) : TRUE
    OBVIOUS
  <2>4. /\ s \in SUBSET S /\ u \in SUBSET U /\ \A x \in s : h[x] \in u
        /\ ~(Sum(g, s) <= Sum(f, u)) /\ Sum(f, u) \in Nat
    BY <1>1, <2>3
  <2>5. Sum(g, s) = IF s = {} THEN 0 ELSE g[FirstOf(s)] + Sum(g, RestOf(s))
    BY <1>1, SumIs
  <2>6. s # {}
    BY <2>4, <2>5
  <2> DEFINE z == FirstOf(s)
             v == u \ {h[z]}
  <2>7. z \in s /\ z \in S /\ RestOf(s) \in SUBSET S /\ RestOf(s) = s \ {z} /\ RestOf(s) \notin T
    BY <1>1, <2>2, <2>4, <2>6, AnyIs DEF RestOf
  <2>8. v \in SUBSET U /\ \A x \in RestOf(s) : h[x] \in v
    BY <2>4, <2>7
  <2>9. Sum(g, RestOf(s)) <= Sum(f, v)
    BY <2>7, <2>8
  <2>10. Sum(f, u) = f[h[z]] + Sum(f, v)
    BY <1>1, <2>4, <2>7, SumTakesOut
  <2>11. /\ g[z] \in Nat /\ f[h[z]] \in Nat /\ g[z] <= f[h[z]]
         /\ Sum(g, RestOf(s)) \in Nat /\ Sum(f, v) \in Nat
    BY <1>1, <2>7, <2>8 DEF Adds
  <2>12. Sum(g, s) = g[z] + Sum(g, RestOf(s))
    BY <2>5, <2>6
  <2> HIDE DEF z, v, T, Over
  <2>13. Sum(g, s) <= Sum(f, u)
    BY <2>9, <2>10, <2>11, <2>12
  <2>14. QED
    BY <2>4, <2>13
<1>3. U \notin Over(S)
  BY <1>2
<1>4. QED
  BY <1>3

\* The sum of two functions is the sum of the sums.
LEMMA SumOfBoth ==
  ASSUME NEW S, NEW f, NEW g, NEW h, Adds(f, S), Adds(g, S), \A x \in S : h[x] = f[x] + g[x]
  PROVE  Sum(h, S) = Sum(f, S) + Sum(g, S)
<1> DEFINE T == {s \in SUBSET S : Sum(h, s) # Sum(f, s) + Sum(g, s)}
<1>1. \A s \in SUBSET S : IsFiniteSet(s) /\ Sum(f, s) \in Nat /\ Sum(g, s) \in Nat
  <2>1. \A s \in SUBSET S : Adds(f, s) /\ Adds(g, s)
    BY FS_Subset DEF Adds
  <2>2. QED
    BY <2>1, SumIsNatural DEF Adds
<1>2. T = {}
  <2>1. SUFFICES ASSUME T # {} PROVE FALSE
    OBVIOUS
  <2>2. PICK s \in T : \A t \in T : t \subseteq s => t = s
    <3>1. T \in SUBSET (SUBSET S) /\ IsFiniteSet(S)
      BY DEF Adds
    <3> HIDE DEF T
    <3>2. QED
      BY <2>1, <3>1, SmallestSet
  <2>3. /\ Sum(f, s) = IF s = {} THEN 0 ELSE f[FirstOf(s)] + Sum(f, RestOf(s))
        /\ Sum(g, s) = IF s = {} THEN 0 ELSE g[FirstOf(s)] + Sum(g, RestOf(s))
        /\ Sum(h, s) = IF s = {} THEN 0 ELSE h[FirstOf(s)] + Sum(h, RestOf(s))
    BY <1>1, SumIs
  <2>4. s # {}
    BY <2>2, <2>3
  <2>5. FirstOf(s) \in S /\ RestOf(s) \in SUBSET S /\ RestOf(s) \notin T
    BY <1>1, <2>2, <2>4, AnyIs
  <2>6. /\ f[FirstOf(s)] \in Nat /\ g[FirstOf(s)] \in Nat /\ h[FirstOf(s)] = f[FirstOf(s)] + g[FirstOf(s)]
        /\ Sum(f, RestOf(s)) \in Nat /\ Sum(g, RestOf(s)) \in Nat
        /\ Sum(h, RestOf(s)) = Sum(f, RestOf(s)) + Sum(g, RestOf(s))
    BY <1>1, <2>5 DEF Adds
  <2>7. Sum(h, s) = Sum(f, s) + Sum(g, s)
    BY <2>3, <2>4, <2>6
  <2>8. QED
    BY <2>2, <2>7
<1>3. QED
  BY <1>2

\* The sizes of finite sets that share nothing add up to the size of their union.
LEMMA SumOfParts ==
  ASSUME NEW D, IsFiniteSet(D), NEW P, NEW c,
         \A d \in D : IsFiniteSet(P[d]) /\ c[d] = Cardinality(P[d]),
         \A d, e \in D : d # e => P[d] \cap P[e] = {},
         NEW all, all = UNION {P[d] : d \in D}
  PROVE  IsFiniteSet(all) /\ Sum(c, D) = Cardinality(all)
<1> DEFINE All(s) == UNION {P[d] : d \in s}
           Good(s) == IsFiniteSet(All(s)) /\ Sum(c, s) = Cardinality(All(s))
           T == {s \in SUBSET D : ~Good(s)}
<1>1. T = {}
  <2>1. SUFFICES ASSUME T # {} PROVE FALSE
    OBVIOUS
  <2>2. PICK s \in T : \A t \in T : t \subseteq s => t = s
    <3>1. T \in SUBSET (SUBSET D)
      OBVIOUS
    <3> HIDE DEF T
    <3>2. QED
      BY <2>1, <3>1, SmallestSet
  <2>3. s \in SUBSET D /\ IsFiniteSet(s) /\ ~Good(s)
    BY FS_Subset
  <2>4. s # {}
    <3>1. SUFFICES ASSUME s = {} PROVE FALSE
      OBVIOUS
    <3>2. All(s) = {}
      BY <3>1
    <3>3. Sum(c, s) = 0
      BY <2>3, <3>1, SumIs
    <3>4. QED
      BY <2>3, <3>2, <3>3, FS_EmptySet
  <2>5. FirstOf(s) \in D /\ FirstOf(s) \in s /\ RestOf(s) \in SUBSET D /\ RestOf(s) \subseteq s
        /\ RestOf(s) # s
    BY <2>3, <2>4, AnyIs
  <2>6. Good(RestOf(s))
    <3> HIDE DEF Good
    <3>1. QED
      BY <2>2, <2>5
  <2>7. All(s) = P[FirstOf(s)] \cup All(RestOf(s))
    <3>1. s = {FirstOf(s)} \cup RestOf(s)
      BY <2>5 DEF RestOf
    <3>2. QED
      BY <3>1, Zenon
  <2>8. P[FirstOf(s)] \cap All(RestOf(s)) = {}
    <3>1. FirstOf(s) \notin RestOf(s)
      BY DEF RestOf
    <3>2. \A e \in RestOf(s) : P[FirstOf(s)] \cap P[e] = {}
      BY <2>5, <3>1
    <3>3. QED
      BY <3>2
  <2>9. IsFiniteSet(P[FirstOf(s)]) /\ c[FirstOf(s)] = Cardinality(P[FirstOf(s)])
    BY <2>5
  <2>10. IsFiniteSet(All(s))
         /\ Cardinality(All(s)) = Cardinality(P[FirstOf(s)]) + Cardinality(All(RestOf(s)))
    <3> HIDE DEF All
    <3>1. Cardinality(P[FirstOf(s)]) \in Nat /\ Cardinality(All(RestOf(s))) \in Nat
      BY <2>6, <2>9, FS_CardinalityType
    <3>2. Cardinality(P[FirstOf(s)] \cap All(RestOf(s))) = 0
      BY <2>8, FS_EmptySet
    <3>3. LET both == P[FirstOf(s)] \cup All(RestOf(s)) IN
            IsFiniteSet(both) /\ Cardinality(both) = Cardinality(P[FirstOf(s)])
              + Cardinality(All(RestOf(s))) - Cardinality(P[FirstOf(s)] \cap All(RestOf(s)))
      <4>1. IsFiniteSet(P[FirstOf(s)]) /\ IsFiniteSet(All(RestOf(s)))
        BY <2>6, <2>9
      <4> HIDE DEF Good
      <4>2. QED
        BY <4>1, FS_Union, Zenon
    <3>4. QED
      BY <2>7, <3>1, <3>2, <3>3
  <2>11. Sum(c, s) = c[FirstOf(s)] + Sum(c, RestOf(s))
    BY <2>3, <2>4, SumIs
  <2> HIDE DEF All
  <2>12. QED
    BY <2>3, <2>6, <2>9, <2>10, <2>11
<1>2. QED
  BY <1>1
=============================================================================
