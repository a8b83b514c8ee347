------------------------------- MODULE FoldProofs -------------------------------
(***************************************************************************)
(* What folds come to. The library's folds are recursive functions over    *)
(* the subsets of a finite set, so there is induction over those first,    *)
(* then recursion, sums over a set, and the positions of a sequence in     *)
(* the order a fold from the left takes them.                              *)
(***************************************************************************)
EXTENDS Integers, SequencesExt, FiniteSetTheorems, SequenceTheorems, WellFoundedInduction, TLAPS

\* A set of naturals that is not empty has a least member.
LEMMA LeastNat ==
    ASSUME NEW T \in SUBSET Nat, T # {}
    PROVE  \E n \in T : \A m \in T : n <= m
  <1>1. PICK n \in T : \A m \in T : ~ (<<m, n>> \in OpToRel(<, Nat))
    BY NatLessThanWellFounded, WFMin
  <1>2. \A m \in T : <<m, n>> \in Nat \X Nat /\ <<m,n>>[1] = m /\ <<m,n>>[2] = n
    OBVIOUS
  <1>3. \A m \in T : ~(m < n)
    BY <1>1, <1>2 DEF OpToRel
  <1> QED
    BY <1>3

\* A set that holds zero and, below N, the successor of each natural it holds, holds
\* the naturals up to N.
LEMMA InductionTo ==
    ASSUME NEW N \in Nat, NEW T, 0 \in T,
           \A n \in 0..N : n \in T /\ n < N => n + 1 \in T
    PROVE  \A n \in 0..N : n \in T
  <1> SUFFICES ASSUME NEW k \in 0..N, k \notin T PROVE FALSE
    OBVIOUS
  <1> DEFINE Out == {n \in 0..N : n \notin T}
  <1>1. Out \in SUBSET Nat /\ Out # {}
    OBVIOUS
  <1>2. PICK n \in Out : \A m \in Out : n <= m
    BY <1>1, LeastNat
  <1>3. n # 0 /\ n \in 0..N
    BY <1>2
  <1>4. n - 1 \in 0..N /\ ~(n <= n - 1) /\ n - 1 < N /\ (n - 1) + 1 = n
    BY <1>3
  <1>5. n - 1 \in T
    BY <1>2, <1>4
  <1> QED
    BY <1>2, <1>4, <1>5

\* With each subset of S the collection T holds the subset that has one element more.
Grows(T, S) ==
    /\ {} \in T
    /\ \A s \in SUBSET S : s # {} => \E x \in s : s \ {x} \in T => s \in T

\* A collection that grows so from the empty set holds every subset of a finite set.
LEMMA InductionOnSubsets ==
    ASSUME NEW S, IsFiniteSet(S), NEW T, Grows(T, S)
    PROVE  \A s \in SUBSET S : s \in T
  <1> SUFFICES ASSUME NEW u \in SUBSET S, u \notin T PROVE FALSE
    OBVIOUS
  <1> DEFINE Out == {s \in SUBSET S : s \notin T}
  <1>1. Out \subseteq SUBSET S /\ Out # {}
    OBVIOUS
  <1>2. IsWellFoundedOn(StrictSubsetOrdering(S), FiniteSubsetsOf(S)) /\ FiniteSubsetsOf(S) = SUBSET S
    BY FS_StrictSubsetOrderingWellFounded, FS_FiniteSubsetsOfFinite, Zenon
  <1>3. \E s \in Out : \A r \in Out : <<r, s>> \notin StrictSubsetOrdering(S)
    <2> HIDE DEF Out
    <2> QED
      BY <1>1, <1>2, WFMin
  <1>4. PICK s \in SUBSET S : s \notin T /\ \A r \in Out : <<r, s>> \notin StrictSubsetOrdering(S)
    BY <1>3, Zenon
  <1>5. s \notin T
    BY <1>4
  <1>6. s # {}
    <2>1. {} \in T
      BY DEF Grows
    <2> QED
      BY <1>5, <2>1
  <1>7. PICK x \in s : s \ {x} \in T => s \in T
    BY <1>6 DEF Grows
  <1> DEFINE r == s \ {x}
  <1>8. r \in Out /\ r \in SUBSET S /\ r \subseteq s /\ r # s
    BY <1>5, <1>7
  <1> HIDE DEF r
  <1>9. <<r, s>> \in (SUBSET S) \X (SUBSET S) /\ <<r, s>>[1] = r /\ <<r, s>>[2] = s
    BY <1>8
  <1>10. <<r, s>> \in StrictSubsetOrdering(S)
    BY <1>8, <1>9 DEF StrictSubsetOrdering
  <1> QED
    BY <1>4, <1>8, <1>10

\* The element taken from each subset is one of its own.
Takes(pick, S) == \A s \in SUBSET S : s # {} => pick[s] \in s

\* f of a subset comes by the step from f of the subset without the element taken.
Unrolls(f, base, step, pick, S) ==
    \A s \in SUBSET S : f[s] = IF s = {} THEN base ELSE step[<<pick[s], f[s \ {pick[s]}]>>]

\* Recursion on the subsets of a finite set defines a function.
LEMMA RecursionOnSubsets ==
    ASSUME NEW S, IsFiniteSet(S), NEW V, NEW base \in V, NEW step \in [S \X V -> V],
           NEW pick, Takes(pick, S)
    PROVE  \E f \in [SUBSET S -> V] : Unrolls(f, base, step, pick, S)
  <1>0. \A s \in SUBSET S : s # {} => pick[s] \in s
    BY DEF Takes
  <1> DEFINE Small(k) == {s \in SUBSET S : Cardinality(s) <= k}
             Recurs(f, k) == \A s \in Small(k) :
                f[s] = IF s = {} THEN base ELSE step[<<pick[s], f[s \ {pick[s]}]>>]
             N == Cardinality(S)
             T == {k \in 0..N : \E f \in [Small(k) -> V] : Recurs(f, k)}
  <1>1. N \in Nat
    BY FS_CardinalityType
  <1>2. \A s \in SUBSET S : IsFiniteSet(s) /\ Cardinality(s) \in Nat /\ Cardinality(s) <= N
    BY FS_Subset, FS_CardinalityType
  <1>3. \A s \in SUBSET S : Cardinality(s) <= 0 <=> s = {}
    BY <1>2, FS_EmptySet
  <1>4. \A s \in SUBSET S : s # {} =>
           s \ {pick[s]} \in SUBSET S /\ Cardinality(s \ {pick[s]}) = Cardinality(s) - 1
    BY <1>0, <1>2, FS_RemoveElement
  <1>5. 0 \in T
    <2> DEFINE f == [s \in Small(0) |-> base]
    <2>1. f \in [Small(0) -> V]
      OBVIOUS
    <2>2. Recurs(f, 0)
      BY <1>3
    <2>3. \E g \in [Small(0) -> V] : Recurs(g, 0)
      BY <2>1, <2>2
    <2> HIDE DEF Small, Recurs, f
    <2> QED
      BY <1>1, <2>3
  <1>6. ASSUME NEW k \in 0..N, k \in T, k < N PROVE k + 1 \in T
    <2>1. PICK f \in [Small(k) -> V] : Recurs(f, k)
      BY <1>6
    <2> DEFINE g == [s \in Small(k + 1) |->
                       IF s = {} THEN base ELSE step[<<pick[s], f[s \ {pick[s]}]>>]]
    <2>2. \A s \in Small(k + 1) : s # {} =>
             s \ {pick[s]} \in Small(k) /\ s \ {pick[s]} \in Small(k + 1)
      BY <1>2, <1>4
    <2>3. \A s \in Small(k) : s \in Small(k + 1) /\ g[s] = f[s]
      <3>1. \A s \in Small(k) : s \in Small(k + 1)
        BY <1>2
      <3> QED
        BY <2>1, <3>1
    <2>4. g \in [Small(k + 1) -> V]
      <3> SUFFICES ASSUME NEW s \in Small(k + 1), s # {}
                   PROVE  step[<<pick[s], f[s \ {pick[s]}]>>] \in V
        OBVIOUS
      <3>1. pick[s] \in S /\ f[s \ {pick[s]}] \in V
        BY <1>0, <2>2
      <3> QED
        BY <3>1
    <2>5. Recurs(g, k + 1)
      BY <2>2, <2>3
    <2>6. \E h \in [Small(k + 1) -> V] : Recurs(h, k + 1)
      BY <2>4, <2>5
    <2>7. k + 1 \in 0..N
      BY <1>1, <1>6
    <2> HIDE DEF Small, Recurs, g, N
    <2> QED
      BY <2>6, <2>7
  <1>7. N \in T
    <2> HIDE DEF T
    <2> QED
      BY <1>1, <1>5, <1>6, InductionTo
  <1>8. Small(N) = SUBSET S
    BY <1>2
  <1> QED
    BY <1>7, <1>8 DEF Unrolls

----------------------------------------------------------------------------
\* The element a sum over a set takes next.
Pick(s) == CHOOSE x \in s : TRUE

\* The sums of f over the subsets of S.
AreSums(sums, f, S) ==
    sums = [s \in SUBSET S |-> IF s = {} THEN 0 ELSE f[Pick(s)] + sums[s \ {Pick(s)}]]

\* A set that is not empty has an element to take.
LEMMA PickFacts ==
    ASSUME NEW s, s # {}
    PROVE  Pick(s) \in s
  BY DEF Pick

\* Of any numbers indexed by a finite set there are sums.
LEMMA SumsExist ==
    ASSUME NEW S, IsFiniteSet(S), NEW f \in [S -> Int]
    PROVE  \E sums : AreSums(sums, f, S)
  <1> DEFINE pick == [s \in SUBSET S |-> Pick(s)]
             step == [q \in S \X Int |-> f[q[1]] + q[2]]
             zero == 0
  <1>1. step \in [S \X Int -> Int]
    OBVIOUS
  <1>2. \A x \in S, v \in Int : step[<<x, v>>] = f[x] + v
    OBVIOUS
  <1>3. \A s \in SUBSET S : pick[s] = Pick(s) /\ (s # {} => pick[s] \in s)
    BY PickFacts
  <1> HIDE DEF step, pick
  <1>4. PICK sums \in [SUBSET S -> Int] : \A s \in SUBSET S :
           sums[s] = IF s = {} THEN 0 ELSE step[<<pick[s], sums[s \ {pick[s]}]>>]
    <2>1. Takes(pick, S)
      BY <1>3 DEF Takes
    <2>2. zero \in Int
      OBVIOUS
    <2> HIDE DEF zero
    <2>3. \E sums \in [SUBSET S -> Int] : Unrolls(sums, zero, step, pick, S)
      BY <1>1, <2>1, <2>2, RecursionOnSubsets
    <2> QED
      BY <2>3 DEF Unrolls, zero
  <1>5. \A s \in SUBSET S :
           sums[s] = IF s = {} THEN 0 ELSE f[Pick(s)] + sums[s \ {Pick(s)}]
    <2> SUFFICES ASSUME NEW s \in SUBSET S, s # {}
                 PROVE  sums[s] = f[Pick(s)] + sums[s \ {Pick(s)}]
      BY <1>4
    <2>1. Pick(s) \in S /\ s \ {Pick(s)} \in SUBSET S /\ pick[s] = Pick(s)
      BY <1>3
    <2>2. sums[s \ {Pick(s)}] \in Int
      BY <2>1
    <2> QED
      BY <1>2, <1>4, <2>1, <2>2
  <1>6. AreSums(sums, f, S)
    BY <1>5 DEF AreSums
  <1> QED
    BY <1>6

\* What the sums are, subset by subset.
LEMMA SumsFacts ==
    ASSUME NEW S, IsFiniteSet(S), NEW f \in [S -> Int], NEW sums, AreSums(sums, f, S)
    PROVE  /\ sums[{}] = 0
           /\ \A s \in SUBSET S : s # {} =>
                /\ Pick(s) \in s
                /\ sums[s] = f[Pick(s)] + sums[s \ {Pick(s)}]
           /\ \A s \in SUBSET S : sums[s] \in Int
  <1> DEFINE T == {s \in SUBSET S : sums[s] \in Int}
  <1>1. \A s \in SUBSET S :
           sums[s] = IF s = {} THEN 0 ELSE f[Pick(s)] + sums[s \ {Pick(s)}]
    BY Zenon DEF AreSums
  <1>2. \A s \in SUBSET S : s # {} => Pick(s) \in s
    BY PickFacts
  <1>3. {} \in T
    <2>1. sums[{}] = 0
      BY <1>1
    <2> QED
      BY <2>1
  <1>4. ASSUME NEW s \in SUBSET S, s # {}
        PROVE  \E x \in s : s \ {x} \in T => s \in T
    <2>1. Pick(s) \in s /\ f[Pick(s)] \in Int
      BY <1>2, <1>4
    <2>2. sums[s] = f[Pick(s)] + sums[s \ {Pick(s)}]
      BY <1>1, <1>4
    <2>3. \A m \in Int : f[Pick(s)] + m \in Int
      BY <2>1
    <2>4. ASSUME s \ {Pick(s)} \in T
          PROVE  s \in T
      BY <2>2, <2>3, <2>4, Zenon
    <2> QED
      BY <2>1, <2>4, Zenon
  <1>5. \A s \in SUBSET S : s \in T
    <2> HIDE DEF T
    <2>1. Grows(T, S)
      BY <1>3, <1>4 DEF Grows
    <2> QED
      BY <2>1, InductionOnSubsets
  <1> QED
    BY <1>1, <1>2, <1>5

\* Sums add up.
LEMMA SumsAdd ==
    ASSUME NEW S, IsFiniteSet(S), NEW f \in [S -> Int], NEW g \in [S -> Int], NEW h \in [S -> Int],
           \A x \in S : h[x] = f[x] + g[x],
           NEW u, AreSums(u, f, S), NEW v, AreSums(v, g, S), NEW w, AreSums(w, h, S)
    PROVE  w[S] = u[S] + v[S]
  <1> DEFINE T == {s \in SUBSET S : w[s] = u[s] + v[s]}
  <1>1. {} \in T
    BY SumsFacts
  <1>2. ASSUME NEW s \in SUBSET S, s # {}
        PROVE  \E x \in s : s \ {x} \in T => s \in T
    <2> DEFINE x == Pick(s)
    <2>1. /\ x \in s /\ x \in S
          /\ w[s] = h[x] + w[s \ {x}]
          /\ u[s] = f[x] + u[s \ {x}]
          /\ v[s] = g[x] + v[s \ {x}]
      BY <1>2, SumsFacts
    <2>2. u[s \ {x}] \in Int /\ v[s \ {x}] \in Int /\ w[s \ {x}] \in Int
      <3>1. s \ {x} \in SUBSET S
        OBVIOUS
      <3> QED
        BY <3>1, SumsFacts
    <2> HIDE DEF x
    <2>4. h[x] = f[x] + g[x] /\ f[x] \in Int /\ g[x] \in Int
      BY <2>1
    <2>5. w[s \ {x}] = u[s \ {x}] + v[s \ {x}] => w[s] = u[s] + v[s]
      BY <2>1, <2>2, <2>4
    <2> QED
      BY <2>1, <2>5
  <1>3. \A s \in SUBSET S : s \in T
    <2> HIDE DEF T
    <2>1. Grows(T, S)
      BY <1>1, <1>2 DEF Grows
    <2> QED
      BY <2>1, InductionOnSubsets
  <1> QED
    BY <1>3

\* A sum with one term is that term.
LEMMA SumOfOne ==
    ASSUME NEW S, IsFiniteSet(S), NEW a \in S, NEW d \in Int, NEW f \in [S -> Int],
           \A x \in S : f[x] = IF x = a THEN d ELSE 0,
           NEW u, AreSums(u, f, S)
    PROVE  u[S] = d
  <1> DEFINE T == {s \in SUBSET S : u[s] = IF a \in s THEN d ELSE 0}
  <1>1. {} \in T
    BY SumsFacts
  <1>2. ASSUME NEW s \in SUBSET S, s # {}
        PROVE  \E x \in s : s \ {x} \in T => s \in T
    <2> DEFINE x == Pick(s)
    <2>1. x \in s /\ x \in S /\ u[s] = f[x] + u[s \ {x}]
      BY <1>2, SumsFacts
    <2> HIDE DEF x
    <2>3. u[s \ {x}] = (IF a \in s \ {x} THEN d ELSE 0) => u[s] = IF a \in s THEN d ELSE 0
      BY <2>1
    <2> QED
      BY <2>1, <2>3
  <1>3. \A s \in SUBSET S : s \in T
    <2> HIDE DEF T
    <2>1. Grows(T, S)
      BY <1>1, <1>2 DEF Grows
    <2> QED
      BY <2>1, InductionOnSubsets
  <1> QED
    BY <1>3

----------------------------------------------------------------------------
\* The last position of a set of them is one of them.
LEMMA MaxFacts ==
    ASSUME NEW N \in Nat, NEW s \in SUBSET (1..N), s # {}
    PROVE  Max(s) \in s /\ \A n \in s : n <= Max(s)
  <1> DEFINE T == {N - n : n \in s}
  <1>1. T \in SUBSET Nat /\ T # {}
    <2>1. \A n \in s : n \in Int /\ n <= N
      OBVIOUS
    <2>2. \A n \in s : N - n \in Nat
      BY <2>1
    <2>3. PICK n \in s : TRUE
      OBVIOUS
    <2> QED
      BY <2>2, <2>3
  <1>2. PICK least \in T : \A m \in T : least <= m
    BY <1>1, LeastNat
  <1>3. PICK top \in s : least = N - top
    BY <1>2
  <1>4. \A n \in s : top >= n
    BY <1>2, <1>3
  <1> QED
    BY <1>4 DEF Max

\* A fold from the left takes the positions in order.
LEMMA Stretches ==
    ASSUME NEW N \in Nat
    PROVE  /\ 1..0 = {}
           /\ \A n \in 0..N : 1..n \in SUBSET (1..N)
           /\ \A n \in 1..N : 1..n # {} /\ Max(1..n) = n /\ (1..n) \ {n} = 1..(n - 1)
  <1>1. ASSUME NEW n \in 1..N PROVE Max(1..n) = n
    <2>1. 1..n \in SUBSET (1..N) /\ 1..n # {} /\ n \in 1..n
      OBVIOUS
    <2>2. Max(1..n) \in 1..n /\ n <= Max(1..n)
      BY <2>1, MaxFacts
    <2> QED
      BY <2>2
  <1>2. 1..0 = {}
    OBVIOUS
  <1>3. \A n \in 0..N : 1..n \in SUBSET (1..N)
    OBVIOUS
  <1>4. \A n \in 1..N : 1..n # {} /\ (1..n) \ {n} = 1..(n - 1)
    OBVIOUS
  <1> QED
    BY <1>1, <1>2, <1>3, <1>4

\* The latest position taken from each set of them.
LastOf(N) == [s \in SUBSET (1..N) |-> Max(s)]

\* A stretch without its last position is the stretch before it.
LEMMA LastTakes ==
    ASSUME NEW N \in Nat
    PROVE  Takes(LastOf(N), 1..N) /\ IsFiniteSet(1..N)
  <1>1. \A s \in SUBSET (1..N) : s # {} => LastOf(N)[s] \in s
    BY MaxFacts DEF LastOf
  <1>2. 1 \in Int /\ N \in Int
    OBVIOUS
  <1> QED
    BY <1>1, <1>2, FS_Interval DEF Takes

----------------------------------------------------------------------------
\* On 0..k, f of a number past the others comes by the step from f of the number before
\* it; the others begin.
Descends(f, k, V, first, past, before, step) ==
    /\ f \in [0..k -> V]
    /\ \A n \in 0..k : f[n] = IF n \in past THEN step[<<n, f[before[n]]>>] ELSE first[n]

\* The way down from past the beginning.
GoesDown(before, past) == \A n \in past : before[n] < n

\* The same on all naturals.
RunsDown(f, first, past, before, step) ==
    \A n \in Nat : f[n] = IF n \in past THEN step[<<n, f[before[n]]>>] ELSE first[n]

\* Recursion on the naturals by any way down defines a function.
LEMMA RecursionDown ==
    ASSUME NEW V, NEW first \in [Nat -> V], NEW past \in SUBSET Nat,
           NEW before \in [Nat -> Nat], GoesDown(before, past),
           NEW step \in [Nat \X V -> V]
    PROVE  \E f \in [Nat -> V] : RunsDown(f, first, past, before, step)
  <1>0. \A n \in past : before[n] < n
    BY DEF GoesDown
  <1> DEFINE D(f, k) == Descends(f, k, V, first, past, before, step)
  <1>1. ASSUME NEW k \in Nat, NEW l \in Nat, k <= l, NEW f, D(f, k), NEW g, D(g, l)
        PROVE  \A n \in 0..k : f[n] = g[n]
    <2> DEFINE Bad == {n \in 0..k : f[n] # g[n]}
    <2> SUFFICES ASSUME Bad # {} PROVE FALSE
      OBVIOUS
    <2>1. Bad \in SUBSET Nat
      OBVIOUS
    <2>2. PICK n \in Bad : \A m \in Bad : n <= m
      <3> HIDE DEF Bad
      <3> QED
        BY <2>1, LeastNat
    <2>3. n \in 0..k /\ n \in 0..l /\ f[n] # g[n] /\ n \in Nat
      BY <1>1
    <2>4. /\ f[n] = IF n \in past THEN step[<<n, f[before[n]]>>] ELSE first[n]
          /\ g[n] = IF n \in past THEN step[<<n, g[before[n]]>>] ELSE first[n]
      BY <1>1, <2>3 DEF Descends
    <2>5. n \in past /\ f[before[n]] # g[before[n]]
      BY <2>3, <2>4
    <2>6. before[n] \in Nat /\ before[n] < n
      BY <1>0, <2>3, <2>5
    <2>7. before[n] \in 0..k
      BY <2>3, <2>6
    <2>8. before[n] \in Bad
      BY <2>5, <2>7
    <2> QED
      BY <2>2, <2>3, <2>6, <2>8
  <1>2. ASSUME NEW k \in Nat, NEW g, k > 0 => D(g, k - 1)
        PROVE  \E f : D(f, k)
    <2> DEFINE x == IF k \in past THEN step[<<k, g[before[k]]>>] ELSE first[k]
               f == [n \in 0..k |-> IF n = k THEN x ELSE g[n]]
    <2>1. k \in past => k > 0 /\ before[k] \in 0..(k - 1)
      BY <1>0
    <2>2. \A n \in 0..(k - 1) :
             /\ k > 0 /\ n \in 0..k /\ n # k /\ f[n] = g[n] /\ g[n] \in V
             /\ g[n] = IF n \in past THEN step[<<n, g[before[n]]>>] ELSE first[n]
      <3> SUFFICES ASSUME NEW n \in 0..(k - 1)
                   PROVE  /\ k > 0 /\ n \in 0..k /\ n # k /\ f[n] = g[n] /\ g[n] \in V
                          /\ g[n] = IF n \in past THEN step[<<n, g[before[n]]>>] ELSE first[n]
        OBVIOUS
      <3>1. k > 0 /\ n \in 0..k /\ n # k
        OBVIOUS
      <3>2. D(g, k - 1)
        BY <1>2, <3>1
      <3>3. f[n] = g[n]
        BY <3>1
      <3> HIDE DEF f
      <3> QED
        BY <3>1, <3>2, <3>3 DEF Descends
    <2>3. x \in V
      <3>1. CASE k \in past
        <4>1. g[before[k]] \in V
          BY <2>1, <2>2, <3>1
        <4> QED
          BY <3>1, <4>1
      <3>2. CASE k \notin past
        BY <3>2
      <3> QED
        BY <3>1, <3>2
    <2>4. \A n \in 0..k : n = k \/ n \in 0..(k - 1)
      OBVIOUS
    <2>5. f \in [0..k -> V] /\ f[k] = x
      <3>1. \A n \in 0..k : (IF n = k THEN x ELSE g[n]) \in V
        <4> HIDE DEF x, f
        <4> QED
          BY <2>2, <2>3, <2>4
      <3> HIDE DEF x
      <3> QED
        BY <3>1
    <2>6. ASSUME NEW n \in 0..k
          PROVE  f[n] = IF n \in past THEN step[<<n, f[before[n]]>>] ELSE first[n]
      <3> HIDE DEF f
      <3>1. CASE n = k
        <4>1. k \in past => f[before[k]] = g[before[k]]
          BY <2>1, <2>2
        <4> QED
          BY <2>5, <3>1, <4>1
      <3>2. CASE n \in 0..(k - 1)
        <4>1. n \in past => before[n] \in 0..(k - 1)
          BY <1>0, <3>2
        <4>2. n \in past => f[before[n]] = g[before[n]]
          BY <2>2, <4>1
        <4> QED
          BY <2>2, <3>2, <4>2
      <3> QED
        BY <2>4, <3>1, <3>2
    <2>7. D(f, k)
      <3> HIDE DEF f
      <3> QED
        BY <2>5, <2>6 DEF Descends
    <2> QED
      BY <2>7
  <1>3. \A k \in Nat : \E f : D(f, k)
    <2> DEFINE Bad == {k \in Nat : ~\E f : D(f, k)}
    <2> HIDE DEF D
    <2> SUFFICES ASSUME Bad # {} PROVE FALSE
      OBVIOUS
    <2>1. PICK k \in Bad : \A m \in Bad : k <= m
      <3>1. Bad \in SUBSET Nat
        OBVIOUS
      <3> HIDE DEF Bad
      <3> QED
        BY <3>1, LeastNat
    <2>2. CASE k = 0
      <3>1. 0 > 0 => D(first, 0 - 1)
        OBVIOUS
      <3>2. \E f : D(f, k)
        BY <1>2, <2>2, <3>1
      <3> QED
        BY <3>2
    <2>3. CASE k > 0
      <3>1. k - 1 \in Nat /\ k - 1 \notin Bad
        BY <2>1, <2>3
      <3>2. PICK g : D(g, k - 1)
        BY <3>1
      <3>3. \E f : D(f, k)
        BY <1>2, <3>2
      <3> QED
        BY <3>3
    <2> QED
      BY <2>2, <2>3
  <1> DEFINE F(k) == CHOOSE f : D(f, k)
             f == [n \in Nat |-> F(n)[n]]
  <1>4. \A k \in Nat : D(F(k), k)
    <2> HIDE DEF D
    <2> QED
      BY <1>3
  <1> HIDE DEF F
  <1>5. f \in [Nat -> V]
    <2>1. \A n \in Nat : n \in 0..n /\ F(n) \in [0..n -> V]
      BY <1>4 DEF Descends
    <2> QED
      BY <2>1
  <1>6. ASSUME NEW n \in Nat
        PROVE  f[n] = IF n \in past THEN step[<<n, f[before[n]]>>] ELSE first[n]
    <2>1. n \in 0..n
      OBVIOUS
    <2>2. F(n)[n] = IF n \in past THEN step[<<n, F(n)[before[n]]>>] ELSE first[n]
      BY <1>4, <2>1 DEF Descends
    <2>3. ASSUME n \in past
          PROVE  F(n)[before[n]] = F(before[n])[before[n]]
      <3>1. before[n] \in Nat /\ before[n] <= n /\ before[n] \in 0..before[n]
        BY <1>0, <2>3
      <3>2. D(F(n), n) /\ D(F(before[n]), before[n])
        BY <1>4, <3>1
      <3> HIDE DEF D
      <3> QED
        BY <1>1, <3>1, <3>2
    <2>4. f[n] = F(n)[n] /\ (n \in past => f[before[n]] = F(before[n])[before[n]])
      OBVIOUS
    <2> HIDE DEF f
    <2> QED
      BY <2>2, <2>3, <2>4
  <1>7. RunsDown(f, first, past, before, step)
    <2> HIDE DEF f
    <2> QED
      BY <1>6 DEF RunsDown
  <1> QED
    BY <1>5, <1>7

----------------------------------------------------------------------------
\* What a fold from the left that adds up the numbers of f comes to, over sets of their
\* positions.
AreTallies(tallies, f) ==
    tallies = [s \in SUBSET DOMAIN f |-> IF s = {} THEN 0 ELSE tallies[s \ {Max(s)}] + f[Max(s)]]

\* What the first n numbers add up to.
Tally(f, n) == (CHOOSE tallies : AreTallies(tallies, f))[1..n]

\* Of any finite sequence of numbers there are tallies.
LEMMA TalliesExist ==
    ASSUME NEW N \in Nat, NEW f \in [1..N -> Int]
    PROVE  \E tallies : AreTallies(tallies, f)
  <1> DEFINE S == 1..N
             pick == LastOf(N)
             step == [q \in S \X Int |-> q[2] + f[q[1]]]
             zero == 0
  <1>1. DOMAIN f = S /\ \A n \in S : f[n] \in Int
    OBVIOUS
  <1>2. step \in [S \X Int -> Int] /\ \A n \in S, v \in Int : step[<<n, v>>] = v + f[n]
    BY <1>1
  <1>3. Takes(pick, S) /\ IsFiniteSet(S) /\ zero \in Int
    BY LastTakes
  <1>4. \A s \in SUBSET S : pick[s] = Max(s) /\ (s # {} => Max(s) \in S)
    BY MaxFacts DEF LastOf
  <1> HIDE DEF step, zero, S, pick
  <1>5. PICK tallies \in [SUBSET S -> Int] : Unrolls(tallies, zero, step, pick, S)
    BY <1>2, <1>3, RecursionOnSubsets
  <1>6. ASSUME NEW s \in SUBSET S
        PROVE  tallies[s] = IF s = {} THEN 0 ELSE tallies[s \ {Max(s)}] + f[Max(s)]
    <2>1. CASE s = {}
      BY <1>5, <2>1 DEF Unrolls, zero
    <2>2. CASE s # {}
      <3>1. tallies[s] = step[<<Max(s), tallies[s \ {Max(s)}]>>]
        BY <1>4, <1>5, <2>2 DEF Unrolls
      <3>2. Max(s) \in S /\ tallies[s \ {Max(s)}] \in Int
        BY <1>4, <1>5, <2>2
      <3> QED
        BY <1>2, <2>2, <3>1, <3>2
    <2> QED
      BY <2>1, <2>2
  <1>7. AreTallies(tallies, f)
    BY <1>1, <1>5, <1>6 DEF AreTallies
  <1> QED
    BY <1>7

\* Tallies begin at zero and grow by a number at a time.
LEMMA TalliesUnroll ==
    ASSUME NEW N \in Nat, NEW f \in [1..N -> Int], NEW tallies, AreTallies(tallies, f)
    PROVE  /\ tallies[1..0] = 0
           /\ \A n \in 1..N : tallies[1..n] = tallies[1..(n - 1)] + f[n]
  <1>1. \A s \in SUBSET (1..N) :
           tallies[s] = IF s = {} THEN 0 ELSE tallies[s \ {Max(s)}] + f[Max(s)]
    <2>1. DOMAIN f = 1..N
      OBVIOUS
    <2> QED
      BY <2>1, Zenon DEF AreTallies
  <1>2. tallies[1..0] = 0
    BY <1>1, Stretches
  <1>3. ASSUME NEW n \in 1..N PROVE tallies[1..n] = tallies[1..(n - 1)] + f[n]
    <2>1. n \in 0..N
      OBVIOUS
    <2>2. 1..n \in SUBSET (1..N) /\ 1..n # {} /\ Max(1..n) = n /\ (1..n) \ {n} = 1..(n - 1)
      BY <2>1, Stretches
    <2>3. tallies[1..n] = tallies[(1..n) \ {Max(1..n)}] + f[Max(1..n)]
      BY <1>1, <2>2, Zenon
    <2> QED
      BY <2>2, <2>3
  <1> QED
    BY <1>2, <1>3

\* The tally does too, and is a number; whatever else are tallies come to the same.
LEMMA TallyFacts ==
    ASSUME NEW N \in Nat, NEW f \in [1..N -> Int]
    PROVE  /\ Tally(f, 0) = 0
           /\ \A n \in 1..N : Tally(f, n) = Tally(f, n - 1) + f[n]
           /\ \A n \in 0..N : Tally(f, n) \in Int
           /\ \A tallies : AreTallies(tallies, f) => tallies[1..N] = Tally(f, N)
  <1> DEFINE sums == CHOOSE tallies : AreTallies(tallies, f)
  <1>1. AreTallies(sums, f)
    BY TalliesExist
  <1>2. \A n \in 0..N : Tally(f, n) = sums[1..n]
    BY DEF Tally
  <1> HIDE DEF sums
  <1>3. Tally(f, 0) = 0
    BY <1>1, <1>2, TalliesUnroll
  <1>4. \A n \in 1..N : Tally(f, n) = Tally(f, n - 1) + f[n]
    <2> SUFFICES ASSUME NEW n \in 1..N PROVE Tally(f, n) = Tally(f, n - 1) + f[n]
      OBVIOUS
    <2>1. n \in 0..N /\ n - 1 \in 0..N
      OBVIOUS
    <2>2. sums[1..n] = sums[1..(n - 1)] + f[n]
      BY <1>1, TalliesUnroll
    <2> QED
      BY <1>2, <2>1, <2>2
  <1>5. \A n \in 0..N : Tally(f, n) \in Int
    <2> DEFINE T == {n \in 0..N : Tally(f, n) \in Int}
    <2>1. 0 \in T
      BY <1>3
    <2>2. ASSUME NEW n \in 0..N, n \in T, n < N PROVE n + 1 \in T
      <3>1. n + 1 \in 1..N /\ (n + 1) - 1 = n /\ n + 1 \in 0..N
        BY <2>2
      <3>2. Tally(f, n + 1) = Tally(f, n) + f[n + 1]
        BY <1>4, <3>1
      <3> QED
        BY <2>2, <3>1, <3>2
    <2> HIDE DEF T
    <2>3. \A n \in 0..N : n \in T
      BY <2>1, <2>2, InductionTo
    <2> QED
      BY <2>3 DEF T
  <1>6. ASSUME NEW tallies, AreTallies(tallies, f) PROVE tallies[1..N] = Tally(f, N)
    <2> DEFINE T == {n \in 0..N : tallies[1..n] = Tally(f, n)}
    <2>1. 0 \in T
      BY <1>3, <1>6, TalliesUnroll
    <2>2. ASSUME NEW n \in 0..N, n \in T, n < N PROVE n + 1 \in T
      <3>1. n + 1 \in 1..N /\ (n + 1) - 1 = n /\ n + 1 \in 0..N
        BY <2>2
      <3>2. Tally(f, n + 1) = Tally(f, n) + f[n + 1]
        BY <1>4, <3>1
      <3>3. tallies[1..(n + 1)] = tallies[1..n] + f[n + 1]
        <4> DEFINE m == n + 1
        <4>1. m \in 1..N /\ m - 1 = n
          BY <3>1
        <4> HIDE DEF m
        <4>2. tallies[1..m] = tallies[1..n] + f[m]
          BY <1>6, <4>1, TalliesUnroll
        <4> QED
          BY <4>2 DEF m
      <3> QED
        BY <2>2, <3>1, <3>2, <3>3
    <2> HIDE DEF T
    <2>3. \A n \in 0..N : n \in T
      BY <2>1, <2>2, InductionTo
    <2> QED
      BY <2>3 DEF T
  <1> QED
    BY <1>3, <1>4, <1>5, <1>6

----------------------------------------------------------------------------
\* What FlattenSeq makes of the first sequences of f.
Flats(flat, f) ==
    flat = [i \in 1..Len(f) |-> IF i = 1 THEN f[i] ELSE flat[i - 1] \o f[i]]

Flat(f, n) == IF n = 0 THEN <<>> ELSE (CHOOSE flat : Flats(flat, f))[n]

\* Of any list of sequences there are such.
LEMMA FlatsExist ==
    ASSUME NEW S, NEW N \in Nat, NEW f \in [1..N -> Seq(S)]
    PROVE  \E flat : Flats(flat, f)
  <1> DEFINE past == {n \in Nat : 1 < n}
             first == [n \in Nat |-> IF n \in 1..N THEN f[n] ELSE <<>>]
             before == [n \in Nat |-> IF n = 0 THEN 0 ELSE n - 1]
             step == [q \in Nat \X Seq(S) |-> q[2] \o first[q[1]]]
  <1>1. <<>> \in Seq(S) /\ \A x, y \in Seq(S) : x \o y \in Seq(S)
    BY EmptySeq, ConcatProperties
  <1>2. first \in [Nat -> Seq(S)] /\ \A n \in 1..N : first[n] = f[n]
    BY <1>1
  <1> HIDE DEF first
  <1>3. step \in [Nat \X Seq(S) -> Seq(S)] /\ \A n \in Nat, x \in Seq(S) : step[<<n, x>>] = x \o first[n]
    BY <1>1, <1>2
  <1>4. before \in [Nat -> Nat] /\ \A n \in past : before[n] = n - 1
    OBVIOUS
  <1>5. GoesDown(before, past) /\ past \in SUBSET Nat
    BY <1>4 DEF GoesDown
  <1>6. PICK g \in [Nat -> Seq(S)] : RunsDown(g, first, past, before, step)
    <2> HIDE DEF past, before, step
    <2> QED
      BY <1>2, <1>3, <1>4, <1>5, RecursionDown
  <1> DEFINE flat == [i \in 1..N |-> g[i]]
  <1>7. ASSUME NEW i \in 1..N
        PROVE  flat[i] = IF i = 1 THEN f[i] ELSE flat[i - 1] \o f[i]
    <2>1. i \in Nat /\ flat[i] = g[i] /\ first[i] = f[i]
      BY <1>2
    <2>2. g[i] = IF i \in past THEN step[<<i, g[before[i]]>>] ELSE first[i]
      BY <1>6, <2>1 DEF RunsDown
    <2>3. CASE i = 1
      <3>1. i \notin past
        BY <2>3
      <3> QED
        BY <2>1, <2>2, <2>3, <3>1
    <2>4. CASE i # 1
      <3>1. i \in past /\ i - 1 \in 1..N /\ i - 1 \in Nat
        BY <2>4
      <3>2. before[i] = i - 1 /\ flat[i - 1] = g[i - 1] /\ g[i - 1] \in Seq(S)
        BY <1>4, <3>1
      <3>3. step[<<i, g[i - 1]>>] = g[i - 1] \o f[i]
        BY <1>3, <2>1, <3>2
      <3> HIDE DEF flat, step, before, past
      <3> QED
        BY <2>1, <2>2, <2>4, <3>1, <3>2, <3>3
    <2> QED
      BY <2>3, <2>4
  <1>8. Len(f) = N
    OBVIOUS
  <1>9. flat = [i \in 1..N |-> IF i = 1 THEN f[i] ELSE flat[i - 1] \o f[i]]
    <2>1. flat = [i \in 1..N |-> flat[i]]
      OBVIOUS
    <2> HIDE DEF flat
    <2> QED
      BY <1>7, <2>1
  <1> HIDE DEF flat
  <1> QED
    BY <1>8, <1>9 DEF Flats

\* They are sequences, each the one before with the next after it, and the last is the
\* whole list.
LEMMA FlatFacts ==
    ASSUME NEW S, NEW N \in Nat, NEW f \in [1..N -> Seq(S)]
    PROVE  /\ Flat(f, 0) = <<>>
           /\ \A n \in 1..N : Flat(f, n) = Flat(f, n - 1) \o f[n]
           /\ \A n \in 0..N : Flat(f, n) \in Seq(S)
           /\ FlattenSeq(f) = Flat(f, N)
  <1> DEFINE flat == CHOOSE flat : Flats(flat, f)
  <1>1. Len(f) = N /\ f \in Seq(Seq(S))
    OBVIOUS
  <1>2. Flats(flat, f)
    BY FlatsExist
  <1>3. \A n \in 1..N : Flat(f, n) = flat[n]
    BY DEF Flat
  <1>4. Flat(f, 0) = <<>>
    BY DEF Flat
  <1>5. FlattenSeq(f) = Flat(f, N)
    <2>1. CASE N = 0
      <3>1. f = <<>>
        BY <1>1, <2>1, EmptySeq
      <3>2. FlattenSeq(f) = f
        BY <1>1, <2>1 DEF FlattenSeq
      <3> QED
        BY <1>4, <2>1, <3>1, <3>2
    <2>2. CASE N # 0
      <3>1. FlattenSeq(f) = flat[Len(f)]
        BY <1>1, <2>2 DEF FlattenSeq, Flats
      <3>2. N \in 1..N
        BY <2>2
      <3> HIDE DEF flat
      <3> QED
        BY <1>1, <1>3, <3>1, <3>2
    <2> QED
      BY <2>1, <2>2
  <1> HIDE DEF flat
  <1>6. \A n \in 1..N : flat[n] = IF n = 1 THEN f[n] ELSE flat[n - 1] \o f[n]
    BY <1>1, <1>2 DEF Flats
  <1>7. <<>> \in Seq(S) /\ \A x, y \in Seq(S) : x \o y \in Seq(S) /\ <<>> \o x = x
    BY EmptySeq, ConcatProperties, ConcatEmptySeq
  <1>8. \A n \in 1..N : Flat(f, n) = Flat(f, n - 1) \o f[n]
    <2> SUFFICES ASSUME NEW n \in 1..N PROVE Flat(f, n) = Flat(f, n - 1) \o f[n]
      OBVIOUS
    <2>1. CASE n = 1
      <3>1. Flat(f, n) = f[n] /\ Flat(f, n - 1) = <<>> /\ f[n] \in Seq(S)
        BY <1>3, <1>4, <1>6, <2>1
      <3> QED
        BY <1>7, <3>1
    <2>2. CASE n # 1
      <3>1. n - 1 \in 1..N
        BY <2>2
      <3> QED
        BY <1>3, <1>6, <2>2, <3>1
    <2> QED
      BY <2>1, <2>2
  <1>9. \A n \in 0..N : Flat(f, n) \in Seq(S)
    <2> DEFINE T == {n \in 0..N : Flat(f, n) \in Seq(S)}
    <2>1. 0 \in T
      <3>1. Flat(f, 0) \in Seq(S)
        BY <1>4, <1>7, Zenon
      <3> QED
        BY <3>1
    <2>2. ASSUME NEW n \in 0..N, n \in T, n < N PROVE n + 1 \in T
      <3>1. n + 1 \in 1..N /\ (n + 1) - 1 = n /\ n + 1 \in 0..N
        BY <2>2
      <3>2. Flat(f, n + 1) = Flat(f, n) \o f[n + 1]
        BY <1>8, <3>1
      <3>3. Flat(f, n) \in Seq(S) /\ f[n + 1] \in Seq(S)
        BY <2>2, <3>1
      <3>4. Flat(f, n + 1) \in Seq(S)
        BY <1>7, <3>2, <3>3
      <3> QED
        BY <3>1, <3>4
    <2> HIDE DEF T
    <2>3. \A n \in 0..N : n \in T
      BY <2>1, <2>2, InductionTo
    <2> QED
      BY <2>3 DEF T
  <1> QED
    BY <1>4, <1>5, <1>8, <1>9

\* The rows of f one after another, at their places.
FlatAt(f, N) ==
    /\ Len(Flat(f, 0)) = 0 /\ Len(Flat(f, N)) = Len(FlattenSeq(f))
    /\ \A n \in 0..N : Len(Flat(f, n)) \in Nat
    /\ \A n \in 1..N : Len(Flat(f, n)) = Len(Flat(f, n - 1)) + Len(f[n])
    /\ \A n \in 1..N : \A j \in 1..Len(f[n]) :
          /\ Len(Flat(f, n - 1)) + j \in 1..Len(FlattenSeq(f))
          /\ FlattenSeq(f)[Len(Flat(f, n - 1)) + j] = f[n][j]

\* Each member of each sequence of a list has its place in the whole.
LEMMA FlatPlaces ==
    ASSUME NEW S, NEW N \in Nat, NEW f \in [1..N -> Seq(S)]
    PROVE  FlatAt(f, N)
  <1> DEFINE K(n) == Len(Flat(f, n))
             Holds(m) == \A n \in 1..m : \A j \in 1..Len(f[n]) :
                            K(n - 1) + j \in 1..K(m) /\ Flat(f, m)[K(n - 1) + j] = f[n][j]
             T == {m \in 0..N : Holds(m)}
  <1>1. /\ Flat(f, 0) = <<>> /\ FlattenSeq(f) = Flat(f, N)
        /\ \A n \in 1..N : Flat(f, n) = Flat(f, n - 1) \o f[n]
        /\ \A n \in 0..N : Flat(f, n) \in Seq(S)
    BY FlatFacts
  <1>2. \A n \in 0..N : K(n) \in Nat
    BY <1>1, LenProperties
  <1>3. \A n \in 1..N :
           /\ n - 1 \in 0..N /\ n \in 0..N /\ Len(f[n]) \in Nat /\ K(n) = K(n - 1) + Len(f[n])
           /\ \A i \in 1..K(n) : Flat(f, n)[i] = IF i <= K(n - 1) THEN Flat(f, n - 1)[i]
                                                                 ELSE f[n][i - K(n - 1)]
    <2> TAKE n \in 1..N
    <2>1. n - 1 \in 0..N /\ n \in 0..N /\ f[n] \in Seq(S)
      OBVIOUS
    <2>2. Flat(f, n) = Flat(f, n - 1) \o f[n] /\ Flat(f, n - 1) \in Seq(S)
      BY <1>1, <2>1
    <2> QED
      BY <2>1, <2>2, ConcatProperties, LenProperties
  <1> HIDE DEF K
  <1>4. 0 \in T
    OBVIOUS
  <1>5. ASSUME NEW m \in 0..N, m \in T, m < N PROVE m + 1 \in T
    <2> DEFINE l == m + 1
    <2>1. l \in 1..N /\ l - 1 = m /\ l \in 0..N
      BY <1>5
    <2> HIDE DEF l
    <2>2. /\ K(l) = K(m) + Len(f[l]) /\ K(m) \in Nat /\ Len(f[l]) \in Nat
          /\ \A i \in 1..K(l) : Flat(f, l)[i] = IF i <= K(m) THEN Flat(f, m)[i] ELSE f[l][i - K(m)]
      BY <1>2, <1>3, <2>1
    <2>3. ASSUME NEW n \in 1..l, NEW j \in 1..Len(f[n])
          PROVE  K(n - 1) + j \in 1..K(l) /\ Flat(f, l)[K(n - 1) + j] = f[n][j]
      <3>1. CASE n = l
        <4>1. K(m) + j \in 1..K(l) /\ ~(K(m) + j <= K(m)) /\ (K(m) + j) - K(m) = j
          BY <2>2, <3>1
        <4> QED
          BY <2>1, <2>2, <3>1, <4>1
      <3>2. CASE n # l
        <4>1. n \in 1..m
          BY <2>1, <3>2
        <4> DEFINE i == K(n - 1) + j
        <4>2. i \in 1..K(m) /\ Flat(f, m)[i] = f[n][j]
          BY <1>5, <4>1
        <4> HIDE DEF i
        <4>3. i \in 1..K(l) /\ i <= K(m)
          BY <2>2, <4>2
        <4>4. i \in 1..K(l) /\ Flat(f, l)[i] = f[n][j]
          BY <2>2, <4>2, <4>3
        <4> QED
          BY <4>4 DEF i
      <3> QED
        BY <3>1, <3>2
    <2>4. Holds(l)
      BY <2>3
    <2> HIDE DEF Holds
    <2> QED
      BY <2>1, <2>4 DEF l
  <1>6. Holds(N)
    <2> HIDE DEF T
    <2>1. \A m \in 0..N : m \in T
      BY <1>4, <1>5, InductionTo
    <2> QED
      BY <2>1 DEF T
  <1> QED
    BY <1>1, <1>2, <1>3, <1>6, EmptySeq DEF FlatAt, K
================================================================================
