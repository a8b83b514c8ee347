--------------------------- MODULE LedgerBookProofs ----------------------------
(***************************************************************************)
(* Theorems about whole transactions: none is ever seen in part, and the   *)
(* balances of the book cancel out. They count and add up, with the sums   *)
(* of FoldProofs. Then: Ledger implements Book, every step of the          *)
(* concurrent write path maps to a step of the atomic ledger or to none,   *)
(* for any accounts, drafts, calls, instances, pool and clock.             *)
(***************************************************************************)
EXTENDS LedgerRefinesBook, LedgerProofs, FoldProofs

\* The amounts of a draft's legs, and what the first n come to.
AmountsOf(p) == [n \in DOMAIN p |-> p[n].amount]
Drift(p, n) == Tally(AmountsOf(p), n)

\* The legs of a draft have accounts and whole amounts.
LEMMA PostingsFacts ==
    ASSUME NEW p \in Seq(PostingDraft)
    PROVE  /\ Len(p) \in Nat
           /\ DOMAIN p = 1..Len(p)
           /\ \A n \in 1..Len(p) : p[n].amount \in Int /\ p[n].account \in Accounts
  <1>1. Len(p) \in Nat /\ DOMAIN p = 1..Len(p) /\ \A n \in 1..Len(p) : p[n] \in PostingDraft
    OBVIOUS
  <1> QED
    BY <1>1 DEF PostingDraft

\* The amounts add up leg by leg, and to what SumsToZero looks at.
LEMMA DriftFacts ==
    ASSUME NEW p \in Seq(PostingDraft)
    PROVE  /\ Drift(p, 0) = 0
           /\ \A n \in 1..Len(p) : Drift(p, n) = Drift(p, n - 1) + p[n].amount
           /\ \A n \in 0..Len(p) : Drift(p, n) \in Int
           /\ SumsToZero(p) <=> Drift(p, Len(p)) = 0
  <1> DEFINE N == Len(p)
             f == AmountsOf(p)
  <1>1. N \in Nat /\ DOMAIN p = 1..N /\ f \in [1..N -> Int] /\ \A n \in 1..N : f[n] = p[n].amount
    BY PostingsFacts DEF AmountsOf
  <1> HIDE DEF f, N
  <1>2. /\ Tally(f, 0) = 0
        /\ \A n \in 1..N : Tally(f, n) = Tally(f, n - 1) + f[n]
        /\ \A n \in 0..N : Tally(f, n) \in Int
    BY <1>1, TallyFacts
  <1> DEFINE Legs(u) == [s \in SUBSET DOMAIN p |-> IF s = {} THEN 0 ELSE u[s \ {Max(s)}] + p[Max(s)].amount]
             Added(u) == [s \in SUBSET DOMAIN f |-> IF s = {} THEN 0 ELSE u[s \ {Max(s)}] + f[Max(s)]]
  <1>3. SumsToZero(p) <=> (CHOOSE u : u = Legs(u))[1..N] = 0
    BY <1>1 DEF SumsToZero, FoldLeft, MapThenFoldSet
  <1>5. \A u : Legs(u) = Added(u)
    <2>1. \A s \in SUBSET (1..N) : s # {} => Max(s) \in 1..N
      BY <1>1, MaxFacts
    <2> QED
      BY <1>1, <2>1
  <1>6. PICK tallies : tallies = Added(tallies)
    BY <1>1, TalliesExist DEF AreTallies
  <1>7. \A u : u = Added(u) => u[1..N] = Tally(f, N)
    BY <1>1, TallyFacts DEF AreTallies
  <1> HIDE DEF Legs, Added
  <1>8. (CHOOSE u : u = Legs(u)) = Added(CHOOSE u : u = Legs(u))
    BY <1>5, <1>6, Zenon
  <1>9. SumsToZero(p) <=> Tally(f, N) = 0
    BY <1>3, <1>7, <1>8, Zenon
  <1> QED
    BY <1>1, <1>2, <1>9 DEF Drift, f, N

----------------------------------------------------------------------------
\* What a call has of the book and of its own is as it was, but for the end of a call
\* that holds nothing.
Undisturbed(d) ==
    /\ \/ pc'[d] = pc[d]
       \/ pc[d] = "check" /\ pc'[d] = "begin"
       \/ pc[d] \notin {"lock", "post"} /\ pc'[d] = "done"
    /\ request' = request
    /\ leg'[d] = leg[d] /\ date'[d] = date[d] /\ held'[d] = held[d]
    /\ \A a \in held[d] : book'[a] = book[a] /\ tentative'[a] = tentative[a]

\* A step is a call's own or leaves the call undisturbed: the rows it holds are
\* written by nobody else.
LEMMA StepsOf ==
    ASSUME TypeOK, LocksInv, [Next]_vars, NEW d \in Calls
    PROVE  \/ Undisturbed(d)
           \/ RolledBack(d) \/ Begin(d) \/ LockRow(d) \/ InsertTransaction(d)
           \/ PostLeg(d) \/ Commit(d)
  <1> USE DEF callers, locals, tables
  <1>1. CASE Quiet
    BY <1>1 DEF Quiet, Undisturbed
  <1>2. ASSUME NEW c \in Calls, c # d, RolledBack(c) PROVE Undisturbed(d)
    BY <1>2 DEF RolledBack, Rollback, Undisturbed, LocksInv, TypeOK
  <1>3. ASSUME NEW c \in Calls, c # d, Begin(c) PROVE Undisturbed(d)
    BY <1>3 DEF Begin, Goto, Undisturbed, TypeOK
  <1>4. ASSUME NEW c \in Calls, c # d, LockRow(c) PROVE Undisturbed(d)
    BY <1>4 DEF LockRow, RowFree, Undisturbed, TypeOK
  <1>5. ASSUME NEW c \in Calls, c # d, InsertTransaction(c) PROVE Undisturbed(d)
    BY <1>5 DEF InsertTransaction, Goto, Undisturbed, TypeOK
  <1>6. ASSUME NEW c \in Calls, c # d, PostLeg(c) PROVE Undisturbed(d)
    <2>1. Leg(c).account \in held[c]
      BY <1>6, LegRowType DEF PostLeg, LegsLeft, LocksInv
    <2>2. Leg(c).account \notin held[d]
      BY <1>6, <2>1 DEF LocksInv
    <2> QED
      BY <1>6, <2>2 DEF PostLeg, Undisturbed, TypeOK
  <1>7. ASSUME NEW c \in Calls, c # d, Commit(c) PROVE Undisturbed(d)
    BY <1>7 DEF Commit, Reply, Goto, Undisturbed, LocksInv, TypeOK
  <1> QED
    BY <1>1, <1>2, <1>3, <1>4, <1>5, <1>6, <1>7, StepKinds

\* The rows change only when a call commits, and then to what it has written.
LEMMA BookMoves ==
    ASSUME TypeOK, [Next]_vars
    PROVE  \/ UNCHANGED <<book, transactions>>
           \/ \E c \in Calls : Commit(c)
  BY StepKinds
  DEF Quiet, RolledBack, Begin, LockRow, InsertTransaction, PostLeg, callers, locals, tables

\* The counting of a draft's legs on an account.
LEMMA LegsOnFacts ==
    ASSUME NEW draft \in Drafts, NEW a
    PROVE  /\ LegsOn(draft, a, 0) = 0
           /\ \A n \in 0..Len(draft.postings) : LegsOn(draft, a, n) \in Nat
           /\ \A n \in 1..Len(draft.postings) :
                 LegsOn(draft, a, n) = LegsOn(draft, a, n - 1)
                    + (IF draft.postings[n].account = a THEN 1 ELSE 0)
  <1> DEFINE p == draft.postings
             On(n) == {i \in 1 .. n : p[i].account = a}
  <1>1. Len(p) \in Nat
    BY DraftTypes
  <1>2. On(0) = {}
    OBVIOUS
  <1>3. \A n \in 0..Len(p) : IsFiniteSet(On(n)) /\ Cardinality(On(n)) \in Nat
    <2> SUFFICES ASSUME NEW n \in 0..Len(p) PROVE IsFiniteSet(On(n)) /\ Cardinality(On(n)) \in Nat
      OBVIOUS
    <2>1. IsFiniteSet(1..n)
      BY FS_Interval
    <2>2. On(n) \subseteq 1..n
      OBVIOUS
    <2> QED
      BY <2>1, <2>2, FS_Subset, FS_CardinalityType
  <1>4. ASSUME NEW n \in 1..Len(p)
        PROVE  Cardinality(On(n)) = Cardinality(On(n - 1)) + (IF p[n].account = a THEN 1 ELSE 0)
    <2>1. n - 1 \in 0..Len(p) /\ n \notin On(n - 1)
      BY <1>1
    <2>2. CASE p[n].account = a
      <3>1. On(n) = On(n - 1) \cup {n}
        BY <1>1, <2>2
      <3> QED
        BY <1>3, <2>1, <2>2, <3>1, FS_AddElement
    <2>3. CASE p[n].account # a
      <3>1. On(n) = On(n - 1)
        BY <1>1, <2>3
      <3>2. Cardinality(On(n - 1)) \in Nat
        BY <1>3, <2>1
      <3> HIDE DEF On
      <3> QED
        BY <2>3, <3>1, <3>2
    <2> QED
      BY <2>2, <2>3
  <1>5. \A n : LegsOn(draft, a, n) = Cardinality(On(n))
    BY DEF LegsOn
  <1>6. Cardinality(On(0)) = 0
    BY <1>2, FS_EmptySet
  <1> HIDE DEF On
  <1> QED
    BY <1>3, <1>4, <1>5, <1>6

\* The count grows with the legs, and reaches every leg on the account.
LEMMA LegsOnGrows ==
    ASSUME NEW draft \in Drafts, NEW a, NEW m \in 0..Len(draft.postings)
    PROVE  \A n \in 0..m : LegsOn(draft, a, n) <= LegsOn(draft, a, m)
  <1> DEFINE N == Len(draft.postings)
             T == {k \in 0..m : \A n \in 0..k : LegsOn(draft, a, n) <= LegsOn(draft, a, k)}
  <1>1. N \in Nat
    BY DraftTypes
  <1>2. \A n \in 0..N : LegsOn(draft, a, n) \in Nat
    BY LegsOnFacts
  <1>3. 0 \in T
    BY <1>1, <1>2
  <1>4. ASSUME NEW k \in 0..m, k \in T, k < m PROVE k + 1 \in T
    <2>1. k + 1 \in 1..N /\ (k + 1) - 1 = k
      BY <1>1, <1>4
    <2>2. LegsOn(draft, a, k) <= LegsOn(draft, a, k + 1)
      <3>1. LegsOn(draft, a, k + 1) = LegsOn(draft, a, k)
                    + (IF draft.postings[k + 1].account = a THEN 1 ELSE 0)
        <4>1. \A i \in 1..N : LegsOn(draft, a, i) = LegsOn(draft, a, i - 1)
                    + (IF draft.postings[i].account = a THEN 1 ELSE 0)
          BY LegsOnFacts
        <4> QED
          BY <2>1, <4>1
      <3> QED
        BY <1>1, <1>2, <2>1, <3>1
    <2>3. \A n \in 0..(k + 1) : n \in 0..k \/ n = k + 1
      BY <1>1
    <2>4. ASSUME NEW n \in 0..(k + 1) PROVE LegsOn(draft, a, n) <= LegsOn(draft, a, k + 1)
      <3>1. LegsOn(draft, a, n) \in Nat /\ LegsOn(draft, a, k) \in Nat /\ LegsOn(draft, a, k + 1) \in Nat
        BY <1>1, <1>2, <1>4
      <3>2. CASE n \in 0..k
        <4>1. LegsOn(draft, a, n) <= LegsOn(draft, a, k)
          BY <1>4, <3>2
        <4> QED
          BY <2>2, <3>1, <4>1
      <3> QED
        BY <2>3, <3>1, <3>2
    <2> QED
      BY <1>1, <1>4, <2>4
  <1>5. m \in T
    <2> HIDE DEF T
    <2>1. \A k \in 0..m : k \in T
      BY <1>1, <1>3, <1>4, InductionTo
    <2> QED
      BY <1>1, <2>1
  <1> QED
    BY <1>5

\* A draft has legs exactly on the accounts it touches.
LEMMA LegsOnTouched ==
    ASSUME NEW draft \in Drafts, NEW a
    PROVE  IF a \in Touched(draft)
             THEN LegsOn(draft, a, Len(draft.postings)) >= 1
             ELSE \A n \in 0..Len(draft.postings) : LegsOn(draft, a, n) = 0
  <1> DEFINE N == Len(draft.postings)
  <1>1. N \in Nat /\ DOMAIN draft.postings = 1..N
    BY DraftTypes
  <1>2. CASE a \in Touched(draft)
    <2>1. PICK n \in 1..N : draft.postings[n].account = a
      BY <1>1, <1>2 DEF Touched
    <2>0. /\ \A i \in 0..N : LegsOn(draft, a, i) \in Nat
          /\ \A i \in 1..N : LegsOn(draft, a, i) = LegsOn(draft, a, i - 1)
                + (IF draft.postings[i].account = a THEN 1 ELSE 0)
      BY LegsOnFacts
    <2>2. LegsOn(draft, a, n) = LegsOn(draft, a, n - 1) + 1 /\ n - 1 \in 0..N /\ n \in 0..N
      BY <1>1, <2>0, <2>1
    <2>3. LegsOn(draft, a, n - 1) \in Nat /\ LegsOn(draft, a, N) \in Nat /\ N \in 0..N
      BY <1>1, <2>0, <2>2
    <2>4. LegsOn(draft, a, n) <= LegsOn(draft, a, N)
      BY <2>2, <2>3, LegsOnGrows
    <2> QED
      BY <1>2, <2>2, <2>3, <2>4
  <1>3. CASE a \notin Touched(draft)
    <2>1. ASSUME NEW n \in 0..N PROVE LegsOn(draft, a, n) = 0
      <3>1. {i \in 1 .. n : draft.postings[i].account = a} = {}
        BY <1>1, <1>3 DEF Touched
      <3> QED
        BY <3>1, FS_EmptySet DEF LegsOn
    <2> QED
      BY <1>3, <2>1
  <1> QED
    BY <1>2, <1>3

\* The parts of LegsInv, of one call.
LegsOf(c) ==
    /\ pc[c] \in {"check", "begin", "lock"} => leg[c] = 1
    /\ pc[c] = "lock" => \A a \in held[c] :
          /\ tentative[a].register = book[a].register
          /\ tentative[a].balance = book[a].balance
    /\ pc[c] = "post" =>
          /\ leg[c] <= Len(request[c].postings) + 1
          /\ \A a \in held[c] : PostedSoFar(c, a)

\* LegsInv, call by call.
LEMMA LegsParts == LegsInv <=> \A c \in Calls : LegsOf(c)
  BY DEF LegsInv, LegsOf

\* No call has posted anything at first.
LEMMA InitLegs == Init => LegsInv
  BY DEF Init, LegsInv

\* A call that leaves the lock loop has posted none of its legs.
LEMMA NothingPostedYet ==
    ASSUME TypeOK, NEW c \in Calls, LegsOf(c), pc[c] = "lock", NEW a \in held[c]
    PROVE  PostedSoFar(c, a)
  <1>1. request[c] \in Drafts /\ a \in Accounts
    BY DEF TypeOK
  <1>2. leg[c] - 1 = 0 /\ tentative[a].register = book[a].register
    BY DEF LegsOf
  <1>3. LegsOn(request[c], a, 0) = 0 /\ Len(book[a].register) \in Nat
    BY <1>1, LegsOnFacts, RegisterTypes
  <1> QED
    BY <1>2, <1>3 DEF PostedSoFar

\* A turn of the postings loop posts one leg more, where it belongs.
LEMMA OnePostedMore ==
    ASSUME TypeOK, LocksInv, TraceInv, NEW c \in Calls, LegsOf(c), PostLeg(c)
    PROVE  LegsOf(c)'
  <1> USE DEF callers
  <1> DEFINE p == request[c].postings
             n == leg[c]
             b == Leg(c).account
  <1>1. /\ request[c] \in Drafts /\ Len(p) \in Nat
        /\ n \in 1..Len(p) /\ n - 1 \in 0..Len(p)
        /\ pc[c] = "post" /\ LegsLeft(c)
        /\ p[n] = Leg(c)
    BY DraftTypes DEF TypeOK, PostLeg, LegsLeft, Leg
  <1>2. /\ leg'[c] = n + 1 /\ pc' = pc /\ held' = held /\ request' = request /\ book' = book
        /\ tentative' = [tentative EXCEPT ![b] = LegRow(c)]
    BY DEF PostLeg, TypeOK, tables
  <1>3. ASSUME NEW a \in held[c] PROVE PostedSoFar(c, a)'
    <2> DEFINE before == Len(book[a].register)
               On(k) == LegsOn(request[c], a, k)
    <2>1. /\ a \in Accounts /\ before \in Nat /\ PostedSoFar(c, a)
          /\ Len(tentative[a].register) \in Nat
          /\ DOMAIN tentative[a].register = 1..Len(tentative[a].register)
      BY <1>1, RegisterTypes DEF TypeOK, LegsOf
    <2>2. /\ \A k \in 0..Len(p) : On(k) \in Nat
          /\ \A k \in 1..Len(p) : On(k) = On(k - 1) + (IF p[k].account = a THEN 1 ELSE 0)
      BY <1>1, LegsOnFacts
    <2>3. \A k \in 0..(n - 1) : On(k) <= On(n - 1)
      BY <1>1, LegsOnGrows
    <2>4. /\ Len(tentative[a].register) = before + On(n - 1)
          /\ \A k \in 1..(n - 1) : p[k].account = a =>
                tentative[a].register[before + On(k)].amount = p[k].amount
      BY <2>1 DEF PostedSoFar
    <2> SUFFICES /\ Len(tentative'[a].register) = before + On(n)
                 /\ \A k \in 1..n : p[k].account = a =>
                       tentative'[a].register[before + On(k)].amount = p[k].amount
      BY <1>1, <1>2 DEF PostedSoFar
    <2> HIDE DEF On, before, p, n
    <2>5. CASE a = b
      <3>1. tentative'[a] = LegRow(c)
        BY <1>2, <2>1, <2>5 DEF TypeOK
      <3>2. /\ Len(LegRow(c).register) = Len(tentative[a].register) + 1
            /\ \A i \in DOMAIN tentative[a].register :
                  LegRow(c).register[i] = tentative[a].register[i]
            /\ LegRow(c).register[Len(tentative[a].register) + 1].amount = p[n].amount
        BY <1>1, <2>5, LegRowFacts DEF b
      <3>3. p[n].account = a /\ On(n) = On(n - 1) + 1
        BY <1>1, <2>2, <2>5
      <3>4. On(n - 1) \in Nat
        BY <1>1, <2>2
      <3>5. Len(tentative'[a].register) = before + On(n)
        BY <2>1, <2>4, <3>1, <3>2, <3>3, <3>4
      <3>6. ASSUME NEW k \in 1..n, p[k].account = a
            PROVE  tentative'[a].register[before + On(k)].amount = p[k].amount
        <4>1. CASE k = n
          BY <2>1, <2>4, <3>1, <3>2, <3>3, <3>4, <4>1
        <4>2. CASE k # n
          <5>1. k \in 1..(n - 1) /\ k \in 0..(n - 1) /\ k \in 1..Len(p) /\ k - 1 \in 0..Len(p)
            BY <1>1, <4>2
          <5>2. On(k) = On(k - 1) + 1 /\ On(k - 1) \in Nat /\ On(k) <= On(n - 1)
            BY <2>2, <2>3, <3>6, <5>1
          <5>3. before + On(k) \in DOMAIN tentative[a].register
            BY <2>1, <2>4, <3>4, <5>2
          <5> QED
            BY <2>4, <3>1, <3>2, <3>6, <5>1, <5>3
        <4> QED
          BY <4>1, <4>2
      <3> QED
        BY <3>5, <3>6
    <2>6. CASE a # b
      <3>1. tentative'[a] = tentative[a]
        BY <1>2, <2>1, <2>6 DEF TypeOK
      <3>2. p[n].account # a /\ On(n) = On(n - 1)
        <4>1. p[n].account # a
          BY <1>1, <2>6
        <4>2. On(n) = On(n - 1) + 0 /\ On(n - 1) \in Nat
          BY <1>1, <2>2, <4>1
        <4> QED
          BY <4>1, <4>2
      <3>3. \A k \in 1..n : k # n => k \in 1..(n - 1)
        BY <1>1
      <3> QED
        BY <2>4, <3>1, <3>2, <3>3
    <2> QED
      BY <2>5, <2>6
  <1>4. n + 1 <= Len(p) + 1
    BY <1>1
  <1> HIDE DEF p, n
  <1>5. leg'[c] <= Len(request'[c].postings) + 1
    BY <1>2, <1>4 DEF p
  <1> QED
    BY <1>1, <1>2, <1>3, <1>5 DEF LegsOf

\* Every step keeps what the calls have posted so far.
LEMMA NextLegs == TypeOK /\ LocksInv /\ TraceInv /\ LegsInv /\ [Next]_vars => LegsInv'
  <1> SUFFICES ASSUME TypeOK, LocksInv, TraceInv, LegsInv, [Next]_vars, NEW c \in Calls
               PROVE  LegsOf(c)'
    BY DEF LegsInv, LegsOf
  <1> USE DEF callers, locals, tables
  <1>0. LegsOf(c)
    BY LegsParts
  <1>1. CASE Undisturbed(c)
    <2>1. \A a \in held[c] : PostedSoFar(c, a)' <=> PostedSoFar(c, a)
      BY <1>1 DEF Undisturbed, PostedSoFar
    <2> QED
      BY <1>0, <1>1, <2>1 DEF Undisturbed, LegsOf
  <1>2. CASE RolledBack(c)
    BY <1>2 DEF RolledBack, LegsOf
  <1>3. CASE Begin(c)
    <2>1. held'[c] = {} /\ leg'[c] = leg[c] /\ pc[c] = "begin" /\ pc'[c] = "lock"
      BY <1>3 DEF Begin, Goto, LocksInv, TypeOK
    <2> QED
      BY <1>0, <2>1 DEF LegsOf
  <1>4. CASE LockRow(c)
    <2>1. PICK b \in Accounts :
            /\ pc[c] = "lock" /\ pc' = pc /\ leg' = leg /\ book' = book
            /\ held' = [held EXCEPT ![c] = @ \cup {b}]
            /\ tentative' = [tentative EXCEPT ![b] = Seeded(book[b], date[c])]
      BY <1>4 DEF LockRow
    <2>2. held'[c] = held[c] \cup {b} /\ held[c] \subseteq Accounts
      BY <2>1 DEF TypeOK
    <2>3. \A a \in held'[c] :
             /\ tentative'[a].register = book[a].register
             /\ tentative'[a].balance = book[a].balance
      <3> SUFFICES ASSUME NEW a \in held'[c]
                   PROVE  /\ tentative'[a].register = book[a].register
                          /\ tentative'[a].balance = book[a].balance
        OBVIOUS
      <3>1. CASE a = b
        <4>1. tentative'[a] = Seeded(book[a], date[c])
          BY <2>1, <3>1 DEF TypeOK
        <4> QED
          BY <4>1, SeededRegister
      <3>2. CASE a # b
        BY <1>0, <2>1, <2>2, <3>2 DEF LegsOf, TypeOK
      <3> QED
        BY <3>1, <3>2
    <2> QED
      BY <1>0, <2>1, <2>3 DEF LegsOf
  <1>5. CASE InsertTransaction(c)
    <2>1. /\ pc[c] = "lock" /\ pc'[c] = "post"
          /\ request' = request /\ leg' = leg /\ book' = book
          /\ held' = held /\ tentative' = tentative
      BY <1>5 DEF InsertTransaction, AllLocked, Goto, TypeOK
    <2>2. \A a \in held[c] : PostedSoFar(c, a)'
      <3>1. \A a \in held[c] : PostedSoFar(c, a)
        BY <1>0, <2>1, NothingPostedYet
      <3> QED
        BY <2>1, <3>1 DEF PostedSoFar
    <2>3. leg[c] = 1 /\ Len(request[c].postings) \in Nat
      BY <1>0, <2>1, DraftTypes DEF LegsOf, TypeOK
    <2>4. leg'[c] <= Len(request'[c].postings) + 1
      BY <2>1, <2>3
    <2> QED
      BY <2>1, <2>2, <2>4 DEF LegsOf
  <1>6. CASE PostLeg(c)
    BY <1>0, <1>6, OnePostedMore
  <1>7. CASE Commit(c)
    <2>1. pc'[c] = "done"
      BY <1>7, ReplyFacts DEF Commit
    <2> QED
      BY <2>1 DEF LegsOf
  <1> QED
    BY <1>1, <1>2, <1>3, <1>4, <1>5, <1>6, <1>7, StepsOf

----------------------------------------------------------------------------
\* A transaction is in the book whole or not at all.

\* A row has all of a call's legs on it once the call is committed, and none before.
InBook(a, c) ==
    LET register == book[a].register
        posted == {i \in DOMAIN register : register[i].tx = c}
        legs == request[c].postings
        asked(n) == LegsOn(request[c], a, n)
    IN  IF \E t \in transactions : t.id = c
          THEN \E before \in 0 .. Len(register) :
                 /\ posted = before + 1 .. before + asked(Len(legs))
                 /\ \A n \in DOMAIN legs : legs[n].account = a =>
                       register[before + asked(n)].amount = legs[n].amount
          ELSE posted = {}

\* All or nothing, row by row and call by call.
LEMMA InBookParts == AllOrNothing <=> \A a \in Accounts, c \in Calls : InBook(a, c)
  BY DEF AllOrNothing, InBook

\* The inductive invariant of the write path, whole.
THEOREM InductiveHolds == Spec => []Inductive
  <1>1. Init => Inductive
    BY InitBalances, InitLocks, InitDates, InitStamps, InitKeys, InitSupplied, InitTrace,
       InitFits, InitLegs
    DEF Inductive
  <1>2. TypeOK /\ Inductive /\ [Next]_vars => Inductive'
    BY NextBalances, NextLocks, NextDates, NextStamps, NextKeys, NextSupplied, NextTrace,
       NextFits, NextLegs
    DEF Inductive
  <1> QED
    BY <1>1, <1>2, InitTypes, NextTypes, PTL DEF Spec

----------------------------------------------------------------------------
\* On a row a call writes, its postings are those that are not committed.
LEMMA HoldersPostings ==
    ASSUME TypeOK, LocksInv, KeysInv, TraceInv, NEW c \in Calls, pc[c] = "post",
           NEW a \in held[c], NEW i \in DOMAIN tentative[a].register
    PROVE  tentative[a].register[i].tx = c <=> i > Len(book[a].register)
  <1>0. a \in Accounts
    BY DEF TypeOK
  <1>1. CASE i > Len(book[a].register)
    <2>1. tentative[a].register[i].tx \in Calls /\ a \in held[tentative[a].register[i].tx]
      BY <1>0, <1>1, RegisterTypes DEF TraceInv
    <2> QED
      BY <1>1, <2>1 DEF LocksInv
  <1>2. CASE ~(i > Len(book[a].register))
    <2>1. i \in DOMAIN book[a].register
      BY <1>0, <1>2, RegisterTypes
    <2>2. \E t \in transactions : t.id = tentative[a].register[i].tx
      BY <1>0, <2>1 DEF TraceInv
    <2> QED
      BY <1>2, <2>2 DEF KeysInv
  <1> QED
    BY <1>1, <1>2

\* What a commit does to the tables.
LEMMA CommitFacts ==
    ASSUME TypeOK, NEW c \in Calls, Commit(c)
    PROVE  /\ pc[c] = "post" /\ LegsPosted(c) /\ ~Overdrawn(c)
           /\ request' = request
           /\ \A a \in Accounts : book'[a] = IF a \in held[c] THEN tentative[a] ELSE book[a]
           /\ \A d \in Calls : (\E t \in transactions' : t.id = d) <=>
                                  d = c \/ \E t \in transactions : t.id = d
  <1> DEFINE t0 == [id |-> c, key |-> request[c].key,
                    fingerprint |-> StoredFingerprint(c), date |-> date[c]]
  <1>1. transactions' = transactions \cup {t0}
    BY DEF Commit
  <1>2. t0.id = c
    OBVIOUS
  <1> HIDE DEF t0
  <1>3. \A d \in Calls : (\E t \in transactions' : t.id = d) <=>
                            d = c \/ \E t \in transactions : t.id = d
    BY <1>1, <1>2
  <1> QED
    BY <1>3 DEF Commit, LegsPosted, callers

\* The book's rows before any call are empty.
LEMMA InitWhole == Init => AllOrNothing
  BY DEF Init, AllOrNothing, NoRow

\* The transaction that commits is in each register whole.
LEMMA CommittedWhole ==
    ASSUME TypeOK, LocksInv, KeysInv, TraceInv, LegsInv, AllOrNothing,
           NEW c \in Calls, Commit(c), NEW a \in Accounts
    PROVE  InBook(a, c)'
  <1> DEFINE p == request[c].postings
             N == Len(p)
             On(k) == LegsOn(request[c], a, k)
  <1>1. /\ pc[c] = "post" /\ request' = request /\ LegsPosted(c)
        /\ \E t \in transactions' : t.id = c
        /\ book'[a] = IF a \in held[c] THEN tentative[a] ELSE book[a]
        /\ request[c] \in Drafts /\ leg[c] \in Nat
    BY CommitFacts DEF TypeOK
  <1>2. N \in Nat /\ DOMAIN p = 1..N
    BY <1>1, DraftTypes
  <1>3. leg[c] - 1 = N
    BY <1>1, <1>2, LegsParts DEF LegsPosted, LegsOf
  <1>4. \A k \in 0..N : On(k) \in Nat
    BY <1>1, LegsOnFacts
  <1>5. ~ \E t \in transactions : t.id = c
    BY <1>1 DEF KeysInv
  <1> SUFFICES \E before \in 0 .. Len(book'[a].register) :
                 /\ {i \in DOMAIN book'[a].register : book'[a].register[i].tx = c}
                       = before + 1 .. before + On(N)
                 /\ \A n \in DOMAIN p : p[n].account = a =>
                       book'[a].register[before + On(n)].amount = p[n].amount
    BY <1>1 DEF InBook
  <1>6. CASE a \in held[c]
    <2> DEFINE before == Len(book[a].register)
    <2>1. PostedSoFar(c, a)
      BY <1>1, <1>6, LegsParts DEF LegsOf
    <2>2. /\ before \in Nat
          /\ Len(tentative[a].register) = before + On(N)
          /\ DOMAIN tentative[a].register = 1..Len(tentative[a].register)
          /\ \A n \in 1..N : p[n].account = a =>
                tentative[a].register[before + On(n)].amount = p[n].amount
      BY <1>3, <2>1, RegisterTypes DEF PostedSoFar
    <2>3. \A i \in DOMAIN tentative[a].register :
             tentative[a].register[i].tx = c <=> i > before
      BY <1>1, <1>6, HoldersPostings
    <2>4. N \in 0..N /\ On(N) \in Nat
      BY <1>2, <1>4
    <2> HIDE DEF p, N, On, before
    <2>5. {i \in DOMAIN tentative[a].register : tentative[a].register[i].tx = c}
             = before + 1 .. before + On(N)
      BY <2>2, <2>3, <2>4
    <2>6. before \in 0 .. Len(tentative[a].register)
      BY <2>2, <2>4
    <2> QED
      BY <1>1, <1>2, <1>6, <2>2, <2>5, <2>6
  <1>7. CASE a \notin held[c]
    <2>1. a \notin Touched(request[c])
      BY <1>1, <1>7 DEF LocksInv
    <2>2. On(N) = 0 /\ \A n \in DOMAIN p : p[n].account # a
      <3>1. N \in 0..N
        BY <1>2
      <3> QED
        BY <1>1, <2>1, <3>1, LegsOnTouched DEF Touched
    <2>3. {i \in DOMAIN book[a].register : book[a].register[i].tx = c} = {}
      BY <1>5 DEF AllOrNothing
    <2>4. Len(book[a].register) \in Nat /\ 0 + 1 .. 0 + 0 = {}
      BY RegisterTypes
    <2> HIDE DEF p, N, On
    <2>5. 0 \in 0 .. Len(book[a].register)
      BY <2>4
    <2> QED
      BY <1>1, <1>7, <2>2, <2>3, <2>4, <2>5
  <1> QED
    BY <1>6, <1>7

\* A commit leaves the other transactions as they are in every register.
LEMMA OthersStay ==
    ASSUME TypeOK, LocksInv, KeysInv, TraceInv, AllOrNothing,
           NEW c \in Calls, Commit(c), NEW a \in Accounts, NEW d \in Calls, d # c
    PROVE  InBook(a, d)'
  <1> DEFINE p == request[d].postings
             N == Len(p)
             On(k) == LegsOn(request[d], a, k)
             Posted(row) == {i \in DOMAIN row.register : row.register[i].tx = d}
  <1>1. /\ pc[c] = "post" /\ request' = request
        /\ (\E t \in transactions' : t.id = d) <=> \E t \in transactions : t.id = d
        /\ book'[a] = IF a \in held[c] THEN tentative[a] ELSE book[a]
        /\ request[d] \in Drafts
    BY CommitFacts DEF TypeOK
  <1>2. InBook(a, d)
    BY InBookParts
  <1>3. CASE a \notin held[c]
    BY <1>1, <1>2, <1>3 DEF InBook
  <1>4. CASE a \in held[c]
    <2>1. /\ Len(book[a].register) \in Nat /\ Len(tentative[a].register) \in Nat
          /\ DOMAIN book[a].register = 1..Len(book[a].register)
          /\ DOMAIN tentative[a].register = 1..Len(tentative[a].register)
          /\ \A i \in DOMAIN book[a].register :
                /\ i \in DOMAIN tentative[a].register
                /\ tentative[a].register[i] = book[a].register[i]
      BY RegisterTypes DEF TraceInv
    <2>2. \A i \in DOMAIN tentative[a].register :
             tentative[a].register[i].tx = c <=> i > Len(book[a].register)
      BY <1>1, <1>4, HoldersPostings
    <2>3. Posted(tentative[a]) = Posted(book[a])
      BY <2>1, <2>2
    <2>4. CASE ~ \E t \in transactions : t.id = d
      BY <1>1, <1>2, <1>4, <2>3, <2>4 DEF InBook
    <2>5. CASE \E t \in transactions : t.id = d
      <3>1. PICK before \in 0 .. Len(book[a].register) :
              /\ Posted(book[a]) = before + 1 .. before + On(N)
              /\ \A n \in DOMAIN p : p[n].account = a =>
                    book[a].register[before + On(n)].amount = p[n].amount
        BY <1>2, <2>5 DEF InBook
      <3>2. ASSUME NEW n \in DOMAIN p, p[n].account = a
            PROVE  tentative[a].register[before + On(n)].amount = p[n].amount
        <4>1. N \in Nat /\ n \in 1..N /\ n \in 0..N /\ n - 1 \in 0..N /\ N \in 0..N
          BY <1>1, DraftTypes
        <4>2. /\ \A k \in 0..N : On(k) \in Nat
              /\ \A k \in 1..N : On(k) = On(k - 1) + (IF p[k].account = a THEN 1 ELSE 0)
          BY <1>1, LegsOnFacts
        <4>3. \A k \in 0..N : On(k) <= On(N)
          BY <1>1, <4>1, LegsOnGrows
        <4> HIDE DEF On, p, N
        <4>4. On(n) = On(n - 1) + 1 /\ On(n - 1) \in Nat /\ On(n) \in Nat /\ On(N) \in Nat
          BY <3>2, <4>1, <4>2
        <4>5. before + On(n) \in before + 1 .. before + On(N)
          BY <4>1, <4>3, <4>4
        <4>6. before + On(n) \in DOMAIN book[a].register
          BY <3>1, <4>5
        <4> QED
          BY <2>1, <3>1, <3>2, <4>6
      <3>3. before \in 0 .. Len(tentative[a].register)
        <4>1. Len(book[a].register) <= Len(tentative[a].register)
          <5>1. CASE Len(book[a].register) = 0
            BY <2>1, <5>1
          <5>2. CASE Len(book[a].register) # 0
            BY <2>1, <5>2
          <5> QED
            BY <5>1, <5>2
        <4> QED
          BY <2>1, <4>1
      <3> QED
        BY <1>1, <1>4, <2>3, <2>5, <3>1, <3>2, <3>3 DEF InBook
    <2> QED
      BY <2>4, <2>5
  <1> QED
    BY <1>3, <1>4

\* Every step keeps it.
LEMMA NextWhole ==
    TypeOK /\ LocksInv /\ KeysInv /\ TraceInv /\ LegsInv /\ AllOrNothing /\ [Next]_vars
       => AllOrNothing'
  <1> SUFFICES ASSUME TypeOK, LocksInv, KeysInv, TraceInv, LegsInv, AllOrNothing, [Next]_vars,
                      NEW a \in Accounts, NEW d \in Calls
               PROVE  InBook(a, d)'
    BY DEF AllOrNothing, InBook
  <1>1. CASE UNCHANGED <<book, transactions>>
    <2>1. request' = request
      BY BookSteps
    <2> QED
      BY <1>1, <2>1, InBookParts DEF InBook
  <1>2. ASSUME NEW c \in Calls, Commit(c) PROVE InBook(a, d)'
    BY <1>2, CommittedWhole, OthersStay
  <1> QED
    BY <1>1, <1>2, BookMoves

\* A transaction is in the book with each of its legs, once, in order and together, or
\* it is not there at all.
THEOREM WholeOrNotAtAll == Spec => []AllOrNothing
  BY InitTypes, NextTypes, InitLocks, NextLocks, InitKeys, NextKeys, InitTrace, NextTrace,
     InitLegs, NextLegs, InitWhole, NextWhole, PTL DEF Spec

----------------------------------------------------------------------------
\* What numbers indexed by the accounts come to.
Total(f) == (CHOOSE sums : AreSums(sums, f, Accounts))[Accounts]

\* There is one sum.
LEMMA TotalIs ==
    ASSUME IsFiniteSet(Accounts), NEW f \in [Accounts -> Int],
           NEW u, AreSums(u, f, Accounts)
    PROVE  Total(f) = u[Accounts]
  <1> DEFINE v == CHOOSE sums : AreSums(sums, f, Accounts)
             T == {s \in SUBSET Accounts : v[s] = u[s]}
  <1>1. AreSums(v, f, Accounts)
    OBVIOUS
  <1>2. v[Accounts] = Total(f)
    BY DEF Total
  <1> HIDE DEF v
  <1>6. /\ u[{}] = 0
        /\ \A s \in SUBSET Accounts : s # {} =>
             /\ Pick(s) \in s
             /\ u[s] = f[Pick(s)] + u[s \ {Pick(s)}]
        /\ \A s \in SUBSET Accounts : u[s] \in Int
    <2> HIDE DEF T
    <2> QED
      BY SumsFacts
  <1>7. /\ v[{}] = 0
        /\ \A s \in SUBSET Accounts : s # {} =>
             /\ Pick(s) \in s
             /\ v[s] = f[Pick(s)] + v[s \ {Pick(s)}]
        /\ \A s \in SUBSET Accounts : v[s] \in Int
    <2> HIDE DEF T
    <2> QED
      BY <1>1, SumsFacts
  <1>3. {} \in T
    BY <1>6, <1>7
  <1>4. ASSUME NEW s \in SUBSET Accounts, s # {}
        PROVE  \E x \in s : s \ {x} \in T => s \in T
    <2> DEFINE x == Pick(s)
    <2>1. x \in s /\ u[s] = f[x] + u[s \ {x}]
      BY <1>4, <1>6
    <2>2. v[s] = f[x] + v[s \ {x}]
      BY <1>4, <1>7
    <2> HIDE DEF x
    <2> QED
      BY <2>1, <2>2
  <1>5. \A s \in SUBSET Accounts : s \in T
    <2> HIDE DEF T
    <2>1. Grows(T, Accounts)
      BY <1>3, <1>4 DEF Grows
    <2> QED
      BY <2>1, InductionOnSubsets
  <1> QED
    BY <1>2, <1>5

\* Totals are numbers, and add up.
LEMMA TotalsAdd ==
    ASSUME IsFiniteSet(Accounts),
           NEW f \in [Accounts -> Int], NEW g \in [Accounts -> Int], NEW h \in [Accounts -> Int],
           \A a \in Accounts : h[a] = f[a] + g[a]
    PROVE  /\ Total(f) \in Int /\ Total(g) \in Int
           /\ Total(h) = Total(f) + Total(g)
  <1>1. PICK u : AreSums(u, f, Accounts)
    BY SumsExist
  <1>2. PICK v : AreSums(v, g, Accounts)
    BY SumsExist
  <1>3. PICK w : AreSums(w, h, Accounts)
    BY SumsExist
  <1>4. Total(f) = u[Accounts] /\ Total(g) = v[Accounts] /\ Total(h) = w[Accounts]
    BY <1>1, <1>2, <1>3, TotalIs
  <1>5. w[Accounts] = u[Accounts] + v[Accounts]
    BY <1>1, <1>2, <1>3, SumsAdd
  <1>6. u[Accounts] \in Int
    BY <1>1, SumsFacts
  <1>7. v[Accounts] \in Int
    BY <1>2, SumsFacts
  <1> QED
    BY <1>4, <1>5, <1>6, <1>7

\* Nothing adds up to nothing.
LEMMA TotalOfNone ==
    ASSUME IsFiniteSet(Accounts), NEW f \in [Accounts -> Int], \A a \in Accounts : f[a] = 0
    PROVE  Total(f) = 0
  <1>1. \A t \in Int : t = t + t => t = 0
    OBVIOUS
  <1>2. \A a \in Accounts : f[a] = f[a] + f[a]
    OBVIOUS
  <1>3. Total(f) = Total(f) + Total(f) /\ Total(f) \in Int
    BY <1>2, TotalsAdd
  <1> QED
    BY <1>1, <1>3, Zenon

\* One number by itself is its total.
LEMMA TotalOfOne ==
    ASSUME IsFiniteSet(Accounts), NEW a \in Accounts, NEW d \in Int,
           NEW f \in [Accounts -> Int], \A b \in Accounts : f[b] = IF b = a THEN d ELSE 0
    PROVE  Total(f) = d
  <1>1. PICK u : AreSums(u, f, Accounts)
    BY SumsExist
  <1> QED
    BY <1>1, TotalIs, SumOfOne

\* The committed balances, by account.
Balances == [a \in Accounts |-> book[a].balance]

\* The balance of the book, as the sum of its balances.
LEMMA TrialBalanceIs ==
    ASSUME IsFiniteSet(Accounts), TypeOK
    PROVE  Balances \in [Accounts -> Int] /\ (TrialBalance <=> Total(Balances) = 0)
  <1> DEFINE D(iter) == iter = [s \in SUBSET Accounts |->
                IF s = {} THEN 0
                ELSE book[CHOOSE x \in s : TRUE].balance + iter[s \ {CHOOSE x \in s : TRUE}]]
             it == CHOOSE iter : D(iter)
  <1>1. Balances \in [Accounts -> Int]
    BY DEF Balances, TypeOK, Row
  <1>2. TrialBalance <=> it[Accounts] = 0
    BY DEF TrialBalance, MapThenSumSet, MapThenFoldSet
  <1>3. \A s \in SUBSET Accounts : s # {} =>
           Pick(s) = (CHOOSE x \in s : TRUE) /\ Balances[Pick(s)] = book[CHOOSE x \in s : TRUE].balance
    BY PickFacts DEF Pick, Balances
  <1>4. \A iter : AreSums(iter, Balances, Accounts) <=> D(iter)
    <2> SUFFICES ASSUME NEW iter PROVE AreSums(iter, Balances, Accounts) <=> D(iter)
      OBVIOUS
    <2>1. [s \in SUBSET Accounts |->
              IF s = {} THEN 0 ELSE Balances[Pick(s)] + iter[s \ {Pick(s)}]]
          = [s \in SUBSET Accounts |->
                IF s = {} THEN 0
                ELSE book[CHOOSE x \in s : TRUE].balance + iter[s \ {CHOOSE x \in s : TRUE}]]
      BY <1>3
    <2> QED
      BY <2>1, Zenon DEF AreSums
  <1>5. \E iter : D(iter)
    <2> HIDE DEF D
    <2> QED
      BY <1>1, <1>4, SumsExist
  <1>6. D(it)
    <2> HIDE DEF D
    <2> QED
      BY <1>5
  <1>7. AreSums(it, Balances, Accounts)
    BY <1>4, <1>6
  <1>8. Total(Balances) = it[Accounts]
    <2> HIDE DEF it
    <2> QED
      BY <1>1, <1>7, TotalIs
  <1> QED
    BY <1>1, <1>2, <1>8, Zenon

\* What a call has moved on the rows it holds, next to what is committed there.
Moved(c) ==
    [a \in Accounts |-> IF a \in held[c] THEN tentative[a].balance - book[a].balance ELSE 0]

\* A call that writes has moved as much as its first legs come to.
DriftInv ==
    \A c \in Calls : pc[c] = "post" => Total(Moved(c)) = Drift(request[c].postings, leg[c] - 1)

\* What is moved is a number on each account.
LEMMA MovedType ==
    ASSUME TypeOK, NEW c \in Calls
    PROVE  Moved(c) \in [Accounts -> Int]
  BY DEF Moved, TypeOK, Row

\* No call writes at first.
LEMMA InitDrift == Init => DriftInv
  BY DEF Init, DriftInv

\* Every step keeps what the writers have moved at what their legs come to.
LEMMA NextDrift ==
    ASSUME IsFiniteSet(Accounts)
    PROVE  TypeOK /\ LocksInv /\ LegsInv /\ DriftInv /\ [Next]_vars => DriftInv'
  <1> SUFFICES ASSUME TypeOK, LocksInv, LegsInv, DriftInv, [Next]_vars, NEW c \in Calls,
                      pc'[c] = "post"
               PROVE  Total(Moved(c)') = Drift(request'[c].postings, leg'[c] - 1)
    BY DEF DriftInv
  <1> DEFINE p == request[c].postings
             n == leg[c]
  <1>0. /\ request' = request
        /\ p \in Seq(PostingDraft) /\ Len(p) \in Nat
        /\ Moved(c) \in [Accounts -> Int]
        /\ held[c] \subseteq Accounts
    BY BookSteps, DraftTypes, MovedType DEF TypeOK
  <1>1. CASE Undisturbed(c)
    <2>1. Moved(c)' = Moved(c) /\ leg'[c] = leg[c] /\ pc[c] = "post"
      BY <1>1 DEF Undisturbed, Moved
    <2> QED
      BY <1>0, <2>1 DEF DriftInv
  <1>2. CASE RolledBack(c)
    BY <1>2 DEF RolledBack
  <1>3. CASE Begin(c)
    BY <1>3 DEF Begin, Goto, TypeOK
  <1>4. CASE LockRow(c)
    BY <1>4 DEF LockRow
  <1>5. CASE InsertTransaction(c)
    <2>1. /\ pc[c] = "lock"
          /\ leg' = leg /\ book' = book /\ held' = held /\ tentative' = tentative
      BY <1>5 DEF InsertTransaction, AllLocked, locals, tables, TypeOK
    <2>2. \A a \in Accounts : Moved(c)[a] = 0
      BY <2>1, LegsParts DEF LegsOf, Moved, TypeOK, Row
    <2>3. Total(Moved(c)) = 0
      BY <1>0, <2>2, TotalOfNone
    <2>4. Moved(c)' = Moved(c)
      BY <2>1 DEF Moved
    <2>5. leg'[c] - 1 = 0
      BY <2>1, LegsParts DEF LegsOf
    <2>6. Drift(p, 0) = 0
      BY <1>0, DriftFacts
    <2> QED
      BY <1>0, <2>3, <2>4, <2>5, <2>6
  <1>6. CASE PostLeg(c)
    <2> DEFINE b == Leg(c).account
               amount == Leg(c).amount
               One == [a \in Accounts |-> IF a = b THEN amount ELSE 0]
    <2>1. /\ pc[c] = "post" /\ LegsLeft(c)
          /\ n \in 1..Len(p) /\ n - 1 \in 0..Len(p)
          /\ leg'[c] = n + 1 /\ held' = held /\ book' = book
          /\ tentative' = [tentative EXCEPT ![b] = LegRow(c)]
          /\ amount = p[n].amount
      BY <1>0, <1>6 DEF PostLeg, LegsLeft, Leg, TypeOK, tables
    <2>2. b \in Accounts /\ b \in held[c] /\ amount \in Int
      BY <2>1, LegRowType DEF LocksInv
    <2>3. LegRow(c).balance = tentative[b].balance + amount
      BY <2>1, LegRowFacts
    <2>4. \A a \in Accounts : tentative'[a] = IF a = b THEN LegRow(c) ELSE tentative[a]
      BY <2>1 DEF TypeOK
    <2>5. /\ \A a \in Accounts : book[a].balance \in Int /\ tentative[a].balance \in Int
          /\ \A a \in Accounts : Moved(c)[a] =
                IF a \in held[c] THEN tentative[a].balance - book[a].balance ELSE 0
          /\ \A a \in Accounts : Moved(c)'[a] =
                IF a \in held[c] THEN tentative'[a].balance - book[a].balance ELSE 0
          /\ Moved(c)' \in [Accounts -> Int]
      <3>1. TypeOK'
        BY NextTypes
      <3>2. \A a \in Accounts : /\ book[a].balance \in Int /\ tentative[a].balance \in Int
                                /\ tentative'[a].balance \in Int
        BY <3>1 DEF TypeOK, Row
      <3> HIDE DEF b, amount, p, n, One
      <3>3. Moved(c)' = [a \in Accounts |->
               IF a \in held[c] THEN tentative'[a].balance - book[a].balance ELSE 0]
        BY <2>1 DEF Moved
      <3>4. \A a \in Accounts : Moved(c)[a] =
                IF a \in held[c] THEN tentative[a].balance - book[a].balance ELSE 0
        BY DEF Moved
      <3> QED
        BY <3>2, <3>3, <3>4
    <2> HIDE DEF b, amount, p, n
    <2>6. One \in [Accounts -> Int] /\ \A a \in Accounts : One[a] = IF a = b THEN amount ELSE 0
      BY <2>2
    <2>7. Total(One) = amount
      <3> HIDE DEF One
      <3> QED
        BY <2>2, <2>6, TotalOfOne
    <2>8. \A a \in Accounts : Moved(c)'[a] = Moved(c)[a] + One[a]
      <3> SUFFICES ASSUME NEW a \in Accounts PROVE Moved(c)'[a] = Moved(c)[a] + One[a]
        OBVIOUS
      <3>1. CASE a = b
        BY <2>2, <2>3, <2>4, <2>5, <2>6, <3>1
      <3>2. CASE a # b
        BY <2>4, <2>5, <2>6, <3>2
      <3> QED
        BY <3>1, <3>2
    <2>9. Total(Moved(c)') = Total(Moved(c)) + Total(One)
      <3> HIDE DEF One
      <3> QED
        BY <1>0, <2>5, <2>6, <2>8, TotalsAdd
    <2>10. Total(Moved(c)) = Drift(p, n - 1)
      BY <2>1 DEF DriftInv, p, n
    <2>11. Drift(p, n) = Drift(p, n - 1) + p[n].amount
      BY <1>0, <2>1, DriftFacts
    <2>12. request'[c].postings = p /\ leg'[c] - 1 = n
      BY <1>0, <2>1 DEF p
    <2> QED
      BY <2>1, <2>7, <2>9, <2>10, <2>11, <2>12
  <1>7. CASE Commit(c)
    BY <1>7, ReplyFacts DEF Commit
  <1> QED
    BY <1>1, <1>2, <1>3, <1>4, <1>5, <1>6, <1>7, StepsOf

\* The committed balances cancel out.
Balanced == Total(Balances) = 0

\* A book without a row balances.
LEMMA InitBalanced ==
    ASSUME IsFiniteSet(Accounts)
    PROVE  Init => Balanced
  <1> SUFFICES ASSUME Init PROVE Balanced
    OBVIOUS
  <1>1. Balances \in [Accounts -> Int] /\ \A a \in Accounts : Balances[a] = 0
    BY DEF Init, Balances, NoRow
  <1> QED
    BY <1>1, TotalOfNone DEF Balanced

\* A commit moves what its legs come to, which is nothing.
LEMMA NextBalanced ==
    ASSUME IsFiniteSet(Accounts)
    PROVE  TypeOK /\ LegsInv /\ DriftInv /\ Balanced /\ [Next]_vars => Balanced'
  <1> SUFFICES ASSUME TypeOK, LegsInv, DriftInv, Balanced, [Next]_vars
               PROVE  Total(Balances') = 0
    BY DEF Balanced
  <1>1. /\ Balances \in [Accounts -> Int] /\ Total(Balances) = 0
        /\ Balances' \in [Accounts -> Int]
    <2>1. TypeOK'
      BY NextTypes
    <2> QED
      BY <2>1 DEF Balances, Balanced, TypeOK, Row
  <1>2. CASE UNCHANGED <<book, transactions>>
    BY <1>1, <1>2 DEF Balances
  <1>3. ASSUME NEW c \in Calls, Commit(c) PROVE Total(Balances') = 0
    <2> DEFINE p == request[c].postings
    <2>1. /\ pc[c] = "post" /\ LegsPosted(c)
          /\ \A a \in Accounts : book'[a] = IF a \in held[c] THEN tentative[a] ELSE book[a]
      BY <1>3, CommitFacts
    <2>2. /\ request[c] \in Drafts
          /\ p \in Seq(PostingDraft) /\ Len(p) \in Nat /\ SumsToZero(p)
      BY DraftTypes, DraftsRecordable DEF TypeOK, Recordable
    <2>3. leg[c] - 1 = Len(p)
      BY <2>1, <2>2, LegsParts DEF LegsOf, LegsPosted, TypeOK
    <2>4. Total(Moved(c)) = 0
      <3>1. Drift(p, Len(p)) = 0
        BY <2>2, DriftFacts
      <3> QED
        BY <2>1, <2>3, <3>1 DEF DriftInv
    <2>5. Moved(c) \in [Accounts -> Int]
      BY MovedType
    <2>6. \A a \in Accounts : Balances'[a] = Balances[a] + Moved(c)[a]
      BY <2>1 DEF Balances, Moved, TypeOK, Row
    <2>7. Total(Balances') = Total(Balances) + Total(Moved(c))
      BY <1>1, <2>5, <2>6, TotalsAdd
    <2> QED
      BY <1>1, <2>4, <2>7
  <1> QED
    BY <1>2, <1>3, BookMoves

\* The accounts sum to zero whenever a reader can look, in a book of finitely many:
\* each call moves only what its legs come to, and those sum to zero.
THEOREM BooksBalance == IsFiniteSet(Accounts) => (Spec => []TrialBalance)
  <1> SUFFICES ASSUME IsFiniteSet(Accounts) PROVE Spec => []TrialBalance
    OBVIOUS
  <1>1. Init => Balanced
    BY InitBalanced
  <1>2. TypeOK /\ LocksInv /\ LegsInv /\ DriftInv /\ [Next]_vars => DriftInv'
    BY NextDrift
  <1>3. TypeOK /\ LegsInv /\ DriftInv /\ Balanced /\ [Next]_vars => Balanced'
    BY NextBalanced
  <1>4. TypeOK /\ Balanced => TrialBalance
    BY TrialBalanceIs DEF Balanced
  <1> QED
    BY <1>1, <1>2, <1>3, <1>4, InitTypes, NextTypes, InitLocks, NextLocks, InitKeys, NextKeys,
       InitTrace, NextTrace, InitLegs, NextLegs, InitDrift, PTL DEF Spec

----------------------------------------------------------------------------
\* What a row becomes by the legs at each set of positions, the last applied last.
AreRows(rows, base, tx, a, p, when) ==
    rows = [s \in SUBSET DOMAIN p |->
              IF s = {} THEN base
              ELSE IF p[Max(s)].account = a
                     THEN Applied(rows[s \ {Max(s)}], tx, p[Max(s)].amount, when)
                     ELSE rows[s \ {Max(s)}]]

\* An account's row with the first n legs applied.
RowAfter(base, tx, a, p, when, n) ==
    (CHOOSE rows : AreRows(rows, base, tx, a, p, when))[1..n]

\* The row comes by the legs on its account, from the base.
RowSteps(base, tx, a, p, when) ==
    /\ RowAfter(base, tx, a, p, when, 0) = base
    /\ \A n \in 1..Len(p) : RowAfter(base, tx, a, p, when, n) =
          IF p[n].account = a
            THEN Applied(RowAfter(base, tx, a, p, when, n - 1), tx, p[n].amount, when)
            ELSE RowAfter(base, tx, a, p, when, n - 1)

\* The row after each leg.
LEMMA RowAfterFacts ==
    ASSUME NEW p \in Seq(PostingDraft), NEW base \in Row, NEW tx \in Calls, NEW a,
           NEW when \in Nat
    PROVE  RowSteps(base, tx, a, p, when)
  <1> DEFINE N == Len(p)
             S == 1..N
             pick == LastOf(N)
             step == [q \in S \X Row |->
                        IF p[q[1]].account = a
                          THEN Applied(q[2], tx, p[q[1]].amount, when) ELSE q[2]]
             After(n) == RowAfter(base, tx, a, p, when, n)
  <1>1. N \in Nat /\ DOMAIN p = S /\ \A n \in S : p[n].amount \in Int
    BY PostingsFacts
  <1>2. /\ step \in [S \X Row -> Row]
        /\ \A n \in S, row \in Row : step[<<n, row>>] =
              IF p[n].account = a THEN Applied(row, tx, p[n].amount, when) ELSE row
    <2>1. \A n \in S, row \in Row : Applied(row, tx, p[n].amount, when) \in Row
      BY <1>1, AppliedType
    <2> HIDE DEF S
    <2> QED
      BY <2>1
  <1>3. Takes(pick, S) /\ IsFiniteSet(S)
    BY <1>1, LastTakes
  <1>4. \A s \in SUBSET S : pick[s] = Max(s) /\ (s # {} => Max(s) \in S)
    BY <1>1, MaxFacts DEF LastOf
  <1>5. \E rows : AreRows(rows, base, tx, a, p, when)
    <2> HIDE DEF step, S, pick
    <2>1. PICK rows \in [SUBSET S -> Row] : Unrolls(rows, base, step, pick, S)
      BY <1>2, <1>3, RecursionOnSubsets
    <2>2. ASSUME NEW s \in SUBSET S
          PROVE  rows[s] = IF s = {} THEN base
                           ELSE IF p[Max(s)].account = a
                                  THEN Applied(rows[s \ {Max(s)}], tx, p[Max(s)].amount, when)
                                  ELSE rows[s \ {Max(s)}]
      <3>1. CASE s = {}
        BY <2>1, <3>1 DEF Unrolls
      <3>2. CASE s # {}
        <4>1. rows[s] = step[<<Max(s), rows[s \ {Max(s)}]>>]
          BY <1>4, <2>1, <3>2 DEF Unrolls
        <4>2. Max(s) \in S /\ rows[s \ {Max(s)}] \in Row
          BY <1>4, <2>1, <3>2
        <4> QED
          BY <1>2, <3>2, <4>1, <4>2
      <3> QED
        BY <3>1, <3>2
    <2>3. AreRows(rows, base, tx, a, p, when)
      BY <1>1, <2>1, <2>2 DEF AreRows
    <2> QED
      BY <2>3
  <1> DEFINE rows == CHOOSE rows : AreRows(rows, base, tx, a, p, when)
  <1>6. AreRows(rows, base, tx, a, p, when)
    BY <1>5
  <1>7. \A n \in 0..N : After(n) = rows[1..n]
    BY DEF RowAfter
  <1> HIDE DEF rows
  <1>8. \A s \in SUBSET DOMAIN p :
           rows[s] = IF s = {} THEN base
                     ELSE IF p[Max(s)].account = a
                            THEN Applied(rows[s \ {Max(s)}], tx, p[Max(s)].amount, when)
                            ELSE rows[s \ {Max(s)}]
    BY <1>6, Zenon DEF AreRows
  <1>9. After(0) = base
    <2>1. 0 \in 0..N /\ 1..0 = {} /\ {} \in SUBSET DOMAIN p
      BY <1>1
    <2> HIDE DEF After
    <2>2. rows[{}] = base
      BY <1>8, <2>1, Zenon
    <2> QED
      BY <1>7, <2>1, <2>2
  <1>10. ASSUME NEW n \in 1..N
         PROVE  After(n) = IF p[n].account = a
                             THEN Applied(After(n - 1), tx, p[n].amount, when)
                             ELSE After(n - 1)
    <2>1. n \in 0..N /\ n - 1 \in 0..N
      BY <1>1
    <2>2. 1..n \in SUBSET DOMAIN p /\ 1..n # {} /\ Max(1..n) = n /\ (1..n) \ {n} = 1..(n - 1)
      BY <1>1, <2>1, Stretches
    <2>3. rows[1..n] = IF p[Max(1..n)].account = a
                         THEN Applied(rows[(1..n) \ {Max(1..n)}], tx, p[Max(1..n)].amount, when)
                         ELSE rows[(1..n) \ {Max(1..n)}]
      BY <1>8, <2>2, Zenon
    <2> HIDE DEF After
    <2> QED
      BY <1>7, <2>1, <2>2, <2>3
  <1> QED
    BY <1>9, <1>10 DEF RowSteps

----------------------------------------------------------------------------
\* The committed row of an account with what a call has posted so far.
Written(c, a) == RowAfter(book[a], c, a, request[c].postings, date[c], leg[c] - 1)

\* A row a call writes is the committed one with the call's first legs applied, but
\* for the date it was seeded with while no leg has reached it; a stamped date lies
\* past what is committed.
WrittenSoFar(c, a) ==
    /\ tentative[a].register = Written(c, a).register
    /\ tentative[a].balance = Written(c, a).balance
    /\ LegsOn(request[c], a, leg[c] - 1) > 0 => tentative[a] = Written(c, a)
    /\ request[c].date = NoDate => book[a].last_date < date[c]

\* It is so of every row a call writes.
WritesInv == \A c \in Calls : pc[c] = "post" => \A a \in held[c] : WrittenSoFar(c, a)

\* Nobody writes at first.
LEMMA InitWrites == Init => WritesInv
  BY DEF Init, WritesInv

\* A leg applied to rows that agree leaves the same row.
LEMMA AppliedAgrees ==
    ASSUME NEW row, NEW other, row.register = other.register, row.balance = other.balance,
           NEW tx, NEW amount, NEW when
    PROVE  Applied(row, tx, amount, when) = Applied(other, tx, amount, when)
  BY DEF Applied

\* A call that settles its date has written nothing, and its stamp is past the book.
LEMMA SettlesAhead ==
    ASSUME TypeOK, LocksInv, DatesInv, LegsInv, NEW c \in Calls, InsertTransaction(c),
           NEW a \in held[c]
    PROVE  WrittenSoFar(c, a)'
  <1> DEFINE p == request[c].postings
  <1>1. /\ pc[c] = "lock" /\ request' = request /\ leg' = leg /\ held' = held
        /\ book' = book /\ tentative' = tentative
        /\ ~DateRefused(request[c].date, latest[c], now[c])
        /\ date'[c] = ResolvedDate(request[c].date, latest[c], now[c])
    BY DEF InsertTransaction, AllLocked, callers, tables, TypeOK
  <1>2. /\ request[c] \in Drafts /\ a \in Accounts /\ p \in Seq(PostingDraft)
        /\ request[c].date \in Nat \cup {NoDate}
        /\ now[c] \in Nat /\ latest[c] \in Nat \cup {ZeroTime}
        /\ book[a] \in Row /\ book[a].last_date \in Int /\ tentative[a].last_date \in Int
    BY DraftTypes, DatesAreInts DEF TypeOK
  <1>3. date'[c] \in Nat /\ (request[c].date = NoDate => latest[c] < date'[c])
    BY <1>1, <1>2, ResolvedDateIsPast
  <1>4. /\ leg[c] - 1 = 0 /\ tentative[a].register = book[a].register
        /\ tentative[a].balance = book[a].balance
    BY <1>1, LegsParts DEF LegsOf
  <1>5. Written(c, a)' = book[a]
    <2>1. Written(c, a)' = RowAfter(book[a], c, a, p, date'[c], 0)
      BY <1>1, <1>4 DEF Written
    <2> QED
      BY <1>2, <1>3, <2>1, RowAfterFacts DEF RowSteps
  <1>6. LegsOn(request[c], a, 0) = 0
    BY <1>2, LegsOnFacts
  <1>7. request[c].date = NoDate => book[a].last_date < date'[c]
    <2>1. book[a].last_date <= tentative[a].last_date /\ tentative[a].last_date <= latest[c]
      BY <1>1, <1>2 DEF DatesInv
    <2> QED
      BY <1>2, <1>3, <2>1 DEF ZeroTime
  <1> QED
    BY <1>1, <1>4, <1>5, <1>6, <1>7 DEF WrittenSoFar

\* A turn of the postings loop writes one leg more.
LEMMA OneWrittenMore ==
    ASSUME TypeOK, LocksInv, NEW c \in Calls, PostLeg(c), NEW a \in held[c],
           WrittenSoFar(c, a)
    PROVE  WrittenSoFar(c, a)'
  <1> DEFINE p == request[c].postings
             n == leg[c]
             b == Leg(c).account
             After(k) == RowAfter(book[a], c, a, p, date[c], k)
             On(k) == LegsOn(request[c], a, k)
  <1>1. /\ request[c] \in Drafts /\ p \in Seq(PostingDraft) /\ Len(p) \in Nat
        /\ n \in 1..Len(p) /\ n - 1 \in 0..Len(p)
        /\ LegsLeft(c) /\ p[n] = Leg(c)
        /\ a \in Accounts /\ book[a] \in Row /\ date[c] \in Nat
    BY DraftTypes DEF TypeOK, PostLeg, LegsLeft, Leg
  <1>2. /\ leg'[c] - 1 = n /\ date' = date /\ request' = request /\ book' = book
        /\ tentative' = [tentative EXCEPT ![b] = LegRow(c)]
    BY DEF PostLeg, TypeOK, callers, tables
  <1>3. After(n) = IF p[n].account = a
                     THEN Applied(After(n - 1), c, p[n].amount, date[c]) ELSE After(n - 1)
    <2>1. RowSteps(book[a], c, a, p, date[c])
      BY <1>1, RowAfterFacts
    <2> QED
      BY <1>1, <2>1 DEF RowSteps
  <1>4. /\ On(n) = On(n - 1) + (IF p[n].account = a THEN 1 ELSE 0)
        /\ On(n - 1) \in Nat
    BY <1>1, LegsOnFacts
  <1>5. Written(c, a) = After(n - 1) /\ Written(c, a)' = After(n)
    BY <1>2 DEF Written
  <1>6. LegsOn(request[c], a, leg[c] - 1)' = On(n)
    BY <1>2
  <1>7. CASE a = b
    <2>1. tentative'[a] = LegRow(c)
      BY <1>1, <1>2, <1>7 DEF TypeOK
    <2>2. LegRow(c) = Applied(tentative[a], c, p[n].amount, date[c])
      BY <1>1, <1>7 DEF LegRow, LegBase
    <2>3. tentative[a].register = After(n - 1).register /\ tentative[a].balance = After(n - 1).balance
      BY <1>5 DEF WrittenSoFar
    <2> HIDE DEF After
    <2>4. LegRow(c) = Applied(After(n - 1), c, p[n].amount, date[c])
      BY <2>2, <2>3, AppliedAgrees
    <2>5. tentative'[a] = After(n)
      BY <1>1, <1>3, <1>7, <2>1, <2>4
    <2> QED
      BY <1>2, <1>5, <2>5 DEF WrittenSoFar
  <1>8. CASE a # b
    <2>1. tentative'[a] = tentative[a] /\ p[n].account # a
      BY <1>1, <1>2, <1>8 DEF TypeOK
    <2>2. After(n) = After(n - 1) /\ On(n) = On(n - 1)
      <3> HIDE DEF After, On
      <3> QED
        BY <1>3, <1>4, <2>1
    <2> HIDE DEF After, On
    <2>3. On(n - 1) > 0 => tentative[a] = After(n - 1)
      BY <1>5 DEF WrittenSoFar, On
    <2> QED
      BY <1>2, <1>5, <1>6, <2>1, <2>2, <2>3 DEF WrittenSoFar
  <1> QED
    BY <1>7, <1>8

\* Every step keeps what the writers have written.
LEMMA NextWrites ==
    TypeOK /\ LocksInv /\ DatesInv /\ LegsInv /\ WritesInv /\ [Next]_vars => WritesInv'
  <1> SUFFICES ASSUME TypeOK, LocksInv, DatesInv, LegsInv, WritesInv, [Next]_vars,
                      NEW c \in Calls, pc'[c] = "post", NEW a \in held'[c]
               PROVE  WrittenSoFar(c, a)'
    BY DEF WritesInv
  <1>1. CASE Undisturbed(c)
    <2>1. pc[c] = "post" /\ a \in held[c]
      BY <1>1 DEF Undisturbed
    <2>2. WrittenSoFar(c, a)
      BY <2>1 DEF WritesInv
    <2> QED
      BY <1>1, <2>1, <2>2 DEF Undisturbed, WrittenSoFar, Written
  <1>2. CASE RolledBack(c)
    BY <1>2 DEF RolledBack
  <1>3. CASE Begin(c)
    BY <1>3 DEF Begin, Goto, TypeOK
  <1>4. CASE LockRow(c)
    BY <1>4 DEF LockRow
  <1>5. CASE InsertTransaction(c)
    BY <1>5, SettlesAhead DEF InsertTransaction
  <1>6. CASE PostLeg(c)
    <2>1. pc[c] = "post" /\ a \in held[c]
      BY <1>6 DEF PostLeg
    <2> QED
      BY <1>6, <2>1, OneWrittenMore DEF WritesInv
  <1>7. CASE Commit(c)
    BY <1>7, ReplyFacts DEF Commit
  <1> QED
    BY <1>1, <1>2, <1>3, <1>4, <1>5, <1>6, <1>7, StepsOf

----------------------------------------------------------------------------
\* What a call has written, next to what the promise writes.

\* A row no leg reaches is left alone.
LEMMA UntouchedRow ==
    ASSUME NEW draft \in Drafts, NEW a \in Accounts, a \notin Touched(draft),
           NEW base \in Row, NEW tx \in Calls, NEW when \in Nat
    PROVE  RowAfter(base, tx, a, draft.postings, when, Len(draft.postings)) = base
  <1> DEFINE p == draft.postings
             N == Len(p)
             After(k) == RowAfter(base, tx, a, p, when, k)
             T == {k \in 0..N : After(k) = base}
  <1>1. /\ N \in Nat /\ p \in Seq(PostingDraft)
        /\ \A k \in 1..N : p[k].account # a
    BY DraftTypes DEF Touched
  <1>2. /\ After(0) = base
        /\ \A k \in 1..N : After(k) = IF p[k].account = a
              THEN Applied(After(k - 1), tx, p[k].amount, when) ELSE After(k - 1)
    <2>1. RowSteps(base, tx, a, p, when)
      BY <1>1, RowAfterFacts
    <2> QED
      BY <2>1 DEF RowSteps
  <1> HIDE DEF After, N, p
  <1>3. 0 \in T
    BY <1>1, <1>2
  <1>4. ASSUME NEW k \in 0..N, k \in T, k < N PROVE k + 1 \in T
    <2>1. k + 1 \in 1..N /\ (k + 1) - 1 = k /\ k + 1 \in 0..N
      BY <1>1, <1>4
    <2> QED
      BY <1>1, <1>2, <1>4, <2>1
  <1>5. N \in T
    <2> HIDE DEF T
    <2>1. \A k \in 0..N : k \in T
      BY <1>1, <1>3, <1>4, InductionTo
    <2> QED
      BY <1>1, <2>1
  <1> QED
    BY <1>5 DEF After, N, p

----------------------------------------------------------------------------
\* The promise speaks of the same data.
LEMMA SameData ==
    /\ Promise!NoDate = NoDate
    /\ Promise!NoRow = NoRow
    /\ \A when : Promise!TruncateDate(when) = TruncateDate(when)
    /\ \A balance : Promise!Fits(balance) = Fits(balance)
    /\ \A draft : /\ Promise!Touched(draft) = Touched(draft)
                  /\ Promise!Fingerprint(draft) = Fingerprint(draft)
  BY DEF Promise!NoDate, NoDate, Promise!NoRow, NoRow, Promise!ZeroTime, ZeroTime,
         Promise!TruncateDate, TruncateDate, Promise!Fits, Fits, Promise!Touched, Touched,
         Promise!Fingerprint, Fingerprint

\* What the promise folds the legs to is the row after the last of them.
LEMMA PromisedRow ==
    ASSUME NEW c \in Calls, NEW a \in Accounts, NEW when,
           request[c].postings \in Seq(PostingDraft)
    PROVE  Promise!BookAfter(c, when)[a] =
              RowAfter(book[a], c, a, request[c].postings, when, Len(request[c].postings))
  <1>1. DOMAIN request[c].postings = 1..Len(request[c].postings)
    OBVIOUS
  <1>2. Promise!BookAfter(c, when)[a] =
          (CHOOSE rows : AreRows(rows, book[a], c, a, request[c].postings, when))
             [DOMAIN request[c].postings]
    BY DEF Promise!BookAfter, Promise!FoldLeft, Promise!MapThenFoldSet, Promise!Applied,
           Promise!Max, AreRows, Applied, Max
  <1> QED
    BY <1>1, <1>2 DEF RowAfter

\* Once every leg is posted, the committed book with the rows of the writer is the one
\* the promise goes on to.
LEMMA WrittenIsPromised ==
    ASSUME TypeOK, LocksInv, LegsInv, WritesInv, NEW c \in Calls, LegsPosted(c),
           NEW a \in Accounts
    PROVE  Promise!BookAfter(c, date[c])[a] = IF a \in held[c] THEN tentative[a] ELSE book[a]
  <1> DEFINE p == request[c].postings
             N == Len(p)
  <1>1. /\ request[c] \in Drafts /\ p \in Seq(PostingDraft) /\ N \in Nat
        /\ book[a] \in Row /\ date[c] \in Nat /\ pc[c] = "post"
    BY DraftTypes DEF TypeOK, LegsPosted
  <1>2. Promise!BookAfter(c, date[c])[a] = RowAfter(book[a], c, a, p, date[c], N)
    BY <1>1, PromisedRow
  <1>3. leg[c] - 1 = N
    BY <1>1, LegsParts DEF LegsPosted, LegsOf, TypeOK
  <1>4. CASE a \in held[c]
    <2>1. a \in Touched(request[c])
      BY <1>1, <1>4 DEF LocksInv
    <2>2. LegsOn(request[c], a, N) >= 1 /\ N \in 0..N
      BY <1>1, <2>1, LegsOnTouched
    <2>3. LegsOn(request[c], a, N) \in Nat
      BY <1>1, <2>2, LegsOnFacts
    <2>4. tentative[a] = RowAfter(book[a], c, a, p, date[c], N)
      <3>1. WrittenSoFar(c, a)
        BY <1>1, <1>4 DEF WritesInv
      <3>2. LegsOn(request[c], a, leg[c] - 1) > 0
        BY <1>3, <2>2, <2>3
      <3> QED
        BY <1>3, <3>1, <3>2 DEF WrittenSoFar, Written
    <2> QED
      BY <1>2, <1>4, <2>4
  <1>5. CASE a \notin held[c]
    <2>1. a \notin Touched(request[c])
      BY <1>1, <1>5 DEF LocksInv
    <2> QED
      BY <1>1, <1>2, <1>5, <2>1, UntouchedRow
  <1> QED
    BY <1>4, <1>5

\* The date a writer has settled on is one the promise accepts.
LEMMA SettledIsAcceptable ==
    ASSUME TypeOK, LocksInv, DatesInv, SuppliedInv, WritesInv, NEW c \in Calls, pc[c] = "post"
    PROVE  Promise!Acceptable(c, date[c])
  <1> SUFFICES ASSUME NEW a \in Touched(request[c])
               PROVE  IF request[c].date = NoDate
                        THEN book[a].last_date < date[c]
                        ELSE /\ date[c] = TruncateDate(request[c].date)
                             /\ book[a].last_date <= date[c]
    BY SameData DEF Promise!Acceptable
  <1>1. a \in held[c] /\ a \in Accounts
    BY RequestDates DEF LocksInv
  <1>2. WrittenSoFar(c, a)
    BY <1>1 DEF WritesInv
  <1>3. book[a].last_date <= tentative[a].last_date /\ tentative[a].last_date <= date[c]
    BY <1>1 DEF DatesInv
  <1>4. book[a].last_date \in Int /\ tentative[a].last_date \in Int /\ date[c] \in Int
    BY <1>1, DatesAreInts
  <1>5. book[a].last_date <= date[c]
    BY <1>3, <1>4
  <1>6. request[c].date # NoDate => date[c] = TruncateDate(request[c].date)
    BY SuppliedParts DEF SuppliedDate
  <1> QED
    BY <1>2, <1>5, <1>6 DEF WrittenSoFar

\* What a writer was asked to verify is on rows it holds.
LEMMA VerifiedIsHeld ==
    ASSUME TypeOK, LocksInv, NEW c \in Calls, pc[c] = "post"
    PROVE  request[c].verify \subseteq held[c] /\ held[c] \subseteq Accounts
  <1>1. request[c] \in Drafts
    BY DEF TypeOK
  <1> QED
    BY <1>1, DraftsRecordable DEF Recordable, LocksInv, TypeOK

\* A free key holds no transaction.
LEMMA HoldingNothing ==
    ASSUME NEW key
    PROVE  KeyFree(key) <=> Promise!Holding(key) = {}
  BY DEF KeyFree, Promise!Holding

\* An answer is the promise's, to a call it has not answered.
LEMMA AnswersAgree ==
    ASSUME KeysInv, NEW c \in Calls, pc[c] # "done", NEW code, NEW tx, Reply(c, code, tx)
    PROVE  Promise!Unanswered(c) /\ Promise!Answer(c, code, tx)
  BY DEF KeysInv, Reply, Promise!Unanswered, Promise!Answer

\* A reply from the key is a replay or a collision.
LEMMA RepliesFromKey ==
    ASSUME KeysInv, NEW c \in Calls, pc[c] # "done", ReplyFromKey(c),
           UNCHANGED <<request, transactions, book>>
    PROVE  Promise!Replay(c) \/ Promise!Collide(c)
  <1>1. PICK t \in transactions :
          /\ t.key = request[c].key
          /\ IF t.fingerprint = Fingerprint(request[c])
               THEN Reply(c, "replayed", t.id)
               ELSE Reply(c, "reused", NoCall)
    BY DEF ReplyFromKey
  <1>2. t \in Promise!Holding(request[c].key)
    BY <1>1 DEF Promise!Holding
  <1>3. CASE t.fingerprint = Fingerprint(request[c])
    <2>1. Promise!Unanswered(c) /\ Promise!Answer(c, "replayed", t.id)
      BY <1>1, <1>3, AnswersAgree
    <2>2. Promise!Replay(c)
      BY <1>1, <1>2, <1>3, <2>1, SameData DEF Promise!Replay
    <2> QED
      BY <2>2
  <1>4. CASE t.fingerprint # Fingerprint(request[c])
    <2>1. Promise!Unanswered(c) /\ Promise!Answer(c, "reused", NoCall)
      BY <1>1, <1>4, AnswersAgree
    <2>2. Promise!Collide(c)
      BY <1>2, <1>4, <2>1, SameData DEF Promise!Collide, Promise!Refuse
    <2> QED
      BY <2>2
  <1> QED
    BY <1>3, <1>4

\* An answer with no transaction is the promise's refusal of that code.
LEMMA RefusalsAgree ==
    ASSUME KeysInv, NEW c \in Calls, pc[c] # "done", NEW code, Reply(c, code, NoCall),
           UNCHANGED <<request, transactions, book>>
    PROVE  Promise!Refuse(c, code)
  <1>1. Promise!Unanswered(c) /\ Promise!Answer(c, code, NoCall)
    BY AnswersAgree
  <1> QED
    BY <1>1 DEF Promise!Refuse

\* A second look at the key ends in one of the promise's answers.
LEMMA ReconsultsAgree ==
    ASSUME KeysInv, SuppliedInv, NEW c \in Calls, Reconsult(c)
    PROVE  Promise!Replay(c) \/ Promise!Collide(c) \/ Promise!RefuseBackdated(c)
  <1>1. pc[c] # "done" /\ UNCHANGED <<request, transactions, book>>
    BY DEF Reconsult, callers, tables
  <1>2. CASE ReplyFromKey(c)
    BY <1>1, <1>2, RepliesFromKey
  <1>3. CASE ~ReplyFromKey(c)
    <2>1. KeyFree(request[c].key) /\ pc[c] = "recheck" /\ Reply(c, "backdated", NoCall)
      BY <1>3 DEF Reconsult, KeysInv
    <2>2. Promise!Refuse(c, "backdated")
      BY <1>1, <2>1, RefusalsAgree
    <2>3. Promise!Holding(request[c].key) = {}
      BY <2>1, HoldingNothing
    <2>4. Precedes(c)
      BY <2>1, SuppliedParts DEF RefusedForAPosting
    <2>5. Promise!RefuseBackdated(c)
      BY <2>2, <2>3, <2>4, SameData DEF Precedes, Promise!RefuseBackdated
    <2> QED
      BY <2>5
  <1> QED
    BY <1>2, <1>3

\* A commit is the promise's recording, under the date the call has settled on.
LEMMA CommitsAgree ==
    ASSUME TypeOK, LocksInv, DatesInv, SuppliedInv, KeysInv, LegsInv, WritesInv, BalancesFit,
           Nat \subseteq Dates, NEW c \in Calls, Commit(c)
    PROVE  Promise!Record(c)
  <1> DEFINE after == Promise!BookAfter(c, date[c])
  <1>1. /\ LegsPosted(c) /\ pc[c] = "post" /\ ~Overdrawn(c)
        /\ Reply(c, "recorded", c) \/ Reply(c, "failed", NoCall)
        /\ request' = request
        /\ transactions' = transactions \cup
             {[id |-> c, key |-> request[c].key,
               fingerprint |-> Fingerprint(request[c]), date |-> date[c]]}
        /\ book' = [a \in Accounts |-> IF a \in held[c] THEN tentative[a] ELSE book[a]]
    BY DEF Commit, LegsPosted, StoredFingerprint, callers
  <1>2. /\ Promise!Unanswered(c)
        /\ Promise!Answer(c, "recorded", c) \/ Promise!Answer(c, "failed", NoCall)
    BY <1>1, AnswersAgree
  <1>3. Promise!Holding(request[c].key) = {}
    BY <1>1, HoldingNothing DEF KeysInv
  <1>4. date[c] \in Dates
    BY DEF TypeOK
  <1>5. Promise!Acceptable(c, date[c])
    BY <1>1, SettledIsAcceptable
  <1>6. \A a \in Accounts : after[a] = IF a \in held[c] THEN tentative[a] ELSE book[a]
    BY <1>1, WrittenIsPromised
  <1>7. book' = after
    <2>1. after = [a \in Accounts |-> after[a]]
      BY DEF Promise!BookAfter
    <2> HIDE DEF after
    <2> QED
      BY <1>1, <1>6, <2>1
  <1> HIDE DEF after
  <1>8. Promise!Representable(after)
    BY <1>6, SameData DEF BalancesFit, Promise!Representable
  <1>9. Promise!Guarded(c, after)
    <2> SUFFICES ASSUME NEW a \in request[c].verify PROVE after[a].balance >= 0
      BY DEF Promise!Guarded
    <2>1. a \in held[c] /\ a \in Accounts
      BY <1>1, VerifiedIsHeld
    <2>2. ~(tentative[a].balance < 0) /\ tentative[a].balance \in Int
      BY <1>1, <2>1 DEF Overdrawn, TypeOK, Row
    <2> QED
      BY <1>6, <2>1, <2>2
  <1>10. \E when \in Dates :
            /\ Promise!Acceptable(c, when)
            /\ transactions' = transactions \cup
                 {[id |-> c, key |-> request[c].key,
                   fingerprint |-> Fingerprint(request[c]), date |-> when]}
            /\ Promise!Representable(Promise!BookAfter(c, when))
            /\ Promise!Guarded(c, Promise!BookAfter(c, when))
            /\ book' = Promise!BookAfter(c, when)
    <2> WITNESS date[c] \in Dates
    <2> QED
      BY <1>1, <1>5, <1>7, <1>8, <1>9 DEF after
  <1> QED
    BY <1>1, <1>2, <1>3, <1>10, SameData DEF Promise!Record

\* An overdraft is refused where the promise refuses it.
LEMMA OverdraftsAgree ==
    ASSUME TypeOK, LocksInv, DatesInv, SuppliedInv, KeysInv, LegsInv, WritesInv,
           Nat \subseteq Dates, NEW c \in Calls, RefuseOverdraft(c)
    PROVE  Promise!RefuseOverdraft(c)
  <1> DEFINE after == Promise!BookAfter(c, date[c])
  <1>1. /\ LegsPosted(c) /\ pc[c] = "post" /\ Overdrawn(c)
        /\ Reply(c, "overdraft", NoCall)
        /\ UNCHANGED <<request, transactions, book>>
    BY DEF RefuseOverdraft, LegsPosted, callers, tables
  <1>2. Promise!Refuse(c, "overdraft")
    BY <1>1, RefusalsAgree
  <1>3. Promise!Holding(request[c].key) = {}
    BY <1>1, HoldingNothing DEF KeysInv
  <1>4. date[c] \in Dates
    BY DEF TypeOK
  <1>5. Promise!Acceptable(c, date[c])
    BY <1>1, SettledIsAcceptable
  <1>6. ~Promise!Guarded(c, after)
    <2>1. PICK a \in request[c].verify : tentative[a].balance < 0
      BY <1>1 DEF Overdrawn
    <2>2. a \in held[c] /\ a \in Accounts
      BY <1>1, VerifiedIsHeld
    <2>3. after[a] = tentative[a] /\ tentative[a].balance \in Int
      BY <1>1, <2>2, WrittenIsPromised DEF TypeOK, Row
    <2> HIDE DEF after
    <2> QED
      BY <2>1, <2>3 DEF Promise!Guarded
  <1> QED
    BY <1>2, <1>3, <1>4, <1>5, <1>6 DEF Promise!RefuseOverdraft

\* The initial states are the promise's.
LEMMA InitAgrees == Init => Promise!Init
  BY SameData DEF Init, Promise!Init

\* What the refinement rests on.
Implementing ==
    /\ TypeOK /\ LocksInv /\ DatesInv /\ SuppliedInv /\ KeysInv
    /\ LegsInv /\ WritesInv /\ BalancesFit

\* Every step of the write path is a step of the promise or none.
LEMMA StepsAgree ==
    ASSUME Nat \subseteq Dates
    PROVE  Implementing /\ [Next]_vars => [Promise!Next]_Promise!vars
  <1> SUFFICES ASSUME Implementing, [Next]_vars PROVE [Promise!Next]_Promise!vars
    OBVIOUS
  <1> USE DEF callers, locals, tables
  <1>0. /\ TypeOK /\ LocksInv /\ DatesInv /\ SuppliedInv /\ KeysInv
        /\ LegsInv /\ WritesInv /\ BalancesFit
    BY DEF Implementing
  <1>1. ASSUME UNCHANGED <<request, transactions, book, answer>>
        PROVE  [Promise!Next]_Promise!vars
    BY <1>1 DEF Promise!vars
  <1>2. ASSUME NEW c \in Calls,
               \/ Promise!Record(c) \/ Promise!Replay(c) \/ Promise!Collide(c)
               \/ Promise!RefuseBackdated(c) \/ Promise!RefuseTooFarAhead(c)
               \/ Promise!RefuseOverdraft(c) \/ Promise!Fail(c)
        PROVE  [Promise!Next]_Promise!vars
    BY <1>2 DEF Promise!Next
  <1>3. ASSUME NEW c \in Calls, CheckKey(c) PROVE [Promise!Next]_Promise!vars
    <2>1. CASE Goto(c, "begin") /\ UNCHANGED answer
      BY <1>1, <1>3, <2>1 DEF CheckKey
    <2>2. CASE ReplyFromKey(c)
      <3>1. Promise!Replay(c) \/ Promise!Collide(c)
        BY <1>0, <1>3, <2>2, RepliesFromKey DEF CheckKey
      <3> QED
        BY <1>2, <3>1
    <2> QED
      BY <1>3, <2>1, <2>2 DEF CheckKey
  <1>4. ASSUME NEW c \in Calls,
               \/ Begin(c) \/ LockRow(c) \/ Overtaken(c) \/ InsertTransaction(c)
               \/ LoseToWinner(c) \/ PostLeg(c)
        PROVE  [Promise!Next]_Promise!vars
    BY <1>1, <1>4
    DEF Begin, LockRow, Overtaken, InsertTransaction, LoseToWinner, PostLeg
  <1>5. ASSUME NEW c \in Calls, RefuseTooFarAhead(c) PROVE [Promise!Next]_Promise!vars
    <2>1. Promise!Refuse(c, "too_far_ahead")
      BY <1>0, <1>5, RefusalsAgree DEF RefuseTooFarAhead, AllLocked
    <2>2. Promise!RefuseTooFarAhead(c)
      BY <1>5, <2>1, SameData DEF RefuseTooFarAhead, DateTooFarAhead, Promise!RefuseTooFarAhead
    <2> QED
      BY <1>2, <2>2
  <1>6. ASSUME NEW c \in Calls, Reconsult(c) PROVE [Promise!Next]_Promise!vars
    BY <1>0, <1>2, <1>6, ReconsultsAgree
  <1>7. ASSUME NEW c \in Calls, RefuseUnrepresentable(c) \/ Fail(c)
        PROVE  [Promise!Next]_Promise!vars
    <2>1. Promise!Refuse(c, "failed")
      BY <1>0, <1>7, RefusalsAgree DEF RefuseUnrepresentable, Fail, LegsLeft
    <2>2. Promise!Fail(c)
      BY <2>1 DEF Promise!Fail
    <2> QED
      BY <1>2, <2>2
  <1>8. ASSUME NEW c \in Calls, RefuseOverdraft(c) PROVE [Promise!Next]_Promise!vars
    BY <1>0, <1>2, <1>8, OverdraftsAgree
  <1>9. ASSUME NEW c \in Calls, Commit(c) PROVE [Promise!Next]_Promise!vars
    BY <1>0, <1>2, <1>9, CommitsAgree
  <1>10. CASE Tick
    BY <1>1, <1>10 DEF Tick
  <1>11. CASE UNCHANGED vars
    BY <1>1, <1>11 DEF vars
  <1> QED
    BY <1>3, <1>4, <1>5, <1>6, <1>7, <1>8, <1>9, <1>10, <1>11 DEF Next, Step, Finished

\* The concurrent write path, with its locks, rollbacks, second looks and lost
\* acknowledgements, implements the atomic ledger, step for step, whatever the dates
\* its clocks and callers come up with.
THEOREM LedgerImplementsBook == Nat \subseteq Dates => (Spec => ImplementsBook)
  <1> SUFFICES ASSUME Nat \subseteq Dates PROVE Spec => ImplementsBook
    OBVIOUS
  <1>1. Implementing /\ [Next]_vars => [Promise!Next]_Promise!vars
    BY StepsAgree
  <1>2. Init => Promise!Init
    BY InitAgrees
  <1>3. Init => Implementing
    BY InitTypes, InitLocks, InitDates, InitSupplied, InitKeys, InitLegs, InitWrites, InitFits
    DEF Implementing
  <1>4. Implementing /\ TraceInv /\ [Next]_vars => Implementing'
    BY NextTypes, NextLocks, NextDates, NextSupplied, NextKeys, NextLegs, NextWrites, NextFits
    DEF Implementing
  <1>5. Implementing /\ TraceInv /\ [Next]_vars => TraceInv'
    BY NextTrace DEF Implementing
  <1> QED
    BY <1>1, <1>2, <1>3, <1>4, <1>5, InitTrace, PTL DEF Spec, ImplementsBook, Promise!Spec
================================================================================
