---------------------------- MODULE RegisterProofs -----------------------------
(***************************************************************************)
(* Theorems about reading a register in pages while it grows, for any      *)
(* instances, dates, page sizes and number of postings.                    *)
(***************************************************************************)
EXTENDS Register, FiniteSetTheorems, SequenceTheorems, TLAPS

\* An id is drawn once, and an instance's postings have its ids in the order it drew
\* them; dates never go back, and each posting adds its unit to the balance.
CommitInv ==
    /\ \A i, j \in DOMAIN postings : postings[i].id = postings[j].id => i = j
    /\ \A i \in DOMAIN postings : postings[i].id <= drawn[postings[i].by]
    /\ \A i, j \in DOMAIN postings : i < j =>
          /\ postings[i].date <= postings[j].date
          /\ postings[i].by = postings[j].by => postings[i].id < postings[j].id
    /\ \A i \in DOMAIN postings : postings[i].balance = i

\* The postings listed before one of them.
Above(k, ascending) ==
    {j \in DOMAIN postings : IF ascending THEN Before(postings[j], postings[k])
                                          ELSE Before(postings[k], postings[j])}

\* What the pages a walk has read leave for those to come: a posting it owes and has
\* not seen is on none of the pages before the next.
OwedAhead ==
    \A k \in DOMAIN postings : postings[k].id \in walk.owed \ walk.seen =>
        Offset(walk.number, walk.size) <= Cardinality(Above(k, walk.ascending))

\* A walk asks for no more pages than there can be, and counts what it owes.
WalkInv ==
    /\ walk.owed \subseteq StoredIds
    /\ walk.stage # "closed" => walk.number <= MaxPostings + 1 /\ OwedAhead
    /\ walk.stage = "page" \/ (walk.stage = "count" /\ walk.rows # <<>>) =>
          /\ walk.total \in 0 .. Len(postings)
          /\ walk.owed \subseteq {postings[k].id : k \in 1 .. walk.total}

----------------------------------------------------------------------------
\* A page is never empty by its size, nor larger than there are page numbers.
LEMMA LimitFacts ==
    ASSUME NEW size \in Int
    PROVE  Limit(size) \in 1 .. LargestNumber
  BY RegisterConstants DEF Limit

\* A product of two numbers of pages fits the word it is computed in.
LEMMA Fits ==
    ASSUME NEW m \in 0 .. LargestNumber, NEW n \in 1 .. LargestNumber
    PROVE  /\ m * n \in Nat /\ m <= m * n
           /\ m * n < 2 * (LargestNumber + 1) * (LargestNumber + 1)
  <1>1. LargestNumber \in Nat
    BY RegisterConstants
  <1>2. \A a, b, c \in Nat : b <= c => a * b <= a * c
    OBVIOUS
  <1>3. m * n <= m * LargestNumber /\ m * 1 <= m * n
    BY <1>1, <1>2
  <1>4. LargestNumber * m <= LargestNumber * LargestNumber
    BY <1>1, <1>2
  <1>5. m * LargestNumber = LargestNumber * m /\ m * 1 = m
    BY <1>1
  <1>6. 2 * (LargestNumber + 1) * (LargestNumber + 1)
          = LargestNumber * LargestNumber + LargestNumber * LargestNumber + 4 * LargestNumber + 2
    BY <1>1
  <1>7. LargestNumber * LargestNumber \in Nat /\ m * n \in Nat /\ m * LargestNumber \in Nat
    BY <1>1
  <1> QED
    BY <1>1, <1>3, <1>4, <1>5, <1>6, <1>7

\* A number that fits its word is kept as it is.
LEMMA Kept ==
    ASSUME NEW n \in Nat, NEW half \in Nat, n < half
    PROVE  Wrapped(n, half) = n
  BY DEF Wrapped

\* Pages begin where the one before them ends, the pages zero and one at the first row.
LEMMA OffsetFacts ==
    ASSUME NEW number \in Nat, number <= LargestNumber + 1, NEW size \in Int
    PROVE  /\ Offset(number, size) \in Nat
           /\ number >= 1 => /\ Offset(number, size) = (number - 1) * Limit(size)
                             /\ number - 1 <= Offset(number, size)
           /\ number = 0 => Offset(number, size) = 0
  <1> DEFINE past == IF number < 1 THEN 0 ELSE number - 1
             half == 2 * (LargestNumber + 1) * (LargestNumber + 1)
  <1>1. past \in 0 .. LargestNumber /\ LargestNumber \in Nat
    BY RegisterConstants
  <1>2. Limit(size) \in 1 .. LargestNumber
    BY LimitFacts
  <1>3. past * Limit(size) \in Nat /\ past <= past * Limit(size) /\ past * Limit(size) < half
    BY <1>1, <1>2, Fits
  <1>4. half \in Nat
    BY <1>1
  <1>5. Offset(number, size) = past * Limit(size)
    <2> HIDE DEF half, past
    <2>1. Wrapped(past * Limit(size), half) = past * Limit(size)
      BY <1>3, <1>4, Kept
    <2> QED
      BY <2>1 DEF Offset, half, past
  <1>6. 0 * Limit(size) = 0
    BY <1>2
  <1> QED
    BY <1>3, <1>5, <1>6

\* The next page begins no later than this one ends.
LEMMA NextOffset ==
    ASSUME NEW number \in Nat, number <= LargestNumber, NEW size \in Int
    PROVE  Offset(number + 1, size) <= Offset(number, size) + Limit(size)
  <1>1. number + 1 \in Nat /\ number + 1 <= LargestNumber + 1 /\ LargestNumber \in Nat
    BY RegisterConstants
  <1>2. Limit(size) \in 1 .. LargestNumber
    BY LimitFacts
  <1>3. Offset(number + 1, size) = number * Limit(size)
    BY <1>1, OffsetFacts
  <1>4. CASE number = 0
    <2>1. 0 * Limit(size) = 0 /\ Offset(number, size) = 0
      BY <1>1, <1>2, <1>4, OffsetFacts
    <2> QED
      BY <2>1, <1>2, <1>3, <1>4
  <1>5. CASE number >= 1
    <2>1. Offset(number, size) = (number - 1) * Limit(size)
      BY <1>1, <1>5, OffsetFacts
    <2>2. number * Limit(size) = (number - 1) * Limit(size) + Limit(size)
      BY <1>2, <1>5
    <2> QED
      BY <2>1, <2>2, <1>2, <1>3
  <1> QED
    BY <1>4, <1>5

----------------------------------------------------------------------------
\* What is known of a posting.
LEMMA PostingFacts ==
    ASSUME TypeOK, NEW k \in DOMAIN postings
    PROVE  /\ postings[k] \in Posting /\ postings[k].id \in Nat /\ postings[k].date \in Nat
           /\ k \in 1 .. Len(postings) /\ Len(postings) \in Nat
  <1>1. postings \in Seq(Posting) /\ Len(postings) \in Nat /\ k \in 1 .. Len(postings)
    BY DEF TypeOK
  <1>2. postings[k] \in Posting
    BY <1>1
  <1> QED
    BY <1>1, <1>2, RegisterConstants DEF Posting, Ids

\* Of two postings one is listed before the other.
LEMMA Total ==
    ASSUME TypeOK, CommitInv, NEW j \in DOMAIN postings, NEW k \in DOMAIN postings, j # k
    PROVE  /\ Before(postings[j], postings[k]) \/ Before(postings[k], postings[j])
           /\ ~(Before(postings[j], postings[k]) /\ Before(postings[k], postings[j]))
           /\ ~Before(postings[k], postings[k])
  <1>1. postings[j].id # postings[k].id
    BY DEF CommitInv
  <1> QED
    BY <1>1, PostingFacts DEF Before

\* There are no more postings than ids.
LEMMA LengthBound ==
    ASSUME TypeOK, CommitInv
    PROVE  Len(postings) \in 0 .. MaxPostings
  <1> DEFINE ids == [i \in 1 .. Len(postings) |-> postings[i].id]
  <1>1. Len(postings) \in Nat /\ DOMAIN postings = 1 .. Len(postings) /\ MaxPostings \in Nat
    BY RegisterConstants DEF TypeOK
  <1>2. ids \in Injection(1 .. Len(postings), Ids)
    <2>1. ids \in [1 .. Len(postings) -> Ids]
      BY <1>1, PostingFacts DEF Posting
    <2>2. \A i, j \in 1 .. Len(postings) : ids[i] = ids[j] => i = j
      BY <1>1 DEF CommitInv
    <2> QED
      BY <2>1, <2>2 DEF Injection, IsInjective
  <1>3. IsFiniteSet(Ids) /\ Cardinality(Ids) = MaxPostings /\ Cardinality(1 .. Len(postings)) = Len(postings)
    <2> DEFINE counts(n) == IsFiniteSet(1 .. n) /\ Cardinality(1 .. n) = n
    <2>1. \A n \in Nat : counts(n)
      BY FS_Interval
    <2> QED
      BY <1>1, <2>1 DEF Ids
  <1>4. Cardinality(1 .. Len(postings)) <= Cardinality(Ids)
    BY <1>2, <1>3, FS_Injection
  <1> QED
    BY <1>1, <1>3, <1>4

\* There are fewer postings above one than there are.
LEMMA AboveFacts ==
    ASSUME TypeOK, NEW k \in DOMAIN postings, NEW ascending
    PROVE  IsFiniteSet(Above(k, ascending)) /\ Cardinality(Above(k, ascending)) \in Nat
  <1>1. IsFiniteSet(DOMAIN postings)
    <2>1. Len(postings) \in Nat /\ DOMAIN postings = 1 .. Len(postings)
      BY DEF TypeOK
    <2> QED
      BY <2>1, FS_Interval
  <1>2. Above(k, ascending) \subseteq DOMAIN postings
    BY DEF Above
  <1> QED
    BY <1>1, <1>2, FS_Subset, FS_CardinalityType

\* A statement returns each posting where the number of those above it says.
LEMMA OrderFacts ==
    ASSUME TypeOK, CommitInv, NEW ascending \in BOOLEAN, NEW order \in Orders(ascending)
    PROVE  /\ order \in Seq(Posting) /\ Len(order) = Len(postings)
           /\ \A k \in DOMAIN postings :
                 /\ Cardinality(Above(k, ascending)) < Len(postings)
                 /\ order[Cardinality(Above(k, ascending)) + 1] = postings[k]
           /\ \A i \in DOMAIN order : \E k \in DOMAIN postings :
                 order[i] = postings[k] /\ Cardinality(Above(k, ascending)) = i - 1
  <1> DEFINE N == Len(postings)
  <1>1. N \in Nat /\ DOMAIN postings = 1 .. N
    BY DEF TypeOK
  <1>2. PICK f \in Bijection(1 .. N, 1 .. N) :
           /\ order = [i \in 1 .. N |-> postings[f[i]]]
           /\ \A i, j \in DOMAIN order : i < j =>
                 IF ascending THEN ~Before(order[j], order[i]) ELSE ~Before(order[i], order[j])
    BY <1>1 DEF Orders
  <1>3. /\ f \in [1 .. N -> 1 .. N]
        /\ \A k \in 1 .. N : \E i \in 1 .. N : f[i] = k
        /\ \A i, j \in 1 .. N : f[i] = f[j] => i = j
    BY DEF Bijection, Injection, Surjection, IsInjective
  <1>4. \A i \in 1 .. N : order[i] = postings[f[i]] /\ postings[f[i]] \in Posting
    BY <1>1, <1>2, <1>3, PostingFacts
  <1>5. order \in Seq(Posting) /\ Len(order) = N /\ DOMAIN order = 1 .. N
    BY <1>1, <1>2, <1>4
  <1>6. ASSUME NEW i \in 1 .. N
        PROVE  Cardinality(Above(f[i], ascending)) = i - 1
    <2> DEFINE g == [j \in 1 .. i - 1 |-> f[j]]
    <2>1. \A j \in 1 .. N : f[j] \in Above(f[i], ascending) <=> j < i
      <3> SUFFICES ASSUME NEW j \in 1 .. N
                   PROVE  f[j] \in Above(f[i], ascending) <=> j < i
        OBVIOUS
      <3>1. f[j] \in 1 .. N /\ f[i] \in 1 .. N
        BY <1>3
      <3>2. CASE j = i
        BY <3>1, <3>2, <1>1, PostingFacts DEF Above, Before
      <3>3. CASE j < i
        <4>1. f[j] # f[i]
          BY <3>3, <1>3
        <4>2. IF ascending THEN ~Before(postings[f[i]], postings[f[j]])
                           ELSE ~Before(postings[f[j]], postings[f[i]])
          BY <3>3, <1>2, <1>4, <1>5
        <4> QED
          BY <3>1, <3>3, <4>1, <4>2, <1>1, Total DEF Above
      <3>4. CASE i < j
        <4>2. IF ascending THEN ~Before(postings[f[j]], postings[f[i]])
                           ELSE ~Before(postings[f[i]], postings[f[j]])
          BY <3>4, <1>2, <1>4, <1>5
        <4> QED
          BY <3>1, <3>4, <4>2, <1>1 DEF Above
      <3> QED
        BY <3>2, <3>3, <3>4
    <2>2. 1 .. i - 1 \subseteq 1 .. N
      BY <1>1
    <2>3. g \in [1 .. i - 1 -> Above(f[i], ascending)]
      BY <2>1, <2>2
    <2>4. \A a, b \in 1 .. i - 1 : g[a] = g[b] => a = b
      BY <2>2, <1>3
    <2>5. \A k \in Above(f[i], ascending) : \E j \in 1 .. i - 1 : g[j] = k
      <3> SUFFICES ASSUME NEW k \in Above(f[i], ascending)
                   PROVE  \E j \in 1 .. i - 1 : f[j] = k
        OBVIOUS
      <3>1. k \in 1 .. N
        BY <1>1 DEF Above
      <3>2. PICK j \in 1 .. N : f[j] = k
        BY <3>1, <1>3
      <3>3. j \in 1 .. i - 1
        BY <3>2, <2>1, <1>1
      <3> QED
        BY <3>2, <3>3
    <2>6. g \in Bijection(1 .. i - 1, Above(f[i], ascending))
      BY <2>3, <2>4, <2>5 DEF Bijection, Injection, Surjection, IsInjective
    <2>7. IsFiniteSet(1 .. i - 1) /\ Cardinality(1 .. i - 1) = i - 1
      BY FS_Interval
    <2> QED
      BY <2>6, <2>7, FS_Bijection DEF ExistsBijection
  <1>7. \A k \in 1 .. N : \E i \in 1 .. N : order[i] = postings[k] /\ Cardinality(Above(k, ascending)) = i - 1
    BY <1>3, <1>4, <1>6
  <1>8. \A k \in DOMAIN postings :
           /\ Cardinality(Above(k, ascending)) < Len(postings)
           /\ order[Cardinality(Above(k, ascending)) + 1] = postings[k]
    <2> TAKE k \in DOMAIN postings
    <2>1. PICK i \in 1 .. N : order[i] = postings[k] /\ Cardinality(Above(k, ascending)) = i - 1
      BY <1>1, <1>7
    <2>2. i - 1 < N /\ (i - 1) + 1 = i /\ N = Len(postings)
      BY <1>1
    <2> QED
      BY <2>1, <2>2, Zenon
  <1>9. \A i \in DOMAIN order : \E k \in DOMAIN postings :
           order[i] = postings[k] /\ Cardinality(Above(k, ascending)) = i - 1
    BY <1>1, <1>3, <1>4, <1>5, <1>6
  <1> QED
    BY <1>5, <1>8, <1>9

----------------------------------------------------------------------------
\* A page of a sequence: what is cut from it, and when nothing is.
Cut(s, from, limit) == SubSeq(s, from + 1, IF from + limit < Len(s) THEN from + limit ELSE Len(s))

\* The rows of s past the first so many, up to a limit.
IsCut(page, s, from, limit, S) ==
    /\ page \in Seq(S)
    /\ page = <<>> <=> Len(s) <= from
    /\ Len(page) <= limit
    /\ \A i \in DOMAIN page : from + i \in 1 .. Len(s) /\ page[i] = s[from + i]
    /\ \A n \in 1 .. Len(s) : from < n /\ n <= from + limit =>
          n - from \in DOMAIN page /\ page[n - from] = s[n]

\* A page has the rows at its places and no others.
LEMMA CutFacts ==
    ASSUME NEW S, NEW s \in Seq(S), NEW from \in Nat, NEW limit \in Nat \ {0}
    PROVE  IsCut(Cut(s, from, limit), s, from, limit, S)
  <1> DEFINE upto == IF from + limit < Len(s) THEN from + limit ELSE Len(s)
             cut == SubSeq(s, from + 1, upto)
  <1>1. Len(s) \in Nat /\ upto \in Nat /\ upto <= Len(s) /\ \A i \in from + 1 .. upto : s[i] \in S
    OBVIOUS
  <1>2. /\ cut \in Seq(S)
        /\ Len(cut) = IF from + 1 <= upto THEN upto - from ELSE 0
        /\ \A i \in 1 .. upto - from : cut[i] = s[from + i]
    <2> HIDE DEF upto
    <2>1. from + 1 \in Int /\ upto \in Int
      BY <1>1
    <2>2. /\ cut \in Seq(S)
          /\ Len(cut) = IF from + 1 <= upto THEN upto - (from + 1) + 1 ELSE 0
          /\ \A i \in 1 .. upto - (from + 1) + 1 : cut[i] = s[from + 1 + i - 1]
      BY <1>1, <2>1, SubSeqProperties
    <2> QED
      BY <2>1, <2>2
  <1>3. DOMAIN cut = 1 .. Len(cut) /\ (cut = <<>> <=> Len(cut) = 0)
    <2> HIDE DEF cut
    <2>1. \A t \in Seq(S) : DOMAIN t = 1 .. Len(t)
      OBVIOUS
    <2>2. \A t \in Seq(S) : t = <<>> <=> Len(t) = 0
      BY EmptySeq
    <2> QED
      BY <1>2, <2>1, <2>2
  <1>4. cut = <<>> <=> Len(s) <= from
    <2>1. from + 1 <= upto <=> from < Len(s)
      BY <1>1
    <2> HIDE DEF cut, upto
    <2>2. from \in Int /\ Len(s) \in Int /\ upto \in Int
      BY <1>1
    <2>3. Len(cut) = 0 <=> ~(from + 1 <= upto)
      BY <1>2, <2>2
    <2> QED
      BY <1>3, <2>1, <2>2, <2>3
  <1>5. \A i \in DOMAIN cut : from + i \in 1 .. Len(s) /\ cut[i] = s[from + i]
    BY <1>1, <1>2, <1>3
  <1>6. \A n \in 1 .. Len(s) : from < n /\ n <= from + limit =>
           n - from \in DOMAIN cut /\ cut[n - from] = s[n]
    <2> SUFFICES ASSUME NEW n \in 1 .. Len(s), from < n, n <= from + limit
                 PROVE  n - from \in DOMAIN cut /\ cut[n - from] = s[n]
      OBVIOUS
    <2>1. n - from \in 1 .. upto - from /\ from + (n - from) = n
      BY <1>1
    <2>2. cut[n - from] = s[from + (n - from)]
      BY <2>1, <1>2
    <2>3. n - from \in DOMAIN cut
      BY <2>1, <1>1, <1>2, <1>3
    <2> QED
      BY <2>1, <2>2, <2>3
  <1>7. cut = Cut(s, from, limit) /\ cut \in Seq(S) /\ Len(cut) <= limit
    <2>1. Len(cut) <= limit
      <3>1. upto <= from + limit
        OBVIOUS
      <3> HIDE DEF cut, upto
      <3> QED
        BY <1>1, <1>2, <3>1
    <2> QED
      BY <1>2, <2>1 DEF Cut
  <1> HIDE DEF cut
  <1>8. IsCut(cut, s, from, limit, S)
    BY <1>4, <1>5, <1>6, <1>7, Zenon DEF IsCut
  <1> QED
    BY <1>7, <1>8, Zenon

\* What a page is read with: its place in the order, and the order itself.
LEMMA ReadsPage ==
    ASSUME TypeOK, CommitInv, WalkInv, ReadPage
    PROVE  \E order \in Orders(walk.ascending) :
             LET from == Offset(walk.number, walk.size)
                 rows == Cut(order, from, Limit(walk.size))
             IN  /\ walk.stage = "page"
                 /\ walk' = [walk EXCEPT !.stage = IF rows = <<>> THEN "closed" ELSE "count",
                                         !.number = @ + 1,
                                         !.rows = rows,
                                         !.seen = @ \cup {rows[i].id : i \in DOMAIN rows}]
                 /\ UNCHANGED <<postings, drawn>>
  BY DEF ReadPage, Cut

\* What is known of a walk.
LEMMA WalkFacts ==
    ASSUME TypeOK
    PROVE  /\ walk \in Walk
           /\ walk.number \in Nat /\ walk.size \in Int /\ walk.ascending \in BOOLEAN
           /\ walk.owed \subseteq Ids /\ walk.seen \subseteq Ids
           /\ MaxPostings \in Nat /\ LargestNumber \in Nat /\ MaxPostings < LargestNumber
  BY RegisterConstants DEF TypeOK, Walk

\* What an insert leaves, and adds.
LEMMA PostFacts ==
    ASSUME TypeOK, NEW i \in Instances, Post(i)
    PROVE  \E id \in Ids, date \in Nat :
             /\ id \notin StoredIds /\ id > drawn[i]
             /\ LatestDate <= date /\ date <= MaxDate
             /\ Len(postings') = Len(postings) + 1
             /\ DOMAIN postings' = 1 .. Len(postings) + 1
             /\ \A k \in 1 .. Len(postings) : postings'[k] = postings[k]
             /\ postings'[Len(postings) + 1] =
                  [id |-> id, by |-> i, date |-> date, balance |-> LatestBalance + 1]
             /\ drawn' = [drawn EXCEPT ![i] = id]
             /\ walk' = walk
             /\ postings' \in Seq(Posting)
  <1>1. /\ postings \in Seq(Posting) /\ Len(postings) \in Nat
        /\ postings # <<>> => Len(postings) \in DOMAIN postings
        /\ DOMAIN postings = 1 .. Len(postings)
    BY DEF TypeOK
  <1>2. LatestDate \in Nat /\ LatestBalance \in Nat
    BY <1>1, PostingFacts DEF LatestDate, LatestBalance, Last, Posting
  <1>3. PICK id \in Ids, date \in LatestDate .. MaxDate :
           /\ Drawn(i, id)
           /\ postings' = Append(postings, [id |-> id, by |-> i, date |-> date,
                                            balance |-> LatestBalance + 1])
           /\ drawn' = [drawn EXCEPT ![i] = IF id > @ THEN id ELSE @]
           /\ UNCHANGED walk
    BY DEF Post
  <1>4. MaxDate \in Nat /\ date \in Nat /\ date \in 0 .. MaxDate /\ LatestDate <= date
    BY <1>2, RegisterConstants
  <1>5. [id |-> id, by |-> i, date |-> date, balance |-> LatestBalance + 1] \in Posting
    BY <1>2, <1>4 DEF Posting
  <1>6. id \notin StoredIds /\ id > drawn[i] /\ drawn' = [drawn EXCEPT ![i] = id]
    BY <1>3 DEF Drawn
  <1> DEFINE new == [id |-> id, by |-> i, date |-> date, balance |-> LatestBalance + 1]
  <1>7. /\ Len(postings') = Len(postings) + 1
        /\ DOMAIN postings' = 1 .. Len(postings) + 1
        /\ \A k \in 1 .. Len(postings) : postings'[k] = postings[k]
        /\ postings'[Len(postings) + 1] = new
        /\ postings' \in Seq(Posting)
    <2> HIDE DEF new
    <2> QED
      BY <1>1, <1>3, <1>5 DEF new
  <1>8. LatestDate <= date /\ date <= MaxDate /\ walk' = walk
    BY <1>3, <1>4
  <1> QED
    BY <1>4, <1>6, <1>7, <1>8

\* It is so at first.
LEMMA InitPaging == Init => TypeOK /\ CommitInv /\ WalkInv
  <1> SUFFICES ASSUME Init PROVE TypeOK /\ CommitInv /\ WalkInv
    OBVIOUS
  <1>1. <<>> \in Seq(Posting) /\ DOMAIN postings = {} /\ Len(postings) = 0
    BY DEF Init
  <1>2. TypeOK
    <2>1. drawn \in [Instances -> 0 .. MaxPostings]
      BY RegisterConstants DEF Init
    <2>2. walk \in Walk
      <3>1. PICK size \in Sizes :
               walk = [stage |-> "closed", size |-> size, number |-> 1, ascending |-> TRUE,
                       total |-> 0, rows |-> <<>>, seen |-> {}, owed |-> {}]
        BY DEF Init
      <3>2. <<>> \in Seq(Posting) /\ {} \in SUBSET Ids
        BY <1>1
      <3> QED
        BY <3>1, <3>2 DEF Walk
    <2> QED
      BY <1>1, <2>1, <2>2 DEF TypeOK, Init
  <1>3. CommitInv
    BY <1>1 DEF CommitInv
  <1>4. walk.stage = "closed" /\ walk.owed = {}
    BY DEF Init
  <1> QED
    BY <1>2, <1>3, <1>4 DEF WalkInv

\* A page read keeps what is said of the walk, and of the page itself.
LEMMA PageFacts ==
    ASSUME TypeOK, CommitInv, WalkInv, ReadPage
    PROVE  \E order \in Orders(walk.ascending) :
             LET from == Offset(walk.number, walk.size)
                 rows == Cut(order, from, Limit(walk.size))
             IN  /\ walk.stage = "page" /\ from \in Nat /\ Limit(walk.size) \in Nat \ {0}
                 /\ walk' = [walk EXCEPT !.stage = IF rows = <<>> THEN "closed" ELSE "count",
                                         !.number = @ + 1,
                                         !.rows = rows,
                                         !.seen = @ \cup {rows[i].id : i \in DOMAIN rows}]
                 /\ rows \in Seq(Posting)
                 /\ rows = <<>> <=> Len(postings) <= from
                 /\ \A i \in DOMAIN rows :
                       \E k \in DOMAIN postings : /\ rows[i] = postings[k]
                                                  /\ Cardinality(Above(k, walk.ascending)) = from + i - 1
                 /\ \A k \in DOMAIN postings : Cardinality(Above(k, walk.ascending)) < Len(postings)
                 /\ \A k \in DOMAIN postings :
                       LET above == Cardinality(Above(k, walk.ascending))
                       IN  from <= above /\ above < from + Limit(walk.size) =>
                              \E i \in DOMAIN rows : rows[i] = postings[k]
                 /\ UNCHANGED <<postings, drawn>>
  <1>1. PICK order \in Orders(walk.ascending) :
             LET from == Offset(walk.number, walk.size)
                 rows == Cut(order, from, Limit(walk.size))
             IN  /\ walk.stage = "page"
                 /\ walk' = [walk EXCEPT !.stage = IF rows = <<>> THEN "closed" ELSE "count",
                                         !.number = @ + 1,
                                         !.rows = rows,
                                         !.seen = @ \cup {rows[i].id : i \in DOMAIN rows}]
                 /\ UNCHANGED <<postings, drawn>>
    BY ReadsPage
  <1> DEFINE from == Offset(walk.number, walk.size)
             rows == Cut(order, from, Limit(walk.size))
  <1>2. /\ walk.number \in Nat /\ walk.size \in Int /\ walk.ascending \in BOOLEAN
        /\ walk.number <= LargestNumber + 1
    BY <1>1, WalkFacts DEF WalkInv
  <1>3. from \in Nat /\ Limit(walk.size) \in Nat \ {0}
    BY <1>2, OffsetFacts, LimitFacts
  <1>4. /\ order \in Seq(Posting) /\ Len(order) = Len(postings)
        /\ \A k \in DOMAIN postings :
              /\ Cardinality(Above(k, walk.ascending)) < Len(postings)
              /\ order[Cardinality(Above(k, walk.ascending)) + 1] = postings[k]
        /\ \A i \in DOMAIN order : \E k \in DOMAIN postings :
              order[i] = postings[k] /\ Cardinality(Above(k, walk.ascending)) = i - 1
    BY <1>2, OrderFacts
  <1> DEFINE limit == Limit(walk.size)
  <1> HIDE DEF from, limit
  <1>5. /\ rows \in Seq(Posting) /\ (rows = <<>> <=> Len(order) <= from)
        /\ \A i \in DOMAIN rows : i \in Nat /\ from + i \in 1 .. Len(order) /\ rows[i] = order[from + i]
        /\ \A n \in 1 .. Len(order) : from < n /\ n <= from + Limit(walk.size) =>
              n - from \in DOMAIN rows /\ rows[n - from] = order[n]
    <2>1. order \in Seq(Posting) /\ from \in Nat /\ limit \in Nat \ {0}
      BY <1>3, <1>4 DEF limit
    <2>2. /\ Cut(order, from, limit) \in Seq(Posting)
          /\ Cut(order, from, limit) = <<>> <=> Len(order) <= from
          /\ \A i \in DOMAIN Cut(order, from, limit) :
                from + i \in 1 .. Len(order) /\ Cut(order, from, limit)[i] = order[from + i]
          /\ \A n \in 1 .. Len(order) : from < n /\ n <= from + limit =>
                n - from \in DOMAIN Cut(order, from, limit)
                  /\ Cut(order, from, limit)[n - from] = order[n]
      <3> HIDE DEF rows
      <3>1. IsCut(Cut(order, from, limit), order, from, limit, Posting)
        BY <2>1, CutFacts, Zenon
      <3> QED
        BY <3>1 DEF IsCut
    <2>3. rows = Cut(order, from, limit) /\ limit = Limit(walk.size)
      BY DEF limit
    <2> HIDE DEF rows
    <2>4. \A i \in DOMAIN rows : i \in Nat
      BY <2>2, <2>3
    <2> QED
      BY <2>2, <2>3, <2>4, Zenon
  <1> HIDE DEF rows
  <1>6. ASSUME NEW i \in DOMAIN rows
        PROVE  \E k \in DOMAIN postings : /\ rows[i] = postings[k]
                                          /\ Cardinality(Above(k, walk.ascending)) = from + i - 1
    <2>1. from + i \in DOMAIN order /\ rows[i] = order[from + i]
      BY <1>4, <1>5
    <2>2. PICK k \in DOMAIN postings :
             order[from + i] = postings[k] /\ Cardinality(Above(k, walk.ascending)) = (from + i) - 1
      BY <1>4, <2>1
    <2>3. i \in Nat /\ (from + i) - 1 = from + i - 1
      BY <1>3, <1>5
    <2> QED
      BY <2>1, <2>2, <2>3
  <1>7. ASSUME NEW k \in DOMAIN postings,
               from <= Cardinality(Above(k, walk.ascending)),
               Cardinality(Above(k, walk.ascending)) < from + Limit(walk.size)
        PROVE  \E i \in DOMAIN rows : rows[i] = postings[k]
    <2> DEFINE n == Cardinality(Above(k, walk.ascending)) + 1
    <2>1. Cardinality(Above(k, walk.ascending)) \in Nat /\ Len(postings) \in Nat
      BY AboveFacts, PostingFacts
    <2>2. n \in 1 .. Len(order) /\ from < n /\ n <= from + Limit(walk.size) /\ order[n] = postings[k]
      BY <1>3, <1>4, <1>7, <2>1
    <2> HIDE DEF n
    <2> QED
      BY <2>2, <1>5
  <1> QED
    BY <1>1, <1>3, <1>4, <1>5, <1>6, <1>7 DEF from, rows

\* Types are kept.
LEMMA NextTypes == TypeOK /\ CommitInv /\ WalkInv /\ [Next]_vars => TypeOK'
  <1> SUFFICES ASSUME TypeOK, CommitInv, WalkInv, [Next]_vars PROVE TypeOK'
    OBVIOUS
  <1>1. ASSUME NEW i \in Instances, Post(i) PROVE TypeOK'
    <2>1. PICK id \in Ids : drawn' = [drawn EXCEPT ![i] = id] /\ walk' = walk /\ postings' \in Seq(Posting)
      BY <1>1, PostFacts
    <2> QED
      BY <2>1 DEF TypeOK, Ids
  <1>2. ASSUME NEW size \in Sizes, NEW number \in {0, 1}, NEW ascending \in BOOLEAN,
               Open(size, number, ascending)
        PROVE  TypeOK'
    <2>1. StoredIds \subseteq Ids
      BY PostingFacts DEF StoredIds, Posting
    <2>2. <<>> \in Seq(Posting)
      OBVIOUS
    <2>3. walk' \in Walk
      BY <1>2, <2>1, <2>2 DEF Open, Walk
    <2> QED
      BY <1>2, <2>3 DEF Open, TypeOK
  <1>3. CASE Count
    <2>1. Len(postings) \in Nat
      BY DEF TypeOK
    <2>2. walk' \in Walk
      BY <1>3, <2>1 DEF Count, TypeOK, Walk
    <2> QED
      BY <1>3, <2>2 DEF Count, TypeOK
  <1>4. CASE ReadPage
    <2>1. PICK rows \in Seq(Posting) :
             /\ walk' = [walk EXCEPT !.stage = IF rows = <<>> THEN "closed" ELSE "count",
                                     !.number = @ + 1,
                                     !.rows = rows,
                                     !.seen = @ \cup {rows[i].id : i \in DOMAIN rows}]
             /\ UNCHANGED <<postings, drawn>>
      BY <1>4, PageFacts
    <2> DEFINE ids == {rows[i].id : i \in DOMAIN rows}
    <2>2. ids \subseteq Ids
      <3>1. \A i \in DOMAIN rows : rows[i] \in Posting
        OBVIOUS
      <3> QED
        BY <3>1 DEF Posting
    <2>3. walk' \in Walk
      <3> HIDE DEF ids
      <3>1. walk.seen \cup ids \in SUBSET Ids /\ walk.number + 1 \in Nat
        BY <2>2, WalkFacts
      <3>2. walk' = [walk EXCEPT !.stage = IF rows = <<>> THEN "closed" ELSE "count",
                                 !.number = walk.number + 1,
                                 !.rows = rows,
                                 !.seen = walk.seen \cup ids]
        BY <2>1 DEF ids
      <3> QED
        BY <3>1, <3>2 DEF TypeOK, Walk
    <2> QED
      BY <2>1, <2>3 DEF TypeOK
  <1>5. CASE UNCHANGED vars
    BY <1>5 DEF vars, TypeOK
  <1> QED
    BY <1>1, <1>2, <1>3, <1>4, <1>5 DEF Next

\* The order of commits is kept.
LEMMA NextCommits == TypeOK /\ CommitInv /\ [Next]_vars => CommitInv'
  <1> SUFFICES ASSUME TypeOK, CommitInv, [Next]_vars PROVE CommitInv'
    OBVIOUS
  <1>1. ASSUME NEW i \in Instances, Post(i) PROVE CommitInv'
    <2> DEFINE N == Len(postings)
    <2>1. N \in Nat /\ DOMAIN postings = 1 .. N
      BY DEF TypeOK
    <2>2. PICK id \in Ids, date \in Nat :
             /\ id \notin StoredIds /\ id > drawn[i]
             /\ LatestDate <= date
             /\ DOMAIN postings' = 1 .. N + 1
             /\ \A k \in 1 .. N : postings'[k] = postings[k]
             /\ postings'[N + 1] = [id |-> id, by |-> i, date |-> date, balance |-> LatestBalance + 1]
             /\ drawn' = [drawn EXCEPT ![i] = id]
      BY <1>1, PostFacts
    <2>3. LatestBalance = N /\ \A k \in 1 .. N : postings[k].date <= LatestDate
      <3>1. CASE N = 0
        <4>1. postings = <<>>
          BY <2>1, <3>1, EmptySeq DEF TypeOK
        <4> QED
          BY <3>1, <4>1 DEF LatestBalance
      <3>2. CASE N # 0
        <4>1. postings # <<>> /\ N \in DOMAIN postings
          BY <2>1, <3>2
        <4>2. LatestBalance = postings[N].balance /\ LatestDate = postings[N].date
          BY <4>1 DEF LatestBalance, LatestDate, Last
        <4> QED
          BY <2>1, <4>1, <4>2, PostingFacts DEF CommitInv
      <3> QED
        BY <3>1, <3>2
    <2>4. \A k \in 1 .. N : /\ postings[k].id # id /\ postings[k].id \in Nat
                            /\ postings[k].by = i => postings[k].id < id
                            /\ postings[k].date <= date
                            /\ postings[k].by \in Instances
      <3> TAKE k \in 1 .. N
      <3>1. postings[k] \in Posting /\ postings[k].id \in Nat /\ postings[k].date \in Nat
        BY <2>1, PostingFacts
      <3>2. postings[k].id # id
        BY <2>1, <2>2 DEF StoredIds
      <3>3. postings[k].id <= drawn[postings[k].by] /\ drawn[postings[k].by] \in Nat /\ drawn[i] \in Nat
        BY <2>1, <3>1, RegisterConstants DEF CommitInv, TypeOK, Posting
      <3>4. postings[k].date <= date
        <4>1. LatestDate \in Nat
          BY <2>1, PostingFacts DEF LatestDate, Last
        <4> QED
          BY <2>2, <2>3, <3>1, <4>1
      <3>5. id \in Nat
        BY DEF Ids
      <3> QED
        BY <2>2, <3>1, <3>2, <3>3, <3>4, <3>5 DEF Posting
    <2>5. drawn'[i] = id /\ \A j \in Instances \ {i} : drawn'[j] = drawn[j]
      BY <2>2 DEF TypeOK
    <2>6. /\ postings'[N + 1].id = id /\ postings'[N + 1].by = i
          /\ postings'[N + 1].date = date /\ postings'[N + 1].balance = N + 1
      BY <2>2, <2>3
    <2>7. \A j, k \in 1 .. N + 1 : postings'[j].id = postings'[k].id => j = k
      BY <2>1, <2>2, <2>4, <2>6 DEF CommitInv
    <2>8. \A k \in 1 .. N + 1 : postings'[k].id <= drawn'[postings'[k].by]
      <3> TAKE k \in 1 .. N + 1
      <3>1. CASE k = N + 1
        BY <3>1, <2>5, <2>6 DEF Ids
      <3>2. CASE k \in 1 .. N
        <4>1. postings[k].id <= drawn[postings[k].by] /\ postings'[k] = postings[k]
          BY <2>1, <2>2, <3>2 DEF CommitInv
        <4>2. CASE postings[k].by = i
          BY <3>2, <4>1, <4>2, <2>4, <2>5 DEF Ids
        <4>3. CASE postings[k].by # i
          BY <3>2, <4>1, <4>3, <2>4, <2>5
        <4> QED
          BY <4>2, <4>3
      <3> QED
        BY <3>1, <3>2, <2>1
    <2>9. \A j, k \in 1 .. N + 1 : j < k =>
             /\ postings'[j].date <= postings'[k].date
             /\ postings'[j].by = postings'[k].by => postings'[j].id < postings'[k].id
      <3> SUFFICES ASSUME NEW j \in 1 .. N + 1, NEW k \in 1 .. N + 1, j < k
                   PROVE  /\ postings'[j].date <= postings'[k].date
                          /\ postings'[j].by = postings'[k].by => postings'[j].id < postings'[k].id
        OBVIOUS
      <3>1. j \in 1 .. N /\ postings'[j] = postings[j]
        BY <2>1, <2>2
      <3>2. CASE k = N + 1
        BY <3>1, <3>2, <2>4, <2>6
      <3>3. CASE k \in 1 .. N
        BY <3>1, <3>3, <2>1, <2>2 DEF CommitInv
      <3> QED
        BY <3>2, <3>3, <2>1
    <2>10. \A k \in 1 .. N + 1 : postings'[k].balance = k
      BY <2>1, <2>2, <2>6 DEF CommitInv
    <2> QED
      BY <2>2, <2>7, <2>8, <2>9, <2>10 DEF CommitInv
  <1>2. CASE UNCHANGED <<postings, drawn>>
    BY <1>2 DEF CommitInv
  <1> QED
    BY <1>1, <1>2 DEF Next, vars, Open, Count, ReadPage

\* An insert puts more postings above one, never fewer.
LEMMA PostsAbove ==
    ASSUME TypeOK, NEW i \in Instances, Post(i), NEW k \in DOMAIN postings, NEW ascending
    PROVE  /\ Cardinality(Above(k, ascending)') \in Nat
           /\ Cardinality(Above(k, ascending)) <= Cardinality(Above(k, ascending)')
  <1>1. /\ Len(postings) \in Nat /\ DOMAIN postings = 1 .. Len(postings)
        /\ DOMAIN postings' = 1 .. Len(postings) + 1
        /\ \A j \in 1 .. Len(postings) : postings'[j] = postings[j]
    <2>1. Len(postings) \in Nat /\ DOMAIN postings = 1 .. Len(postings)
      BY DEF TypeOK
    <2> QED
      BY <2>1, PostFacts
  <1>2. Above(k, ascending) \subseteq Above(k, ascending)'
    BY <1>1 DEF Above, Before
  <1>3. IsFiniteSet(Above(k, ascending)')
    <2>1. Above(k, ascending)' \subseteq 1 .. Len(postings) + 1
      BY <1>1 DEF Above
    <2>2. IsFiniteSet(1 .. Len(postings) + 1)
      BY <1>1, FS_Interval
    <2> QED
      BY <2>1, <2>2, FS_Subset
  <1> QED
    BY <1>2, <1>3, FS_Subset, FS_CardinalityType

\* An offset is a number, whatever was asked for.
LEMMA OffsetType ==
    ASSUME NEW number \in Nat, NEW size \in Int
    PROVE  Offset(number, size) \in Int
  <1> DEFINE past == IF number < 1 THEN 0 ELSE number - 1
             half == 2 * (LargestNumber + 1) * (LargestNumber + 1)
  <1>1. LargestNumber \in Nat /\ Limit(size) \in Int /\ past \in Int
    BY RegisterConstants, LimitFacts
  <1>2. past * Limit(size) \in Int /\ half \in Nat \ {0}
    <2>1. \A m, n \in Nat : (m + 1) * (n + 1) = m * n + m + n + 1 /\ m * n \in Nat
      OBVIOUS
    <2>2. half = 2 * ((LargestNumber + 1) * (LargestNumber + 1))
      BY <1>1
    <2>3. (LargestNumber + 1) * (LargestNumber + 1) \in Nat \ {0}
      BY <1>1, <2>1
    <2> QED
      BY <1>1, <2>2, <2>3
  <1>3. \A n \in Int, h \in Nat \ {0} : Wrapped(n, h) \in Int
    BY DEF Wrapped
  <1> HIDE DEF past, half
  <1> QED
    BY <1>2, <1>3 DEF Offset, past, half

\* What is said of the walk is kept.
LEMMA NextWalk == TypeOK /\ CommitInv /\ WalkInv /\ [Next]_vars => WalkInv'
  <1> SUFFICES ASSUME TypeOK, CommitInv, WalkInv, [Next]_vars PROVE WalkInv'
    OBVIOUS
  <1> DEFINE N == Len(postings)
  <1>0. N \in Nat /\ DOMAIN postings = 1 .. N
    BY DEF TypeOK
  <1>1. ASSUME NEW i \in Instances, Post(i) PROVE WalkInv'
    <2>1. PICK id \in Ids :
             /\ id \notin StoredIds /\ walk' = walk
             /\ Len(postings') = N + 1 /\ DOMAIN postings' = 1 .. N + 1
             /\ \A k \in 1 .. N : postings'[k] = postings[k]
             /\ postings'[N + 1].id = id
      <3>1. PICK id \in Ids, date \in Nat :
               /\ id \notin StoredIds /\ walk' = walk
               /\ Len(postings') = N + 1 /\ DOMAIN postings' = 1 .. N + 1
               /\ \A k \in 1 .. N : postings'[k] = postings[k]
               /\ postings'[N + 1] = [id |-> id, by |-> i, date |-> date, balance |-> LatestBalance + 1]
        BY <1>1, PostFacts
      <3> QED
        BY <3>1
    <2>2. StoredIds \subseteq StoredIds'
      BY <1>0, <2>1 DEF StoredIds
    <2>3. walk.owed \subseteq StoredIds /\ walk.number \in Nat /\ walk.size \in Int
      BY WalkFacts DEF WalkInv
    <2>4. OwedAhead => OwedAhead'
      <3>1. PICK asc \in BOOLEAN : asc = walk.ascending /\ asc = walk'.ascending
        BY <2>1, WalkFacts
      <3> SUFFICES ASSUME OwedAhead, NEW k \in 1 .. N + 1, postings'[k].id \in walk.owed \ walk.seen
                   PROVE  Offset(walk.number, walk.size) <= Cardinality(Above(k, asc)')
        BY <2>1, <3>1 DEF OwedAhead, Above
      <3>2. k \in 1 .. N /\ postings'[k] = postings[k]
        BY <1>0, <2>1, <2>3
      <3>3. Offset(walk.number, walk.size) <= Cardinality(Above(k, asc))
        BY <1>0, <3>1, <3>2 DEF OwedAhead
      <3>4. Cardinality(Above(k, asc)) <= Cardinality(Above(k, asc)') /\ Cardinality(Above(k, asc)') \in Nat
        BY <1>0, <1>1, <3>2, PostsAbove
      <3>5. Cardinality(Above(k, asc)) \in Nat
        BY <1>0, <3>2, AboveFacts
      <3>6. Offset(walk.number, walk.size) \in Int
        BY <2>3, OffsetType
      <3> QED
        BY <3>3, <3>4, <3>5, <3>6
    <2>5. \A total \in 0 .. N : {postings[k].id : k \in 1 .. total} = {postings'[k].id : k \in 1 .. total}
      BY <1>0, <2>1
    <2> QED
      BY <1>0, <2>1, <2>2, <2>3, <2>4, <2>5 DEF WalkInv
  <1>2. ASSUME NEW size \in Sizes, NEW number \in {0, 1}, NEW ascending \in BOOLEAN,
               Open(size, number, ascending)
        PROVE  WalkInv'
    <2>1. /\ walk' = [stage |-> "count", size |-> size, number |-> number, ascending |-> ascending,
                       total |-> 0, rows |-> <<>>, seen |-> {}, owed |-> StoredIds]
          /\ postings' = postings
      BY <1>2 DEF Open
    <2>2. StoredIds' = StoredIds
      BY <2>1 DEF StoredIds
    <2>3. size \in Int /\ number \in Nat /\ MaxPostings \in Nat /\ number <= MaxPostings + 1
      BY RegisterConstants
    <2>4. Offset(number, size) = 0
      <3>1. LargestNumber \in Nat /\ number <= LargestNumber + 1 /\ Limit(size) \in Int
        BY <2>3, RegisterConstants, LimitFacts
      <3>2. (1 - 1) * Limit(size) = 0
        BY <3>1
      <3>3. CASE number = 0
        BY <3>1, <3>3, <2>3, OffsetFacts
      <3>4. CASE number = 1
        BY <3>1, <3>2, <3>4, <2>3, OffsetFacts
      <3> QED
        BY <3>3, <3>4
    <2>5. OwedAhead'
      <3> SUFFICES ASSUME NEW k \in DOMAIN postings
                   PROVE  0 <= Cardinality(Above(k, ascending)')
        BY <2>1, <2>4 DEF OwedAhead, Offset, Limit
      <3>1. Above(k, ascending)' = Above(k, ascending)
        BY <2>1 DEF Above
      <3> QED
        BY <3>1, AboveFacts
    <2> QED
      BY <2>1, <2>2, <2>3, <2>5 DEF WalkInv
  <1>3. CASE Count
    <2>1. /\ walk.stage = "count" /\ walk' = [walk EXCEPT !.stage = "page", !.total = N]
          /\ postings' = postings
      BY <1>3 DEF Count
    <2>2. /\ walk'.stage = "page" /\ walk'.total = N /\ walk'.rows = walk.rows
          /\ walk'.number = walk.number /\ walk'.size = walk.size /\ walk'.ascending = walk.ascending
          /\ walk'.owed = walk.owed /\ walk'.seen = walk.seen
      BY <2>1, WalkFacts DEF Walk
    <2>3. OwedAhead' /\ StoredIds' = StoredIds
      BY <2>1, <2>2 DEF WalkInv, OwedAhead, Above, StoredIds, Offset, Limit
    <2>4. StoredIds = {postings[k].id : k \in 1 .. N}
      BY <1>0 DEF StoredIds
    <2> QED
      BY <1>0, <2>1, <2>2, <2>3, <2>4 DEF WalkInv
  <1>4. CASE ReadPage
    <2> DEFINE from == Offset(walk.number, walk.size)
    <2>1. PICK rows \in Seq(Posting) :
             /\ walk.stage = "page" /\ from \in Nat /\ Limit(walk.size) \in Nat \ {0}
             /\ walk' = [walk EXCEPT !.stage = IF rows = <<>> THEN "closed" ELSE "count",
                                     !.number = @ + 1,
                                     !.rows = rows,
                                     !.seen = @ \cup {rows[i].id : i \in DOMAIN rows}]
             /\ rows = <<>> <=> N <= from
             /\ \A k \in DOMAIN postings :
                   LET above == Cardinality(Above(k, walk.ascending))
                   IN  from <= above /\ above < from + Limit(walk.size) =>
                          \E i \in DOMAIN rows : rows[i] = postings[k]
             /\ UNCHANGED <<postings, drawn>>
      BY <1>4, PageFacts
    <2>2. /\ walk'.stage = IF rows = <<>> THEN "closed" ELSE "count"
          /\ walk'.number = walk.number + 1 /\ walk'.size = walk.size /\ walk'.ascending = walk.ascending
          /\ walk'.owed = walk.owed /\ walk'.total = walk.total /\ walk'.rows = rows
          /\ walk'.seen = walk.seen \cup {rows[i].id : i \in DOMAIN rows}
      BY <2>1, WalkFacts DEF Walk
    <2>3. ASSUME rows # <<>>
          PROVE  walk.number + 1 <= MaxPostings + 1 /\ OwedAhead'
      <3>1. /\ walk.number \in Nat /\ walk.size \in Int /\ MaxPostings \in Nat /\ LargestNumber \in Nat
            /\ MaxPostings < LargestNumber /\ walk.number <= MaxPostings + 1
        BY <2>1, WalkFacts DEF WalkInv
      <3>2. from < N /\ N <= MaxPostings
        BY <1>0, <2>1, <2>3, LengthBound
      <3>3. walk.number >= 1 => walk.number - 1 <= from
        <4>1. walk.number <= LargestNumber + 1
          BY <3>1
        <4> QED
          BY <3>1, <4>1, OffsetFacts
      <3>4. walk.number <= MaxPostings
        BY <1>0, <2>1, <3>1, <3>2, <3>3
      <3>5. Offset(walk.number + 1, walk.size) <= from + Limit(walk.size)
        BY <3>1, <3>4, NextOffset
      <3>6. Offset(walk.number + 1, walk.size) \in Int
        <4>1. walk.number + 1 \in Nat
          BY <3>1
        <4> QED
          BY <3>1, <4>1, OffsetType
      <3>7. ASSUME NEW k \in DOMAIN postings, postings[k].id \in walk'.owed \ walk'.seen
            PROVE  Offset(walk.number + 1, walk.size) <= Cardinality(Above(k, walk.ascending))
        <4>1. postings[k].id \in walk.owed \ walk.seen /\ ~\E i \in DOMAIN rows : rows[i] = postings[k]
          BY <2>2, <3>7
        <4>2. from <= Cardinality(Above(k, walk.ascending))
          BY <2>1, <4>1 DEF WalkInv, OwedAhead
        <4>3. ~(Cardinality(Above(k, walk.ascending)) < from + Limit(walk.size))
          BY <2>1, <4>1, <4>2
        <4>4. Cardinality(Above(k, walk.ascending)) \in Nat
          BY AboveFacts
        <4> QED
          BY <2>1, <3>5, <3>6, <4>3, <4>4
      <3>8. OwedAhead'
        BY <2>1, <2>2, <3>7 DEF OwedAhead, Above, Offset, Limit
      <3> QED
        BY <3>1, <3>4, <3>8
    <2>4. StoredIds' = StoredIds
      BY <2>1 DEF StoredIds
    <2>5. /\ walk'.total \in 0 .. N
          /\ walk.owed \subseteq {postings[k].id : k \in 1 .. walk.total}
      BY <2>1, <2>2 DEF WalkInv
    <2> QED
      BY <2>1, <2>2, <2>3, <2>4, <2>5 DEF WalkInv
  <1>5. CASE UNCHANGED vars
    BY <1>5 DEF vars, WalkInv, OwedAhead, Above, StoredIds, Offset, Limit
  <1> QED
    BY <1>1, <1>2, <1>3, <1>4, <1>5 DEF Next

----------------------------------------------------------------------------
\* Where a tie on a date has one writer, postings are listed in the order they were
\* committed.
LEMMA ListedAsCommitted ==
    ASSUME TypeOK, CommitInv, TiesHaveOneWriter, NEW k \in DOMAIN postings
    PROVE  Cardinality(Above(k, TRUE)) = k - 1
  <1>1. DOMAIN postings = 1 .. Len(postings) /\ Len(postings) \in Nat /\ k \in Nat
    BY PostingFacts DEF TypeOK
  <1>2. \A i, j \in DOMAIN postings : i < j => Before(postings[i], postings[j])
    BY PostingFacts DEF CommitInv, TiesHaveOneWriter, Before
  <1>3. \A j \in DOMAIN postings : Before(postings[j], postings[k]) <=> j < k
    <2> TAKE j \in DOMAIN postings
    <2>1. CASE j < k
      BY <1>2, <2>1
    <2>2. CASE k < j
      BY <1>1, <1>2, <2>2, Total
    <2>3. CASE j = k
      BY <1>1, <2>3, PostingFacts DEF Before
    <2> QED
      BY <1>1, <2>1, <2>2, <2>3
  <1>4. Above(k, TRUE) = 1 .. k - 1
    BY <1>1, <1>3 DEF Above
  <1>5. Cardinality(1 .. k - 1) = k - 1
    BY <1>1, FS_Interval
  <1> QED
    BY <1>4, <1>5

\* The two parts of a walk's promise that a step has to keep.
Promises == PagesMissNothing /\ BalancesFollowTheirWriter

\* They hold before anything is read.
LEMMA InitPromises == Init => Promises
  BY DEF Init, Promises, PagesMissNothing, BalancesFollowTheirWriter, BalancesReadInOrder

\* Every step keeps them.
LEMMA NextPromises == TypeOK /\ CommitInv /\ WalkInv /\ Promises /\ [Next]_vars => Promises'
  <1> SUFFICES ASSUME TypeOK, CommitInv, WalkInv, Promises, [Next]_vars PROVE Promises'
    OBVIOUS
  <1> DEFINE N == Len(postings)
  <1>0. N \in Nat /\ DOMAIN postings = 1 .. N
    BY DEF TypeOK
  <1>1. ASSUME NEW i \in Instances, Post(i) PROVE Promises'
    <2>1. walk' = walk /\ DOMAIN postings' = 1 .. N + 1 /\ \A k \in 1 .. N : postings'[k] = postings[k]
      BY <1>1, PostFacts
    <2>2. TiesHaveOneWriter' => TiesHaveOneWriter
      BY <1>0, <2>1 DEF TiesHaveOneWriter
    <2> QED
      BY <2>1, <2>2
      DEF Promises, PagesMissNothing, BalancesFollowTheirWriter, BalancesReadInOrder
  <1>2. ASSUME NEW size \in Sizes, NEW number \in {0, 1}, NEW ascending \in BOOLEAN,
               Open(size, number, ascending)
        PROVE  Promises'
    BY <1>2 DEF Open, Promises, PagesMissNothing, BalancesFollowTheirWriter, BalancesReadInOrder
  <1>3. CASE Count
    <2>1. /\ walk'.stage = "page" /\ walk'.rows = walk.rows /\ walk'.ascending = walk.ascending
          /\ postings' = postings
      BY <1>3, WalkFacts DEF Count, Walk
    <2> QED
      BY <2>1 DEF Promises, PagesMissNothing, BalancesFollowTheirWriter, BalancesReadInOrder,
                  TiesHaveOneWriter
  <1>4. CASE ReadPage
    <2> DEFINE from == Offset(walk.number, walk.size)
    <2>1. PICK rows \in Seq(Posting) :
             /\ walk.stage = "page" /\ from \in Nat
             /\ walk' = [walk EXCEPT !.stage = IF rows = <<>> THEN "closed" ELSE "count",
                                     !.number = @ + 1,
                                     !.rows = rows,
                                     !.seen = @ \cup {rows[i].id : i \in DOMAIN rows}]
             /\ rows = <<>> <=> N <= from
             /\ \A i \in DOMAIN rows :
                   \E k \in DOMAIN postings : /\ rows[i] = postings[k]
                                              /\ Cardinality(Above(k, walk.ascending)) = from + i - 1
             /\ \A k \in DOMAIN postings : Cardinality(Above(k, walk.ascending)) < N
             /\ UNCHANGED <<postings, drawn>>
      BY <1>4, PageFacts
    <2>2. /\ walk'.stage = IF rows = <<>> THEN "closed" ELSE "count"
          /\ walk'.ascending = walk.ascending /\ walk'.owed = walk.owed /\ walk'.rows = rows
          /\ walk.seen \subseteq walk'.seen
      BY <2>1, WalkFacts DEF Walk
    <2>3. PagesMissNothing'
      <3> SUFFICES ASSUME rows = <<>>, NEW id \in walk.owed, id \notin walk.seen PROVE FALSE
        BY <2>2 DEF PagesMissNothing
      <3>1. PICK k \in DOMAIN postings : postings[k].id = id
        BY DEF WalkInv, StoredIds
      <3>2. from <= Cardinality(Above(k, walk.ascending))
        BY <2>1, <3>1 DEF WalkInv, OwedAhead
      <3>3. Cardinality(Above(k, walk.ascending)) \in Nat
        BY AboveFacts
      <3> QED
        BY <1>0, <2>1, <3>2, <3>3
    <2>4. BalancesFollowTheirWriter'
      <3> SUFFICES ASSUME TiesHaveOneWriter, walk.ascending, NEW i \in DOMAIN rows, i > 1
                   PROVE  rows[i].balance = rows[i - 1].balance + 1
        BY <2>1, <2>2 DEF BalancesFollowTheirWriter, BalancesReadInOrder, TiesHaveOneWriter
      <3>1. walk.ascending = TRUE /\ i \in Nat /\ i - 1 \in DOMAIN rows
        BY WalkFacts
      <3>2. ASSUME NEW n \in DOMAIN rows
            PROVE  rows[n].balance = from + n
        <4>1. PICK k \in DOMAIN postings : /\ rows[n] = postings[k]
                                           /\ Cardinality(Above(k, TRUE)) = from + n - 1
          BY <2>1, <3>1
        <4>2. Cardinality(Above(k, TRUE)) = k - 1 /\ postings[k].balance = k
          BY ListedAsCommitted DEF CommitInv
        <4>3. n \in Nat /\ k \in Nat /\ from \in Nat
          BY <1>0, <2>1
        <4> HIDE DEF from
        <4>4. from + n - 1 = k - 1
          BY <4>1, <4>2
        <4>5. from + n = k
          BY <4>3, <4>4
        <4> QED
          BY <4>1, <4>2, <4>5
      <3> QED
        BY <2>1, <3>1, <3>2
    <2> QED
      BY <2>3, <2>4 DEF Promises
  <1>5. CASE UNCHANGED vars
    BY <1>5 DEF vars, Promises, PagesMissNothing, BalancesFollowTheirWriter, BalancesReadInOrder,
                TiesHaveOneWriter
  <1> QED
    BY <1>1, <1>2, <1>3, <1>4, <1>5 DEF Next

\* All of it holds of every reachable state.
LEMMA PagingInvariant == Spec => [](TypeOK /\ CommitInv /\ WalkInv /\ Promises)
  <1>1. TypeOK /\ CommitInv /\ WalkInv /\ Promises /\ [Next]_vars
          => (TypeOK /\ CommitInv /\ WalkInv /\ Promises)'
    BY NextTypes, NextCommits, NextWalk, NextPromises
  <1>2. Init => TypeOK /\ CommitInv /\ WalkInv /\ Promises
    BY InitPaging, InitPromises
  <1> QED
    BY <1>1, <1>2, PTL DEF Spec

\* Postings, ids and walks keep their types, and no page is cut outside the register.
THEOREM RegisterTypes == Spec => []TypeOK
  BY PagingInvariant, PTL

\* A reader who turns pages until one is empty has seen every posting there was when it
\* began, in either direction, however many are posted meanwhile and by whom.
THEOREM NothingIsMissed == Spec => []PagesMissNothing
  <1>1. Promises => PagesMissNothing
    BY DEF Promises
  <1> QED
    BY <1>1, PagingInvariant, PTL

\* Where a tie on a date has one writer, an ascending page reads in the order the
\* balances were applied.
THEOREM BalancesReadOn == Spec => []BalancesFollowTheirWriter
  <1>1. Promises => BalancesFollowTheirWriter
    BY DEF Promises
  <1> QED
    BY <1>1, PagingInvariant, PTL

\* There too, the total counted before the last page says where an ascending walk may
\* stop.
THEOREM TotalsEndWalks == Spec => []TotalEndsTheWalk
  <1>1. TypeOK /\ CommitInv /\ WalkInv => TotalEndsTheWalk
    <2> SUFFICES ASSUME TypeOK, CommitInv, WalkInv,
                        walk.stage = "count", walk.rows # <<>>, walk.ascending,
                        (walk.number - 1) * Limit(walk.size) >= walk.total,
                        TiesHaveOneWriter,
                        NEW id \in walk.owed, id \notin walk.seen
                 PROVE  FALSE
      BY DEF TotalEndsTheWalk
    <2>1. /\ walk.number \in Nat /\ walk.size \in Int /\ walk.ascending = TRUE
          /\ walk.number <= LargestNumber + 1 /\ Limit(walk.size) \in Nat
      <3>1. walk.number \in Nat /\ walk.size \in Int /\ walk.ascending = TRUE
        BY WalkFacts
      <3>2. walk.number <= LargestNumber + 1
        BY WalkFacts DEF WalkInv
      <3>3. \A n \in 1 .. LargestNumber : n \in Nat
        OBVIOUS
      <3> QED
        BY <3>1, <3>2, <3>3, LimitFacts
    <2>2. PICK k \in 1 .. walk.total : postings[k].id = id
      BY DEF WalkInv
    <2>3. k \in DOMAIN postings /\ walk.total \in Nat /\ k \in Nat /\ k <= walk.total
      <3>1. walk.total \in 0 .. Len(postings) /\ Len(postings) \in Nat /\ DOMAIN postings = 1 .. Len(postings)
        BY DEF WalkInv, TypeOK
      <3> QED
        BY <2>2, <3>1
    <2>4. Offset(walk.number, walk.size) <= k - 1
      BY <2>1, <2>2, <2>3, ListedAsCommitted DEF WalkInv, OwedAhead
    <2>5. (walk.number - 1) * Limit(walk.size) <= Offset(walk.number, walk.size)
            /\ Offset(walk.number, walk.size) \in Nat
      <3>1. CASE walk.number >= 1
        <4>1. /\ Offset(walk.number, walk.size) \in Nat
              /\ Offset(walk.number, walk.size) = (walk.number - 1) * Limit(walk.size)
          BY <2>1, <3>1, OffsetFacts
        <4> QED
          BY <4>1
      <3>2. CASE walk.number = 0
        <4>1. (0 - 1) * Limit(walk.size) <= 0
          BY <2>1
        <4> QED
          BY <2>1, <3>2, <4>1, OffsetFacts
      <3> QED
        BY <2>1, <3>1, <3>2
    <2>6. (walk.number - 1) * Limit(walk.size) \in Int
      BY <2>1
    <2> QED
      BY <2>3, <2>4, <2>5, <2>6
  <1> QED
    BY <1>1, PagingInvariant, PTL
================================================================================
