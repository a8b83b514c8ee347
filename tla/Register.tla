-------------------------------- MODULE Register --------------------------------
(***************************************************************************)
(* Reading one account's register in pages while it grows: ListRegister    *)
(* (ListTransactions pages the same way) against RecordTransaction. Calls  *)
(* on one account are ordered by its row's lock, so recording is one step  *)
(* here. A listing is two statements and each sees what is committed when  *)
(* it runs.                                                                *)
(***************************************************************************)
EXTENDS Integers, SequencesExt

CONSTANTS
    Instances,      \* server instances, each drawing posting ids from its own clock
    Sizes,          \* page sizes callers ask for
    DefaultSize,    \* 10 in the code
    LargestSize,    \* 100 in the code
    LargestNumber,  \* of a page: 2^31 - 1 in the code
    MaxDate,        \* bound: dates
    MaxPostings     \* bound: postings of the account

ASSUME RegisterConstants ==
    /\ Sizes \subseteq Int
    /\ DefaultSize \in Nat \ {0} /\ LargestSize \in Nat \ {0} /\ LargestNumber \in Nat
    /\ DefaultSize <= LargestNumber /\ LargestSize <= LargestNumber
    /\ MaxDate \in Nat /\ MaxPostings \in Nat
    /\ MaxPostings < LargestNumber

VARIABLES
    postings,   \* the account's postings in the order they were committed
    drawn,      \* the last id each instance has drawn
    walk        \* a reader going through the pages

vars == <<postings, drawn, walk>>

Ids == 1 .. MaxPostings
Posting == [id : Ids, by : Instances, date : 0 .. MaxDate, balance : Nat]
StoredIds == {postings[i].id : i \in DOMAIN postings}

Walk ==
    [stage : {"closed", "count", "page"}, size : Sizes, number : Nat, ascending : BOOLEAN,
     total : Nat, rows : Seq(Posting), seen : SUBSET Ids, owed : SUBSET Ids]

TypeOK ==
    /\ postings \in Seq(Posting)
    /\ drawn \in [Instances -> 0 .. MaxPostings]
    /\ walk \in Walk

----------------------------------------------------------------------------
\* Slip: an account without postings reports a date before any there can be.
LatestDateUnseeded == IF postings = <<>> THEN -1 ELSE Last(postings).date

LatestDate == IF postings = <<>> THEN 0 ELSE Last(postings).date
LatestBalance == IF postings = <<>> THEN 0 ELSE Last(postings).balance

\* Slip: the id is drawn before the row is locked, as the transaction's own id is,
\* so calls commit in another order than they drew.
DrawnEarly(i, id) == id \notin StoredIds

\* A UUIDv7 under the row's lock: an instance's ids only grow; between instances
\* they order as their clocks happen to.
Drawn(i, id) == id \notin StoredIds /\ id > drawn[i]

\* A unit is posted. A supplied date may be the latest posting's own; dates before
\* it are refused.
Post(i) ==
    \E id \in Ids, date \in LatestDate .. MaxDate :
        /\ Drawn(i, id)
        /\ postings' = Append(postings, [id |-> id, by |-> i, date |-> date,
                                        balance |-> LatestBalance + 1])
        /\ drawn' = [drawn EXCEPT ![i] = IF id > @ THEN id ELSE @]
        /\ UNCHANGED walk

----------------------------------------------------------------------------
\* Slip: ties on the date are in whatever order the planner picks this time.
BeforeByDate(p, q) == p.date < q.date

\* ORDER BY date, id
Before(p, q) == p.date < q.date \/ (p.date = q.date /\ p.id < q.id)

\* The orders a statement may return the rows in.
Orders(ascending) ==
    {rows \in {[i \in DOMAIN postings |-> postings[f[i]]] :
                  f \in Bijection(DOMAIN postings, DOMAIN postings)} :
        \A i, j \in DOMAIN rows : i < j =>
            IF ascending THEN ~Before(rows[j], rows[i]) ELSE ~Before(rows[i], rows[j])}

Limit(size) ==
    IF size <= 0 THEN DefaultSize
    ELSE IF size > LargestSize THEN LargestSize ELSE size

\* Two's complement in a word that holds -half up to half - 1.
Wrapped(n, half) == ((n + half) % (2 * half)) - half

\* Slip: pages counted from zero.
OffsetFromZero(number, size) == number * Limit(size)

\* The number and the size are widened to twice their bits before they are multiplied.
Offset(number, size) ==
    Wrapped((IF number < 1 THEN 0 ELSE number - 1) * Limit(size),
            2 * (LargestNumber + 1) * (LargestNumber + 1))

Open(size, number, ascending) ==
    /\ walk.stage = "closed"
    /\ walk' = [stage |-> "count", size |-> size, number |-> number, ascending |-> ascending,
                total |-> 0, rows |-> <<>>, seen |-> {}, owed |-> StoredIds]
    /\ UNCHANGED <<postings, drawn>>

Count ==
    /\ walk.stage = "count"
    /\ walk' = [walk EXCEPT !.stage = "page", !.total = Len(postings)]
    /\ UNCHANGED <<postings, drawn>>

\* One page. The reader goes on until it gets an empty one.
ReadPage ==
    /\ walk.stage = "page"
    /\ \E order \in Orders(walk.ascending) :
          LET from == Offset(walk.number, walk.size)
              rows == SubSeq(order, from + 1,
                             IF from + Limit(walk.size) < Len(order)
                               THEN from + Limit(walk.size) ELSE Len(order))
          IN  walk' = [walk EXCEPT !.stage = IF rows = <<>> THEN "closed" ELSE "count",
                                   !.number = @ + 1,
                                   !.rows = rows,
                                   !.seen = @ \cup {rows[i].id : i \in DOMAIN rows}]
    /\ UNCHANGED <<postings, drawn>>

Init ==
    /\ postings = <<>>
    /\ drawn = [i \in Instances |-> 0]
    /\ walk \in {[stage |-> "closed", size |-> size, number |-> 1, ascending |-> TRUE,
                  total |-> 0, rows |-> <<>>, seen |-> {}, owed |-> {}] : size \in Sizes}

Next ==
    \/ \E i \in Instances : Post(i)
    \/ \E size \in Sizes, number \in {0, 1}, ascending \in BOOLEAN : Open(size, number, ascending)
    \/ Count
    \/ ReadPage

Spec == Init /\ [][Next]_vars

----------------------------------------------------------------------------
\* A reader that turns pages until one is empty has seen every posting there was
\* when it began, whatever was posted between its pages and between the two
\* statements of each: later postings only push rows to pages it has yet to ask for.
PagesMissNothing == walk.stage = "closed" => walk.owed \subseteq walk.seen

\* No two instances posted to the account on one date: then ids settle a tie in the
\* order the postings were committed.
TiesHaveOneWriter ==
    \A i, j \in DOMAIN postings : postings[i].date = postings[j].date => postings[i].by = postings[j].by

\* Oldest first, a reader may also stop where the total of the last page says the
\* register ends, though that was counted before the page was read.
TotalEndsTheWalk ==
    /\ walk.stage = "count" /\ walk.rows # <<>>
    /\ walk.ascending
    /\ (walk.number - 1) * Limit(walk.size) >= walk.total
    /\ TiesHaveOneWriter
    => walk.owed \subseteq walk.seen

\* Each row of an ascending page shows the balance of the row above it plus its own
\* amount: the order rows are read in is the order they were applied in.
BalancesReadInOrder ==
    walk.ascending =>
        \A i \in DOMAIN walk.rows : i > 1 =>
            walk.rows[i].balance = walk.rows[i - 1].balance + 1

\* So they are where one writer dated every tie, in particular on one instance.
BalancesFollowTheirWriter == TiesHaveOneWriter => BalancesReadInOrder
================================================================================
