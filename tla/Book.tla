---------------------------------- MODULE Book ----------------------------------
(***************************************************************************)
(* What RecordTransaction promises, with every call one atomic step: the   *)
(* locks, the rollbacks, the second looks at the key and the connections   *)
(* of Ledger are how the code keeps this promise under concurrency.        *)
(*                                                                         *)
(* The promise says nothing of the clock.  A stamped date is any date past *)
(* the accounts' latest, and a caller who supplies one may be told it is   *)
(* too far ahead whatever the book holds.                                  *)
(***************************************************************************)
EXTENDS LedgerData

CONSTANTS
    Calls,   \* RecordTransaction calls
    NoCall,  \* no transaction to answer with
    Dates    \* the dates a transaction may be stored under

VARIABLES
    request,       \* the draft each call carries
    transactions,  \* the transactions recorded
    book,          \* balance rows and their postings
    answer         \* what each call was told

vars == <<request, transactions, book, answer>>

Init ==
    /\ request \in [Calls -> Drafts]
    /\ transactions = {}
    /\ book = [a \in Accounts |-> NoRow]
    /\ answer = [c \in Calls |-> [code |-> "none", tx |-> NoCall]]

Unanswered(c) == answer[c].code = "none"

Answer(c, code, tx) == answer' = [answer EXCEPT ![c] = [code |-> code, tx |-> tx]]

\* The transaction a key holds, if it holds one.
Holding(key) == {t \in transactions : t.key = key}

\* The book with all of a call's legs applied, in order.
BookAfter(c, when) ==
    [a \in Accounts |->
        FoldLeft(LAMBDA row, posting:
                    IF posting.account = a
                      THEN Applied(row, c, posting.amount, when) ELSE row,
                 book[a], request[c].postings)]

\* Forward-only: a supplied date is kept if no account has a later posting, a
\* stamped one is strictly past all of them.
Acceptable(c, when) ==
    \A a \in Touched(request[c]) :
        IF request[c].date = NoDate
          THEN book[a].last_date < when
          ELSE when = TruncateDate(request[c].date) /\ book[a].last_date <= when

Representable(rows) ==
    \A a \in Accounts : \A i \in DOMAIN rows[a].register : Fits(rows[a].register[i].balance)

Guarded(c, rows) == \A a \in request[c].verify : rows[a].balance >= 0

Record(c) ==
    /\ Unanswered(c)
    /\ Answer(c, "recorded", c) \/ Answer(c, "failed", NoCall)
    /\ Holding(request[c].key) = {}
    /\ \E when \in Dates :
        /\ Acceptable(c, when)
        /\ transactions' = transactions \cup
             {[id |-> c, key |-> request[c].key,
               fingerprint |-> Fingerprint(request[c]), date |-> when]}
        /\ Representable(BookAfter(c, when))
        /\ Guarded(c, BookAfter(c, when))
        /\ book' = BookAfter(c, when)
    /\ UNCHANGED request

Replay(c) ==
    /\ Unanswered(c)
    /\ \E t \in Holding(request[c].key) :
        /\ Answer(c, "replayed", t.id)
        /\ t.fingerprint = Fingerprint(request[c])
    /\ UNCHANGED <<request, transactions, book>>

Refuse(c, code) ==
    /\ Unanswered(c)
    /\ Answer(c, code, NoCall)
    /\ UNCHANGED <<request, transactions, book>>

Collide(c) ==
    /\ Refuse(c, "reused")
    /\ \E t \in Holding(request[c].key) : t.fingerprint # Fingerprint(request[c])

RefuseBackdated(c) ==
    /\ Refuse(c, "backdated")
    /\ Holding(request[c].key) = {}
    /\ request[c].date # NoDate
    /\ \E a \in Touched(request[c]) : TruncateDate(request[c].date) < book[a].last_date

RefuseTooFarAhead(c) ==
    /\ Refuse(c, "too_far_ahead")
    /\ request[c].date # NoDate

RefuseOverdraft(c) ==
    /\ Refuse(c, "overdraft")
    /\ Holding(request[c].key) = {}
    /\ \E when \in Dates : Acceptable(c, when) /\ ~Guarded(c, BookAfter(c, when))

Fail(c) == Refuse(c, "failed")

Next ==
    \E c \in Calls :
        \/ Record(c) \/ Replay(c) \/ Collide(c) \/ RefuseBackdated(c)
        \/ RefuseTooFarAhead(c) \/ RefuseOverdraft(c) \/ Fail(c)

Spec == Init /\ [][Next]_vars
================================================================================
