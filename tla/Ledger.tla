--------------------------------- MODULE Ledger ---------------------------------
(***************************************************************************)
(* Repository.RecordTransaction, the ledger's only write path, as several  *)
(* calls run it at once against one Postgres database.                     *)
(*                                                                         *)
(* Each call takes the steps of the handler between its database round     *)
(* trips.  Postgres is modelled by what the code asks of it at READ        *)
(* COMMITTED: `book` holds the committed version of every balance row with *)
(* its postings, `tentative` the version under the row's lock, `held` who  *)
(* holds which lock.  A unique key makes an insert wait for an uncommitted *)
(* row of the same key.  A call may fail between any two steps, or commit  *)
(* and lose the acknowledgement.                                           *)
(***************************************************************************)
EXTENDS LedgerData, FiniteSets

CONSTANTS
    Calls,       \* RecordTransaction calls; a retry is a call of its own
    NoCall,      \* no transaction to answer with
    Instances,   \* ledger processes sharing the database
    ClockSkew,   \* how far each instance's clock runs ahead of the slowest
    PoolSize,    \* db.SetMaxOpenConns, per instance
    MaxClock     \* bound on the clock

ASSUME LedgerConstants ==
    /\ NoCall \notin Calls
    /\ ClockSkew \in [Instances -> Nat]
    /\ PoolSize \in Nat \ {0}
    /\ MaxClock \in Nat

VARIABLES
    clock,         \* the slowest instance's clock
    request,       \* the draft each call carries
    instance,      \* the instance that serves each call
    pc,            \* where each call is
    now,           \* the clock as each call read it
    date,          \* each call's transaction date, provisional until settled
    latest,        \* the latest posting date each call has read under its locks
    leg,           \* the next leg each call posts
    held,          \* the row locks each call holds
    conns,         \* calls with a database transaction open on a connection
    transactions,  \* the transactions table
    book,          \* committed balance rows and their postings
    tentative,     \* the rows as their lock holders have left them
    answer         \* what each call was told

vars == <<clock, request, instance, pc, now, date, latest, leg, held, conns,
          transactions, book, tentative, answer>>

callers == <<clock, request, instance>>
locals  == <<now, date, latest, leg>>
tables  == <<transactions, book>>

Codes == {"none", "recorded", "replayed", "reused", "backdated",
          "too_far_ahead", "overdraft", "failed"}

Stages == {"check", "begin", "lock", "post", "recheck", "reread", "done"}

Transaction ==
    [id: Calls, key: Keys, fingerprint: {Fingerprint(draft) : draft \in Drafts}, date: Nat]

Posting == [tx: Calls, amount: Int, balance: Int, date: Nat]

Row == [balance: Int, last_date: Nat \cup {ZeroTime}, register: Seq(Posting)]

TypeOK ==
    /\ clock \in Nat
    /\ request \in [Calls -> Drafts]
    /\ instance \in [Calls -> Instances]
    /\ pc \in [Calls -> Stages]
    /\ now \in [Calls -> Nat]
    /\ date \in [Calls -> Nat]
    /\ latest \in [Calls -> Nat \cup {ZeroTime}]
    /\ leg \in [Calls -> Nat \ {0}]
    /\ held \in [Calls -> SUBSET Accounts]
    /\ conns \in SUBSET Calls
    /\ transactions \in SUBSET Transaction
    /\ book \in [Accounts -> Row]
    /\ tentative \in [Accounts -> Row]
    /\ answer \in [Calls -> [code: Codes, tx: Calls \cup {NoCall}]]

Init ==
    /\ clock = 0
    /\ request \in [Calls -> Drafts]
    /\ instance \in [Calls -> Instances]
    /\ pc = [c \in Calls |-> "check"]
    /\ now = [c \in Calls |-> 0]
    /\ date = [c \in Calls |-> 0]
    /\ latest = [c \in Calls |-> ZeroTime]
    /\ leg = [c \in Calls |-> 1]
    /\ held = [c \in Calls |-> {}]
    /\ conns = {}
    /\ transactions = {}
    /\ book = [a \in Accounts |-> NoRow]
    /\ tentative = [a \in Accounts |-> NoRow]
    /\ answer = [c \in Calls |-> [code |-> "none", tx |-> NoCall]]

----------------------------------------------------------------------------
\* The database and the connection pool.

\* database/sql queues a request for a connection past the pool's ceiling.
ConnectionFree(c) ==
    Cardinality({d \in conns : instance[d] = instance[c]}) < PoolSize

KeyFree(key) == \A t \in transactions : t.key # key

\* Slip: no unique constraint on the key.
KeyNeverPending(c) == FALSE

\* A row inserted under the key and not committed yet: another insert waits for it.
KeyPending(c) ==
    \E d \in Calls \ {c} : pc[d] = "post" /\ request[d].key = request[c].key

UniqueViolation(c) == ~KeyFree(request[c].key)

\* Slip: the row is read without its lock.
RowFreeUnlocked(a) == TRUE

RowFree(a) == \A d \in Calls : a \notin held[d]

Rollback(c) ==
    /\ held' = [held EXCEPT ![c] = {}]
    /\ conns' = conns \ {c}
    /\ tentative' = [a \in Accounts |-> IF a \in held[c] THEN book[a] ELSE tentative[a]]

Goto(c, stage) == pc' = [pc EXCEPT ![c] = stage]

Reply(c, code, tx) ==
    /\ Goto(c, "done")
    /\ answer' = [answer EXCEPT ![c] = [code |-> code, tx |-> tx]]

\* recordedUnder, for a key that is taken: replay the transaction it holds when
\* the fingerprints agree, refuse the key when they do not.
ReplyFromKey(c) ==
    \E t \in transactions :
        /\ t.key = request[c].key
        /\ IF t.fingerprint = Fingerprint(request[c])
             THEN Reply(c, "replayed", t.id)
             ELSE Reply(c, "reused", NoCall)

----------------------------------------------------------------------------
\* The handler, step by step.

\* The key is consulted before the write path opens.
CheckKey(c) ==
    /\ pc[c] = "check"
    /\ ConnectionFree(c)
    /\ \/ KeyFree(request[c].key) /\ Goto(c, "begin") /\ UNCHANGED answer
       \/ ReplyFromKey(c)
    /\ UNCHANGED <<callers, locals, tables, held, conns, tentative>>

\* BeginTx, then the clock is read: before any lock is asked for.
Begin(c) ==
    LET reading == clock + ClockSkew[instance[c]] IN
    /\ pc[c] = "begin"
    /\ ConnectionFree(c)
    /\ conns' = conns \cup {c}
    /\ now' = [now EXCEPT ![c] = reading]
    /\ date' = [date EXCEPT ![c] = ProvisionalDate(request[c].date, reading)]
    /\ Goto(c, "lock")
    /\ UNCHANGED <<callers, tables, latest, leg, held, tentative, answer>>

\* Slip: the last row read stands for all of them.
LatestOfLast(seen, row) == row.last_date

Latest(seen, row) == IF row.last_date > seen THEN row.last_date ELSE seen

\* One upsert of the lock loop.  It waits for whoever holds the row.
LockRow(c) ==
    \E a \in Accounts :
        LET row == Seeded(book[a], date[c]) IN
        /\ pc[c] = "lock"
        /\ LockedNext(request[c], held[c], a)
        /\ RowFree(a)
        /\ held' = [held EXCEPT ![c] = @ \cup {a}]
        /\ tentative' = [tentative EXCEPT ![a] = row]
        /\ latest' = [latest EXCEPT ![c] = Latest(@, row)]
        /\ UNCHANGED <<callers, pc, now, date, leg, conns, tables, answer>>

AllLocked(c) == pc[c] = "lock" /\ held[c] = Touched(request[c])

\* resolveDate refuses a date past the tolerance: ErrDateTooFarAhead is returned
\* as it is, without another look at the key.
RefuseTooFarAhead(c) ==
    /\ AllLocked(c)
    /\ DateTooFarAhead(request[c].date, now[c])
    /\ Rollback(c)
    /\ Reply(c, "too_far_ahead", NoCall)
    /\ UNCHANGED <<callers, locals, tables>>

\* Slip: the refusal is answered without another look at the key.
OvertakenAtOnce(c) ==
    /\ AllLocked(c)
    /\ Backdated(request[c].date, latest[c], now[c])
    /\ Rollback(c)
    /\ Reply(c, "backdated", NoCall)
    /\ UNCHANGED <<callers, locals, tables>>

\* Slip: the key is consulted before the transaction is rolled back.
OvertakenHolding(c) ==
    /\ AllLocked(c)
    /\ Backdated(request[c].date, latest[c], now[c])
    /\ Goto(c, "recheck")
    /\ UNCHANGED <<callers, locals, tables, held, conns, tentative, answer>>

\* resolveDate refuses a backdated date: roll back, then consult the key again.
Overtaken(c) ==
    /\ AllLocked(c)
    /\ Backdated(request[c].date, latest[c], now[c])
    /\ Rollback(c)
    /\ Goto(c, "recheck")
    /\ UNCHANGED <<callers, locals, tables, answer>>

\* resolveDate settles the date and the transactions row goes in under the key.
InsertTransaction(c) ==
    /\ AllLocked(c)
    /\ ~DateRefused(request[c].date, latest[c], now[c])
    /\ ~UniqueViolation(c)
    /\ ~KeyPending(c)
    /\ date' = [date EXCEPT ![c] = ResolvedDate(request[c].date, latest[c], now[c])]
    /\ Goto(c, "post")
    /\ UNCHANGED <<callers, now, latest, leg, held, conns, tables, tentative, answer>>

\* The insert violates the unique key: roll the attempt back, then re-read.
LoseToWinner(c) ==
    /\ AllLocked(c)
    /\ ~DateRefused(request[c].date, latest[c], now[c])
    /\ UniqueViolation(c)
    /\ Rollback(c)
    /\ Goto(c, "reread")
    /\ UNCHANGED <<callers, locals, tables, answer>>

\* recordedUnder after either rollback, on a connection from the pool again.
Reconsult(c) ==
    /\ pc[c] \in {"recheck", "reread"}
    /\ ConnectionFree(c)
    /\ \/ /\ KeyFree(request[c].key)
          /\ Reply(c, IF pc[c] = "recheck" THEN "backdated" ELSE "reused", NoCall)
       \/ ReplyFromKey(c)
    /\ UNCHANGED <<callers, locals, tables, held, conns, tentative>>

LegsLeft(c) == pc[c] = "post" /\ leg[c] <= Len(request[c].postings)
Leg(c) == request[c].postings[leg[c]]

\* Slip: the balance is read back from the committed row.
LegBaseCommitted(c) == book[Leg(c).account]

LegBase(c) == tentative[Leg(c).account]

LegRow(c) == Applied(LegBase(c), c, Leg(c).amount, date[c])

\* Slip: only the amount is put through the conversion.
ReportableAmount(row) == Fits(row.register[Len(row.register)].amount)

\* moneyfmt.FromDecimal carries the running balance back to the caller.
Reportable(row) == Fits(row.balance)

\* One turn of the postings loop: the balance upsert and the posting.
PostLeg(c) ==
    /\ LegsLeft(c)
    /\ Reportable(LegRow(c))
    /\ tentative' = [tentative EXCEPT ![Leg(c).account] = LegRow(c)]
    /\ leg' = [leg EXCEPT ![c] = @ + 1]
    /\ UNCHANGED <<callers, pc, now, date, latest, held, conns, tables, answer>>

\* A running balance no Money can carry aborts the transaction.
RefuseUnrepresentable(c) ==
    /\ LegsLeft(c)
    /\ ~Reportable(LegRow(c))
    /\ Rollback(c)
    /\ Reply(c, "failed", NoCall)
    /\ UNCHANGED <<callers, locals, tables>>

LegsPosted(c) == pc[c] = "post" /\ leg[c] > Len(request[c].postings)

\* Slip: the guard judges the balances the call found.
OverdrawnBefore(c) == \E a \in request[c].verify : book[a].balance < 0

\* The verification, once every leg is applied.
Overdrawn(c) == \E a \in request[c].verify : tentative[a].balance < 0

\* Slip: the verification comes after the commit.
RefuseOverdraftCommitted(c) ==
    /\ LegsPosted(c)
    /\ Overdrawn(c)
    /\ book' = [a \in Accounts |-> IF a \in held[c] THEN tentative[a] ELSE book[a]]
    /\ held' = [held EXCEPT ![c] = {}]
    /\ conns' = conns \ {c}
    /\ Reply(c, "overdraft", NoCall)
    /\ UNCHANGED <<callers, locals, transactions, tentative>>

\* Slip: nothing rolls back, and the locks and the connection are kept.
RefuseOverdraftOpen(c) ==
    /\ LegsPosted(c)
    /\ Overdrawn(c)
    /\ Reply(c, "overdraft", NoCall)
    /\ UNCHANGED <<callers, locals, tables, held, conns, tentative>>

RefuseOverdraft(c) ==
    /\ LegsPosted(c)
    /\ Overdrawn(c)
    /\ Rollback(c)
    /\ Reply(c, "overdraft", NoCall)
    /\ UNCHANGED <<callers, locals, tables>>

\* Slip: the date the transaction settled on is hashed as if it were supplied.
StoredFingerprintStamped(c) == [Fingerprint(request[c]) EXCEPT !.date = date[c]]

StoredFingerprint(c) == Fingerprint(request[c])

\* The commit publishes everything and frees the locks.  Its acknowledgement
\* may be lost, and then the caller is told the call failed.
Commit(c) ==
    /\ LegsPosted(c)
    /\ ~Overdrawn(c)
    /\ transactions' = transactions \cup
         {[id |-> c, key |-> request[c].key,
           fingerprint |-> StoredFingerprint(c), date |-> date[c]]}
    /\ book' = [a \in Accounts |-> IF a \in held[c] THEN tentative[a] ELSE book[a]]
    /\ held' = [held EXCEPT ![c] = {}]
    /\ conns' = conns \ {c}
    /\ Reply(c, "recorded", c) \/ Reply(c, "failed", NoCall)
    /\ UNCHANGED <<callers, locals, tentative>>

\* Any other error, a cancelled context or the instance's death: Postgres rolls
\* an open transaction back and the caller has no answer to rely on.
Fail(c) ==
    /\ pc[c] # "done"
    /\ Rollback(c)
    /\ Reply(c, "failed", NoCall)
    /\ UNCHANGED <<callers, locals, tables>>

Step(c) ==
    \/ CheckKey(c) \/ Begin(c) \/ LockRow(c)
    \/ RefuseTooFarAhead(c) \/ Overtaken(c) \/ InsertTransaction(c) \/ LoseToWinner(c)
    \/ Reconsult(c)
    \/ PostLeg(c) \/ RefuseUnrepresentable(c) \/ RefuseOverdraft(c) \/ Commit(c)

Tick ==
    /\ clock < MaxClock
    /\ clock' = clock + 1
    /\ UNCHANGED <<request, instance, pc, locals, held, conns, tables, tentative, answer>>

Finished == (\A c \in Calls : pc[c] = "done") /\ UNCHANGED vars

Next == (\E c \in Calls : Step(c) \/ Fail(c)) \/ Tick \/ Finished

Spec == Init /\ [][Next]_vars

\* A handler that can take its next step takes it; nothing makes calls fail or
\* the clock advance.
FairSpec == Spec /\ \A c \in Calls : WF_vars(Step(c))
================================================================================
