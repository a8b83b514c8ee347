---------------------------- MODULE LedgerProperties ----------------------------
(***************************************************************************)
(* What the write path owes its callers and its readers.                   *)
(***************************************************************************)
EXTENDS Ledger

\* Every account's register is a chain of running balances from zero, and the
\* balance snapshot is the last of them, on committed rows and on rows a call is
\* still writing: applying a leg is a read-modify-write of a row other calls and
\* other legs of the same transaction also apply to.
Chained(row) ==
    /\ \A i \in DOMAIN row.register :
          row.register[i].balance =
             row.register[i].amount + (IF i = 1 THEN 0 ELSE row.register[i - 1].balance)
    /\ row.balance = IF row.register = <<>> THEN 0 ELSE row.register[Len(row.register)].balance

RunningBalances == \A a \in Accounts : Chained(book[a]) /\ Chained(tentative[a])

\* The ledger is forward-only: in the order postings were committed to an account
\* their dates never go back, and the row's last_date is the last of them.
Forward(row) ==
    /\ \A i, j \in DOMAIN row.register :
          i <= j => row.register[i].date <= row.register[j].date
    /\ row.register # <<>> => row.last_date = row.register[Len(row.register)].date

DatesForward == \A a \in Accounts : Forward(book[a])

\* How many of a draft's first n legs are on an account.
LegsOn(draft, account, n) == Cardinality({i \in 1 .. n : draft.postings[i].account = account})

\* A transaction is in the registers with each of its legs, once, in order and with
\* nobody else's between them, or not at all, whatever call failed, lost a race or was
\* refused at whatever step.
AllOrNothing ==
    \A a \in Accounts, c \in Calls :
        LET register == book[a].register
            posted == {i \in DOMAIN register : register[i].tx = c}
            legs == request[c].postings
            asked(n) == LegsOn(request[c], a, n)
        IN  IF \E t \in transactions : t.id = c
              THEN \E before \in 0 .. Len(register) :
                     /\ posted = before + 1 .. before + asked(Len(legs))
                     /\ \A n \in DOMAIN legs : legs[n].account = a =>
                           register[before + asked(n)].amount = legs[n].amount
              ELSE posted = {}

\* The trial balance: what the accounts hold sums to zero at every moment a
\* reader can look.
TrialBalance == MapThenSumSet(LAMBDA a: book[a].balance, Accounts) = 0

\* A key records once: duplicates racing each other, and retries of a call whose
\* acknowledgement was lost, leave one transaction, and every call told its
\* transaction is recorded or replayed was given that one.
ExactlyOnce ==
    /\ \A t, u \in transactions : t.key = u.key => t = u
    /\ \A c \in Calls : answer[c].code \in {"recorded", "replayed"} =>
          \E t \in transactions : t.id = answer[c].tx /\ t.key = request[c].key

\* A replay hands back the transaction the caller asked for, with its note, its
\* legs and the date it supplied, never another one under the same key.
ReplayIsTheSame ==
    \A c \in Calls : answer[c].code = "replayed" =>
        LET original == request[answer[c].tx] IN
        /\ original.note = request[c].note
        /\ original.postings = request[c].postings
        /\ (request[c].date = NoDate) <=> (original.date = NoDate)
        /\ request[c].date # NoDate =>
              \E t \in transactions :
                  t.id = answer[c].tx /\ t.date = TruncateDate(request[c].date)

\* An identical request is never told its key was reused: only a transaction some
\* other draft asked for makes the key a collision.
RetryNeverCollides ==
    \A c \in Calls : answer[c].code = "reused" =>
        \E t \in transactions : t.key = request[c].key /\ request[t.id] # request[c]

\* A stamped date lands strictly past every posting already on the accounts it
\* touches, through clock skew between instances and postings parked ahead.
StampedStrictlyPast ==
    \A a \in Accounts : \A i, j \in DOMAIN book[a].register :
        LET earlier == book[a].register[i]
            later   == book[a].register[j]
        IN  /\ i < j
            /\ earlier.tx # later.tx
            /\ request[later.tx].date = NoDate
            => earlier.date < later.date

LastLeg(register, i, tx) ==
    /\ register[i].tx = tx
    /\ \A j \in DOMAIN register : j > i => register[j].tx # tx

\* No committed transaction leaves an account it was asked to verify overdrawn,
\* even if every concurrent spender of the account passes the check alone.
GuardHonoured ==
    \A t \in transactions : \A a \in request[t.id].verify :
        \A i \in DOMAIN book[a].register :
            LastLeg(book[a].register, i, t.id) => book[a].register[i].balance >= 0

\* A caller told its date is backdated may give the key up: no attempt under the
\* key with the same content is, or is ever going to be, recorded.
BackdatedIsFinal ==
    \A c \in Calls : answer[c].code = "backdated" =>
        \A t \in transactions :
            ~(t.key = request[c].key /\ t.fingerprint = Fingerprint(request[c]))

\* A call refused by the ledger, for its date, its key or its balance, has recorded
\* nothing and leaves nothing behind: no posting, committed or not, no lock that others
\* would wait for and no connection kept from the pool, wherever on its way it was refused.
Refusals == {"reused", "backdated", "too_far_ahead", "overdraft"}

RefusedLeavesNoTrace ==
    \A c \in Calls : answer[c].code \in Refusals =>
        /\ \A t \in transactions : t.id # c
        /\ \A a \in Accounts : \A row \in {book[a], tentative[a]} :
              \A i \in DOMAIN row.register : row.register[i].tx # c
        /\ held[c] = {} /\ c \notin conns

\* Everything a read reports of the book can be reported, the amounts of postings, their
\* running balances and the snapshots: one that could not would fail every read that
\* reaches it, for good, in a ledger that corrects nothing.
ReadsNeverFail ==
    \A a \in Accounts :
        /\ Fits(book[a].balance)
        /\ \A i \in DOMAIN book[a].register :
              Fits(book[a].register[i].amount) /\ Fits(book[a].register[i].balance)

\* Calls wait for row locks and for uncommitted keys; no set of them waits in a
\* ring, whatever order their drafts name the accounts in.
WaitsFor(c, d) ==
    \/ /\ pc[c] = "lock"
       /\ \E a \in held[d] : LockedNext(request[c], held[c], a)
    \/ /\ AllLocked(c)
       /\ pc[d] = "post" /\ d # c /\ request[d].key = request[c].key

NoWaitCycle ==
    \A ring \in (SUBSET Calls) \ {{}} :
        \E c \in ring : \A d \in ring : ~WaitsFor(c, d)

\* Every call is answered, on the smallest pool, if its instance keeps running.
EveryCallIsAnswered == \A c \in Calls : <>(pc[c] = "done")

----------------------------------------------------------------------------
\* What the repository says of the code and the code does not do.

\* A retry is owed the original transaction: no call is refused for a date too far
\* ahead once the key holds a transaction of the same content.
RetryOwedOriginal ==
    [][\A c \in Calls :
          answer[c].code # "too_far_ahead" /\ answer'[c].code = "too_far_ahead" =>
             \A t \in transactions :
                ~(t.key = request[c].key /\ t.fingerprint = Fingerprint(request[c]))]_vars

\* With no posting at or ahead of the clock on the accounts touched, the stamp is
\* simply now.
StampIsNow ==
    \A c \in Calls :
        /\ pc[c] = "post"
        /\ request[c].date = NoDate
        /\ \A a \in Touched(request[c]) : book[a].last_date < TruncateDate(now[c])
        => date[c] = TruncateDate(now[c])
================================================================================
