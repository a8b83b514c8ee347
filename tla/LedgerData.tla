------------------------------- MODULE LedgerData -------------------------------
(***************************************************************************)
(* What the ledger records: drafts, postings and balance rows, and the     *)
(* pure functions over them that both the abstract book (Book) and the     *)
(* write path (Ledger) use.                                                *)
(*                                                                         *)
(* A transaction carries one currency, so an account stands for one        *)
(* balanceKey: the account in that currency.  Accounts are numbered in the *)
(* order lockOrder sorts them.  The note stands for the note and the       *)
(* metadata, which are only ever compared for equality.                    *)
(***************************************************************************)
EXTENDS LedgerDates, Sequences, SequencesExt

CONSTANTS
    Accounts,   \* balance rows, as their ranks in the writers' lock order
    Keys,       \* idempotency keys
    Notes,      \* note and metadata of a transaction
    Drafts,     \* the drafts callers send
    MaxUnits    \* the largest amount a google.type.Money carries

\* The balances moneyfmt.FromDecimal can report: whole units in an int64.
Fits(balance) == balance \in -(MaxUnits + 1)..MaxUnits

PostingDraft == [account: Accounts, amount: Int]

TransactionDraft ==
    [key: Keys, note: Notes, date: Nat \cup {NoDate},
     postings: Seq(PostingDraft), verify: SUBSET Accounts]

\* The distinct balance rows a draft touches.
Touched(draft) == {draft.postings[i].account : i \in DOMAIN draft.postings}

SumsToZero(postings) ==
    FoldLeft(LAMBDA sum, posting: sum + posting.amount, 0, postings) = 0

\* What draftFromRequest lets through, and so what the repository may rely on.
Recordable(draft) ==
    /\ Len(draft.postings) >= 2
    /\ \A i \in DOMAIN draft.postings :
          /\ draft.postings[i].amount # 0
          /\ Fits(draft.postings[i].amount)
    /\ SumsToZero(draft.postings)
    /\ draft.verify \subseteq Touched(draft)

ASSUME DataConstants ==
    /\ Accounts \subseteq Nat
    /\ MaxUnits \in Nat
    /\ Drafts \subseteq TransactionDraft

ASSUME DraftsRecordable == \A draft \in Drafts : Recordable(draft)

\* Slip: the supplied date is left out of the hash.
FingerprintDateless(draft) ==
    [note |-> draft.note, date |-> NoDate, postings |-> draft.postings]

\* fingerprintOf, taken to be free of collisions: the supplied date at stored
\* resolution and no stamped one, the legs in request order, no verify accounts.
Fingerprint(draft) ==
    [note |-> draft.note,
     date |-> IF draft.date = NoDate THEN NoDate ELSE TruncateDate(draft.date),
     postings |-> draft.postings]

\* An account_balances row with the postings of that account in commit order.
\* NoRow is the row not there yet.
NoRow == [balance |-> 0, last_date |-> ZeroTime, register |-> <<>>]

\* The upsert that locks a row: it seeds a new one with the provisional date and
\* leaves one that is there alone.
Seeded(row, date) == IF row = NoRow THEN [row EXCEPT !.last_date = date] ELSE row

\* Slip: the posting keeps the balance from before its leg.
AppliedBefore(row, tx, amount, date) ==
    [balance |-> row.balance + amount,
     last_date |-> date,
     register |-> Append(row.register,
                         [tx |-> tx, amount |-> amount,
                          balance |-> row.balance, date |-> date])]

\* The upsert that applies a leg, and the posting that keeps its running balance.
Applied(row, tx, amount, date) ==
    [balance |-> row.balance + amount,
     last_date |-> date,
     register |-> Append(row.register,
                         [tx |-> tx, amount |-> amount,
                          balance |-> row.balance + amount, date |-> date])]

\* Slip: the rows are locked in the order the request names them.
LockedNextAsRequested(draft, locked, account) ==
    \E i \in DOMAIN draft.postings :
        /\ account = draft.postings[i].account
        /\ account \notin locked
        /\ \A j \in 1..(i - 1) : draft.postings[j].account \in locked

\* lockOrder: the row a writer locks next, having locked those in `locked`.
LockedNext(draft, locked, account) ==
    /\ account \in Touched(draft) \ locked
    /\ \A other \in Touched(draft) \ locked : account <= other
================================================================================
