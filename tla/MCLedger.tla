-------------------------------- MODULE MCLedger --------------------------------
(***************************************************************************)
(* Instances of Ledger for TLC: the drafts each run's callers send.        *)
(***************************************************************************)
EXTENDS LedgerInvariants

To(account, amount) == [account |-> account, amount |-> amount]

Draft(key, note, when, postings, verify) ==
    [key |-> key, note |-> note, date |-> when, postings |-> postings, verify |-> verify]

\* Money in opposite directions between accounts under keys of their own, two legs
\* on one account, and a clash on the first key that shares no account with it, so
\* that only the key makes the two meet.  The amounts meet the largest balance, dip
\* below zero and recover, and spend what another verified call is spending.
TransferDrafts ==
    {Draft("k1", "fund", NoDate, <<To(1, 2), To(2, -2)>>, {}),
     Draft("k1", "clash", NoDate, <<To(3, 1), To(3, -1)>>, {}),
     Draft("k2", "spend", NoDate, <<To(1, -2), To(3, 2)>>, {1}),
     Draft("k3", "refund", NoDate, <<To(3, 1), To(1, -1)>>, {1}),
     Draft("k4", "dip", NoDate, <<To(3, -1), To(2, -1), To(3, 2)>>, {3})}

\* One key and one content, as a retry sends it, against transactions that move
\* the accounts' dates on: supplied dates with digits below the microsecond,
\* behind the clock, at it, at the tolerance and past it, and a stamped one.
DateDrafts ==
    {Draft("k1", "rent", 1, <<To(1, 1), To(2, -1)>>, {}),
     Draft("k1", "rent", 4, <<To(1, 1), To(2, -1)>>, {}),
     Draft("k2", "fee", 2, <<To(2, 1), To(3, -1)>>, {}),
     Draft("k3", "late", NoDate, <<To(1, 1), To(3, -1)>>, {})}

\* Of those, a backdated one, the one that overtakes it and a stamped one.
OvertakingDrafts == {draft \in DateDrafts : draft.date # 4}

CallsSymmetry == Permutations(Calls)

OneInstance == [i \in Instances |-> 0]
\* Of two instances, the second runs one tick ahead.
OneAhead == [i \in Instances |-> i - 1]
================================================================================
