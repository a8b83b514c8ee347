------------------------------ MODULE LedgerProofs ------------------------------
(***************************************************************************)
(* Theorems about the write path, for any accounts, drafts, calls,         *)
(* instances, pool and clock. First types, locks, dates and balances; then *)
(* how calls meet, on a key and on rows, and what they leave behind and    *)
(* are told: a key records once, no calls wait in a ring, a refused call   *)
(* leaves nothing, what is committed was verified and fits, refusals of a  *)
(* date are final, replays are the same and stamps strictly past.          *)
(***************************************************************************)
EXTENDS LedgerInvariants, FiniteSetTheorems, WellFoundedInduction, TLAPS

----------------------------------------------------------------------------
\* The date rule.

\* Storage drops digits and adds none.
LEMMA TruncateDateIsDate ==
    ASSUME NEW t \in Nat
    PROVE  TruncateDate(t) \in Nat /\ TruncateDate(t) <= t
  BY DateConstants DEF TruncateDate

\* A provisional date is a date.
LEMMA ProvisionalDateIsDate ==
    ASSUME NEW supplied \in Nat \cup {NoDate}, NEW reading \in Nat
    PROVE  ProvisionalDate(supplied, reading) \in Nat
  BY TruncateDateIsDate DEF ProvisionalDate, NoDate

\* The date a call settles on is a date, and no posting it read under its locks
\* lies past it; a stamped one is strictly past them all.
LEMMA ResolvedDateIsPast ==
    ASSUME NEW supplied \in Nat \cup {NoDate}, NEW reading \in Nat,
           NEW seen \in Nat \cup {ZeroTime},
           ~DateRefused(supplied, seen, reading)
    PROVE  /\ ResolvedDate(supplied, seen, reading) \in Nat
           /\ seen <= ResolvedDate(supplied, seen, reading)
           /\ supplied = NoDate => seen < ResolvedDate(supplied, seen, reading)
  <1>1. ProvisionalDate(supplied, reading) \in Nat
    BY ProvisionalDateIsDate
  <1> QED
    BY <1>1, DateConstants
    DEF ResolvedDate, DateRefused, DateTooFarAhead, Backdated, ZeroTime, NoDate

----------------------------------------------------------------------------
\* Rows and drafts are of the types the module declares.

\* What is known of a draft.
LEMMA DraftTypes ==
    ASSUME NEW draft \in Drafts
    PROVE  /\ draft.key \in Keys
           /\ draft.date \in Nat \cup {NoDate}
           /\ draft.postings \in Seq(PostingDraft)
           /\ Touched(draft) \subseteq Accounts
  <1>1. draft \in TransactionDraft
    BY DataConstants
  <1>2. /\ draft.key \in Keys
        /\ draft.date \in Nat \cup {NoDate}
        /\ draft.postings \in Seq(PostingDraft)
    BY <1>1 DEF TransactionDraft
  <1>3. \A i \in DOMAIN draft.postings : draft.postings[i] \in PostingDraft
    BY <1>2
  <1>4. \A i \in DOMAIN draft.postings : draft.postings[i].account \in Accounts
    BY <1>3 DEF PostingDraft
  <1> QED
    BY <1>2, <1>4 DEF Touched

\* A row that is not there has the type of a row.
LEMMA NoRowType == NoRow \in Row
  BY DEF NoRow, Row, ZeroTime

\* Seeding keeps the type.
LEMMA SeededType ==
    ASSUME NEW row \in Row, NEW when \in Nat
    PROVE  Seeded(row, when) \in Row
  BY DEF Seeded, Row

\* So does applying a leg.
LEMMA AppliedType ==
    ASSUME NEW row \in Row, NEW tx \in Calls, NEW amount \in Int, NEW when \in Nat
    PROVE  Applied(row, tx, amount, when) \in Row
  <1>1. [tx |-> tx, amount |-> amount, balance |-> row.balance + amount, date |-> when]
            \in Posting
    BY DEF Row, Posting
  <1>2. Append(row.register,
               [tx |-> tx, amount |-> amount, balance |-> row.balance + amount,
                date |-> when]) \in Seq(Posting)
    BY <1>1 DEF Row
  <1> QED
    BY <1>2 DEF Applied, Row

----------------------------------------------------------------------------
\* Type correctness.

\* So does a rollback.
LEMMA RollbackTypes ==
    ASSUME TypeOK, NEW c \in Calls, Rollback(c)
    PROVE  /\ held' \in [Calls -> SUBSET Accounts]
           /\ conns' \in SUBSET Calls
           /\ tentative' \in [Accounts -> Row]
  BY DEF TypeOK, Rollback

\* So does an answer.
LEMMA ReplyTypes ==
    ASSUME TypeOK, NEW c \in Calls, NEW code \in Codes, NEW tx \in Calls \cup {NoCall},
           Reply(c, code, tx)
    PROVE  /\ pc' \in [Calls -> Stages]
           /\ answer' \in [Calls -> [code: Codes, tx: Calls \cup {NoCall}]]
  BY DEF TypeOK, Reply, Goto, Stages

\* So does an answer read from the key.
LEMMA ReplyFromKeyTypes ==
    ASSUME TypeOK, NEW c \in Calls, ReplyFromKey(c)
    PROVE  /\ pc' \in [Calls -> Stages]
           /\ answer' \in [Calls -> [code: Codes, tx: Calls \cup {NoCall}]]
  <1>1. \A t \in transactions : t.id \in Calls
    BY DEF TypeOK, Transaction
  <1>2. "replayed" \in Codes /\ "reused" \in Codes
    BY DEF Codes
  <1>3. \/ \E t \in transactions : Reply(c, "replayed", t.id)
        \/ Reply(c, "reused", NoCall)
    BY DEF ReplyFromKey
  <1> QED
    BY <1>1, <1>2, <1>3, ReplyTypes

\* The row a leg is applied to is one of the accounts' rows.
LEMMA LegRowType ==
    ASSUME TypeOK, NEW c \in Calls, LegsLeft(c)
    PROVE  /\ Leg(c).account \in Touched(request[c])
           /\ Leg(c).account \in Accounts
           /\ Leg(c).amount \in Int
           /\ LegRow(c) \in Row
  <1>1. /\ request[c].postings \in Seq(PostingDraft)
        /\ Touched(request[c]) \subseteq Accounts
    BY DraftTypes DEF TypeOK
  <1>2. leg[c] \in DOMAIN request[c].postings
    BY <1>1 DEF TypeOK, LegsLeft
  <1>3. Leg(c) \in PostingDraft
    BY <1>1, <1>2 DEF Leg
  <1>4. Leg(c).amount \in Int
    BY <1>3 DEF PostingDraft
  <1>5. Leg(c).account \in Touched(request[c])
    BY <1>2 DEF Leg, Touched
  <1>6. LegBase(c) \in Row /\ date[c] \in Nat
    BY <1>1, <1>5 DEF TypeOK, LegBase
  <1> QED
    BY <1>1, <1>4, <1>5, <1>6, AppliedType DEF LegRow

\* The types hold to begin with.
LEMMA InitTypes == Init => TypeOK
  BY NoRowType DEF Init, TypeOK, Stages, Codes

\* Every step keeps them.
LEMMA NextTypes == TypeOK /\ [Next]_vars => TypeOK'
  <1> SUFFICES ASSUME TypeOK, [Next]_vars PROVE TypeOK'
    OBVIOUS
  <1> USE DEF callers, locals, tables
  <1>1. ASSUME NEW c \in Calls, CheckKey(c) PROVE TypeOK'
    <2>1. CASE Goto(c, "begin") /\ UNCHANGED answer
      BY <1>1, <2>1 DEF TypeOK, CheckKey, Goto, Stages
    <2>2. CASE ReplyFromKey(c)
      BY <1>1, <2>2, ReplyFromKeyTypes DEF TypeOK, CheckKey
    <2> QED
      BY <1>1, <2>1, <2>2 DEF CheckKey
  <1>2. ASSUME NEW c \in Calls, Begin(c) PROVE TypeOK'
    <2> DEFINE reading == clock + ClockSkew[instance[c]]
    <2>1. reading \in Nat
      BY LedgerConstants DEF TypeOK
    <2>2. ProvisionalDate(request[c].date, reading) \in Nat
      BY <2>1, DraftTypes, ProvisionalDateIsDate DEF TypeOK
    <2> HIDE DEF reading
    <2>3. /\ now' = [now EXCEPT ![c] = reading]
          /\ date' = [date EXCEPT ![c] = ProvisionalDate(request[c].date, reading)]
          /\ conns' = conns \cup {c}
          /\ Goto(c, "lock")
          /\ UNCHANGED <<callers, tables, latest, leg, held, tentative, answer>>
      BY <1>2 DEF Begin, reading
    <2> QED
      BY <2>1, <2>2, <2>3 DEF TypeOK, Goto, Stages
  <1>3. ASSUME NEW c \in Calls, LockRow(c) PROVE TypeOK'
    <2>1. PICK a \in Accounts :
            /\ held' = [held EXCEPT ![c] = @ \cup {a}]
            /\ tentative' = [tentative EXCEPT ![a] = Seeded(book[a], date[c])]
            /\ latest' = [latest EXCEPT ![c] = Latest(@, Seeded(book[a], date[c]))]
            /\ UNCHANGED <<callers, pc, now, date, leg, conns, tables, answer>>
      BY <1>3 DEF LockRow
    <2>2. Seeded(book[a], date[c]) \in Row
      BY SeededType DEF TypeOK
    <2>3. Latest(latest[c], Seeded(book[a], date[c])) \in Nat \cup {ZeroTime}
      BY <2>2 DEF TypeOK, Latest, Row
    <2> QED
      BY <2>1, <2>2, <2>3 DEF TypeOK
  <1>4. ASSUME NEW c \in Calls, RefuseTooFarAhead(c) PROVE TypeOK'
    BY <1>4, RollbackTypes, ReplyTypes DEF TypeOK, RefuseTooFarAhead, Codes
  <1>5. ASSUME NEW c \in Calls, Overtaken(c) PROVE TypeOK'
    BY <1>5, RollbackTypes DEF TypeOK, Overtaken, Goto, Stages
  <1>6. ASSUME NEW c \in Calls, InsertTransaction(c) PROVE TypeOK'
    <2>1. ResolvedDate(request[c].date, latest[c], now[c]) \in Nat
      BY <1>6, DraftTypes, ResolvedDateIsPast DEF TypeOK, InsertTransaction
    <2> QED
      BY <1>6, <2>1 DEF TypeOK, InsertTransaction, Goto, Stages
  <1>7. ASSUME NEW c \in Calls, LoseToWinner(c) PROVE TypeOK'
    BY <1>7, RollbackTypes DEF TypeOK, LoseToWinner, Goto, Stages
  <1>8. ASSUME NEW c \in Calls, Reconsult(c) PROVE TypeOK'
    <2>1. \/ Reply(c, "backdated", NoCall)
          \/ Reply(c, "reused", NoCall)
          \/ ReplyFromKey(c)
      BY <1>8 DEF Reconsult
    <2>2. /\ pc' \in [Calls -> Stages]
          /\ answer' \in [Calls -> [code: Codes, tx: Calls \cup {NoCall}]]
      BY <2>1, ReplyTypes, ReplyFromKeyTypes DEF Codes
    <2> QED
      BY <1>8, <2>2 DEF TypeOK, Reconsult
  <1>9. ASSUME NEW c \in Calls, PostLeg(c) PROVE TypeOK'
    BY <1>9, LegRowType DEF TypeOK, PostLeg
  <1>10. ASSUME NEW c \in Calls, RefuseUnrepresentable(c) PROVE TypeOK'
    BY <1>10, RollbackTypes, ReplyTypes DEF TypeOK, RefuseUnrepresentable, Codes
  <1>11. ASSUME NEW c \in Calls, RefuseOverdraft(c) PROVE TypeOK'
    BY <1>11, RollbackTypes, ReplyTypes DEF TypeOK, RefuseOverdraft, Codes
  <1>12. ASSUME NEW c \in Calls, Commit(c) PROVE TypeOK'
    <2>1. transactions' \in SUBSET Transaction
      BY <1>12, DraftTypes DEF TypeOK, Commit, Transaction, StoredFingerprint
    <2>2. book' \in [Accounts -> Row]
      BY <1>12 DEF TypeOK, Commit
    <2>3. /\ pc' \in [Calls -> Stages]
          /\ answer' \in [Calls -> [code: Codes, tx: Calls \cup {NoCall}]]
      BY <1>12, ReplyTypes DEF Commit, Codes
    <2> QED
      BY <1>12, <2>1, <2>2, <2>3 DEF TypeOK, Commit
  <1>13. ASSUME NEW c \in Calls, Fail(c) PROVE TypeOK'
    BY <1>13, RollbackTypes, ReplyTypes DEF TypeOK, Fail, Codes
  <1>14. CASE Tick
    BY <1>14 DEF TypeOK, Tick
  <1>15. CASE UNCHANGED vars
    BY <1>15 DEF TypeOK, vars
  <1> QED
    BY <1>1, <1>2, <1>3, <1>4, <1>5, <1>6, <1>7, <1>8, <1>9, <1>10, <1>11, <1>12,
       <1>13, <1>14, <1>15
    DEF Next, Step, Finished

\* Every variable keeps its type: the handler of every call, whatever fails.
THEOREM TypeCorrect == Spec => []TypeOK
  BY InitTypes, NextTypes, PTL DEF Spec

----------------------------------------------------------------------------
\* What a step does to the rows, the locks and the stages: four of the actions do
\* something of their own, the rest either roll back or touch none of these.

\* A step that ends in a rollback.
RolledBack(c) ==
    /\ Rollback(c)
    /\ pc' = [pc EXCEPT ![c] = pc'[c]]
    /\ pc'[c] \in {"recheck", "reread", "done"}
    /\ UNCHANGED <<request, locals, tables>>

\* A step that touches no row and no lock.
Quiet ==
    /\ \A c \in Calls :
          \/ pc'[c] = pc[c]
          \/ pc[c] = "check" /\ pc'[c] = "begin"
          \/ pc[c] \notin {"lock", "post"} /\ pc'[c] = "done"
    /\ UNCHANGED <<request, locals, tables, held, conns, tentative>>

\* Every step is one of them.
LEMMA StepKinds ==
    ASSUME TypeOK, [Next]_vars
    PROVE  \/ Quiet
           \/ \E c \in Calls :
                 \/ RolledBack(c) \/ Begin(c) \/ LockRow(c) \/ InsertTransaction(c)
                 \/ PostLeg(c) \/ Commit(c)
  <1> USE DEF callers, locals, tables
  <1>1. ASSUME NEW c \in Calls, NEW code, NEW tx, Reply(c, code, tx)
        PROVE  pc' = [pc EXCEPT ![c] = "done"]
    BY <1>1 DEF Reply, Goto
  <1>2. ASSUME NEW c \in Calls, ReplyFromKey(c)
        PROVE  pc' = [pc EXCEPT ![c] = "done"]
    BY <1>2, <1>1 DEF ReplyFromKey
  <1>3. ASSUME NEW c \in Calls, CheckKey(c) PROVE Quiet
    BY <1>3, <1>2 DEF CheckKey, Quiet, Goto, TypeOK
  <1>4. ASSUME NEW c \in Calls, Reconsult(c) PROVE Quiet
    <2>1. pc' = [pc EXCEPT ![c] = "done"]
      BY <1>4, <1>1, <1>2 DEF Reconsult
    <2> QED
      BY <1>4, <2>1 DEF Reconsult, Quiet, TypeOK
  <1>5. ASSUME NEW c \in Calls,
               \/ RefuseTooFarAhead(c) \/ RefuseUnrepresentable(c)
               \/ RefuseOverdraft(c) \/ Fail(c)
        PROVE  RolledBack(c)
    <2>1. /\ Rollback(c)
          /\ pc' = [pc EXCEPT ![c] = "done"]
          /\ UNCHANGED <<request, locals, tables>>
      BY <1>5, <1>1
      DEF RefuseTooFarAhead, RefuseUnrepresentable, RefuseOverdraft, Fail
    <2> QED
      BY <2>1 DEF RolledBack, TypeOK
  <1>6. ASSUME NEW c \in Calls, Overtaken(c) \/ LoseToWinner(c)
        PROVE  RolledBack(c)
    BY <1>6 DEF Overtaken, LoseToWinner, RolledBack, Goto, TypeOK
  <1>7. Tick \/ UNCHANGED vars => Quiet
    BY DEF Tick, vars, Quiet
  <1> QED
    BY <1>3, <1>4, <1>5, <1>6, <1>7 DEF Next, Step, Finished

----------------------------------------------------------------------------
\* The locks.

\* Nobody holds a lock at first.
LEMMA InitLocks == Init => LocksInv
  BY DEF Init, LocksInv

\* Every step keeps the locks.
LEMMA NextLocks == TypeOK /\ LocksInv /\ [Next]_vars => LocksInv'
  <1> SUFFICES ASSUME TypeOK, LocksInv, [Next]_vars PROVE LocksInv'
    OBVIOUS
  <1> USE DEF callers, locals, tables
  <1>1. CASE Quiet
    BY <1>1 DEF Quiet, LocksInv
  <1>2. ASSUME NEW c \in Calls, RolledBack(c) PROVE LocksInv'
    BY <1>2 DEF RolledBack, Rollback, LocksInv, TypeOK
  <1>3. ASSUME NEW c \in Calls, Begin(c) PROVE LocksInv'
    BY <1>3 DEF Begin, Goto, LocksInv, TypeOK
  <1>4. ASSUME NEW c \in Calls, LockRow(c) PROVE LocksInv'
    BY <1>4 DEF LockRow, LockedNext, RowFree, LocksInv, TypeOK
  <1>5. ASSUME NEW c \in Calls, InsertTransaction(c) PROVE LocksInv'
    BY <1>5 DEF InsertTransaction, AllLocked, Goto, LocksInv, TypeOK
  <1>6. ASSUME NEW c \in Calls, PostLeg(c) PROVE LocksInv'
    <2>1. Leg(c).account \in held[c]
      BY <1>6, LegRowType DEF PostLeg, LegsLeft, LocksInv
    <2> QED
      BY <1>6, <2>1 DEF PostLeg, LocksInv, TypeOK
  <1>7. ASSUME NEW c \in Calls, Commit(c) PROVE LocksInv'
    BY <1>7 DEF Commit, Reply, Goto, LocksInv, TypeOK
  <1> QED
    BY <1>1, <1>2, <1>3, <1>4, <1>5, <1>6, <1>7, StepKinds

----------------------------------------------------------------------------
\* The running balances.

\* A seeded row chains as it did.
LEMMA ChainedSeeded ==
    ASSUME NEW row \in Row, NEW when, Chained(row)
    PROVE  Chained(Seeded(row, when))
  BY DEF Chained, Seeded, Row

\* Applying a leg extends the chain by one link.
LEMMA ChainedApplied ==
    ASSUME NEW row \in Row, Chained(row), NEW tx, NEW amount \in Int, NEW when
    PROVE  Chained(Applied(row, tx, amount, when))
  <1> DEFINE posting == [tx |-> tx, amount |-> amount, balance |-> row.balance + amount,
                         date |-> when]
             after   == Applied(row, tx, amount, when)
  <1>1. /\ after.register = Append(row.register, posting)
        /\ after.balance = row.balance + amount
    BY DEF Applied
  <1>2. /\ row.register \in Seq(Posting)
        /\ Len(row.register) \in Nat
        /\ DOMAIN row.register = 1..Len(row.register)
    BY DEF Row
  <1>3. /\ DOMAIN after.register = 1..(Len(row.register) + 1)
        /\ Len(after.register) = Len(row.register) + 1
        /\ \A i \in 1..Len(row.register) : after.register[i] = row.register[i]
        /\ after.register[Len(row.register) + 1] = posting
    BY <1>1, <1>2
  <1>4. row.balance = IF Len(row.register) = 0
                        THEN 0 ELSE row.register[Len(row.register)].balance
    BY <1>2 DEF Chained
  <1> HIDE DEF after
  <1>5. ASSUME NEW i \in DOMAIN after.register
        PROVE  after.register[i].balance =
                 after.register[i].amount
                   + (IF i = 1 THEN 0 ELSE after.register[i - 1].balance)
    <2>1. CASE i <= Len(row.register)
      <3>1. i \in DOMAIN row.register /\ after.register[i] = row.register[i]
        BY <1>2, <1>3, <2>1
      <3>2. i # 1 => after.register[i - 1] = row.register[i - 1]
        BY <1>2, <1>3, <3>1
      <3>3. row.register[i].balance =
              row.register[i].amount
                + (IF i = 1 THEN 0 ELSE row.register[i - 1].balance)
        BY <3>1 DEF Chained
      <3> QED
        BY <3>1, <3>2, <3>3
    <2>2. CASE i = Len(row.register) + 1
      <3>1. row.balance \in Int
        BY DEF Row
      <3> QED
        BY <1>2, <1>3, <1>4, <2>2, <3>1
    <2> QED
      BY <1>2, <1>3, <2>1, <2>2
  <1>6. after.register # <<>>
    BY <1>2, <1>3
  <1>7. after.balance = after.register[Len(after.register)].balance
    BY <1>1, <1>3
  <1>8. Chained(after)
    BY <1>5, <1>6, <1>7 DEF Chained
  <1> QED
    BY <1>8 DEF after

\* A row without postings chains.
LEMMA InitBalances == Init => RunningBalances
  BY DEF Init, RunningBalances, Chained, NoRow

\* Every step keeps the chains.
LEMMA NextBalances == TypeOK /\ RunningBalances /\ [Next]_vars => RunningBalances'
  <1> SUFFICES ASSUME TypeOK, RunningBalances, [Next]_vars PROVE RunningBalances'
    OBVIOUS
  <1> USE DEF callers, locals, tables
  <1>1. CASE Quiet
    BY <1>1 DEF Quiet, RunningBalances
  <1>2. ASSUME NEW c \in Calls, RolledBack(c) PROVE RunningBalances'
    BY <1>2 DEF RolledBack, Rollback, RunningBalances
  <1>3. ASSUME NEW c \in Calls, Begin(c) \/ InsertTransaction(c) PROVE RunningBalances'
    BY <1>3 DEF Begin, InsertTransaction, RunningBalances
  <1>4. ASSUME NEW c \in Calls, LockRow(c) PROVE RunningBalances'
    <2>1. PICK a \in Accounts :
            /\ tentative' = [tentative EXCEPT ![a] = Seeded(book[a], date[c])]
            /\ UNCHANGED book
      BY <1>4 DEF LockRow
    <2>2. Chained(Seeded(book[a], date[c]))
      BY ChainedSeeded DEF RunningBalances, TypeOK
    <2> QED
      BY <2>1, <2>2 DEF RunningBalances, TypeOK
  <1>5. ASSUME NEW c \in Calls, PostLeg(c) PROVE RunningBalances'
    <2>1. Chained(LegRow(c))
      BY <1>5, LegRowType, ChainedApplied
      DEF PostLeg, LegRow, LegBase, RunningBalances, TypeOK
    <2> QED
      BY <1>5, <2>1 DEF PostLeg, RunningBalances, TypeOK
  <1>6. ASSUME NEW c \in Calls, Commit(c) PROVE RunningBalances'
    BY <1>6 DEF Commit, RunningBalances
  <1> QED
    BY <1>1, <1>2, <1>3, <1>4, <1>5, <1>6, StepKinds

\* In every account's register each posting's balance is the one before it plus its
\* amount, and the snapshot is the last, however calls interleave and fail.
THEOREM BalancesCorrect == Spec => []RunningBalances
  BY InitTypes, NextTypes, InitBalances, NextBalances, PTL DEF Spec

----------------------------------------------------------------------------
\* The dates.

\* What is known of a row.
LEMMA RowFacts ==
    ASSUME NEW row \in Row
    PROVE  /\ row.register \in Seq(Posting)
           /\ Len(row.register) \in Nat
           /\ DOMAIN row.register = 1..Len(row.register)
           /\ row.balance \in Int
           /\ row.last_date \in Nat \cup {ZeroTime}
           /\ \A i \in DOMAIN row.register :
                 /\ row.register[i] \in Posting
                 /\ row.register[i].tx \in Calls
                 /\ row.register[i].date \in Nat
                 /\ row.register[i].balance \in Int
  <1>1. /\ row.register \in Seq(Posting)
        /\ Len(row.register) \in Nat
        /\ DOMAIN row.register = 1..Len(row.register)
        /\ row.balance \in Int
        /\ row.last_date \in Nat \cup {ZeroTime}
    BY DEF Row
  <1>2. \A i \in DOMAIN row.register : row.register[i] \in Posting
    BY <1>1
  <1> QED
    BY <1>1, <1>2 DEF Posting

\* What applying a leg leaves, and adds.
LEMMA AppliedFacts ==
    ASSUME NEW row \in Row, NEW tx, NEW amount, NEW when,
           NEW after, after = Applied(row, tx, amount, when)
    PROVE  /\ after.last_date = when
           /\ after.balance = row.balance + amount
           /\ DOMAIN after.register = 1..(Len(row.register) + 1)
           /\ Len(after.register) = Len(row.register) + 1
           /\ \A i \in DOMAIN row.register : after.register[i] = row.register[i]
           /\ after.register[Len(row.register) + 1] =
                 [tx |-> tx, amount |-> amount, balance |-> row.balance + amount,
                  date |-> when]
  <1> DEFINE posting == [tx |-> tx, amount |-> amount, balance |-> row.balance + amount,
                         date |-> when]
  <1>1. Applied(row, tx, amount, when).register = Append(row.register, posting)
    BY DEF Applied
  <1>2. /\ DOMAIN Append(row.register, posting) = 1..(Len(row.register) + 1)
        /\ Len(Append(row.register, posting)) = Len(row.register) + 1
        /\ \A i \in DOMAIN row.register : Append(row.register, posting)[i] = row.register[i]
        /\ Append(row.register, posting)[Len(row.register) + 1] = posting
    BY RowFacts
  <1> QED
    BY <1>1, <1>2 DEF Applied

\* The dates of rows and calls are numbers.
LEMMA DatesAreInts ==
    ASSUME TypeOK
    PROVE  /\ \A a \in Accounts :
                 /\ book[a] \in Row /\ tentative[a] \in Row
                 /\ book[a].last_date \in Int /\ tentative[a].last_date \in Int
           /\ \A c \in Calls : latest[c] \in Int /\ date[c] \in Int
           /\ \A c \in Calls : held[c] \subseteq Accounts
  <1>1. \A a \in Accounts : book[a] \in Row /\ tentative[a] \in Row
    BY DEF TypeOK
  <1>2. \A row \in Row : row.last_date \in Int
    BY DEF Row, ZeroTime
  <1>3. \A c \in Calls : latest[c] \in Int /\ date[c] \in Int /\ held[c] \subseteq Accounts
    BY DEF TypeOK, ZeroTime
  <1> QED
    BY <1>1, <1>2, <1>3

\* A seeded row goes forward as it did.
LEMMA ForwardSeeded ==
    ASSUME NEW row \in Row, NEW when \in Nat, Forward(row)
    PROVE  /\ Forward(Seeded(row, when))
           /\ row.last_date <= Seeded(row, when).last_date
  BY DEF Forward, Seeded, Row, NoRow, ZeroTime

\* Every posting of a forward row lies at its last_date or before.
LEMMA ForwardBound ==
    ASSUME NEW row \in Row, Forward(row), NEW i \in DOMAIN row.register
    PROVE  row.register[i].date <= row.last_date
  <1>1. /\ Len(row.register) \in DOMAIN row.register
        /\ i <= Len(row.register)
        /\ row.register # <<>>
    BY RowFacts
  <1> QED
    BY <1>1 DEF Forward

\* A leg at or past the row's last date keeps it forward.
LEMMA ForwardApplied ==
    ASSUME NEW row \in Row, Forward(row), NEW tx, NEW amount, NEW when \in Nat,
           row.last_date <= when
    PROVE  Forward(Applied(row, tx, amount, when))
  <1> DEFINE after == Applied(row, tx, amount, when)
             n     == Len(row.register)
  <1> HIDE DEF after
  <1>0. after = Applied(row, tx, amount, when)
    BY DEF after
  <1>1. /\ after.last_date = when
        /\ DOMAIN after.register = 1..(n + 1)
        /\ Len(after.register) = n + 1
        /\ \A i \in DOMAIN row.register : after.register[i] = row.register[i]
        /\ after.register[n + 1].date = when
    <2>1. /\ after.last_date = when
          /\ DOMAIN after.register = 1..(Len(row.register) + 1)
          /\ Len(after.register) = Len(row.register) + 1
          /\ \A i \in DOMAIN row.register : after.register[i] = row.register[i]
          /\ after.register[Len(row.register) + 1] =
               [tx |-> tx, amount |-> amount, balance |-> row.balance + amount,
                date |-> when]
      BY <1>0, AppliedFacts
    <2>2. after.register[n + 1].date = when
      BY <2>1
    <2> QED
      BY <2>1, <2>2, Zenon
  <1>2. n \in Nat /\ DOMAIN row.register = 1..n
    BY RowFacts
  <1>3. \A i \in DOMAIN row.register : row.register[i].date \in Nat /\ row.register[i].date <= when
    BY RowFacts, ForwardBound DEF ZeroTime
  <1> HIDE DEF n
  <1>4. ASSUME NEW i \in DOMAIN after.register, NEW j \in DOMAIN after.register, i <= j
        PROVE  after.register[i].date <= after.register[j].date
    <2>1. CASE j \in DOMAIN row.register
      <3>1. i \in DOMAIN row.register
        BY <1>1, <1>2, <1>4, <2>1
      <3>2. row.register[i].date <= row.register[j].date
        BY <1>4, <2>1, <3>1 DEF Forward
      <3> QED
        BY <1>1, <2>1, <3>1, <3>2
    <2>2. CASE j = n + 1
      <3>1. CASE i \in DOMAIN row.register
        BY <1>1, <1>3, <2>2, <3>1
      <3>2. CASE i = n + 1
        BY <1>1, <2>2, <3>2
      <3> QED
        BY <1>1, <1>2, <3>1, <3>2
    <2> QED
      BY <1>1, <1>2, <2>1, <2>2
  <1>5. after.last_date = after.register[Len(after.register)].date
    BY <1>1
  <1>6. Forward(after)
    BY <1>4, <1>5 DEF Forward
  <1> QED
    BY <1>6 DEF after

\* Nothing is dated at first.
LEMMA InitDates == Init => DatesInv
  BY DEF Init, DatesInv, Forward, NoRow, ZeroTime

\* Every step keeps the dates.
LEMMA NextDates == TypeOK /\ LocksInv /\ DatesInv /\ [Next]_vars => DatesInv'
  <1> SUFFICES ASSUME TypeOK, LocksInv, DatesInv, [Next]_vars PROVE DatesInv'
    OBVIOUS
  <1> USE DEF callers, locals, tables
  <1>1. CASE Quiet
    BY <1>1 DEF Quiet, LocksInv, DatesInv
  <1>2. ASSUME NEW c \in Calls, RolledBack(c) PROVE DatesInv'
    <2>1. \A a \in Accounts :
            /\ book'[a] = book[a]
            /\ tentative'[a] = IF a \in held[c] THEN book[a] ELSE tentative[a]
      BY <1>2 DEF RolledBack, Rollback
    <2>2. \A a \in Accounts : book[a].last_date <= book[a].last_date
      BY DatesAreInts
    <2>3. \A a \in Accounts :
            /\ Forward(book'[a])
            /\ Forward(tentative'[a])
            /\ book'[a].last_date <= tentative'[a].last_date
      BY <2>1, <2>2 DEF DatesInv
    <2>4. \A d \in Calls : \A a \in held'[d] :
            /\ d # c /\ a \in held[d] /\ a \notin held[c] /\ a \in Accounts
            /\ pc'[d] = pc[d]
      BY <1>2 DEF RolledBack, Rollback, LocksInv, TypeOK
    <2>5. UNCHANGED <<latest, date>>
      BY <1>2 DEF RolledBack
    <2> QED
      BY <2>1, <2>3, <2>4, <2>5 DEF DatesInv
  <1>3. ASSUME NEW c \in Calls, Begin(c) PROVE DatesInv'
    <2>1. /\ held[c] = {}
          /\ UNCHANGED <<book, tentative, held, latest>>
          /\ \A d \in Calls \ {c} : pc'[d] = pc[d] /\ date'[d] = date[d]
      BY <1>3 DEF Begin, Goto, LocksInv, TypeOK
    <2> QED
      BY <2>1 DEF DatesInv
  <1>4. ASSUME NEW c \in Calls, LockRow(c) PROVE DatesInv'
    <2>1. PICK a \in Accounts :
            /\ pc[c] = "lock"
            /\ \A d \in Calls : a \notin held[d]
            /\ held' = [held EXCEPT ![c] = @ \cup {a}]
            /\ tentative' = [tentative EXCEPT ![a] = Seeded(book[a], date[c])]
            /\ latest' = [latest EXCEPT ![c] = Latest(@, Seeded(book[a], date[c]))]
            /\ UNCHANGED <<pc, date, book>>
      BY <1>4 DEF LockRow, RowFree
    <2>2. /\ Forward(Seeded(book[a], date[c]))
          /\ book[a].last_date <= Seeded(book[a], date[c]).last_date
          /\ Seeded(book[a], date[c]) \in Row
      BY ForwardSeeded, SeededType DEF DatesInv, TypeOK
    <2> DEFINE read == Seeded(book[a], date[c]).last_date
    <2>3. /\ read <= Latest(latest[c], Seeded(book[a], date[c]))
          /\ latest[c] <= Latest(latest[c], Seeded(book[a], date[c]))
          /\ Latest(latest[c], Seeded(book[a], date[c])) \in Int
      <3>1. read \in Int
        BY <2>2 DEF Row, ZeroTime
      <3> QED
        BY <3>1, DatesAreInts DEF Latest
    <2>4. \A b \in Accounts :
            /\ Forward(book'[b])
            /\ Forward(tentative'[b])
            /\ book'[b].last_date <= tentative'[b].last_date
      BY <2>1, <2>2 DEF DatesInv, TypeOK
    <2>5. ASSUME NEW d \in Calls, NEW b \in held'[d]
          PROVE  /\ pc'[d] = "lock" => tentative'[b].last_date <= latest'[d]
                 /\ pc'[d] = "post" => tentative'[b].last_date <= date'[d]
      <3>1. CASE d = c /\ b = a
        BY <2>1, <2>3, <3>1 DEF TypeOK
      <3>2. CASE d = c /\ b # a
        <4>1. /\ b \in held[c]
              /\ b \in Accounts
              /\ tentative'[b] = tentative[b]
              /\ latest'[c] = Latest(latest[c], Seeded(book[a], date[c]))
          BY <2>1, <3>2 DEF TypeOK
        <4>2. tentative[b].last_date <= latest[c]
          BY <2>1, <4>1 DEF DatesInv
        <4>3. tentative[b].last_date <= Latest(latest[c], Seeded(book[a], date[c]))
          BY <2>3, <4>1, <4>2, DatesAreInts
        <4> QED
          BY <2>1, <3>2, <4>1, <4>3
      <3>3. CASE d # c
        <4>1. /\ b \in held[d] /\ b # a /\ b \in Accounts
              /\ tentative'[b] = tentative[b]
              /\ latest'[d] = latest[d]
          BY <2>1, <3>3 DEF TypeOK
        <4> QED
          BY <2>1, <4>1 DEF DatesInv
      <3> QED
        BY <3>1, <3>2, <3>3
    <2> QED
      BY <2>4, <2>5 DEF DatesInv
  <1>5. ASSUME NEW c \in Calls, InsertTransaction(c) PROVE DatesInv'
    <2>1. latest[c] <= ResolvedDate(request[c].date, latest[c], now[c])
      BY <1>5, DraftTypes, ResolvedDateIsPast DEF InsertTransaction, TypeOK
    <2>6. ResolvedDate(request[c].date, latest[c], now[c]) \in Nat
      BY <1>5, DraftTypes, ResolvedDateIsPast DEF InsertTransaction, TypeOK
    <2>2. /\ pc[c] = "lock"
          /\ pc' = [pc EXCEPT ![c] = "post"]
          /\ date' = [date EXCEPT ![c] = ResolvedDate(request[c].date, latest[c], now[c])]
          /\ UNCHANGED <<book, tentative, held, latest>>
      BY <1>5 DEF InsertTransaction, AllLocked, Goto
    <2>3. ASSUME NEW a \in held[c] PROVE tentative[a].last_date <= date'[c]
      <3>1. a \in Accounts /\ tentative[a].last_date <= latest[c]
        BY <2>2 DEF DatesInv, TypeOK
      <3>2. date'[c] \in Nat /\ latest[c] <= date'[c]
        BY <2>1, <2>2, <2>6 DEF TypeOK
      <3> QED
        BY <3>1, <3>2, DatesAreInts
    <2>4. \A d \in Calls \ {c} : pc'[d] = pc[d] /\ date'[d] = date[d]
      BY <2>2 DEF TypeOK
    <2>5. pc'[c] = "post"
      BY <2>2 DEF TypeOK
    <2> QED
      BY <2>2, <2>3, <2>4, <2>5 DEF DatesInv
  <1>6. ASSUME NEW c \in Calls, PostLeg(c) PROVE DatesInv'
    <2> DEFINE a == Leg(c).account
    <2>1. /\ LegsLeft(c)
          /\ tentative' = [tentative EXCEPT ![a] = LegRow(c)]
          /\ UNCHANGED <<pc, date, latest, held, book>>
      BY <1>6 DEF PostLeg
    <2>2. a \in Accounts /\ a \in held[c] /\ pc[c] = "post" /\ date[c] \in Nat
      BY <2>1, LegRowType DEF LegsLeft, LocksInv, TypeOK
    <2>3. tentative[a] \in Row /\ Forward(tentative[a]) /\ tentative[a].last_date <= date[c]
      BY <2>2 DEF DatesInv, TypeOK
    <2>4. Forward(LegRow(c)) /\ LegRow(c).last_date = date[c]
      <3>1. LegRow(c) = Applied(tentative[a], c, Leg(c).amount, date[c])
        BY DEF LegRow, LegBase
      <3>2. LegRow(c).last_date = date[c]
        BY <3>1 DEF Applied
      <3> HIDE DEF a
      <3> QED
        BY <2>2, <2>3, <3>1, <3>2, ForwardApplied
    <2> HIDE DEF a
    <2>5. book[a].last_date <= date[c]
      BY <2>2, <2>3, DatesAreInts DEF DatesInv
    <2>6. \A b \in Accounts : tentative'[b] = IF b = a THEN LegRow(c) ELSE tentative[b]
      BY <2>1 DEF TypeOK
    <2>7. \A d \in Calls \ {c} : a \notin held[d]
      BY <2>2 DEF LocksInv
    <2>8. \A b \in Accounts :
            /\ Forward(book'[b])
            /\ Forward(tentative'[b])
            /\ book'[b].last_date <= tentative'[b].last_date
      BY <2>1, <2>4, <2>5, <2>6 DEF DatesInv
    <2>9. \A d \in Calls : held[d] \subseteq Accounts
      BY DEF TypeOK
    <2>10. date[c] <= date[c]
      BY <2>2
    <2>11. \A d \in Calls : \A b \in held'[d] :
            /\ pc'[d] = "lock" => tentative'[b].last_date <= latest'[d]
            /\ pc'[d] = "post" => tentative'[b].last_date <= date'[d]
      BY <2>1, <2>2, <2>4, <2>6, <2>7, <2>9, <2>10 DEF DatesInv
    <2> QED
      BY <2>8, <2>11 DEF DatesInv
  <1>7. ASSUME NEW c \in Calls, Commit(c) PROVE DatesInv'
    <2>1. \A a \in Accounts :
            /\ book'[a] = IF a \in held[c] THEN tentative[a] ELSE book[a]
            /\ tentative'[a] = tentative[a]
      BY <1>7 DEF Commit
    <2>2. \A a \in Accounts : tentative[a].last_date <= tentative[a].last_date
      BY DatesAreInts
    <2>3. \A a \in Accounts :
            /\ Forward(book'[a])
            /\ Forward(tentative'[a])
            /\ book'[a].last_date <= tentative'[a].last_date
      BY <2>1, <2>2 DEF DatesInv
    <2>4. \A d \in Calls : \A a \in held'[d] :
            d # c /\ a \in held[d] /\ a \in Accounts /\ pc'[d] = pc[d]
      BY <1>7 DEF Commit, Reply, Goto, TypeOK
    <2>5. UNCHANGED <<latest, date>>
      BY <1>7 DEF Commit
    <2> QED
      BY <2>1, <2>3, <2>4, <2>5 DEF DatesInv
  <1> QED
    BY <1>1, <1>2, <1>3, <1>4, <1>5, <1>6, <1>7, StepKinds

\* In commit order the dates of an account's postings never go back, whichever
\* dates were supplied or stamped, on whichever instance's clock.
THEOREM DatesCorrect == Spec => []DatesForward
  <1>1. DatesInv => DatesForward
    BY DEF DatesInv, DatesForward
  <1> QED
    BY <1>1, InitTypes, NextTypes, InitLocks, NextLocks, InitDates, NextDates, PTL DEF Spec

----------------------------------------------------------------------------
\* Calls that meet.

\* What a reply leaves alone, and what it tells its call.
LEMMA ReplyFacts ==
    ASSUME TypeOK, NEW c \in Calls, NEW code, NEW tx, Reply(c, code, tx)
    PROVE  /\ pc'[c] = "done"
           /\ answer'[c].code = code
           /\ answer'[c].tx = tx
           /\ \A d \in Calls \ {c} : pc'[d] = pc[d] /\ answer'[d] = answer[d]
  BY DEF TypeOK, Reply, Goto

\* What moving on leaves alone.
LEMMA GotoFacts ==
    ASSUME TypeOK, NEW c \in Calls, NEW stage, Goto(c, stage)
    PROVE  pc'[c] = stage /\ \A d \in Calls \ {c} : pc'[d] = pc[d]
  BY DEF TypeOK, Goto

\* A reply to a call that is not yet answered keeps the keys' invariant if the
\* reply is about the key's transaction or is neither a success nor a collision.
LEMMA ReplyKeepsKeys ==
    ASSUME TypeOK, KeysInv, NEW c \in Calls, NEW code, NEW tx,
           Reply(c, code, tx), pc[c] # "done", code # "none",
           UNCHANGED <<request, transactions>>,
           code \in {"recorded", "replayed"} =>
              \E t \in transactions :
                  /\ t.id = tx
                  /\ t.key = request[c].key
                  /\ t.fingerprint = Fingerprint(request[c]),
           code = "reused" =>
              \E t \in transactions :
                  t.key = request[c].key /\ t.fingerprint # Fingerprint(request[c])
    PROVE  KeysInv'
  <1>1. /\ pc'[c] = "done" /\ answer'[c].code = code /\ answer'[c].tx = tx
        /\ \A d \in Calls \ {c} : pc'[d] = pc[d] /\ answer'[d] = answer[d]
    BY ReplyFacts
  <1>2. \A t \in transactions : t.id \in Calls /\ t.id # c
    BY DEF TypeOK, Transaction, KeysInv
  <1>3. \A t \in transactions :
          /\ pc'[t.id] = "done"
          /\ t.key = request[t.id].key
          /\ t.fingerprint = Fingerprint(request[t.id])
          /\ answer'[t.id].code \in {"recorded", "failed"}
    BY <1>1, <1>2 DEF KeysInv
  <1>4. ASSUME NEW d \in Calls
        PROVE  /\ pc'[d] = "post" =>
                     /\ KeyFree(request[d].key)
                     /\ \A e \in Calls \ {d} :
                           pc'[e] = "post" => request[e].key # request[d].key
               /\ pc'[d] = "reread" => ~KeyFree(request[d].key)
    BY <1>1 DEF KeysInv
  <1>5. ASSUME NEW d \in Calls
        PROVE  /\ pc'[d] # "done" <=> answer'[d].code = "none"
               /\ answer'[d].code \in {"recorded", "replayed"} =>
                     \E t \in transactions :
                         /\ t.id = answer'[d].tx
                         /\ t.key = request[d].key
                         /\ t.fingerprint = Fingerprint(request[d])
               /\ answer'[d].code = "reused" =>
                     \E t \in transactions :
                         t.key = request[d].key /\ t.fingerprint # Fingerprint(request[d])
    <2>1. CASE d = c
      BY <1>1, <2>1
    <2>2. CASE d # c
      BY <1>1, <2>2 DEF KeysInv
    <2> QED
      BY <2>1, <2>2
  <1>6. \A t, u \in transactions : t.key = u.key => t = u
    BY DEF KeysInv
  <1> QED
    BY <1>3, <1>4, <1>5, <1>6 DEF KeysInv, KeyFree

\* An answer read from the key is about its transaction.
LEMMA ReplyFromKeyKeepsKeys ==
    ASSUME TypeOK, KeysInv, NEW c \in Calls, ReplyFromKey(c), pc[c] # "done",
           UNCHANGED <<request, transactions>>
    PROVE  KeysInv'
  <1>1. PICK t \in transactions :
          /\ t.key = request[c].key
          /\ IF t.fingerprint = Fingerprint(request[c])
               THEN Reply(c, "replayed", t.id)
               ELSE Reply(c, "reused", NoCall)
    BY DEF ReplyFromKey
  <1>2. CASE t.fingerprint = Fingerprint(request[c])
    BY <1>1, <1>2, ReplyKeepsKeys
  <1>3. CASE t.fingerprint # Fingerprint(request[c])
    BY <1>1, <1>3, ReplyKeepsKeys
  <1> QED
    BY <1>2, <1>3

\* Moving an unanswered call to a stage that is neither writing nor re-reading.
LEMMA GotoKeepsKeys ==
    ASSUME TypeOK, KeysInv, NEW c \in Calls, NEW stage \in {"begin", "lock", "recheck"},
           pc[c] # "done", Goto(c, stage), UNCHANGED <<request, transactions, answer>>
    PROVE  KeysInv'
  <1>1. pc'[c] = stage /\ \A d \in Calls \ {c} : pc'[d] = pc[d]
    BY GotoFacts
  <1>2. \A t \in transactions : t.id \in Calls /\ t.id # c
    BY DEF TypeOK, Transaction, KeysInv
  <1>3. \A d \in Calls :
          /\ pc'[d] = "post" => pc[d] = "post"
          /\ pc'[d] = "reread" => pc[d] = "reread"
          /\ pc'[d] = "done" <=> pc[d] = "done"
    BY <1>1
  <1> QED
    BY <1>2, <1>3 DEF KeysInv, KeyFree

\* No key is taken at first.
LEMMA InitKeys == Init => KeysInv
  BY DEF Init, KeysInv

\* Every step keeps the invariant of the keys.
LEMMA NextKeys == TypeOK /\ KeysInv /\ [Next]_vars => KeysInv'
  <1> SUFFICES ASSUME TypeOK, KeysInv, [Next]_vars PROVE KeysInv'
    OBVIOUS
  <1> USE DEF callers, locals, tables
  <1>1. ASSUME NEW c \in Calls, CheckKey(c) PROVE KeysInv'
    <2>1. CASE Goto(c, "begin") /\ UNCHANGED answer
      BY <1>1, <2>1, GotoKeepsKeys DEF CheckKey
    <2>2. CASE ReplyFromKey(c)
      BY <1>1, <2>2, ReplyFromKeyKeepsKeys DEF CheckKey
    <2> QED
      BY <1>1, <2>1, <2>2 DEF CheckKey
  <1>2. ASSUME NEW c \in Calls, Begin(c) PROVE KeysInv'
    BY <1>2, GotoKeepsKeys DEF Begin
  <1>3. ASSUME NEW c \in Calls, LockRow(c) \/ PostLeg(c) PROVE KeysInv'
    BY <1>3 DEF LockRow, PostLeg, KeysInv, KeyFree
  <1>4. ASSUME NEW c \in Calls,
               \/ RefuseTooFarAhead(c) \/ RefuseUnrepresentable(c)
               \/ RefuseOverdraft(c) \/ Fail(c)
        PROVE  KeysInv'
    <2>1. PICK code \in {"too_far_ahead", "failed", "overdraft"} :
            Reply(c, code, NoCall)
      BY <1>4 DEF RefuseTooFarAhead, RefuseUnrepresentable, RefuseOverdraft, Fail
    <2>2. pc[c] # "done" /\ UNCHANGED <<request, transactions>>
      BY <1>4
      DEF RefuseTooFarAhead, RefuseUnrepresentable, RefuseOverdraft, Fail,
          AllLocked, LegsLeft, LegsPosted
    <2> QED
      BY <2>1, <2>2, ReplyKeepsKeys
  <1>5. ASSUME NEW c \in Calls, Overtaken(c) PROVE KeysInv'
    BY <1>5, GotoKeepsKeys DEF Overtaken, AllLocked
  <1>6. ASSUME NEW c \in Calls, InsertTransaction(c) PROVE KeysInv'
    <2>1. /\ pc'[c] = "post" /\ pc[c] = "lock"
          /\ \A d \in Calls \ {c} : pc'[d] = pc[d]
          /\ KeyFree(request[c].key)
          /\ UNCHANGED <<request, transactions, answer>>
      BY <1>6, GotoFacts DEF InsertTransaction, AllLocked, UniqueViolation
    <2>2. \A d \in Calls \ {c} : pc[d] = "post" => request[d].key # request[c].key
      BY <1>6 DEF InsertTransaction, KeyPending
    <2>3. \A t \in transactions : t.id \in Calls /\ t.id # c
      BY <2>1 DEF TypeOK, Transaction, KeysInv
    <2>4. \A d \in Calls :
            /\ pc'[d] = "post" =>
                  /\ KeyFree(request[d].key)
                  /\ \A e \in Calls \ {d} :
                        pc'[e] = "post" => request[e].key # request[d].key
            /\ pc'[d] = "reread" => ~KeyFree(request[d].key)
            /\ pc'[d] = "done" <=> pc[d] = "done"
      BY <2>1, <2>2 DEF KeysInv
    <2> QED
      BY <2>1, <2>3, <2>4 DEF KeysInv, KeyFree
  <1>7. ASSUME NEW c \in Calls, LoseToWinner(c) PROVE KeysInv'
    <2>1. /\ pc'[c] = "reread" /\ pc[c] = "lock"
          /\ \A d \in Calls \ {c} : pc'[d] = pc[d]
          /\ ~KeyFree(request[c].key)
          /\ UNCHANGED <<request, transactions, answer>>
      BY <1>7, GotoFacts DEF LoseToWinner, AllLocked, UniqueViolation
    <2>2. \A t \in transactions : t.id \in Calls /\ t.id # c
      BY <2>1 DEF TypeOK, Transaction, KeysInv
    <2>3. \A d \in Calls :
            /\ pc'[d] = "post" => pc[d] = "post"
            /\ pc'[d] = "reread" => ~KeyFree(request[d].key)
            /\ pc'[d] = "done" <=> pc[d] = "done"
      BY <2>1 DEF KeysInv
    <2> QED
      BY <2>1, <2>2, <2>3 DEF KeysInv, KeyFree
  <1>8. ASSUME NEW c \in Calls, Reconsult(c) PROVE KeysInv'
    <2>1. pc[c] # "done" /\ UNCHANGED <<request, transactions>>
      BY <1>8 DEF Reconsult
    <2>2. CASE ReplyFromKey(c)
      BY <2>1, <2>2, ReplyFromKeyKeepsKeys
    <2>3. CASE KeyFree(request[c].key)
      <3>1. pc[c] = "recheck"
        BY <1>8, <2>3 DEF Reconsult, KeysInv
      <3>2. CASE Reply(c, "backdated", NoCall)
        BY <2>1, <3>2, ReplyKeepsKeys
      <3> QED
        BY <1>8, <2>1, <2>2, <3>1, <3>2 DEF Reconsult
    <2> QED
      BY <1>8, <2>2, <2>3 DEF Reconsult
  <1>9. ASSUME NEW c \in Calls, Commit(c) PROVE KeysInv'
    <2> DEFINE t0 == [id |-> c, key |-> request[c].key,
                      fingerprint |-> Fingerprint(request[c]), date |-> date[c]]
    <2>1. /\ transactions' = transactions \cup {t0}
          /\ pc[c] = "post"
          /\ UNCHANGED request
          /\ Reply(c, "recorded", c) \/ Reply(c, "failed", NoCall)
      BY <1>9 DEF Commit, StoredFingerprint, LegsPosted
    <2>2. /\ t0.id = c /\ t0.key = request[c].key
          /\ t0.fingerprint = Fingerprint(request[c])
      OBVIOUS
    <2> HIDE DEF t0
    <2>3. /\ pc'[c] = "done"
          /\ answer'[c].code \in {"recorded", "failed"}
          /\ answer'[c].code = "recorded" => answer'[c].tx = c
          /\ \A d \in Calls \ {c} : pc'[d] = pc[d] /\ answer'[d] = answer[d]
      BY <2>1, ReplyFacts
    <2>4. \A t \in transactions : t.id \in Calls /\ t.id # c
      BY <2>1 DEF TypeOK, Transaction, KeysInv
    <2>5. \A t \in transactions' :
            /\ pc'[t.id] = "done"
            /\ t.key = request[t.id].key
            /\ t.fingerprint = Fingerprint(request[t.id])
            /\ answer'[t.id].code \in {"recorded", "failed"}
      BY <2>1, <2>2, <2>3, <2>4 DEF KeysInv
    <2>6. \A t, u \in transactions' : t.key = u.key => t = u
      BY <2>1, <2>2 DEF KeysInv, KeyFree
    <2>7. ASSUME NEW d \in Calls
          PROVE  /\ pc'[d] = "post" =>
                       /\ \A t \in transactions' : t.key # request[d].key
                       /\ \A e \in Calls \ {d} :
                             pc'[e] = "post" => request[e].key # request[d].key
                 /\ pc'[d] = "reread" => \E t \in transactions' : t.key = request[d].key
      BY <2>1, <2>2, <2>3 DEF KeysInv, KeyFree
    <2>8. ASSUME NEW d \in Calls
          PROVE  /\ pc'[d] # "done" <=> answer'[d].code = "none"
                 /\ answer'[d].code \in {"recorded", "replayed"} =>
                       \E t \in transactions' :
                           /\ t.id = answer'[d].tx
                           /\ t.key = request[d].key
                           /\ t.fingerprint = Fingerprint(request[d])
                 /\ answer'[d].code = "reused" =>
                       \E t \in transactions' :
                           t.key = request[d].key /\ t.fingerprint # Fingerprint(request[d])
      <3>1. CASE d = c
        BY <2>1, <2>2, <2>3, <3>1
      <3>2. CASE d # c
        <4>1. pc'[d] = pc[d] /\ answer'[d] = answer[d] /\ transactions \subseteq transactions'
          BY <2>1, <2>3, <3>2
        <4> QED
          BY <4>1 DEF KeysInv
      <3> QED
        BY <3>1, <3>2
    <2> QED
      BY <2>1, <2>5, <2>6, <2>7, <2>8 DEF KeysInv, KeyFree
  <1>10. CASE Tick
    BY <1>10 DEF Tick, KeysInv, KeyFree
  <1>11. CASE UNCHANGED vars
    BY <1>11 DEF vars, KeysInv, KeyFree
  <1> QED
    BY <1>1, <1>2, <1>3, <1>4, <1>5, <1>6, <1>7, <1>8, <1>9, <1>10, <1>11
    DEF Next, Step, Finished

\* One transaction to a key, whatever races, retries and lost acknowledgements, and
\* every call told of a success is given it.
THEOREM KeyRecordsOnce == Spec => []ExactlyOnce
  <1>1. KeysInv => ExactlyOnce
    BY DEF KeysInv, ExactlyOnce
  <1> QED
    BY <1>1, InitTypes, NextTypes, InitKeys, NextKeys, PTL DEF Spec

\* A call is told its key was reused only over a different draft.
THEOREM CollisionsAreReal == Spec => []RetryNeverCollides
  <1>1. KeysInv => RetryNeverCollides
    BY DEF KeysInv, RetryNeverCollides
  <1> QED
    BY <1>1, InitTypes, NextTypes, InitKeys, NextKeys, PTL DEF Spec

----------------------------------------------------------------------------
\* Nobody waits in a ring: a call that holds rows waits only for a row that comes
\* after all of them.

\* The rows a call has locked come before those it has still to lock.
InOrder ==
    \A c \in Calls : pc[c] = "lock" =>
        \A a \in held[c], b \in Touched(request[c]) \ held[c] : a < b

\* The rows at or past one that a call still wants.
Ahead(c) == {a \in Accounts : \E b \in Touched(request[c]) \ held[c] : b <= a}

\* The rows a draft touches are accounts, which are numbered in the order of the locks.
LEMMA TouchedAccounts ==
    ASSUME TypeOK, NEW c \in Calls
    PROVE  Touched(request[c]) \subseteq Accounts /\ Accounts \subseteq Int
  <1>1. request[c] \in Drafts
    BY DEF TypeOK
  <1>2. Touched(request[c]) \subseteq Accounts
    BY <1>1, DraftTypes
  <1> QED
    BY <1>2, DataConstants

\* Before the first call locks anything, everything is in order.
LEMMA InitOrder == Init => InOrder
  BY DEF Init, InOrder

\* Every step keeps the order, and the lock loop because it takes the least row left.
LEMMA NextOrder == TypeOK /\ LocksInv /\ InOrder /\ [Next]_vars => InOrder'
  <1> SUFFICES ASSUME TypeOK, LocksInv, InOrder, [Next]_vars PROVE InOrder'
    OBVIOUS
  <1> USE DEF callers, locals, tables
  <1>1. CASE Quiet
    BY <1>1 DEF Quiet, InOrder
  <1>2. ASSUME NEW c \in Calls, RolledBack(c) PROVE InOrder'
    BY <1>2 DEF RolledBack, Rollback, InOrder, TypeOK
  <1>3. ASSUME NEW c \in Calls, Begin(c) PROVE InOrder'
    <2>1. held[c] = {} /\ held' = held /\ request' = request
      BY <1>3 DEF Begin, LocksInv
    <2>2. \A d \in Calls : d # c => pc'[d] = pc[d]
      BY <1>3 DEF Begin, Goto, TypeOK
    <2> QED
      BY <2>1, <2>2 DEF InOrder
  <1>4. ASSUME NEW c \in Calls, LockRow(c) PROVE InOrder'
    <2>1. PICK a \in Accounts :
            /\ pc[c] = "lock" /\ LockedNext(request[c], held[c], a)
            /\ held' = [held EXCEPT ![c] = @ \cup {a}]
            /\ pc' = pc /\ request' = request
      BY <1>4 DEF LockRow
    <2>2. \A b \in Touched(request[c]) \ (held[c] \cup {a}) : a < b
      BY <2>1, TouchedAccounts DEF LockedNext
    <2>3. held'[c] = held[c] \cup {a} /\ \A d \in Calls : d # c => held'[d] = held[d]
      BY <2>1 DEF TypeOK
    <2> QED
      BY <2>1, <2>2, <2>3 DEF InOrder
  <1>5. ASSUME NEW c \in Calls, InsertTransaction(c) PROVE InOrder'
    BY <1>5 DEF InsertTransaction, Goto, InOrder, TypeOK
  <1>6. ASSUME NEW c \in Calls, PostLeg(c) PROVE InOrder'
    BY <1>6 DEF PostLeg, InOrder
  <1>7. ASSUME NEW c \in Calls, Commit(c) PROVE InOrder'
    BY <1>7 DEF Commit, Reply, Goto, InOrder, TypeOK
  <1> QED
    BY <1>1, <1>2, <1>3, <1>4, <1>5, <1>6, <1>7, StepKinds

\* A call that waits for a row waits for one that has less ahead of it.
LEMMA WaitingShrinks ==
    ASSUME TypeOK, InOrder, NEW c \in Calls, NEW d \in Calls, pc[d] = "lock",
           NEW a \in held[d], LockedNext(request[c], held[c], a)
    PROVE  <<Ahead(d), Ahead(c)>> \in StrictSubsetOrdering(Accounts)
  <1>1. a \in Accounts /\ a \in Touched(request[c]) \ held[c] /\ Accounts \subseteq Int
    BY TouchedAccounts DEF LockedNext
  <1>2. \A b \in Touched(request[d]) \ held[d] : b \in Int /\ a < b
    BY TouchedAccounts DEF InOrder
  <1>3. Ahead(d) \subseteq Ahead(c)
    <2> SUFFICES ASSUME NEW x \in Ahead(d) PROVE x \in Ahead(c)
      OBVIOUS
    <2>1. PICK b \in Touched(request[d]) \ held[d] : b <= x
      BY DEF Ahead
    <2>2. x \in Accounts /\ x \in Int /\ a \in Int /\ b \in Int /\ a < b
      BY <1>1, <1>2, <2>1 DEF Ahead
    <2>3. a <= x
      BY <2>1, <2>2
    <2> QED
      BY <1>1, <2>2, <2>3 DEF Ahead
  <1>4. a \in Ahead(c) /\ a \notin Ahead(d)
    BY <1>1, <1>2 DEF Ahead
  <1>5. <<Ahead(d), Ahead(c)>> \in (SUBSET Accounts) \X (SUBSET Accounts)
    BY DEF Ahead
  <1>6. Ahead(d) # Ahead(c)
    BY <1>4
  <1> HIDE DEF Ahead
  <1>7. <<Ahead(d), Ahead(c)>>[1] = Ahead(d) /\ <<Ahead(d), Ahead(c)>>[2] = Ahead(c)
    OBVIOUS
  <1> QED
    BY <1>3, <1>5, <1>6, <1>7 DEF StrictSubsetOrdering

\* A set of calls each of which waits for one of them would have one with least ahead.
LEMMA OrderBreaksRings ==
    ASSUME TypeOK, InOrder, IsFiniteSet(Accounts)
    PROVE  NoWaitCycle
  <1> SUFFICES ASSUME NEW ring \in SUBSET Calls, ring # {},
                      \A c \in ring : \E d \in ring : WaitsFor(c, d)
               PROVE  FALSE
    BY DEF NoWaitCycle
  <1>1. \A c \in ring : pc[c] = "lock"
    BY DEF WaitsFor, AllLocked
  <1>2. ASSUME NEW c \in ring
        PROVE  \E d \in ring : <<Ahead(d), Ahead(c)>> \in StrictSubsetOrdering(Accounts)
    <2>1. PICK d \in ring : WaitsFor(c, d)
      OBVIOUS
    <2>2. PICK a \in held[d] : LockedNext(request[c], held[c], a)
      BY <1>1, <2>1 DEF WaitsFor
    <2> QED
      BY <1>1, <2>2, WaitingShrinks
  <1> DEFINE T == {Ahead(c) : c \in ring}
  <1>3. IsWellFoundedOn(StrictSubsetOrdering(Accounts), SUBSET Accounts)
    BY FS_StrictSubsetOrderingWellFounded, FS_FiniteSubsetsOfFinite
  <1>4. T \subseteq SUBSET Accounts /\ T # {}
    BY DEF Ahead
  <1>5. PICK least \in T : \A other \in T : <<other, least>> \notin StrictSubsetOrdering(Accounts)
    <2> HIDE DEF T
    <2> QED
      BY <1>3, <1>4, WFMin
  <1> QED
    BY <1>2, <1>5

\* No set of calls waits in a ring, for rows or for keys, however many calls there are
\* and whatever rows they touch, in a book of finitely many.
THEOREM WaitsEnd == IsFiniteSet(Accounts) => (Spec => []NoWaitCycle)
  <1> SUFFICES ASSUME IsFiniteSet(Accounts) PROVE Spec => []NoWaitCycle
    OBVIOUS
  <1>1. TypeOK /\ InOrder => NoWaitCycle
    BY OrderBreaksRings
  <1> QED
    BY <1>1, InitTypes, NextTypes, InitLocks, NextLocks, InitOrder, NextOrder, PTL DEF Spec

----------------------------------------------------------------------------
\* Seeding a row leaves its postings and its balance alone.
LEMMA SeededRegister ==
    ASSUME NEW row, NEW when
    PROVE  Seeded(row, when).register = row.register /\ Seeded(row, when).balance = row.balance
  BY DEF Seeded, NoRow

\* What the row a leg is applied to looks like afterwards.
LEMMA LegRowFacts ==
    ASSUME TypeOK, NEW c \in Calls, LegsLeft(c),
           NEW a, a = Leg(c).account
    PROVE  /\ a \in Accounts
           /\ tentative[a] \in Row
           /\ LegRow(c).balance \in Int
           /\ LegRow(c).balance = tentative[a].balance + Leg(c).amount
           /\ LegRow(c).last_date = date[c]
           /\ Len(LegRow(c).register) = Len(tentative[a].register) + 1
           /\ DOMAIN LegRow(c).register = 1..(Len(tentative[a].register) + 1)
           /\ \A i \in DOMAIN tentative[a].register :
                 LegRow(c).register[i] = tentative[a].register[i]
           /\ LegRow(c).register[Len(tentative[a].register) + 1].tx = c
           /\ LegRow(c).register[Len(tentative[a].register) + 1].date = date[c]
           /\ LegRow(c).register[Len(tentative[a].register) + 1].amount = Leg(c).amount
           /\ LegRow(c).register[Len(tentative[a].register) + 1].balance = LegRow(c).balance
  <1>1. a \in Accounts /\ LegRow(c) \in Row
    BY LegRowType
  <1>2. tentative[a] \in Row
    BY <1>1 DEF TypeOK
  <1>3. LegRow(c) = Applied(tentative[a], c, Leg(c).amount, date[c])
    BY DEF LegRow, LegBase
  <1>4. LegRow(c).balance \in Int
    BY <1>1 DEF Row
  <1>5. /\ LegRow(c).balance = tentative[a].balance + Leg(c).amount
        /\ LegRow(c).last_date = date[c]
        /\ DOMAIN LegRow(c).register = 1..(Len(tentative[a].register) + 1)
        /\ Len(LegRow(c).register) = Len(tentative[a].register) + 1
        /\ \A i \in DOMAIN tentative[a].register :
              LegRow(c).register[i] = tentative[a].register[i]
        /\ LegRow(c).register[Len(tentative[a].register) + 1] =
              [tx |-> c, amount |-> Leg(c).amount,
               balance |-> tentative[a].balance + Leg(c).amount, date |-> date[c]]
    <2> HIDE DEF LegRow
    <2> QED
      BY <1>2, <1>3, AppliedFacts
  <1>6. /\ LegRow(c).register[Len(tentative[a].register) + 1].tx = c
        /\ LegRow(c).register[Len(tentative[a].register) + 1].date = date[c]
        /\ LegRow(c).register[Len(tentative[a].register) + 1].amount = Leg(c).amount
        /\ LegRow(c).register[Len(tentative[a].register) + 1].balance = LegRow(c).balance
    BY <1>5
  <1> QED
    BY <1>1, <1>2, <1>4, <1>5, <1>6, Zenon

----------------------------------------------------------------------------
\* Rows under a lock extend the committed ones.

\* The parts of TraceInv, of one account.
Extends(a) ==
    \A i \in DOMAIN book[a].register :
        /\ i \in DOMAIN tentative[a].register
        /\ tentative[a].register[i] = book[a].register[i]
        /\ \E t \in transactions : t.id = book[a].register[i].tx

\* What is not committed on a row is its holder's.
HoldersOnly(a) ==
    \A i \in DOMAIN tentative[a].register :
        i > Len(book[a].register) =>
           /\ pc[tentative[a].register[i].tx] = "post"
           /\ a \in held[tentative[a].register[i].tx]

\* TraceInv, row by row.
LEMMA TraceParts == TraceInv <=> \A a \in Accounts : Extends(a) /\ HoldersOnly(a)
  BY DEF TraceInv, Extends, HoldersOnly

\* What is known of the postings of a row.
LEMMA RegisterTypes ==
    ASSUME TypeOK, NEW a \in Accounts
    PROVE  /\ Len(book[a].register) \in Nat
           /\ Len(tentative[a].register) \in Nat
           /\ DOMAIN book[a].register = 1..Len(book[a].register)
           /\ DOMAIN tentative[a].register = 1..Len(tentative[a].register)
           /\ \A i \in DOMAIN book[a].register : book[a].register[i].tx \in Calls
           /\ \A i \in DOMAIN tentative[a].register : tentative[a].register[i].tx \in Calls
  <1>1. book[a] \in Row /\ tentative[a] \in Row
    BY DEF TypeOK
  <1> QED
    BY <1>1, RowFacts

\* No row has postings at first.
LEMMA InitTrace == Init => TraceInv
  BY DEF Init, TraceInv, NoRow

\* Every step keeps the traces.
LEMMA NextTrace == TypeOK /\ LocksInv /\ KeysInv /\ TraceInv /\ [Next]_vars => TraceInv'
  <1> SUFFICES ASSUME TypeOK, LocksInv, KeysInv, TraceInv, [Next]_vars,
                      NEW a \in Accounts
               PROVE  Extends(a)' /\ HoldersOnly(a)'
    BY DEF TraceInv, Extends, HoldersOnly
  <1> USE DEF callers, locals, tables
  <1>0. TypeOK'
    BY NextTypes
  <1>1. Extends(a) /\ HoldersOnly(a)
    BY TraceParts
  <1>2. CASE Quiet
    BY <1>1, <1>2, RegisterTypes DEF Quiet, Extends, HoldersOnly
  <1>3. ASSUME NEW c \in Calls, RolledBack(c) PROVE Extends(a)' /\ HoldersOnly(a)'
    <2>1. /\ UNCHANGED <<book, transactions>>
          /\ tentative'[a] = IF a \in held[c] THEN book[a] ELSE tentative[a]
          /\ held'[c] = {}
          /\ \A d \in Calls \ {c} : held'[d] = held[d] /\ pc'[d] = pc[d]
      BY <1>3 DEF RolledBack, Rollback, TypeOK
    <2>2. CASE a \in held[c]
      <3>1. tentative'[a].register = book'[a].register
        BY <2>1, <2>2
      <3>2. HoldersOnly(a)'
        BY <1>0, <2>1, <2>2, RegisterTypes DEF HoldersOnly
      <3> QED
        BY <1>1, <2>1, <3>1, <3>2 DEF Extends
    <2>3. CASE a \notin held[c]
      BY <1>1, <2>1, <2>3, RegisterTypes DEF Extends, HoldersOnly
    <2> QED
      BY <2>2, <2>3
  <1>4. ASSUME NEW c \in Calls, Begin(c) \/ InsertTransaction(c)
        PROVE  Extends(a)' /\ HoldersOnly(a)'
    <2>1. /\ UNCHANGED <<book, tentative, transactions, held>>
          /\ pc[c] # "post"
          /\ \A d \in Calls \ {c} : pc'[d] = pc[d]
      BY <1>4 DEF Begin, InsertTransaction, AllLocked, Goto, TypeOK
    <2> QED
      BY <1>1, <2>1, RegisterTypes DEF Extends, HoldersOnly
  <1>5. ASSUME NEW c \in Calls, LockRow(c) PROVE Extends(a)' /\ HoldersOnly(a)'
    <2>1. PICK b \in Accounts :
            /\ RowFree(b)
            /\ held' = [held EXCEPT ![c] = @ \cup {b}]
            /\ tentative' = [tentative EXCEPT ![b] = Seeded(book[b], date[c])]
            /\ UNCHANGED <<pc, book, transactions>>
      BY <1>5 DEF LockRow
    <2>2. tentative[b] = book[b]
      BY <2>1 DEF RowFree, LocksInv
    <2>3. tentative'[a].register = tentative[a].register
      BY <2>1, <2>2, SeededRegister DEF TypeOK
    <2>4. \A d \in Calls : held[d] \subseteq held'[d]
      BY <2>1 DEF TypeOK
    <2> QED
      BY <1>1, <2>1, <2>3, <2>4, RegisterTypes DEF Extends, HoldersOnly
  <1>6. ASSUME NEW c \in Calls, PostLeg(c) PROVE Extends(a)' /\ HoldersOnly(a)'
    <2> DEFINE b == Leg(c).account
    <2>1. /\ LegsLeft(c)
          /\ tentative' = [tentative EXCEPT ![b] = LegRow(c)]
          /\ UNCHANGED <<pc, held, book, transactions>>
      BY <1>6 DEF PostLeg
    <2>2. b \in Accounts /\ b \in held[c] /\ pc[c] = "post"
      BY <2>1, LegRowType DEF LegsLeft, LocksInv
    <2>3. CASE a = b
      <3>1. tentative'[a] = LegRow(c)
        BY <2>1, <2>2, <2>3 DEF TypeOK
      <3> HIDE DEF b
      <3>2. /\ DOMAIN LegRow(c).register = 1..(Len(tentative[a].register) + 1)
            /\ \A i \in DOMAIN tentative[a].register :
                  LegRow(c).register[i] = tentative[a].register[i]
            /\ LegRow(c).register[Len(tentative[a].register) + 1].tx = c
        BY <2>1, <2>3, LegRowFacts DEF b
      <3>3. Extends(a)'
        BY <1>1, <2>1, <3>1, <3>2, RegisterTypes DEF Extends
      <3>4. ASSUME NEW i \in DOMAIN tentative'[a].register, i > Len(book'[a].register)
            PROVE  /\ pc'[tentative'[a].register[i].tx] = "post"
                   /\ a \in held'[tentative'[a].register[i].tx]
        <4>1. CASE i \in DOMAIN tentative[a].register
          BY <1>1, <2>1, <3>1, <3>2, <3>4, <4>1 DEF HoldersOnly
        <4>2. CASE i = Len(tentative[a].register) + 1
          BY <2>1, <2>2, <2>3, <3>1, <3>2, <4>2
        <4> QED
          BY <3>1, <3>2, <4>1, <4>2, RegisterTypes
      <3> QED
        BY <3>3, <3>4 DEF HoldersOnly
    <2>4. CASE a # b
      <3>1. tentative'[a] = tentative[a]
        BY <2>1, <2>4 DEF TypeOK
      <3> QED
        BY <1>1, <2>1, <3>1 DEF Extends, HoldersOnly
    <2> QED
      BY <2>3, <2>4
  <1>7. ASSUME NEW c \in Calls, Commit(c) PROVE Extends(a)' /\ HoldersOnly(a)'
    <2>0. PICK t0 :
            /\ t0 = [id |-> c, key |-> request[c].key,
                     fingerprint |-> StoredFingerprint(c), date |-> date[c]]
            /\ transactions' = transactions \cup {t0}
      BY <1>7 DEF Commit
    <2>1. /\ book'[a] = IF a \in held[c] THEN tentative[a] ELSE book[a]
          /\ tentative' = tentative
          /\ \A d \in Calls \ {c} : held'[d] = held[d] /\ pc'[d] = pc[d]
          /\ transactions \subseteq transactions'
          /\ \E t \in transactions' : t.id = c
      <3>1. /\ book'[a] = IF a \in held[c] THEN tentative[a] ELSE book[a]
            /\ tentative' = tentative
            /\ \A d \in Calls \ {c} : held'[d] = held[d] /\ pc'[d] = pc[d]
        BY <1>7 DEF Commit, Reply, Goto, TypeOK
      <3> QED
        BY <2>0, <3>1
    <2>2. CASE a \in held[c]
      <3>1. ASSUME NEW i \in DOMAIN tentative[a].register
            PROVE  \E t \in transactions' : t.id = tentative[a].register[i].tx
        <4>1. CASE i \in DOMAIN book[a].register
          BY <1>1, <2>1, <4>1 DEF Extends
        <4>2. CASE i > Len(book[a].register)
          <5>1. /\ tentative[a].register[i].tx \in Calls
                /\ a \in held[tentative[a].register[i].tx]
            BY <1>1, <4>2, RegisterTypes DEF HoldersOnly
          <5>2. tentative[a].register[i].tx = c
            BY <2>2, <5>1 DEF LocksInv
          <5> QED
            BY <2>1, <5>2
        <4> QED
          BY <4>1, <4>2, RegisterTypes
      <3>2. book'[a] = tentative[a] /\ tentative'[a] = tentative[a]
        BY <2>1, <2>2
      <3>3. Extends(a)'
        BY <3>1, <3>2 DEF Extends
      <3>4. HoldersOnly(a)'
        BY <3>2, RegisterTypes DEF HoldersOnly
      <3> QED
        BY <3>3, <3>4
    <2>3. CASE a \notin held[c]
      BY <1>1, <2>1, <2>3, RegisterTypes DEF Extends, HoldersOnly
    <2> QED
      BY <2>2, <2>3
  <1> QED
    BY <1>2, <1>3, <1>4, <1>5, <1>6, <1>7, StepKinds

\* A refused call has recorded nothing and holds nothing: only a call that commits is
\* in the registers, a commit answers with success or not at all, and only a call on its
\* way from the lock loop to the commit has a leg, a lock or a connection.
THEOREM RefusalsRecordNothing == Spec => []RefusedLeavesNoTrace
  <1>1. TypeOK /\ LocksInv /\ KeysInv /\ TraceInv => RefusedLeavesNoTrace
    <2> SUFFICES ASSUME TypeOK, LocksInv, KeysInv, TraceInv,
                        NEW c \in Calls, answer[c].code \in Refusals
                 PROVE  /\ \A t \in transactions : t.id # c
                        /\ \A a \in Accounts : \A row \in {book[a], tentative[a]} :
                              \A i \in DOMAIN row.register : row.register[i].tx # c
                        /\ held[c] = {} /\ c \notin conns
      BY DEF RefusedLeavesNoTrace
    <2>1. pc[c] = "done"
      BY DEF KeysInv, Refusals
    <2>2. \A t \in transactions : t.id # c
      BY DEF KeysInv, Refusals
    <2>3. ASSUME NEW a \in Accounts, NEW i \in DOMAIN book[a].register
          PROVE  book[a].register[i].tx # c
      BY <2>2 DEF TraceInv
    <2>4. ASSUME NEW a \in Accounts, NEW i \in DOMAIN tentative[a].register
          PROVE  tentative[a].register[i].tx # c
      <3>1. CASE i \in DOMAIN book[a].register
        BY <2>3, <3>1 DEF TraceInv
      <3>2. CASE i \notin DOMAIN book[a].register
        <4>1. i > Len(book[a].register)
          BY <3>2, RegisterTypes
        <4>2. pc[tentative[a].register[i].tx] = "post"
          BY <4>1 DEF TraceInv
        <4> QED
          BY <2>1, <4>2
      <3> QED
        BY <3>1, <3>2
    <2>5. held[c] = {} /\ c \notin conns
      BY <2>1 DEF LocksInv
    <2> QED
      BY <2>2, <2>3, <2>4, <2>5
  <1> QED
    BY <1>1, InitTypes, NextTypes, InitLocks, NextLocks, InitKeys, NextKeys,
       InitTrace, NextTrace, PTL DEF Spec

----------------------------------------------------------------------------
\* The balance guard.

\* While a call writes, its last posting on a row it holds is the row's last.
LEMMA HoldersLegIsLast ==
    ASSUME TypeOK, LocksInv, KeysInv, TraceInv, NEW c \in Calls, pc[c] = "post",
           NEW a \in held[c], NEW i \in DOMAIN tentative[a].register,
           LastLeg(tentative[a].register, i, c)
    PROVE  i = Len(tentative[a].register)
  <1>0. a \in Accounts
    BY DEF TypeOK
  <1>1. i > Len(book[a].register)
    <2>1. ASSUME i \in DOMAIN book[a].register PROVE FALSE
      <3>1. \E t \in transactions : t.id = c
        BY <1>0, <2>1 DEF TraceInv, LastLeg
      <3> QED
        BY <3>1 DEF KeysInv
    <2> QED
      BY <1>0, <2>1, RegisterTypes
  <1>2. SUFFICES ASSUME i < Len(tentative[a].register) PROVE FALSE
    BY <1>0, RegisterTypes
  <1> DEFINE n == Len(tentative[a].register)
  <1>3. n \in DOMAIN tentative[a].register /\ n > Len(book[a].register) /\ n > i
    BY <1>0, <1>1, <1>2, RegisterTypes
  <1>4. /\ tentative[a].register[n].tx \in Calls
        /\ a \in held[tentative[a].register[n].tx]
    BY <1>0, <1>3, RegisterTypes DEF TraceInv
  <1>5. tentative[a].register[n].tx = c
    BY <1>4 DEF LocksInv
  <1> QED
    BY <1>3, <1>5 DEF LastLeg

\* Nothing is committed at first.
LEMMA InitGuard == Init => GuardHonoured
  BY DEF Init, GuardHonoured

\* What a commit guards is what it commits.
LEMMA NextGuard ==
    TypeOK /\ LocksInv /\ KeysInv /\ TraceInv /\ RunningBalances /\ GuardHonoured
       /\ [Next]_vars => GuardHonoured'
  <1> SUFFICES ASSUME TypeOK, LocksInv, KeysInv, TraceInv, RunningBalances, GuardHonoured,
                      [Next]_vars
               PROVE  GuardHonoured'
    OBVIOUS
  <1> USE DEF callers, locals, tables
  <1>1. CASE UNCHANGED <<request, transactions, book>>
    BY <1>1 DEF GuardHonoured, LastLeg
  <1>2. ASSUME NEW c \in Calls, Commit(c) PROVE GuardHonoured'
    <2>1. /\ \A a \in Accounts :
               book'[a] = IF a \in held[c] THEN tentative[a] ELSE book[a]
          /\ \A t \in transactions' : t \in transactions \/ t.id = c
          /\ request' = request
          /\ pc[c] = "post"
          /\ ~Overdrawn(c)
      BY <1>2 DEF Commit, LegsPosted
    <2>2. ASSUME NEW t \in transactions', NEW a \in request[t.id].verify,
                 NEW i \in DOMAIN book'[a].register,
                 LastLeg(book'[a].register, i, t.id)
          PROVE  book'[a].register[i].balance >= 0
      <3>0. t.id \in Calls /\ a \in Accounts /\ a \in Touched(request[t.id])
        <4>1. TypeOK'
          BY NextTypes
        <4>2. t.id \in Calls
          BY <4>1 DEF TypeOK, Transaction
        <4>3. request[t.id] \in Drafts
          BY <4>2 DEF TypeOK
        <4> QED
          BY <4>2, <4>3, DraftTypes, DraftsRecordable, DataConstants
          DEF Recordable, TransactionDraft
      <3>1. CASE t.id = c
        <4>1. a \in held[c]
          BY <2>1, <3>0, <3>1 DEF LocksInv
        <4>2. book'[a] = tentative[a]
          BY <2>1, <3>0, <4>1
        <4>3. i = Len(tentative[a].register)
          BY <2>1, <2>2, <3>1, <4>1, <4>2, HoldersLegIsLast
        <4>4. tentative[a].register # <<>>
          BY <2>2, <3>0, <4>2, <4>3, RegisterTypes
        <4>5. tentative[a].register[i].balance = tentative[a].balance
          BY <3>0, <4>3, <4>4 DEF RunningBalances, Chained
        <4>6. ~(tentative[a].balance < 0)
          BY <2>1, <2>2, <3>1 DEF Overdrawn
        <4>7. tentative[a].balance \in Int
          BY <3>0 DEF TypeOK, Row
        <4> QED
          BY <4>2, <4>5, <4>6, <4>7
      <3>2. CASE t.id # c
        <4>0. t \in transactions
          BY <2>1, <3>2
        <4>1. CASE a \notin held[c]
          BY <2>1, <2>2, <3>0, <4>0, <4>1 DEF GuardHonoured
        <4>2. CASE a \in held[c]
          <5>1. book'[a] = tentative[a]
            BY <2>1, <3>0, <4>2
          <5>2. i \in DOMAIN book[a].register
            <6>1. ASSUME i > Len(book[a].register) PROVE FALSE
              <7>1. pc[t.id] = "post"
                BY <2>2, <3>0, <5>1, <6>1 DEF TraceInv, LastLeg
              <7> QED
                BY <4>0, <7>1 DEF KeysInv
            <6> QED
              BY <2>2, <3>0, <5>1, <6>1, RegisterTypes
          <5>3. \A j \in DOMAIN book[a].register :
                   /\ j \in DOMAIN tentative[a].register
                   /\ tentative[a].register[j] = book[a].register[j]
            BY <3>0 DEF TraceInv
          <5>4. LastLeg(book[a].register, i, t.id)
            BY <2>2, <5>1, <5>2, <5>3 DEF LastLeg
          <5>5. book[a].register[i].balance >= 0
            BY <4>0, <2>2, <5>2, <5>4 DEF GuardHonoured
          <5> QED
            BY <5>1, <5>2, <5>3, <5>5
        <4> QED
          BY <4>1, <4>2
      <3> QED
        BY <3>1, <3>2
    <2> QED
      BY <2>1, <2>2 DEF GuardHonoured
  <1>3. ASSUME ~(\E c \in Calls : Commit(c)) PROVE UNCHANGED <<request, transactions, book>>
    BY <1>3, StepKinds
    DEF Quiet, RolledBack, Begin, LockRow, InsertTransaction, PostLeg
  <1> QED
    BY <1>1, <1>2, <1>3

\* An account a transaction was asked to verify is not left overdrawn by it,
\* whichever calls spend from the account at once.
THEOREM GuardsHold == Spec => []GuardHonoured
  BY InitTypes, NextTypes, InitLocks, NextLocks, InitKeys, NextKeys,
     InitTrace, NextTrace, InitBalances, NextBalances, InitGuard, NextGuard, PTL DEF Spec

----------------------------------------------------------------------------
\* The range of what is stored.

\* A row that can be reported with its postings.
RowFits(row) ==
    /\ Fits(row.balance)
    /\ \A i \in DOMAIN row.register : Fits(row.register[i].amount) /\ Fits(row.register[i].balance)

\* BalancesFit, row by row.
LEMMA FitParts == BalancesFit <=> \A a \in Accounts : RowFits(book[a]) /\ RowFits(tentative[a])
  BY DEF BalancesFit, RowFits

\* A balance of zero can be reported.
LEMMA InitFits == Init => BalancesFit
  <1> SUFFICES ASSUME Init PROVE BalancesFit
    OBVIOUS
  <1>1. RowFits(NoRow)
    BY DataConstants DEF RowFits, NoRow, Fits
  <1> QED
    BY <1>1, FitParts DEF Init

\* The amount of a leg is a Money's: it was carried by one.
LEMMA LegAmountFits ==
    ASSUME TypeOK, NEW c \in Calls, LegsLeft(c)
    PROVE  Fits(Leg(c).amount)
  <1>1. request[c] \in Drafts /\ leg[c] \in Nat \ {0}
    BY DEF TypeOK
  <1>2. request[c].postings \in Seq(PostingDraft)
    BY <1>1, DataConstants DEF TransactionDraft
  <1>3. leg[c] \in DOMAIN request[c].postings
    BY <1>1, <1>2 DEF LegsLeft
  <1> QED
    BY <1>1, <1>3, DraftsRecordable DEF Recordable, Leg

\* A leg that does not fit is never applied.
LEMMA NextFits == TypeOK /\ BalancesFit /\ [Next]_vars => BalancesFit'
  <1> SUFFICES ASSUME TypeOK, BalancesFit, [Next]_vars, NEW a \in Accounts
               PROVE  RowFits(book'[a]) /\ RowFits(tentative'[a])
    BY DEF BalancesFit, RowFits
  <1> USE DEF callers, locals, tables
  <1>0. RowFits(book[a]) /\ RowFits(tentative[a])
    BY FitParts
  <1>1. CASE Quiet
    BY <1>0, <1>1 DEF Quiet
  <1>2. ASSUME NEW c \in Calls, RolledBack(c) PROVE RowFits(book'[a]) /\ RowFits(tentative'[a])
    BY <1>0, <1>2 DEF RolledBack, Rollback
  <1>3. ASSUME NEW c \in Calls, Begin(c) \/ InsertTransaction(c)
        PROVE  RowFits(book'[a]) /\ RowFits(tentative'[a])
    BY <1>0, <1>3 DEF Begin, InsertTransaction
  <1>4. ASSUME NEW c \in Calls, LockRow(c) PROVE RowFits(book'[a]) /\ RowFits(tentative'[a])
    <2>1. RowFits(Seeded(book[a], date[c]))
      BY <1>0, SeededRegister DEF RowFits
    <2> QED
      BY <1>0, <1>4, <2>1 DEF LockRow, TypeOK
  <1>5. ASSUME NEW c \in Calls, PostLeg(c) PROVE RowFits(book'[a]) /\ RowFits(tentative'[a])
    <2> DEFINE b == Leg(c).account
    <2>1. /\ LegsLeft(c)
          /\ Reportable(LegRow(c))
          /\ tentative' = [tentative EXCEPT ![b] = LegRow(c)]
          /\ book' = book
      BY <1>5 DEF PostLeg
    <2>2. CASE a = b
      <3>1. tentative'[a] = LegRow(c)
        BY <2>1, <2>2 DEF TypeOK
      <3> HIDE DEF b
      <3>2. /\ DOMAIN LegRow(c).register = 1..(Len(tentative[a].register) + 1)
            /\ \A i \in DOMAIN tentative[a].register :
                  LegRow(c).register[i] = tentative[a].register[i]
            /\ LegRow(c).register[Len(tentative[a].register) + 1].balance = LegRow(c).balance
            /\ LegRow(c).register[Len(tentative[a].register) + 1].amount = Leg(c).amount
        BY <2>1, <2>2, LegRowFacts DEF b
      <3>3. Fits(LegRow(c).balance) /\ Fits(Leg(c).amount)
        BY <2>1, LegAmountFits DEF Reportable
      <3>4. ASSUME NEW i \in DOMAIN LegRow(c).register
            PROVE  Fits(LegRow(c).register[i].amount) /\ Fits(LegRow(c).register[i].balance)
        <4>1. CASE i \in DOMAIN tentative[a].register
          BY <1>0, <3>2, <4>1 DEF RowFits
        <4>2. CASE i = Len(tentative[a].register) + 1
          BY <3>2, <3>3, <4>2
        <4> QED
          BY <3>2, <4>1, <4>2, RegisterTypes
      <3>5. RowFits(LegRow(c))
        BY <3>3, <3>4 DEF RowFits
      <3> QED
        BY <1>0, <2>1, <3>1, <3>5
    <2>3. CASE a # b
      BY <1>0, <2>1, <2>3 DEF TypeOK
    <2> QED
      BY <2>2, <2>3
  <1>6. ASSUME NEW c \in Calls, Commit(c) PROVE RowFits(book'[a]) /\ RowFits(tentative'[a])
    BY <1>0, <1>6 DEF Commit
  <1> QED
    BY <1>1, <1>2, <1>3, <1>4, <1>5, <1>6, StepKinds

\* No amount or balance is stored that a read could not report.
THEOREM WhatIsStoredCanBeRead == Spec => []ReadsNeverFail
  <1>1. BalancesFit => ReadsNeverFail
    BY DEF BalancesFit, ReadsNeverFail
  <1> QED
    BY <1>1, InitTypes, NextTypes, InitFits, NextFits, PTL DEF Spec

----------------------------------------------------------------------------
\* The parts of SuppliedInv, of one call.
SuppliedDate(c) ==
    pc[c] \in {"lock", "post"} /\ request[c].date # NoDate =>
       date[c] = TruncateDate(request[c].date)

\* What a call has read as the latest posting is on a row it holds.
LatestRead(c) ==
    /\ pc[c] \in {"check", "begin"} => latest[c] = ZeroTime
    /\ pc[c] = "lock" =>
          \/ latest[c] = ZeroTime
          \/ \E a \in held[c] : latest[c] = tentative[a].last_date

\* A refused backdate has a committed posting that is later.
RefusedForAPosting(c) == pc[c] = "recheck" \/ answer[c].code = "backdated" => Precedes(c)

\* A held row carries the committed date, or the call's own if it is new.
SeededOrCommitted(c) ==
    \A a \in held[c] : pc[c] = "lock" =>
        tentative[a].last_date = book[a].last_date \/ tentative[a].last_date = date[c]

\* A supplied date is stored as supplied, to the microsecond.
StoredDates ==
    \A t \in transactions :
        request[t.id].date # NoDate => t.date = TruncateDate(request[t.id].date)

\* SuppliedInv is made of these.
LEMMA SuppliedParts ==
    SuppliedInv <=>
       /\ StoredDates
       /\ \A c \in Calls :
             /\ SuppliedDate(c) /\ LatestRead(c)
             /\ RefusedForAPosting(c) /\ SeededOrCommitted(c)
  BY DEF SuppliedInv, StoredDates, SuppliedDate, LatestRead, RefusedForAPosting,
         SeededOrCommitted

\* Dates are comparable.
LEMMA RequestDates ==
    ASSUME TypeOK, NEW c \in Calls
    PROVE  /\ request[c].date \in Nat \cup {NoDate}
           /\ request[c].date # NoDate => TruncateDate(request[c].date) \in Nat
           /\ Touched(request[c]) \subseteq Accounts
           /\ now[c] \in Nat
  <1>1. request[c] \in Drafts /\ now[c] \in Nat
    BY DEF TypeOK
  <1> QED
    BY <1>1, DraftTypes, TruncateDateIsDate

\* A supplied date that is not refused is the date the transaction settles on.
LEMMA SettledOnSupplied ==
    ASSUME NEW supplied, supplied # NoDate, NEW seen, NEW reading
    PROVE  /\ ProvisionalDate(supplied, reading) = TruncateDate(supplied)
           /\ ResolvedDate(supplied, seen, reading) = TruncateDate(supplied)
  BY DEF ProvisionalDate, ResolvedDate

\* No date is supplied or read yet.
LEMMA InitSupplied == Init => SuppliedInv
  BY DEF Init, SuppliedInv

\* What a step does to each call's own part of the state.
LEMMA Backdates ==
    ASSUME TypeOK, LocksInv, SuppliedInv, NEW c \in Calls, Overtaken(c)
    PROVE  Precedes(c)
  <1>1. /\ pc[c] = "lock"
        /\ request[c].date # NoDate
        /\ TruncateDate(request[c].date) < latest[c]
    BY SettledOnSupplied DEF Overtaken, AllLocked, Backdated
  <1>2. TruncateDate(request[c].date) \in Nat
    BY <1>1, RequestDates
  <1>3. latest[c] # ZeroTime
    BY <1>1, <1>2 DEF ZeroTime
  <1>4. PICK a \in held[c] : latest[c] = tentative[a].last_date
    BY <1>1, <1>3, SuppliedParts DEF LatestRead
  <1>5. a \in Touched(request[c])
    BY DEF LocksInv
  <1>6. tentative[a].last_date # date[c]
    <2>1. date[c] = TruncateDate(request[c].date)
      BY <1>1, SuppliedParts DEF SuppliedDate
    <2> QED
      BY <1>1, <1>2, <1>4, <2>1
  <1>7. tentative[a].last_date = book[a].last_date
    BY <1>1, <1>6, SuppliedParts DEF SeededOrCommitted
  <1> QED
    BY <1>1, <1>4, <1>5, <1>7 DEF Precedes

\* A committed posting that precedes a supplied date stays where it is.
LEMMA PrecedesStays ==
    ASSUME TypeOK, DatesInv, NEW c \in Calls, Precedes(c), request' = request,
           \A a \in Accounts : book'[a] = book[a] \/ book'[a] = tentative[a]
    PROVE  Precedes(c)'
  <1>1. PICK a \in Touched(request[c]) : TruncateDate(request[c].date) < book[a].last_date
    BY DEF Precedes
  <1>2. a \in Accounts /\ TruncateDate(request[c].date) \in Nat
    BY RequestDates DEF Precedes
  <1>3. book[a].last_date <= tentative[a].last_date
    BY <1>2 DEF DatesInv
  <1>4. TruncateDate(request[c].date) < book'[a].last_date
    BY <1>1, <1>2, <1>3, DatesAreInts
  <1> QED
    BY <1>1, <1>4 DEF Precedes

\* A step changes committed rows only to what their holder left on them.
LEMMA BookSteps ==
    ASSUME TypeOK, [Next]_vars
    PROVE  /\ request' = request
           /\ \A a \in Accounts : book'[a] = book[a] \/ book'[a] = tentative[a]
  BY StepKinds
  DEF Quiet, RolledBack, Begin, LockRow, InsertTransaction, PostLeg, Commit,
      callers, locals, tables

\* The refusal is only ever given for a posting that is there.
LEMMA NextRefused ==
    ASSUME TypeOK, LocksInv, DatesInv, KeysInv, SuppliedInv, [Next]_vars, NEW d \in Calls
    PROVE  RefusedForAPosting(d)'
  <1> USE DEF callers, locals, tables
  <1>1. RefusedForAPosting(d)
    BY SuppliedParts
  <1>2. Precedes(d) => Precedes(d)'
    BY BookSteps, PrecedesStays
  <1>3. SUFFICES ASSUME pc'[d] = "recheck" \/ answer'[d].code = "backdated"
                 PROVE  Precedes(d) \/ Precedes(d)'
    BY <1>2 DEF RefusedForAPosting
  <1>4. CASE pc[d] = "recheck" \/ answer[d].code = "backdated"
    BY <1>1, <1>4 DEF RefusedForAPosting
  <1>5. CASE ~(pc[d] = "recheck" \/ answer[d].code = "backdated")
    <2>1. ASSUME NEW c \in Calls, NEW code, NEW tx, Reply(c, code, tx), code # "backdated"
          PROVE  FALSE
      BY <1>3, <1>5, <2>1, ReplyFacts
    <2>2. ASSUME NEW c \in Calls, NEW stage, Goto(c, stage), stage # "recheck",
                 answer' = answer
          PROVE  FALSE
      BY <1>3, <1>5, <2>2, GotoFacts
    <2>3. ASSUME NEW c \in Calls, ReplyFromKey(c) PROVE FALSE
      BY <2>1, <2>3 DEF ReplyFromKey
    <2>4. ASSUME NEW c \in Calls, CheckKey(c) PROVE FALSE
      BY <2>2, <2>3, <2>4 DEF CheckKey
    <2>5. ASSUME NEW c \in Calls, Begin(c) \/ InsertTransaction(c) \/ LoseToWinner(c)
          PROVE  FALSE
      BY <2>2, <2>5 DEF Begin, InsertTransaction, LoseToWinner
    <2>6. ASSUME NEW c \in Calls, LockRow(c) \/ PostLeg(c) PROVE FALSE
      BY <1>3, <1>5, <2>6 DEF LockRow, PostLeg
    <2>7. ASSUME NEW c \in Calls,
                 \/ RefuseTooFarAhead(c) \/ RefuseUnrepresentable(c)
                 \/ RefuseOverdraft(c) \/ Fail(c) \/ Commit(c)
          PROVE  FALSE
      BY <2>1, <2>7
      DEF RefuseTooFarAhead, RefuseUnrepresentable, RefuseOverdraft, Fail, Commit
    <2>8. ASSUME NEW c \in Calls, Overtaken(c) PROVE Precedes(d)
      <3>1. c = d
        BY <1>3, <1>5, <2>8, GotoFacts DEF Overtaken
      <3> QED
        BY <2>8, <3>1, Backdates
    <2>9. ASSUME NEW c \in Calls, Reconsult(c) PROVE FALSE
      <3>1. /\ KeyFree(request[c].key)
            /\ Reply(c, IF pc[c] = "recheck" THEN "backdated" ELSE "reused", NoCall)
        BY <2>3, <2>9 DEF Reconsult
      <3>2. pc[c] = "recheck"
        BY <2>1, <3>1
      <3>3. c # d
        BY <1>5, <3>2
      <3> QED
        BY <1>3, <1>5, <3>1, <3>3, ReplyFacts
    <2>10. CASE Tick \/ UNCHANGED vars
      BY <1>3, <1>5, <2>10 DEF Tick, vars
    <2> QED
      BY <2>4, <2>5, <2>6, <2>7, <2>8, <2>9, <2>10 DEF Next, Step, Finished
  <1> QED
    BY <1>4, <1>5

----------------------------------------------------------------------------
\* The rest of SuppliedInv.

\* What a call knows of dates by its own steps.
OwnDates(c) == SuppliedDate(c) /\ LatestRead(c) /\ SeededOrCommitted(c)

\* A step that leaves alone what a call holds and knows keeps its dates.
LEMMA OthersKeep ==
    ASSUME NEW d \in Calls, OwnDates(d),
           pc'[d] = pc[d], date'[d] = date[d], latest'[d] = latest[d],
           held'[d] = held[d], request' = request,
           \A a \in held[d] : tentative'[a] = tentative[a] /\ book'[a] = book[a]
    PROVE  OwnDates(d)'
  BY DEF OwnDates, SuppliedDate, LatestRead, SeededOrCommitted

\* Every step keeps it.
LEMMA NextOwnDates ==
    ASSUME TypeOK, LocksInv, SuppliedInv, [Next]_vars, NEW d \in Calls
    PROVE  OwnDates(d)'
  <1> USE DEF callers, locals, tables
  <1>1. OwnDates(d)
    BY SuppliedParts DEF OwnDates
  <1>2. held[d] \subseteq Accounts
    BY DatesAreInts
  <1>3. CASE Quiet
    <2>1. CASE pc'[d] = pc[d]
      BY <1>1, <1>3, <2>1, OthersKeep DEF Quiet
    <2>2. CASE pc[d] = "check" /\ pc'[d] = "begin"
      BY <1>1, <1>3, <2>2 DEF Quiet, OwnDates, SuppliedDate, LatestRead, SeededOrCommitted
    <2>3. CASE pc'[d] = "done"
      BY <2>3 DEF OwnDates, SuppliedDate, LatestRead, SeededOrCommitted
    <2> QED
      BY <1>3, <2>1, <2>2, <2>3 DEF Quiet
  <1>4. ASSUME NEW c \in Calls, RolledBack(c) PROVE OwnDates(d)'
    <2>1. CASE c = d
      BY <1>4, <2>1 DEF RolledBack, OwnDates, SuppliedDate, LatestRead, SeededOrCommitted
    <2>2. CASE c # d
      <3>1. pc'[d] = pc[d] /\ held'[d] = held[d] /\ held[d] \cap held[c] = {}
        BY <1>4, <2>2 DEF RolledBack, Rollback, LocksInv, TypeOK
      <3>2. \A a \in held[d] : tentative'[a] = tentative[a] /\ book'[a] = book[a]
        BY <1>2, <1>4, <3>1 DEF RolledBack, Rollback
      <3> QED
        BY <1>1, <1>4, <3>1, <3>2, OthersKeep DEF RolledBack
    <2> QED
      BY <2>1, <2>2
  <1>5. ASSUME NEW c \in Calls, Begin(c) PROVE OwnDates(d)'
    <2>1. CASE c = d
      <3>1. /\ pc'[d] = "lock" /\ held'[d] = {} /\ latest'[d] = ZeroTime
            /\ request' = request
        BY <1>1, <1>5, <2>1, GotoFacts DEF Begin, LocksInv, OwnDates, LatestRead
      <3>2. request[d].date # NoDate => date'[d] = TruncateDate(request[d].date)
        BY <1>5, <2>1, SettledOnSupplied DEF Begin, TypeOK
      <3> QED
        BY <3>1, <3>2 DEF OwnDates, SuppliedDate, LatestRead, SeededOrCommitted
    <2>2. CASE c # d
      BY <1>1, <1>5, <2>2, GotoFacts, OthersKeep DEF Begin, TypeOK
    <2> QED
      BY <2>1, <2>2
  <1>6. ASSUME NEW c \in Calls, LockRow(c) PROVE OwnDates(d)'
    <2>1. PICK a \in Accounts :
            /\ RowFree(a)
            /\ pc[c] = "lock"
            /\ held' = [held EXCEPT ![c] = @ \cup {a}]
            /\ tentative' = [tentative EXCEPT ![a] = Seeded(book[a], date[c])]
            /\ latest' = [latest EXCEPT ![c] = Latest(@, Seeded(book[a], date[c]))]
            /\ UNCHANGED <<pc, book, date, request>>
      BY <1>6 DEF LockRow
    <2>2. \A b \in held[d] : b # a /\ tentative'[b] = tentative[b]
      BY <1>2, <2>1 DEF RowFree, TypeOK
    <2>3. CASE c = d
      <3>1. /\ tentative'[a].last_date = Seeded(book[a], date[d]).last_date
            /\ held'[d] = held[d] \cup {a}
            /\ latest'[d] = Latest(latest[d], Seeded(book[a], date[d]))
        BY <2>1, <2>3 DEF TypeOK
      <3>2. latest'[d] = latest[d] \/ latest'[d] = tentative'[a].last_date
        BY <3>1 DEF Latest
      <3>3. LatestRead(d)'
        BY <1>1, <2>1, <2>2, <2>3, <3>1, <3>2 DEF OwnDates, LatestRead
      <3>4. Seeded(book[a], date[d]).last_date \in {book[a].last_date, date[d]}
        BY DEF Seeded, NoRow
      <3>5. SeededOrCommitted(d)'
        BY <1>1, <2>1, <2>2, <2>3, <3>1, <3>4 DEF OwnDates, SeededOrCommitted
      <3>6. SuppliedDate(d)'
        BY <1>1, <2>1 DEF OwnDates, SuppliedDate
      <3> QED
        BY <3>3, <3>5, <3>6 DEF OwnDates
    <2>4. CASE c # d
      <3>1. held'[d] = held[d] /\ latest'[d] = latest[d]
        BY <2>1, <2>4 DEF TypeOK
      <3> QED
        BY <1>1, <2>1, <2>2, <3>1, OthersKeep
    <2> QED
      BY <2>3, <2>4
  <1>7. ASSUME NEW c \in Calls, InsertTransaction(c) PROVE OwnDates(d)'
    <2>1. CASE c = d
      <3>1. pc'[d] = "post" /\ request' = request
        BY <1>7, <2>1, GotoFacts DEF InsertTransaction
      <3>2. request[d].date # NoDate => date'[d] = TruncateDate(request[d].date)
        BY <1>7, <2>1, SettledOnSupplied DEF InsertTransaction, TypeOK
      <3> QED
        BY <3>1, <3>2 DEF OwnDates, SuppliedDate, LatestRead, SeededOrCommitted
    <2>2. CASE c # d
      BY <1>1, <1>7, <2>2, GotoFacts, OthersKeep DEF InsertTransaction, TypeOK
    <2> QED
      BY <2>1, <2>2
  <1>8. ASSUME NEW c \in Calls, PostLeg(c) PROVE OwnDates(d)'
    <2>1. /\ Leg(c).account \in held[c]
          /\ pc[c] = "post"
          /\ tentative' = [tentative EXCEPT ![Leg(c).account] = LegRow(c)]
          /\ UNCHANGED <<pc, book, date, latest, held, request>>
      BY <1>8, LegRowType DEF PostLeg, LegsLeft, LocksInv
    <2>2. CASE c = d
      BY <1>1, <2>1, <2>2 DEF OwnDates, SuppliedDate, LatestRead, SeededOrCommitted
    <2>3. CASE c # d
      <3>1. \A a \in held[d] : tentative'[a] = tentative[a]
        BY <1>2, <2>1, <2>3 DEF LocksInv, TypeOK
      <3> QED
        BY <1>1, <2>1, <3>1, OthersKeep
    <2> QED
      BY <2>2, <2>3
  <1>9. ASSUME NEW c \in Calls, Commit(c) PROVE OwnDates(d)'
    <2>1. CASE c = d
      <3>1. pc'[d] = "done"
        BY <1>9, <2>1, ReplyFacts DEF Commit
      <3> QED
        BY <3>1 DEF OwnDates, SuppliedDate, LatestRead, SeededOrCommitted
    <2>2. CASE c # d
      <3>1. pc'[d] = pc[d] /\ held'[d] = held[d]
        BY <1>9, <2>2, ReplyFacts DEF Commit, TypeOK
      <3>2. \A a \in held[d] : tentative'[a] = tentative[a] /\ book'[a] = book[a]
        BY <1>2, <1>9, <2>2 DEF Commit, LocksInv
      <3> QED
        BY <1>1, <1>9, <3>1, <3>2, OthersKeep DEF Commit
    <2> QED
      BY <2>1, <2>2
  <1> QED
    BY <1>3, <1>4, <1>5, <1>6, <1>7, <1>8, <1>9, StepKinds

\* A commit stores what was supplied.
LEMMA NextStored ==
    ASSUME TypeOK, SuppliedInv, [Next]_vars
    PROVE  StoredDates'
  <1> USE DEF callers, locals, tables
  <1>1. StoredDates /\ request' = request
    BY SuppliedParts, BookSteps
  <1>2. CASE transactions' = transactions
    BY <1>1, <1>2 DEF StoredDates
  <1>3. ASSUME NEW c \in Calls, Commit(c) PROVE StoredDates'
    <2>1. PICK t0 :
            /\ t0 = [id |-> c, key |-> request[c].key,
                     fingerprint |-> StoredFingerprint(c), date |-> date[c]]
            /\ transactions' = transactions \cup {t0}
      BY <1>3 DEF Commit
    <2>2. t0.id = c /\ t0.date = date[c]
      BY <2>1
    <2>3. pc[c] = "post"
      BY <1>3 DEF Commit, LegsPosted
    <2>4. request[c].date # NoDate => date[c] = TruncateDate(request[c].date)
      BY <2>3, SuppliedParts DEF SuppliedDate
    <2> QED
      BY <1>1, <2>1, <2>2, <2>4 DEF StoredDates
  <1>4. transactions' = transactions \/ \E c \in Calls : Commit(c)
    BY StepKinds
    DEF Quiet, RolledBack, Begin, LockRow, InsertTransaction, PostLeg
  <1> QED
    BY <1>2, <1>3, <1>4

\* Every step keeps the whole of SuppliedInv.
LEMMA NextSupplied ==
    TypeOK /\ LocksInv /\ DatesInv /\ KeysInv /\ SuppliedInv /\ [Next]_vars => SuppliedInv'
  <1> SUFFICES ASSUME TypeOK, LocksInv, DatesInv, KeysInv, SuppliedInv, [Next]_vars
               PROVE  SuppliedInv'
    OBVIOUS
  <1>1. StoredDates' /\ \A d \in Calls : OwnDates(d)' /\ RefusedForAPosting(d)'
    BY NextStored, NextOwnDates, NextRefused
  <1> QED
    BY <1>1
    DEF SuppliedInv, OwnDates, StoredDates, SuppliedDate, LatestRead, RefusedForAPosting,
        SeededOrCommitted

----------------------------------------------------------------------------
\* Refusals that are final, replays that are the same.

\* Drafts of one fingerprint touch the same rows and supply the same date, as far
\* as it is stored.
LEMMA SameFingerprint ==
    ASSUME NEW draft \in Drafts, NEW other \in Drafts,
           Fingerprint(draft) = Fingerprint(other)
    PROVE  /\ draft.note = other.note
           /\ draft.postings = other.postings
           /\ Touched(draft) = Touched(other)
           /\ draft.date = NoDate <=> other.date = NoDate
           /\ draft.date # NoDate => TruncateDate(draft.date) = TruncateDate(other.date)
  <1>1. /\ draft.note = other.note
        /\ draft.postings = other.postings
        /\ (IF draft.date = NoDate THEN NoDate ELSE TruncateDate(draft.date)) =
           (IF other.date = NoDate THEN NoDate ELSE TruncateDate(other.date))
    BY DEF Fingerprint
  <1>2. \A d \in Drafts : d.date # NoDate => TruncateDate(d.date) # NoDate
    BY DraftTypes, TruncateDateIsDate DEF NoDate
  <1>3. Touched(draft) = Touched(other)
    BY <1>1 DEF Touched
  <1> QED
    BY <1>1, <1>2, <1>3

\* Nobody is refused at first.
LEMMA InitFinal == Init => BackdatedIsFinal
  BY DEF Init, BackdatedIsFinal

\* The call that would record a refused content settles on its supplied date, and
\* a posting it has under its lock lies past that date.
LEMMA RefusedIsNotRecorded ==
    ASSUME TypeOK, LocksInv, DatesInv, SuppliedInv,
           NEW c \in Calls, answer[c].code = "backdated",
           NEW d \in Calls, pc[d] = "post"
    PROVE  Fingerprint(request[d]) # Fingerprint(request[c])
  <1> SUFFICES ASSUME Fingerprint(request[d]) = Fingerprint(request[c])
               PROVE  FALSE
    OBVIOUS
  <1>1. request[c] \in Drafts /\ request[d] \in Drafts
    BY DEF TypeOK
  <1>2. Precedes(c)
    BY SuppliedParts DEF RefusedForAPosting
  <1>3. PICK a \in Touched(request[c]) : TruncateDate(request[c].date) < book[a].last_date
    BY <1>2 DEF Precedes
  <1>4. /\ a \in Accounts
        /\ request[d].date # NoDate
        /\ TruncateDate(request[d].date) = TruncateDate(request[c].date)
        /\ a \in held[d]
    BY <1>1, <1>2, <1>3, SameFingerprint, RequestDates DEF Precedes, LocksInv
  <1>5. date[d] = TruncateDate(request[d].date)
    BY <1>4, SuppliedParts DEF SuppliedDate
  <1>6. book[a].last_date <= tentative[a].last_date /\ tentative[a].last_date <= date[d]
    BY <1>4 DEF DatesInv
  <1> QED
    BY <1>3, <1>4, <1>5, <1>6, DatesAreInts

\* A key that was refused for its date stays free of that draft.
LEMMA NextFinal ==
    TypeOK /\ LocksInv /\ DatesInv /\ KeysInv /\ SuppliedInv /\ BackdatedIsFinal
       /\ [Next]_vars => BackdatedIsFinal'
  <1> SUFFICES ASSUME TypeOK, LocksInv, DatesInv, KeysInv, SuppliedInv, BackdatedIsFinal,
                      [Next]_vars,
                      NEW c \in Calls, answer'[c].code = "backdated"
               PROVE  \A t \in transactions' :
                         ~(t.key = request[c].key /\ t.fingerprint = Fingerprint(request[c]))
    BY BookSteps DEF BackdatedIsFinal
  <1> USE DEF callers, locals, tables
  <1>1. ASSUME NEW d \in Calls, Commit(d)
        PROVE  \A t \in transactions' :
                  ~(t.key = request[c].key /\ t.fingerprint = Fingerprint(request[c]))
    <2>1. PICK t0 :
            /\ t0 = [id |-> d, key |-> request[d].key,
                     fingerprint |-> StoredFingerprint(d), date |-> date[d]]
            /\ transactions' = transactions \cup {t0}
      BY <1>1 DEF Commit
    <2>2. t0.fingerprint = Fingerprint(request[d]) /\ pc[d] = "post"
      BY <1>1, <2>1 DEF Commit, LegsPosted, StoredFingerprint
    <2>3. answer[c].code = "backdated"
      BY <1>1, ReplyFacts DEF Commit
    <2>4. t0.fingerprint # Fingerprint(request[c])
      BY <2>2, <2>3, RefusedIsNotRecorded
    <2> QED
      BY <2>1, <2>3, <2>4 DEF BackdatedIsFinal
  <1>2. ASSUME transactions' = transactions, answer[c].code = "backdated"
        PROVE  \A t \in transactions' :
                  ~(t.key = request[c].key /\ t.fingerprint = Fingerprint(request[c]))
    BY <1>2 DEF BackdatedIsFinal
  <1>3. ASSUME transactions' = transactions, answer[c].code # "backdated"
        PROVE  \A t \in transactions' : t.key # request[c].key
    <2>1. ASSUME NEW d \in Calls, NEW code, NEW tx, Reply(d, code, tx), code # "backdated"
          PROVE  FALSE
      BY <1>3, <2>1, ReplyFacts
    <2>2. ASSUME NEW d \in Calls, ReplyFromKey(d) PROVE FALSE
      BY <2>1, <2>2 DEF ReplyFromKey
    <2>3. ASSUME answer' = answer PROVE FALSE
      BY <1>3, <2>3
    <2>4. ASSUME NEW d \in Calls, CheckKey(d) PROVE FALSE
      BY <2>2, <2>3, <2>4 DEF CheckKey
    <2>5. ASSUME NEW d \in Calls,
                 \/ Begin(d) \/ LockRow(d) \/ Overtaken(d) \/ InsertTransaction(d)
                 \/ LoseToWinner(d) \/ PostLeg(d)
          PROVE  FALSE
      BY <2>3, <2>5 DEF Begin, LockRow, Overtaken, InsertTransaction, LoseToWinner, PostLeg
    <2>6. ASSUME NEW d \in Calls,
                 \/ RefuseTooFarAhead(d) \/ RefuseUnrepresentable(d)
                 \/ RefuseOverdraft(d) \/ Fail(d) \/ Commit(d)
          PROVE  FALSE
      BY <2>1, <2>6
      DEF RefuseTooFarAhead, RefuseUnrepresentable, RefuseOverdraft, Fail, Commit
    <2>7. ASSUME NEW d \in Calls, Reconsult(d)
          PROVE  \A t \in transactions' : t.key # request[c].key
      <3>1. /\ KeyFree(request[d].key)
            /\ Reply(d, IF pc[d] = "recheck" THEN "backdated" ELSE "reused", NoCall)
        BY <2>2, <2>7 DEF Reconsult
      <3>2. c = d
        BY <1>3, <3>1, ReplyFacts
      <3> QED
        BY <1>3, <3>1, <3>2 DEF KeyFree
    <2>8. CASE Tick \/ UNCHANGED vars
      BY <2>3, <2>8 DEF Tick, vars
    <2> QED
      BY <2>4, <2>5, <2>6, <2>7, <2>8 DEF Next, Step, Finished
  <1>4. transactions' = transactions \/ \E d \in Calls : Commit(d)
    BY StepKinds
    DEF Quiet, RolledBack, Begin, LockRow, InsertTransaction, PostLeg
  <1> QED
    BY <1>1, <1>2, <1>3, <1>4

\* A content refused as backdated is not recorded under its key, then or later,
\* by any attempt that is still under way.
THEOREM BackdatedForGood == Spec => []BackdatedIsFinal
  BY InitTypes, NextTypes, InitLocks, NextLocks, InitDates, NextDates, InitKeys, NextKeys,
     InitSupplied, NextSupplied, InitFinal, NextFinal, PTL DEF Spec

\* A replay is the transaction the caller asked for.
THEOREM ReplaysAreTheSame == Spec => []ReplayIsTheSame
  <1>1. TypeOK /\ KeysInv /\ SuppliedInv => ReplayIsTheSame
    <2> SUFFICES ASSUME TypeOK, KeysInv, SuppliedInv,
                        NEW c \in Calls, answer[c].code = "replayed"
                 PROVE  LET original == request[answer[c].tx] IN
                        /\ original.note = request[c].note
                        /\ original.postings = request[c].postings
                        /\ (request[c].date = NoDate) <=> (original.date = NoDate)
                        /\ request[c].date # NoDate =>
                              \E t \in transactions :
                                  t.id = answer[c].tx /\ t.date = TruncateDate(request[c].date)
      BY DEF ReplayIsTheSame
    <2>1. PICK t \in transactions :
            t.id = answer[c].tx /\ t.fingerprint = Fingerprint(request[c])
      BY DEF KeysInv
    <2>2. t.id \in Calls /\ t.fingerprint = Fingerprint(request[t.id])
      BY DEF TypeOK, Transaction, KeysInv
    <2>3. request[c] \in Drafts /\ request[t.id] \in Drafts
      BY <2>2 DEF TypeOK
    <2>4. request[t.id].date # NoDate => t.date = TruncateDate(request[t.id].date)
      BY SuppliedParts DEF StoredDates
    <2>5. Fingerprint(request[t.id]) = Fingerprint(request[c])
      BY <2>1, <2>2, Zenon
    <2>6. /\ request[t.id].note = request[c].note
          /\ request[t.id].postings = request[c].postings
          /\ (request[c].date = NoDate) <=> (request[t.id].date = NoDate)
          /\ request[c].date # NoDate =>
                TruncateDate(request[t.id].date) = TruncateDate(request[c].date)
      BY <2>3, <2>5, SameFingerprint
    <2>7. request[c].date # NoDate => t.date = TruncateDate(request[c].date)
      BY <2>4, <2>6, Zenon
    <2> QED
      BY <2>1, <2>6, <2>7, Zenon
  <1> QED
    BY <1>1, InitTypes, NextTypes, InitLocks, NextLocks, InitDates, NextDates,
       InitKeys, NextKeys, InitSupplied, NextSupplied, PTL DEF Spec

----------------------------------------------------------------------------
\* Stamps strictly past the book.

\* Everything on a row that is another call's lies before the date the holder has
\* stamped.
StampAhead(c) ==
    \A a \in held[c] : \A i \in DOMAIN tentative[a].register :
        /\ pc[c] = "post"
        /\ request[c].date = NoDate
        /\ tentative[a].register[i].tx # c
        => tentative[a].register[i].date < date[c]

\* StampsInv, row by row and call by call.
LEMMA StampParts ==
    StampsInv <=>
       /\ \A a \in Accounts : StampedPast(book[a]) /\ StampedPast(tentative[a])
       /\ \A c \in Calls : StampAhead(c)
  BY DEF StampsInv, StampAhead

\* No row has postings at first.
LEMMA InitStamps == Init => StampsInv
  BY DEF Init, StampsInv, StampedPast, NoRow

\* A stamped leg keeps its row: it is the last posting, and past the others.
LEMMA StampedLeg ==
    ASSUME TypeOK, NEW c \in Calls, LegsLeft(c), StampAhead(c),
           NEW a, a = Leg(c).account, a \in held[c], StampedPast(tentative[a])
    PROVE  StampedPast(LegRow(c))
  <1> DEFINE n == Len(tentative[a].register)
  <1>1. /\ a \in Accounts
        /\ DOMAIN LegRow(c).register = 1..(n + 1)
        /\ \A i \in DOMAIN tentative[a].register :
              LegRow(c).register[i] = tentative[a].register[i]
        /\ LegRow(c).register[n + 1].tx = c
        /\ LegRow(c).register[n + 1].date = date[c]
    BY LegRowFacts
  <1>2. n \in Nat /\ DOMAIN tentative[a].register = 1..n
    BY <1>1, RegisterTypes
  <1>3. pc[c] = "post"
    BY DEF LegsLeft
  <1> HIDE DEF n
  <1> SUFFICES ASSUME NEW i \in DOMAIN LegRow(c).register,
                      NEW j \in DOMAIN LegRow(c).register,
                      i < j,
                      LegRow(c).register[i].tx # LegRow(c).register[j].tx,
                      request[LegRow(c).register[j].tx].date = NoDate
               PROVE  LegRow(c).register[i].date < LegRow(c).register[j].date
    BY DEF StampedPast
  <1>4. i \in DOMAIN tentative[a].register
    BY <1>1, <1>2
  <1>5. CASE j \in DOMAIN tentative[a].register
    BY <1>1, <1>4, <1>5 DEF StampedPast
  <1>6. CASE j = n + 1
    BY <1>1, <1>3, <1>4, <1>6 DEF StampAhead
  <1> QED
    BY <1>1, <1>2, <1>5, <1>6

\* A stamp is settled on past every row the call holds.
LEMMA StampSettles ==
    ASSUME TypeOK, DatesInv, NEW c \in Calls, InsertTransaction(c)
    PROVE  StampAhead(c)'
  <1>1. /\ UNCHANGED <<request, tentative, held>>
        /\ pc[c] = "lock"
        /\ date'[c] = ResolvedDate(request[c].date, latest[c], now[c])
    BY DEF InsertTransaction, AllLocked, callers, TypeOK
  <1> SUFFICES ASSUME NEW a \in held[c], NEW i \in DOMAIN tentative[a].register,
                      request[c].date = NoDate
               PROVE  tentative[a].register[i].date < date'[c]
    BY <1>1 DEF StampAhead
  <1>2. a \in Accounts /\ tentative[a] \in Row /\ Forward(tentative[a])
    BY DatesAreInts DEF DatesInv
  <1>3. /\ tentative[a].register[i].date \in Nat
        /\ tentative[a].register[i].date <= tentative[a].last_date
    BY <1>2, RowFacts, ForwardBound
  <1>4. tentative[a].last_date <= latest[c]
    BY <1>1 DEF DatesInv
  <1>5. latest[c] < date'[c] /\ date'[c] \in Nat
    BY <1>1, RequestDates, ResolvedDateIsPast DEF InsertTransaction, TypeOK
  <1> QED
    BY <1>2, <1>3, <1>4, <1>5, DatesAreInts

\* A call whose rows and whose date a step leaves alone stays ahead of them.
LEMMA StampStays ==
    ASSUME NEW d \in Calls, StampAhead(d), request' = request,
           pc'[d] = "post" => pc[d] = "post" /\ date'[d] = date[d],
           \A a \in held'[d] : pc'[d] = "post" =>
              a \in held[d] /\ tentative'[a].register = tentative[a].register
    PROVE  StampAhead(d)'
  BY DEF StampAhead

\* Every step keeps the stamps strictly past.
LEMMA NextStamps ==
    TypeOK /\ LocksInv /\ DatesInv /\ StampsInv /\ [Next]_vars => StampsInv'
  <1> SUFFICES ASSUME TypeOK, LocksInv, DatesInv, StampsInv, [Next]_vars
               PROVE  /\ \A a \in Accounts : StampedPast(book[a])' /\ StampedPast(tentative[a])'
                      /\ \A d \in Calls : StampAhead(d)'
    BY DEF StampsInv, StampAhead
  <1> USE DEF callers, locals, tables
  <1>0. /\ request' = request
        /\ \A a \in Accounts : StampedPast(book[a]) /\ StampedPast(tentative[a])
        /\ \A d \in Calls : StampAhead(d)
        /\ \A d \in Calls : held[d] \subseteq Accounts
    BY BookSteps, StampParts, DatesAreInts
  <1>1. ASSUME NEW a \in Accounts, NEW row, StampedPast(row),
               book'[a].register = row.register
        PROVE  StampedPast(book[a])'
    BY <1>0, <1>1 DEF StampedPast
  <1>2. ASSUME NEW a \in Accounts, NEW row, StampedPast(row),
               tentative'[a].register = row.register
        PROVE  StampedPast(tentative[a])'
    BY <1>0, <1>2 DEF StampedPast
  <1>3. \A a \in Accounts : StampedPast(book[a])'
    <2>1. \A a \in Accounts : book'[a] = book[a] \/ book'[a] = tentative[a]
      BY BookSteps
    <2> QED
      BY <1>0, <1>1, <2>1
  <1>4. CASE Quiet
    <2>1. \A a \in Accounts : StampedPast(tentative[a])'
      BY <1>0, <1>2, <1>4 DEF Quiet
    <2>2. \A d \in Calls : StampAhead(d)'
      BY <1>0, <1>4, StampStays DEF Quiet
    <2> QED
      BY <1>3, <2>1, <2>2
  <1>5. ASSUME NEW c \in Calls, RolledBack(c)
        PROVE  /\ \A a \in Accounts : StampedPast(tentative[a])'
               /\ \A d \in Calls : StampAhead(d)'
    <2>1. \A a \in Accounts : tentative'[a] = IF a \in held[c] THEN book[a] ELSE tentative[a]
      BY <1>5 DEF RolledBack, Rollback
    <2>2. \A a \in Accounts : StampedPast(tentative[a])'
      BY <1>0, <1>2, <2>1
    <2>3. ASSUME NEW d \in Calls PROVE StampAhead(d)'
      <3>1. CASE d = c
        BY <1>0, <1>5, <3>1, StampStays DEF RolledBack
      <3>2. CASE d # c
        <4>1. held'[d] = held[d] /\ pc'[d] = pc[d] /\ date' = date
          BY <1>5, <3>2 DEF RolledBack, Rollback, TypeOK
        <4>2. \A a \in held[d] : tentative'[a] = tentative[a]
          BY <1>0, <2>1, <3>2 DEF LocksInv
        <4> QED
          BY <1>0, <4>1, <4>2, StampStays
      <3> QED
        BY <3>1, <3>2
    <2> QED
      BY <2>2, <2>3
  <1>6. ASSUME NEW c \in Calls, Begin(c)
        PROVE  /\ \A a \in Accounts : StampedPast(tentative[a])'
               /\ \A d \in Calls : StampAhead(d)'
    <2>1. /\ UNCHANGED <<tentative, held>>
          /\ pc'[c] = "lock"
          /\ \A d \in Calls \ {c} : pc'[d] = pc[d] /\ date'[d] = date[d]
      BY <1>6, GotoFacts DEF Begin, TypeOK
    <2>2. \A a \in Accounts : StampedPast(tentative[a])'
      BY <1>0, <1>2, <2>1
    <2>3. \A d \in Calls : StampAhead(d)'
      BY <1>0, <2>1, StampStays
    <2> QED
      BY <2>2, <2>3
  <1>7. ASSUME NEW c \in Calls, LockRow(c)
        PROVE  /\ \A a \in Accounts : StampedPast(tentative[a])'
               /\ \A d \in Calls : StampAhead(d)'
    <2>1. PICK a \in Accounts :
            /\ RowFree(a)
            /\ pc[c] = "lock"
            /\ held' = [held EXCEPT ![c] = @ \cup {a}]
            /\ tentative' = [tentative EXCEPT ![a] = Seeded(book[a], date[c])]
            /\ UNCHANGED <<pc, date>>
      BY <1>7 DEF LockRow
    <2>2. \A b \in Accounts : tentative'[b].register =
                IF b = a THEN book[b].register ELSE tentative[b].register
      BY <2>1, SeededRegister DEF TypeOK
    <2>3. \A b \in Accounts : StampedPast(tentative[b])'
      BY <1>0, <1>2, <2>2
    <2>4. \A d \in Calls : StampAhead(d)'
      <3>1. ASSUME NEW d \in Calls PROVE StampAhead(d)'
        <4>1. CASE d = c
          BY <1>0, <2>1, <4>1, StampStays
        <4>2. CASE d # c
          <5>1. held'[d] = held[d] /\ a \notin held[d]
            BY <2>1, <4>2 DEF RowFree, TypeOK
          <5> QED
            BY <1>0, <2>1, <2>2, <5>1, StampStays
        <4> QED
          BY <4>1, <4>2
      <3> QED
        BY <3>1
    <2> QED
      BY <2>3, <2>4
  <1>8. ASSUME NEW c \in Calls, InsertTransaction(c)
        PROVE  /\ \A a \in Accounts : StampedPast(tentative[a])'
               /\ \A d \in Calls : StampAhead(d)'
    <2>1. /\ UNCHANGED <<tentative, held>>
          /\ \A d \in Calls \ {c} : pc'[d] = pc[d] /\ date'[d] = date[d]
      BY <1>8, GotoFacts DEF InsertTransaction, TypeOK
    <2>2. \A a \in Accounts : StampedPast(tentative[a])'
      BY <1>0, <1>2, <2>1
    <2>3. \A d \in Calls \ {c} : StampAhead(d)'
      BY <1>0, <2>1, StampStays
    <2> QED
      BY <1>8, <2>2, <2>3, StampSettles
  <1>9. ASSUME NEW c \in Calls, PostLeg(c)
        PROVE  /\ \A a \in Accounts : StampedPast(tentative[a])'
               /\ \A d \in Calls : StampAhead(d)'
    <2>1. PICK b : b = Leg(c).account
      OBVIOUS
    <2>2. /\ LegsLeft(c)
          /\ b \in Accounts /\ b \in held[c]
          /\ tentative' = [tentative EXCEPT ![b] = LegRow(c)]
          /\ UNCHANGED <<pc, held, date>>
      BY <1>9, <2>1, LegRowType DEF PostLeg, LegsLeft, LocksInv
    <2>3. \A a \in Accounts : tentative'[a] = IF a = b THEN LegRow(c) ELSE tentative[a]
      BY <2>2 DEF TypeOK
    <2>4. StampedPast(LegRow(c))
      BY <1>0, <2>1, <2>2, StampedLeg
    <2>5. \A a \in Accounts : StampedPast(tentative[a])'
      BY <1>0, <1>2, <2>3, <2>4
    <2>6. ASSUME NEW d \in Calls, d # c PROVE StampAhead(d)'
      <3>1. b \notin held[d]
        BY <2>2, <2>6 DEF LocksInv
      <3> QED
        BY <1>0, <2>2, <2>3, <3>1, StampStays
    <2>7. StampAhead(c)'
      <3>1. /\ DOMAIN LegRow(c).register = 1..(Len(tentative[b].register) + 1)
            /\ \A i \in DOMAIN tentative[b].register :
                  LegRow(c).register[i] = tentative[b].register[i]
            /\ LegRow(c).register[Len(tentative[b].register) + 1].tx = c
        BY <2>1, <2>2, LegRowFacts
      <3>2. ASSUME NEW a \in held[c], NEW i \in DOMAIN tentative'[a].register,
                   pc[c] = "post", request[c].date = NoDate,
                   tentative'[a].register[i].tx # c
            PROVE  tentative'[a].register[i].date < date[c]
        <4>1. CASE a = b
          <5>1. i \in DOMAIN tentative[b].register
            BY <2>2, <2>3, <3>1, <3>2, <4>1, RegisterTypes
          <5> QED
            BY <1>0, <2>2, <2>3, <3>1, <3>2, <4>1, <5>1 DEF StampAhead
        <4>2. CASE a # b
          BY <1>0, <2>3, <3>2, <4>2 DEF StampAhead
        <4> QED
          BY <4>1, <4>2
      <3> QED
        BY <1>0, <2>2, <3>2 DEF StampAhead
    <2> QED
      BY <2>5, <2>6, <2>7
  <1>10. ASSUME NEW c \in Calls, Commit(c)
         PROVE  /\ \A a \in Accounts : StampedPast(tentative[a])'
                /\ \A d \in Calls : StampAhead(d)'
    <2>1. /\ UNCHANGED <<tentative, date>>
          /\ pc'[c] = "done"
          /\ \A d \in Calls \ {c} : pc'[d] = pc[d] /\ held'[d] = held[d]
      BY <1>10, ReplyFacts DEF Commit, TypeOK
    <2>2. \A a \in Accounts : StampedPast(tentative[a])'
      BY <1>0, <1>2, <2>1
    <2>3. \A d \in Calls : StampAhead(d)'
      BY <1>0, <2>1, StampStays
    <2> QED
      BY <2>2, <2>3
  <1> QED
    BY <1>3, <1>4, <1>5, <1>6, <1>7, <1>8, <1>9, <1>10, StepKinds

\* A stamped transaction lies strictly past every posting committed before it on
\* the accounts it touches, however far ahead those are parked.
THEOREM StampsStrictlyPast == Spec => []StampedStrictlyPast
  <1>1. StampsInv => StampedStrictlyPast
    BY DEF StampsInv, StampedPast, StampedStrictlyPast
  <1> QED
    BY <1>1, InitTypes, NextTypes, InitLocks, NextLocks, InitDates, NextDates,
       InitStamps, NextStamps, PTL DEF Spec
================================================================================
