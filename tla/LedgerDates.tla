------------------------------ MODULE LedgerDates ------------------------------
(***************************************************************************)
(* The transaction-date rule of internal/repository/date.go.               *)
(*                                                                         *)
(* An instant is a natural number of clock ticks.  A timestamptz column    *)
(* resolves to the microsecond, which is Microsecond ticks, so a clock     *)
(* reading or a supplied date may carry digits that storage drops.         *)
(***************************************************************************)
EXTENDS Integers

CONSTANTS
    Microsecond,      \* ticks in the microsecond a timestamptz resolves to
    FutureTolerance   \* ticks a supplied date may sit ahead of the clock

ASSUME DateConstants ==
    /\ Microsecond \in Nat \ {0}
    /\ FutureTolerance \in Nat

\* time.Time{}: before every instant, and the date of a row never written.
ZeroTime == -1

\* A nil Date: the caller supplied none and the ledger stamps one.
NoDate == -2

TruncateDate(date) == date - (date % Microsecond)

\* Slip: a nil date is not told from a date.
ProvisionalDateUnchecked(supplied, now) == TruncateDate(supplied)

\* The date before the row locks are taken; new balance rows are seeded with it.
ProvisionalDate(supplied, now) ==
    TruncateDate(IF supplied = NoDate THEN now ELSE supplied)

\* resolveDate, the refusals first.  The future cap is judged on the clock as it
\* was read, untruncated, and before the backdating guard.
DateTooFarAhead(supplied, now) ==
    /\ supplied # NoDate
    /\ ProvisionalDate(supplied, now) > now + FutureTolerance

Backdated(supplied, latest, now) ==
    /\ supplied # NoDate
    /\ ~DateTooFarAhead(supplied, now)
    /\ ProvisionalDate(supplied, now) < latest

DateRefused(supplied, latest, now) ==
    DateTooFarAhead(supplied, now) \/ Backdated(supplied, latest, now)

\* Slip: a stamp at the latest posting's instant is left where it is.
ResolvedDateNotPast(supplied, latest, now) ==
    LET date == ProvisionalDate(supplied, now)
    IN  IF supplied = NoDate /\ date < latest
          THEN latest + Microsecond
          ELSE date

\* resolveDate, the date it settles on.  A supplied date is kept as it is; a
\* stamped one is advanced past `latest` by the column's resolution.
ResolvedDate(supplied, latest, now) ==
    LET date == ProvisionalDate(supplied, now)
    IN  IF supplied = NoDate /\ date <= latest
          THEN latest + Microsecond
          ELSE date
================================================================================
