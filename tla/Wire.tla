---------------------------------- MODULE Wire ----------------------------------
(***************************************************************************)
(* What crosses the wire and what the ledger keeps of it: amounts          *)
(* (moneyfmt), account types (accountfmt) and currency codes.              *)
(*                                                                         *)
(* A decimal is a whole number of nanos, the precision storage keeps.      *)
(***************************************************************************)
EXTENDS Integers, TLC

CONSTANTS
    NanosPerUnit,   \* 10^9 in the code
    MaxUnits,       \* the largest int64
    TypeNames,      \* the names of the account types, from 1 up; 0 is unspecified
    UpperCased,     \* strings.ToUpper, on the words in use
    Absent          \* a nil message, an optional field left out, a word not there

ASSUME WireConstants ==
    /\ NanosPerUnit \in Nat \ {0}
    /\ MaxUnits \in Nat
    /\ \A word \in DOMAIN UpperCased : UpperCased[UpperCased[word]] = UpperCased[word]
    /\ 0 \notin DOMAIN TypeNames
    /\ \A type \in DOMAIN TypeNames : UpperCased[TypeNames[type]] = TypeNames[type]

Int64(n) == -(MaxUnits + 1) <= n /\ n <= MaxUnits

\* Division in Go drops the fraction, towards zero.
Truncated(n, d) == IF n >= 0 THEN n \div d ELSE -((-n) \div d)

\* ToDecimal's refusals.  The nanos are an int32 and can exceed a unit.
Malformed(money) ==
    \/ money = Absent
    \/ money.currency = ""
    \/ money.nanos < -(NanosPerUnit - 1) \/ money.nanos > NanosPerUnit - 1
    \/ money.units > 0 /\ money.nanos < 0
    \/ money.units < 0 /\ money.nanos > 0

ToDecimal(money) == money.units * NanosPerUnit + money.nanos

\* FromDecimal refuses by the integer part alone: a fraction past the last unit fits.
OutOfRange(decimal) == ~Int64(Truncated(decimal, NanosPerUnit))

\* Slip: the units are rounded down, so a negative amount's nanos come out positive.
FromDecimalFloored(decimal, currency) ==
    [currency |-> currency, units |-> decimal \div NanosPerUnit, nanos |-> decimal % NanosPerUnit]

FromDecimal(decimal, currency) ==
    LET units == Truncated(decimal, NanosPerUnit)
    IN  [currency |-> currency, units |-> units, nanos |-> decimal - units * NanosPerUnit]

----------------------------------------------------------------------------
\* A proto3 enum is open: a number this build has no name for prints as itself.
AccountTypeToString(type) ==
    IF type = 0 THEN "" ELSE IF type \in DOMAIN TypeNames THEN TypeNames[type] ELSE ToString(type)

StringToAccountType(name) ==
    IF \E type \in DOMAIN TypeNames : TypeNames[type] = UpperCased[name]
      THEN CHOOSE type \in DOMAIN TypeNames : TypeNames[type] = UpperCased[name]
      ELSE 0

\* Slip: any number but the unspecified one.
RecordableTypeOpen(type) == type # 0

RecordableType(type) == type \in DOMAIN TypeNames
================================================================================
