------------------------------ MODULE FormAmounts ------------------------------
(***************************************************************************)
(* An amount on its way through the web form, in the doubles JavaScript    *)
(* computes with.  A double is a whole number of 2^-Finest of which only   *)
(* the first Precision binary digits differ from zero, and every operation *)
(* gives the double nearest to its exact result.                           *)
(***************************************************************************)
EXTENDS Wire

CONSTANTS
    Precision,      \* 53 binary digits of a significand
    Finest,         \* 1074: doubles are multiples of 2^-1074
    TypedAmounts    \* the amounts an operator enters, in nanos

ASSUME FormConstants ==
    /\ Precision \in Nat \ {0} /\ Finest \in Nat
    /\ TypedAmounts \subseteq Int

\* 1, in the multiples that doubles are counted in.
One == 2^Finest

\* The binary digits there is no room for, next to p/q.
Dropped(p, q) ==
    CHOOSE n \in 0 .. 2 * Finest :
        /\ p < q * 2^(n + Precision)
        /\ n = 0 \/ p >= q * 2^(n - 1 + Precision)

\* The double nearest to p/q, a tie to the even significand.
Nearest(p, q) ==
    LET spacing == 2^Dropped(p, q)
        below == p \div (q * spacing)
        rest == 2 * (p % (q * spacing))
        up == rest > q * spacing \/ (rest = q * spacing /\ below % 2 = 1)
    IN  spacing * (IF up THEN below + 1 ELSE below)

Double(p, q) == IF p < 0 THEN -Nearest(-p, q) ELSE Nearest(p, q)

\* The number an input holds for the amount typed into it.
Entered(typed) == Double(typed * One, NanosPerUnit)

InNanos(typed) == Double(Entered(typed) * NanosPerUnit, 1)

\* Slip: the product is cut off where it should be rounded.
AmountToNanosCut(typed) == Truncated(InNanos(typed), One)

\* Math.round(amount * 1e9): a half goes up, below zero too.
AmountToNanos(typed) == (2 * InNanos(typed) + One) \div (2 * One)

\* A quotient that is a double again, and a remainder, which is exact.
AmountToMoney(typed, currency) ==
    LET total == AmountToNanos(typed)
        quotient == Double(total * One, NanosPerUnit)
    IN  [currency |-> currency, units |-> Truncated(quotient, One),
         nanos |-> total - Truncated(total, NanosPerUnit) * NanosPerUnit]

Magnitude(n) == IF n < 0 THEN -n ELSE n

----------------------------------------------------------------------------
\* What the form sends can be read as an amount however large it is. While its nanos have
\* a double each, it sends those its own sum was checked on, and they are the amount that
\* was typed with two binary digits to spare, a nano away at most without.
EveryFormAmountHolds ==
    \A typed \in TypedAmounts :
        LET money == AmountToMoney(typed, "USD")
        IN  /\ ~Malformed(money)
            /\ Magnitude(typed) < 2^Precision =>
                  /\ ToDecimal(money) = AmountToNanos(typed)
                  /\ Magnitude(ToDecimal(money) - typed) <= 1
            /\ 4 * Magnitude(typed) < 2^Precision => ToDecimal(money) = typed
================================================================================
