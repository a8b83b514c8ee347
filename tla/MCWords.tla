-------------------------------- MODULE MCWords --------------------------------
(***************************************************************************)
(* The words and names the instances of Wire use.                          *)
(***************************************************************************)
EXTENDS Naturals, TLC

\* The five types as accountfmt stores them, and as an operator may type them.
Types == <<"ASSETS", "LIABILITIES", "EQUITIES", "INCOMES", "EXPENSES">>
Typed == <<"Assets", "Liabilities", "Equities", "Incomes", "Expenses">>

\* A number this build has no name for is its own name.
Upper ==
    [i \in {"usd", "eur"} |-> IF i = "usd" THEN "USD" ELSE "EUR"]
    @@ [word \in {"", "USD", "EUR", "6"} \cup {Types[i] : i \in DOMAIN Types} |-> word]
    @@ [word \in {Typed[i] : i \in DOMAIN Typed} |-> Types[CHOOSE i \in DOMAIN Typed : Typed[i] = word]]

\* What stands between the colons of an argument, as it was typed or printed.
SomePieces == {"", "alice", "cash", "b"} \cup DOMAIN Upper
================================================================================
