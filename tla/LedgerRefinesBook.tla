--------------------------- MODULE LedgerRefinesBook ---------------------------
(***************************************************************************)
(* Ledger implements Book: the committed tables and the answers, step for  *)
(* step, with everything the handler keeps to itself hidden.               *)
(***************************************************************************)
EXTENDS LedgerInvariants

CONSTANT Dates   \* the dates a transaction may be stored under

\* The tables and the answers are Book's own; a lock, a stamp, a tentative row or a
\* connection of Ledger has no counterpart there.
Promise == INSTANCE Book WITH
    request <- request,
    transactions <- transactions,
    book <- book,
    answer <- answer

\* Every step of the concurrent write path is one step of the atomic ledger, seen
\* from its tables and its answers, or none.
ImplementsBook == Promise!Spec
================================================================================
