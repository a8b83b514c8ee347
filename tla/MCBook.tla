--------------------------------- MODULE MCBook ---------------------------------
(***************************************************************************)
(* Instances of the refinement of Book by Ledger for TLC.                  *)
(***************************************************************************)
EXTENDS MCLedger, LedgerRefinesBook

\* Past every clock reading, supplied date and run of advanced stamps.
ReachableDates == 0..(MaxClock + 12)
================================================================================
