--------------------------- MODULE MCLedgerHistory ---------------------------
(* LedgerHistory with the constants of MCLedgerService. *)
EXTENDS LedgerHistory, MCLedgerService
=============================================================================
