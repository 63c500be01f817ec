---------------------------- MODULE MCLedgerPool -----------------------------
(* LedgerPool with the constants of MCLedgerService. *)
EXTENDS LedgerPool, MCLedgerService
=============================================================================
