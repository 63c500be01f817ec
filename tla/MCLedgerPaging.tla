--------------------------- MODULE MCLedgerPaging ----------------------------
(* LedgerPaging with the constants of MCLedgerService. *)
EXTENDS LedgerPaging, MCLedgerService
=============================================================================
