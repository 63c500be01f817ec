-------------------------- MODULE LedgerRefinement ---------------------------
(***************************************************************************)
(* LedgerService implements AtomicLedger: a transaction is posted by its   *)
(* COMMIT, and the balance of an account is the SUM with no time cut.      *)
(***************************************************************************)
EXTENDS LedgerService

Atomic == INSTANCE AtomicLedger WITH
            balance <- [a \in Account |-> BalanceOf(a)],
            posted <- committed

\* The service implements the one-step ledger: whatever the statements of
\* concurrent handlers do to each other, each COMMIT posts what could be
\* posted at that moment and each answer is true when it is given.
AtomicSpec == Atomic!Spec

=============================================================================
