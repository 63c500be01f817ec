--------------------------- MODULE MCOutboxWorker ----------------------------
(* Values of the constants of OutboxWorker for TLC. *)
EXTENDS OutboxInvariants, TLC

Symmetry == Permutations(Worker)

=============================================================================
