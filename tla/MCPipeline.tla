----------------------------- MODULE MCPipeline ------------------------------
(* Values of the constants of Pipeline for TLC; accounts as in MCConsumer. *)
EXTENDS Pipeline

Accounts == {1, 2, 3}

Rq(op, from, to, amount, key) ==
  [op |-> op, from |-> from, to |-> to, amount |-> amount, key |-> key]

OneDeposit == {Rq("deposit", 2, 1, 15, NoKey)}
DepositAndTransfer == OneDeposit \cup {Rq("transfer", 1, 3, 10, "k")}

EmptyLogs == {[p \in Partition |-> <<>>]}

=============================================================================
