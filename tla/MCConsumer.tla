----------------------------- MODULE MCConsumer ------------------------------
(***************************************************************************)
(* Values of the constants of Consumer for TLC.  Account 2 is SYSTEM_CASH; *)
(* amounts requested are in thousandths, Limit in hundredths.              *)
(***************************************************************************)
EXTENDS Consumer, TLC

Accounts == {1, 2, 3}

Rq(op, from, to, amount, key) ==
  [op |-> op, from |-> from, to |-> to, amount |-> amount, key |-> key]

\* Transfers in both directions, whose upserts can wait for each other, a
\* withdrawal of a rounded amount, a deposit the column cannot hold, and one to
\* SYSTEM_CASH itself.
Mixed == {Rq("transfer", 1, 3, 10, "k"), Rq("transfer", 3, 1, 20, "k"),
          Rq("withdraw", 3, 2, 15, NoKey), Rq("deposit", 2, 1, 40, NoKey),
          Rq("deposit", 2, 2, 10, NoKey)}

\* Events in both orders over two partitions, and room for more.
CrossedLogs == {"p1" :> <<1, 2>> @@ "p2" :> <<2, 1>>, "p1" :> <<1>> @@ "p2" :> <<>>}

Symmetry == Permutations(Consumer)

=============================================================================
