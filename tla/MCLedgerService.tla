--------------------------- MODULE MCLedgerService ---------------------------
(***************************************************************************)
(* Values of the constants of LedgerService for TLC.  Account 2 is         *)
(* SYSTEM_CASH, between the two user accounts 1 and 3, so that it comes    *)
(* first in the lock order of one of them and second in that of the other. *)
(* Balances are in hundredths, requested amounts in thousandths.           *)
(***************************************************************************)
EXTENDS LedgerRefinement, LedgerInvariants, TLC

Symmetry == Permutations(Req)

Accounts == {1, 2, 3}

Active3 == [a \in Accounts |-> [status |-> "ACTIVE", currency |-> "INR", twin |-> FALSE]]

TwoCash == [Active3 EXCEPT ![2].twin = TRUE]

AllActive == {Active3}

\* A second SYSTEM_CASH may come.
CashTwice == {Active3, TwoCash}

\* One account of another status or currency, or absent; a second SYSTEM_CASH.
\* Absent accounts and the second SYSTEM_CASH may come.
OddTables ==
  CashTwice \cup
  {[Active3 EXCEPT ![a].status = s] : a \in Accounts, s \in {"FROZEN", "MISSING"}}
    \cup {[Active3 EXCEPT ![3].currency = "USD"]}

\* Account 1 holds ten cents, account 3 nothing.
TenCents == 1 :> 10 @@ 2 :> -10 @@ 3 :> 0

\* With an account 4, so that transfers that lock no row in common can share a key.
Accounts4 == Accounts \cup {4}
Active4 == 4 :> Active3[1] @@ Active3
CashTwice4 == {Active4, [Active4 EXCEPT ![2].twin = TRUE]}
TenCents4 == 4 :> 10 @@ TenCents

Rq(op, from, to, amount, key) ==
  [op |-> op, from |-> from, to |-> to, amount |-> amount, key |-> key]

Dep(a, x) == Rq("deposit", 2, a, x, NoKey)
Wdr(a, x) == Rq("withdraw", a, 2, x, NoKey)
Trf(a, b, x, k) == Rq("transfer", a, b, x, k)
Bal(a) == Rq("balance", a, a, 1, NoKey)
BalAt(a) == Rq("balance_at", a, a, 1, NoKey)

\* Debits that cannot all be paid, one of them an amount the column rounds up;
\* credits that can pay for them if they commit first; a key sent again with
\* the same body and with another amount; a transfer to SYSTEM_CASH and a deposit
\* that lock its row and account 1 in opposite orders; and reads.
\* One transfer with the first key has its accounts to itself, so that only the
\* unique index is between it and the others.
Mixed ==
  {Wdr(1, 95), Trf(1, 3, 60, "k1"), Trf(1, 3, 30, "k1"), Trf(4, 2, 60, "k1"),
   Trf(1, 2, 60, "k2"), Trf(3, 1, 60, "k3"), Dep(3, 40), Dep(1, 4), Bal(1), BalAt(3)}

\* Users' requests in both directions over both accounts, a deposit to
\* SYSTEM_CASH, which like any deposit asks for no row.
UserTraffic ==
  {Trf(1, 3, 10, "k1"), Trf(3, 1, 10, "k2"), Dep(1, 10), Dep(2, 10),
   Wdr(1, 10), Wdr(3, 10)}

\* Requests a handler refuses for the state of the accounts, and amounts that
\* round to nothing.
Refusals ==
  {Dep(1, 10), Dep(3, 4), Wdr(1, 10), Wdr(1, 4), Trf(1, 3, 10, "k1"),
   Trf(1, 3, 4, "k1"), Trf(1, 1, 10, "k2"), Bal(3), BalAt(1)}

\* SYSTEM_CASH named as the account of a request.
SystemTraffic ==
  {Trf(1, 2, 10, "k1"), Trf(2, 3, 10, "k2"), Trf(1, 2, 4, "k1"), Dep(1, 10), Bal(1)}

OneTransfer == {Trf(1, 3, 60, "k1")}
DepositAndRead == {Dep(1, 10), Bal(1)}
TinyDeposit == {Dep(1, 4), Dep(3, 10)}

=============================================================================
