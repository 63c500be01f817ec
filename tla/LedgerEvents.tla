---------------------------- MODULE LedgerEvents -----------------------------
(***************************************************************************)
(* The events of the outbox as the projection reads them                   *)
(* (app/consumers/projection_service.py).  An event is named by a number   *)
(* and stands for the body of the request that posted its transaction: it  *)
(* carries the type of the transaction, its accounts and the requested     *)
(* amount, unrounded.                                                      *)
(***************************************************************************)
EXTENDS Requests, Sequences

CONSTANT TransferKeys  \* names of the accounts in a TRANSFER_POSTED payload

ASSUME TransferKeysAssumption ==
  TransferKeys \in {"from_account_id", "source_account_id"}

Writers == {"deposit", "withdraw", "transfer"}

\* The payload has the keys apply_balance_projection asks for.
Readable(q) == q.op = "transfer" => TransferKeys = "source_account_id"

Upsert(a, x) == [account |-> a, delta |-> x]

\* The upserts of an event, in order; Numeric(18, 2) rounds as the ledger does.
Upserts(q) ==
  CASE q.op = "deposit"  -> <<Upsert(q.to, Stored(q.amount))>>
    [] q.op = "withdraw" -> <<Upsert(q.from, -Stored(q.amount))>>
    [] q.op = "transfer" -> <<Upsert(q.from, -Stored(q.amount)),
                              Upsert(q.to, Stored(q.amount))>>

\* What the upserts of an event add to account a, which no two of them share:
\* a transfer has two accounts.
DeltaOn(q, a) ==
  LET here == {i \in DOMAIN Upserts(q) : Upserts(q)[i].account = a}
  IN  IF here = {} THEN 0 ELSE Upserts(q)[CHOOSE i \in here : TRUE].delta

=============================================================================
