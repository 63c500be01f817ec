------------------------------ MODULE Requests -------------------------------
(***************************************************************************)
(* The bodies of the ledger's requests (app/ledger/schemas.py) and what    *)
(* they amount to.  A request carries a Decimal of any precision (the      *)
(* schemas only ask amount > 0); ledger_entries.amount is Numeric(20, 2).  *)
(* Requested amounts are counted here in thousandths and stored ones in    *)
(* hundredths, so that the rounding the column performs is visible: three  *)
(* decimals are enough to fall below, on and above the half cent.          *)
(***************************************************************************)
EXTENDS Integers, FiniteSetsExt

CONSTANTS
  Account,      \* account ids: numbers, for sorted() and ORDER BY account_id
  SystemCash,   \* id the SYSTEM_CASH account has if it exists
  Key, NoKey    \* idempotency keys, and the NULL of the other transactions

Ops == {"deposit", "withdraw", "transfer", "balance", "balance_at"}

\* A deposit debits SYSTEM_CASH and a withdrawal credits it; both reads name
\* their account in "from".
Request == [op : Ops, from : Account, to : Account,
            amount : Nat \ {0}, key : Key \cup {NoKey}]

WellFormed(q) ==
  /\ q \in Request
  /\ q.op = "deposit" => q.from = SystemCash
  /\ q.op = "withdraw" => q.to = SystemCash
  /\ (q.op = "transfer") <=> (q.key # NoKey)

\* The entry PostgreSQL stores for a positive amount of x thousandths:
\* Numeric(20, 2) rounds half away from zero, and -Stored(x) is the rounding
\* of -x.
Stored(x) == (x + 5) \div 10

\* The comparison the handlers make before rounding: a balance of b hundredths
\* is not less than an amount of x thousandths.
Covers(b, x) == b * 10 >= x

\* Mutant of Entry: the credit is truncated, the debit rounded.
TruncatedCredit(q, a) == (IF a = q.to THEN q.amount \div 10 ELSE 0)
                           - (IF a = q.from THEN Stored(q.amount) ELSE 0)

\* The sum of the entries of a request on account a.
Entry(q, a) == (IF a = q.to THEN Stored(q.amount) ELSE 0)
                 - (IF a = q.from THEN Stored(q.amount) ELSE 0)

\* SUM(f[x]) over the rows x in S, 0 when there is none (coalesce).
SumOver(f, S) == MapThenSumSet(LAMBDA x : f[x], S)

\* generate_transfer_hash
RequestHash(q) == <<q.from, q.to, q.amount>>

SameKey(p, q) == p.key = q.key /\ p.key # NoKey
SameRequest(p, q) == SameKey(p, q) /\ RequestHash(p) = RequestHash(q)

=============================================================================
