---------------------------- MODULE AtomicLedger -----------------------------
(***************************************************************************)
(* What the ledger's service promises: every transaction is posted in one  *)
(* step, by a request that may post at that moment, and every answer is    *)
(* true of the transactions posted when it is given.  There are no rows,   *)
(* locks, flushes or caches here.                                          *)
(***************************************************************************)
EXTENDS Requests

CONSTANTS Req, Tables, Opening, Workload

VARIABLES
  accounts,  \* the accounts table
  req,       \* the body of each request
  balance,   \* the balance of each account
  posted,    \* the requests that posted a transaction
  reply      \* what each client was answered

vars == <<accounts, req, balance, posted, reply>>

NoReply == [kind |-> "none"]
Unanswered(r) == reply[r] = NoReply
Answer(r, rep) == /\ Unanswered(r)
                  /\ reply' = [reply EXCEPT ![r] = rep]
                  /\ UNCHANGED <<accounts, req, balance, posted>>

Active(a) == accounts[a].status = "ACTIVE"

Present(a) == accounts[a].status # "MISSING"

\* r may post: its accounts take part in it and its debit is covered, unless it
\* is the one of SYSTEM_CASH in a deposit.
MayPost(r) ==
  LET q == req[r] IN
  /\ q.op \in {"deposit", "withdraw", "transfer"}
  /\ q.op # "transfer" => Present(SystemCash)
  /\ q.op # "withdraw" => Active(q.to)
  /\ q.op # "deposit" => Active(q.from) /\ Covers(balance[q.from], q.amount)
  /\ q.op = "transfer" =>
       /\ q.from # q.to
       /\ accounts[q.from].currency = accounts[q.to].currency

Init ==
  /\ accounts \in Tables
  /\ req \in [Req -> Workload]
  /\ balance = Opening
  /\ posted = {}
  /\ reply = [r \in Req |-> NoReply]

\* Post once per request and once per idempotency key.
Post(r) ==
  /\ Unanswered(r)
  /\ r \notin posted /\ (\A t \in posted : ~SameKey(req[r], req[t]))
  /\ MayPost(r)
  /\ posted' = posted \cup {r}
  /\ balance' = [a \in Account |-> balance[a] + Entry(req[r], a)]
  /\ UNCHANGED <<accounts, req, reply>>

\* The transaction of this request, or of an earlier one it repeats.
Confirm(r) ==
  \E t \in posted :
    /\ t = r \/ SameRequest(req[r], req[t])
    /\ Answer(r, [kind |-> "posted", txn |-> t])

\* What is wrong with the accounts of request q.
Wrong(q, why) ==
  \/ why = "not_found" /\ \E a \in {q.from, q.to} : ~Present(a)
  \/ why = "not_active" /\ \E a \in {q.from, q.to} : Present(a) /\ ~Active(a)
  \/ why = "no_system_cash" /\ q.op # "transfer" /\ ~Present(SystemCash)
  \/ why = "same_account" /\ q.op = "transfer" /\ q.from = q.to
  \/ why = "currency" /\ accounts[q.from].currency # accounts[q.to].currency

\* A refusal, true when it is given, of a request that posted nothing.
Refuse(r) ==
  /\ r \notin posted
  /\ \/ \E t \in posted :
          /\ SameKey(req[r], req[t]) /\ ~SameRequest(req[r], req[t])
          /\ Answer(r, [kind |-> "rejected", why |-> "key_reused"])
     \/ /\ ~Covers(balance[req[r].from], req[r].amount)
        /\ Answer(r, [kind |-> "rejected", why |-> "insufficient"])
     \/ \E why \in {"not_found", "not_active", "no_system_cash",
                    "same_account", "currency"} :
          Wrong(req[r], why) /\ Answer(r, [kind |-> "rejected", why |-> why])

\* An error promises nothing: the transaction may have been posted.
Fail(r) == Answer(r, [kind |-> "error"])

\* The balance some of the posted transactions give: a read may miss others,
\* but never counts one that was not posted.
Show(r) ==
  LET a == req[r].from IN
  \E S \in SUBSET posted :
    Answer(r, [kind |-> "balance",
               value |-> Opening[a] + SumOver([t \in Req |-> Entry(req[t], a)], S)])

\* Accounts come into being; none changes.
OpenAccount ==
  /\ accounts' \in Tables
  /\ \A a \in Account : Present(a) =>
       /\ accounts'[a].status = accounts[a].status
       /\ accounts'[a].currency = accounts[a].currency
  /\ UNCHANGED <<req, balance, posted, reply>>

Next == \/ \E r \in Req : Post(r) \/ Confirm(r) \/ Refuse(r) \/ Fail(r) \/ Show(r)
        \/ OpenAccount

Spec == Init /\ [][Next]_vars

=============================================================================
