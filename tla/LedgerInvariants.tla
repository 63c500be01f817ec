--------------------------- MODULE LedgerInvariants --------------------------
(***************************************************************************)
(* Why LedgerService keeps its promises: the facts that hold between the   *)
(* statements of a handler and that every step of the others preserves.    *)
(***************************************************************************)
EXTENDS LedgerService

\* Requests that post a transaction, those of them that check a balance
\* first, and the steps from the check to the COMMIT.
Posts(r) == Op(r) \in {"deposit", "withdraw", "transfer"}
Debits(r) == Op(r) \in {"withdraw", "transfer"}
Posting == {"stamp", "insert", "entry1", "entry2", "commit"}

\* Each handler is at one of its own steps.
StepsMatch ==
  \A r \in Req :
    /\ pc[r] \in {"lock1", "lock2", "reread", "invalidate2"} => Op(r) = "transfer"
    /\ pc[r] = "read" => Debits(r)
    /\ pc[r] \in Posting \cup {"invalidate1"} => Posts(r)

\* The rows a handler has locked stay its own until its transaction ends.
LocksHeld ==
  \A r \in Req :
    /\ pc[r] = "lock2" /\ Present(LockOrder(r)[1]) => rowLock[LockOrder(r)[1]] = r
    /\ pc[r] \in Posting \cup {"read"} /\ Debits(r) => rowLock[From(r)] = r
    /\ pc[r] \in Posting \cup {"read"} /\ Op(r) = "transfer" => rowLock[To(r)] = r

\* No lock outlives its transaction: a handler owns the locks its place implies,
\* those it needs for the rest of its transaction, and none before or after it.
LocksOwned ==
  \A r \in Req, a \in Account :
    /\ rowLock[a] = r =>
         \/ pc[r] = "lock2" /\ a = LockOrder(r)[1]
         \/ /\ pc[r] \in Posting \cup {"read"} /\ Debits(r)
            /\ a = From(r) \/ (Op(r) = "transfer" /\ a = To(r))
    /\ r \in keyShare[a] =>
         \/ pc[r] = "entry2" /\ a = From(r)
         \/ pc[r] = "commit" /\ a \in {From(r), To(r)}

\* A transfer locks two different rows.
TwoRows == \A r \in Req : pc[r] \in {"lock1", "lock2"} => From(r) # To(r)

\* A request that locks users' accounts only; a deposit locks none.
UserRequest(q) ==
  /\ q.op \in {"withdraw", "transfer"} => q.from # SystemCash
  /\ q.op = "transfer" => q.to # SystemCash

\* No row was created in the future, so no cut from now on differs from the
\* balance.
StampsPast == \A r \in Req : created[r] <= now
CutsSettled == \A a \in Account, t \in Time : t >= now => ledger[a][t] = BalanceOf(a)

\* The balance a handler checked still covers its debit at every cut the debit
\* will be counted in.
CountsFrom(r) == IF pc[r] = "stamp" THEN now ELSE created[r]
Funded ==
  \A r \in Req :
    pc[r] \in Posting /\ Debits(r) /\ From(r) # SystemCash =>
      \A t \in Time : t >= CountsFrom(r) => ledger[From(r)][t] >= Stored(Amount(r))

\* The inductive invariant behind NoOverdraft: between the SUM that a handler
\* checks and its COMMIT nobody else can debit the account.
OverdraftInv ==
  StepsMatch /\ LocksHeld /\ StampsPast /\ CutsSettled /\ Funded /\ NoOverdraft

\* The inductive invariant behind OneTransactionPerKey: a key has one row,
\* counting the rows inserted and not yet committed.
Holds(r) == r \in committed \/ Inserted(r)
KeysUnique ==
  \A r, s \in Req : Holds(r) /\ Holds(s) /\ SameKey(req[r], req[s]) => r = s

\* The inductive invariant behind RepliesTruthful: a handler answers once, and
\* past its COMMIT it can only invalidate and confirm.
CommitsOnce ==
  \A r \in Req :
    /\ reply[r] # NoReply => pc[r] = "done"
    /\ pc[r] \in {"invalidate1", "invalidate2"} => r \in committed
    /\ r \in committed => pc[r] \in {"invalidate1", "invalidate2", "done"}

\* The balance of an account is the SUM over the transactions posted by then.
EntriesOf(a) == [r \in Req |-> Entry(req[r], a)]
LedgerIsSum ==
  /\ IsFiniteSet(committed)
  /\ \A a \in Account, t \in Time :
       ledger[a][t] = Opening[a] + SumOver(EntriesOf(a), {r \in committed : created[r] <= t})

\* A cached balance, or one on its way to the cache, counts posted transactions.
SumsPosted(a, v) == \E S \in SUBSET committed : v = Opening[a] + SumOver(EntriesOf(a), S)
ReadsPosted ==
  /\ \A a \in Account : cache[a] # Miss => SumsPosted(a, cache[a])
  /\ \A r \in Req : pc[r] = "fill" => SumsPosted(From(r), seen[r])

\* What a handler checked of its accounts is still true of them at its COMMIT.
Accepted ==
  \A r \in Req :
    /\ pc[r] \in Posting \cup {"read"} =>
         /\ Op(r) # "withdraw" => Active(To(r))
         /\ Op(r) # "deposit" => Active(From(r))
         /\ Op(r) = "transfer" =>
              /\ From(r) # To(r)
              /\ accounts[From(r)].currency = accounts[To(r)].currency
    /\ pc[r] \in Posting /\ Op(r) # "transfer" => Present(SystemCash)

\* The balance still covers the amount asked for, before rounding.
Covered ==
  \A r \in Req :
    pc[r] \in Posting /\ Debits(r) => Covers(BalanceOf(From(r)), Amount(r))

\* Why, of SYSTEM_CASH too, which deposits debit without asking for its row: the
\* foreign-key locks that come with their entries last until the COMMIT, and no
\* FOR UPDATE lock is another's beside them.
LocksExclude ==
  /\ \A r \in Req :
       /\ pc[r] \in {"entry2", "commit"} => ~CheckFails(r) /\ r \in keyShare[From(r)]
       /\ pc[r] = "commit" => r \in keyShare[To(r)]
  /\ \A a \in Account : rowLock[a] # NoReq => keyShare[a] \subseteq {rowLock[a]}

\* The inductive invariant behind AtomicSpec: a request about to COMMIT may post
\* at that moment, and what a reader is about to show was posted.
AtomicInv == LedgerIsSum /\ ReadsPosted /\ Accepted /\ LocksExclude /\ Covered

=============================================================================
