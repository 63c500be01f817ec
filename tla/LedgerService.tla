---------------------------- MODULE LedgerService ----------------------------
(***************************************************************************)
(* The ledger's request handlers (app/ledger/service.py): deposit,         *)
(* withdrawal, transfer, current balance and balance at a time, running    *)
(* concurrently on their own PostgreSQL sessions (READ COMMITTED) and on   *)
(* one Redis cache.  A step is one statement a handler awaits, with the    *)
(* Python code up to the next await.                                       *)
(*                                                                         *)
(* PostgreSQL is external.  What the handlers rely on is modelled: row     *)
(* locks taken by SELECT ... FOR UPDATE, the FOR KEY SHARE locks a foreign *)
(* key takes on the row it references, the unique index on                 *)
(* idempotency_key (an insert waits for an uncommitted row with its key),  *)
(* rollback, and the abort of one transaction of a wait cycle.             *)
(*                                                                         *)
(* A request is a member of Req.  It inserts at most one Transaction row,  *)
(* named by the request itself.  The ledger_entries table is kept as the   *)
(* answers of its two queries: ledger[a][t] is SUM(amount) over the        *)
(* entries of account a whose transaction has created_at <= t.             *)
(***************************************************************************)
EXTENDS Requests, FiniteSets

CONSTANTS
  Req,          \* the HTTP requests of a run
  NoReq,        \* no request
  Currency,     \* currency codes
  Tables,       \* contents the accounts table may have
  Opening,      \* balances posted before the run
  Workload,     \* requests a client may send
  Last,         \* bound of the clock
  Miss,         \* an absent Redis key
  AmountCheck,  \* the schema has CHECK (amount <> 0)
  Faults        \* faults that may occur: subset of {"die", "redis"}

Statuses == {"ACTIVE", "FROZEN", "CLOSED", "MISSING"}

\* twin: create_account has made another account of this type and owner_name,
\* which only the lookup of SYSTEM_CASH notices.
Row == [status : Statuses, currency : Currency, twin : BOOLEAN]

Time == 0..Last

ASSUME LedgerAssumption ==
  /\ Account \subseteq Nat /\ IsFiniteSet(Account) /\ SystemCash \in Account
  /\ NoReq \notin Req /\ NoKey \notin Key /\ Miss \notin Int
  /\ Tables \subseteq [Account -> Row]
  /\ Opening \in [Account -> Int]
  /\ \A a \in Account \ {SystemCash} : Opening[a] >= 0
  /\ Last \in Nat
  /\ AmountCheck \in BOOLEAN
  /\ Faults \subseteq {"die", "redis"}

ASSUME WorkloadAssumption == \A q \in Workload : WellFormed(q)

VARIABLES
  accounts,   \* the accounts table
  req,        \* the body of each request
  pc,         \* where each handler is
  ledger,     \* ledger[a][t]: SUM of a's committed entries stamped <= t
  committed,  \* committed Transaction rows (each with its entries and event)
  created,    \* created_at of each Transaction row, once assigned
  now,        \* the clock
  rowLock,    \* owner of the FOR UPDATE lock of each account row
  keyShare,   \* owners of FOR KEY SHARE locks of each account row
  seen,       \* the balance a get_balance read from PostgreSQL
  cache,      \* Redis: account:<id>:balance
  reply       \* what the client was answered

locks == <<rowLock, keyShare>>
stamps == <<created, now>>
tables == <<ledger, committed>>
vars == <<accounts, req, pc, tables, stamps, locks, seen, cache, reply>>

-----------------------------------------------------------------------------
(* Types *)

Steps == {"start", "lock1", "lock2", "read", "stamp", "insert", "entry1",
          "entry2", "commit", "invalidate1", "invalidate2", "reread",
          "query", "fill", "done"}

Reasons == {"not_found", "not_active", "no_system_cash", "insufficient",
            "same_account", "currency", "key_reused"}

NoReply == [kind |-> "none"]
Posted(t) == [kind |-> "posted", txn |-> t]
Balance(v) == [kind |-> "balance", value |-> v]
Rejected(why) == [kind |-> "rejected", why |-> why]   \* ValueError: 400 or 404
Error == [kind |-> "error"]                           \* anything else: 500

Reply == {NoReply, Error} \cup {Posted(t) : t \in Req}
           \cup [kind : {"balance"}, value : Int] \cup {Rejected(w) : w \in Reasons}

\* Shapes of the state.
TypeOK ==
  /\ accounts \in [Account -> Row]
  /\ req \in [Req -> Workload]
  /\ pc \in [Req -> Steps]
  /\ ledger \in [Account -> [Time -> Int]]
  /\ committed \in SUBSET Req
  /\ created \in [Req -> Time]
  /\ now \in Time
  /\ rowLock \in [Account -> Req \cup {NoReq}]
  /\ keyShare \in [Account -> SUBSET Req]
  /\ seen \in [Req -> Int]
  /\ cache \in [Account -> Int \cup {Miss}]
  /\ reply \in [Req -> Reply]

-----------------------------------------------------------------------------
(* The tables as the handlers' queries see them *)

Op(r) == req[r].op
From(r) == req[r].from
To(r) == req[r].to
Amount(r) == req[r].amount

Present(a) == accounts[a].status # "MISSING"
Active(a) == accounts[a].status = "ACTIVE"

\* SELECT ... WHERE owner_name = 'SYSTEM_CASH' has two rows: scalar_one_or_none
\* raises MultipleResultsFound.
Ambiguous == Present(SystemCash) /\ accounts[SystemCash].twin

\* SELECT coalesce(sum(amount), 0) ... WHERE account_id = a, with no cut.
BalanceOf(a) == ledger[a][Last]

\* SELECT ... WHERE idempotency_key = <the key of r>: committed rows only.
Existing(r) == {t \in committed : SameKey(req[r], req[t])}

\* Mutant of LockOrder: the rows are locked as the request names them.
RequestOrder(r) == <<From(r), To(r)>>

\* sorted([from, to]), the order in which a transfer locks its two rows.
LockOrder(r) == IF From(r) < To(r) THEN <<From(r), To(r)>> ELSE <<To(r), From(r)>>

\* Amounts that round to an entry the CHECK constraint refuses.
CheckFails(r) == AmountCheck /\ Stored(Amount(r)) = 0

-----------------------------------------------------------------------------
(* PostgreSQL: who waits for whom *)

\* Rows whose FOR UPDATE lock the next statement of r asks for.
RowsWanted(r) ==
  {a \in Account : Present(a) /\
     \/ Op(r) = "withdraw" /\ pc[r] = "start" /\ a = From(r)
     \/ pc[r] = "lock1" /\ a = LockOrder(r)[1]
     \/ pc[r] = "lock2" /\ a = LockOrder(r)[2]}

\* Rows the next inserted entry of r references.
RowsReferenced(r) ==
  {a \in Account : ~CheckFails(r) /\
     \/ pc[r] = "entry1" /\ a = From(r)
     \/ pc[r] = "entry2" /\ a = To(r)}

\* Transactions with an inserted, uncommitted Transaction row.
Inserted(r) == pc[r] \in {"entry1", "entry2", "commit"}

\* The transactions whose end the next statement of r waits for.
Blockers(r) ==
  {s \in Req \ {r} :
     \/ \E a \in RowsWanted(r) : rowLock[a] = s \/ s \in keyShare[a]
     \/ \E a \in RowsReferenced(r) : rowLock[a] = s
     \/ pc[r] = "insert" /\ SameKey(req[r], req[s]) /\ Inserted(s)}

\* r waits for itself: every set of requests that holds the blockers of r and
\* the blockers of its members holds r too.
WaitsForItself(r) ==
  \A S \in SUBSET Req :
    Blockers(r) \subseteq S /\ (\A s \in S : Blockers(s) \subseteq S) => r \in S

-----------------------------------------------------------------------------
(* Steps of a session *)

Goto(r, step) == pc' = [pc EXCEPT ![r] = step]

Answer(r, rep) == Goto(r, "done") /\ reply' = [reply EXCEPT ![r] = rep]

\* ROLLBACK: every lock of the session is released.
Release(r) ==
  /\ rowLock' = [a \in Account |-> IF rowLock[a] = r THEN NoReq ELSE rowLock[a]]
  /\ keyShare' = [a \in Account |-> keyShare[a] \ {r}]

\* Mutant of LockRow: the SELECT lost its FOR UPDATE.
ReadRow(r, a) == UNCHANGED rowLock

\* SELECT ... FOR UPDATE of one row; a missing row is not locked.
LockRow(r, a) ==
  rowLock' = IF Present(a) THEN [rowLock EXCEPT ![a] = r] ELSE rowLock

\* The handler raises and its session is closed.
Abort(r, rep) ==
  /\ Release(r)
  /\ Answer(r, rep)
  /\ UNCHANGED <<accounts, req, tables, stamps, seen, cache>>

Reject(r, why) == Abort(r, Rejected(why))
Fail(r) == Abort(r, Error)

\* A step that takes no lock and writes nothing.
Proceed(r, step) ==
  /\ Goto(r, step)
  /\ UNCHANGED <<accounts, req, tables, stamps, locks, seen, cache, reply>>

-----------------------------------------------------------------------------
(* create_deposit *)

\* Both SELECTs, which take no lock, and the checks on what they return.
DepositLookup(r) ==
  /\ Op(r) = "deposit" /\ pc[r] = "start"
  /\ \/ ~Present(To(r)) /\ Reject(r, "not_found")
     \/ Present(To(r)) /\ ~Active(To(r)) /\ Reject(r, "not_active")
     \/ Active(To(r)) /\ ~Present(SystemCash) /\ Reject(r, "no_system_cash")
     \/ Active(To(r)) /\ Ambiguous /\ Fail(r)
     \/ Active(To(r)) /\ Present(SystemCash) /\ ~Ambiguous /\ Proceed(r, "stamp")

-----------------------------------------------------------------------------
(* create_withdrawal *)

\* SELECT the account FOR UPDATE, then the checks on it.
WithdrawLock(r) ==
  /\ Op(r) = "withdraw" /\ pc[r] = "start"
  /\ Blockers(r) = {}
  /\ \/ ~Present(From(r)) /\ Reject(r, "not_found")
     \/ Present(From(r)) /\ ~Active(From(r)) /\ Reject(r, "not_active")
     \/ /\ Active(From(r))
        /\ LockRow(r, From(r))
        /\ Goto(r, "read")
        /\ UNCHANGED <<accounts, req, tables, stamps, keyShare, seen, cache, reply>>

\* SUM of the locked account, the comparison, then SELECT SYSTEM_CASH.
WithdrawRead(r) ==
  /\ Op(r) = "withdraw" /\ pc[r] = "read"
  /\ LET enough == Covers(BalanceOf(From(r)), Amount(r)) IN
     \/ ~enough /\ Reject(r, "insufficient")
     \/ enough /\ ~Present(SystemCash) /\ Reject(r, "no_system_cash")
     \/ enough /\ Ambiguous /\ Fail(r)
     \/ enough /\ Present(SystemCash) /\ ~Ambiguous /\ Proceed(r, "stamp")

-----------------------------------------------------------------------------
(* create_transfer *)

\* Mutant of AnswerExisting: the request_hash is not compared.
AnswerAnyExisting(r, t) == Abort(r, Posted(t))

\* What a transfer answers when its key has a row: that row's transaction, or
\* a refusal when the row has another request_hash.
AnswerExisting(r, t) ==
  Abort(r, IF SameRequest(req[r], req[t]) THEN Posted(t)
                                              ELSE Rejected("key_reused"))

\* The fast idempotency check and the same-account check.
TransferStart(r) ==
  /\ Op(r) = "transfer" /\ pc[r] = "start"
  /\ \/ \E t \in Existing(r) : AnswerExisting(r, t)
     \/ Existing(r) = {} /\ From(r) = To(r) /\ Reject(r, "same_account")
     \/ Existing(r) = {} /\ From(r) # To(r) /\ Proceed(r, "lock1")

\* SELECT ... ORDER BY account_id FOR UPDATE locks its rows one after the
\* other, waiting at each.
TransferLock1(r) ==
  /\ pc[r] = "lock1"
  /\ Blockers(r) = {}
  /\ LockRow(r, LockOrder(r)[1])
  /\ Goto(r, "lock2")
  /\ UNCHANGED <<accounts, req, tables, stamps, keyShare, seen, cache, reply>>

\* Mutant of TransferLock2: only the source must be ACTIVE.
LockAnyDestination(r) ==
  /\ pc[r] = "lock2"
  /\ Blockers(r) = {}
  /\ LET found == Present(From(r)) /\ Present(To(r))
         sameCurrency == accounts[From(r)].currency = accounts[To(r)].currency
     IN  \/ ~found /\ Reject(r, "not_found")
         \/ found /\ ~Active(From(r)) /\ Reject(r, "not_active")
         \/ found /\ Active(From(r)) /\ ~sameCurrency /\ Reject(r, "currency")
         \/ /\ found /\ Active(From(r)) /\ sameCurrency
            /\ LockRow(r, LockOrder(r)[2])
            /\ Goto(r, "read")
            /\ UNCHANGED <<accounts, req, tables, stamps, keyShare, seen, cache, reply>>

\* The second row, and the checks on the two accounts in the order of the code.
TransferLock2(r) ==
  /\ pc[r] = "lock2"
  /\ Blockers(r) = {}
  /\ LET found == Present(From(r)) /\ Present(To(r))
         active == Active(From(r)) /\ Active(To(r))
         sameCurrency == accounts[From(r)].currency = accounts[To(r)].currency
     IN  \/ ~found /\ Reject(r, "not_found")
         \/ found /\ ~active /\ Reject(r, "not_active")
         \/ active /\ ~sameCurrency /\ Reject(r, "currency")
         \/ /\ active /\ sameCurrency
            /\ LockRow(r, LockOrder(r)[2])
            /\ Goto(r, "read")
            /\ UNCHANGED <<accounts, req, tables, stamps, keyShare, seen, cache, reply>>

\* SUM of the source account and the comparison.
TransferRead(r) ==
  /\ Op(r) = "transfer" /\ pc[r] = "read"
  /\ \/ ~Covers(BalanceOf(From(r)), Amount(r)) /\ Reject(r, "insufficient")
     \/ Covers(BalanceOf(From(r)), Amount(r)) /\ Proceed(r, "stamp")

\* Mutant of TransferReread: without a row the insert is tried again.
RetryInsert(r) ==
  /\ pc[r] = "reread"
  /\ \/ \E t \in Existing(r) : AnswerExisting(r, t)
     \/ Existing(r) = {} /\ Proceed(r, "insert")

\* except IntegrityError, after the rollback: SELECT by idempotency_key again;
\* without a row the error is raised again.
TransferReread(r) ==
  /\ pc[r] = "reread"
  /\ \/ \E t \in Existing(r) : AnswerExisting(r, t)
     \/ Existing(r) = {} /\ Fail(r)

-----------------------------------------------------------------------------
(* The statements the three writers share *)

\* Mutant of Stamp: the default is evaluated once, when the module is loaded.
StampAtImport(r) ==
  /\ pc[r] = "stamp"
  /\ now < Last
  /\ now' = now + 1
  /\ created' = [created EXCEPT ![r] = 0]
  /\ Goto(r, "insert")
  /\ UNCHANGED <<accounts, req, tables, locks, seen, cache, reply>>

\* db.flush(): the default of created_at is evaluated by the application ...
\* There is one clock, and it gives every transaction a later time.  The code has
\* a datetime.now for each process, which may be ahead or behind the others', tie
\* or be set back: what is said below of time cuts is said of one good clock.
Stamp(r) ==
  /\ pc[r] = "stamp"
  /\ now < Last
  /\ now' = now + 1
  /\ created' = [created EXCEPT ![r] = now + 1]
  /\ Goto(r, "insert")
  /\ UNCHANGED <<accounts, req, tables, locks, seen, cache, reply>>

\* Mutant of IntegrityError: only the savepoint of the insert is rolled back.
SavepointOnly(r) ==
  \/ /\ Op(r) = "transfer"
     /\ Proceed(r, "reread")
  \/ Op(r) # "transfer" /\ Fail(r)

\* IntegrityError: create_transfer rolls back and rereads, the others raise.
IntegrityError(r) ==
  \/ /\ Op(r) = "transfer"
     /\ Release(r)
     /\ Goto(r, "reread")
     /\ UNCHANGED <<accounts, req, tables, stamps, seen, cache, reply>>
  \/ Op(r) # "transfer" /\ Fail(r)

\* Mutant of InsertTransaction: idempotency_key has no unique index.
InsertAnyway(r) ==
  /\ pc[r] = "insert"
  /\ Proceed(r, "entry1")

\* ... and the Transaction row inserted: it waits for an uncommitted row with
\* the same key and is refused by a committed one.
InsertTransaction(r) ==
  /\ pc[r] = "insert"
  /\ Blockers(r) = {}
  /\ \/ Existing(r) # {} /\ IntegrityError(r)
     \/ Existing(r) = {} /\ Proceed(r, "entry1")

ShareKey(r, a, step) ==
  /\ keyShare' = [keyShare EXCEPT ![a] = @ \cup {r}]
  /\ Goto(r, step)
  /\ UNCHANGED <<accounts, req, tables, stamps, rowLock, seen, cache, reply>>

\* The two entries are flushed, debit first, each referencing its account row:
\* by db.commit(), or in create_transfer by the end of the savepoint.
InsertDebit(r) ==
  /\ pc[r] = "entry1"
  /\ Blockers(r) = {}
  /\ \/ CheckFails(r) /\ IntegrityError(r)
     \/ ~CheckFails(r) /\ ShareKey(r, From(r), "entry2")

InsertCredit(r) ==
  /\ pc[r] = "entry2"
  /\ Blockers(r) = {}
  /\ ShareKey(r, To(r), "commit")

\* COMMIT of the Transaction row, its entries and its outbox event.
Commit(r) ==
  /\ pc[r] = "commit"
  /\ committed' = committed \cup {r}
  /\ ledger' = [a \in Account |-> [t \in Time |->
                  ledger[a][t] + IF created[r] <= t THEN Entry(req[r], a) ELSE 0]]
  /\ Release(r)
  /\ Goto(r, "invalidate1")
  /\ UNCHANGED <<accounts, req, stamps, seen, cache, reply>>

\* The account whose cached balance a handler deletes first.
FirstInvalidated(r) == IF Op(r) = "deposit" THEN To(r) ELSE From(r)

\* Mutant of Invalidate1: a Redis error runs the whole handler again.
RestartOnError(r) ==
  /\ pc[r] = "invalidate1"
  /\ \/ /\ cache' = [cache EXCEPT ![FirstInvalidated(r)] = Miss]
        /\ IF Op(r) = "transfer"
           THEN Goto(r, "invalidate2") /\ UNCHANGED reply
           ELSE Answer(r, Posted(r))
     \/ "redis" \in Faults /\ Goto(r, "start") /\ UNCHANGED <<cache, reply>>
  /\ UNCHANGED <<accounts, req, tables, stamps, locks, seen>>

\* DELETE account:<id>:balance.  A Redis error is logged and ends the
\* invalidations: both DELETEs of a transfer are in one try.
Invalidate1(r) ==
  /\ pc[r] = "invalidate1"
  /\ \/ /\ cache' = [cache EXCEPT ![FirstInvalidated(r)] = Miss]
        /\ IF Op(r) = "transfer"
           THEN Goto(r, "invalidate2") /\ UNCHANGED reply
           ELSE Answer(r, Posted(r))
     \/ "redis" \in Faults /\ Answer(r, Posted(r)) /\ UNCHANGED cache
  /\ UNCHANGED <<accounts, req, tables, stamps, locks, seen>>

Invalidate2(r) ==
  /\ pc[r] = "invalidate2"
  /\ Answer(r, Posted(r))
  /\ \/ cache' = [cache EXCEPT ![To(r)] = Miss]
     \/ "redis" \in Faults /\ UNCHANGED cache
  /\ UNCHANGED <<accounts, req, tables, stamps, locks, seen>>

-----------------------------------------------------------------------------
(* get_balance and get_balance_at *)

\* GET account:<id>:balance; a Redis error counts as a miss.
CacheGet(r) ==
  /\ Op(r) = "balance" /\ pc[r] = "start"
  /\ \/ /\ cache[From(r)] # Miss
        /\ Abort(r, Balance(cache[From(r)]))
     \/ /\ cache[From(r)] = Miss \/ "redis" \in Faults
        /\ Proceed(r, "query")

\* Mutant of BalanceQuery: SUM without coalesce is NULL when there is no row.
UncoalescedQuery(r) ==
  /\ pc[r] = "query"
  /\ Present(From(r))
  /\ seen' = [seen EXCEPT ![r] = IF Opening[From(r)] = 0 /\ committed = {}
                                 THEN Miss ELSE BalanceOf(From(r))]
  /\ Goto(r, "fill")
  /\ UNCHANGED <<accounts, req, tables, stamps, locks, cache, reply>>

\* SUM of the account's entries.
BalanceQuery(r) ==
  /\ pc[r] = "query"
  /\ \/ ~Present(From(r)) /\ Reject(r, "not_found")
     \/ /\ Present(From(r))
        /\ seen' = [seen EXCEPT ![r] = BalanceOf(From(r))]
        /\ Goto(r, "fill")
        /\ UNCHANGED <<accounts, req, tables, stamps, locks, cache, reply>>

\* SET account:<id>:balance, without expiry, to the balance queried before.
CacheFill(r) ==
  /\ pc[r] = "fill"
  /\ Answer(r, Balance(seen[r]))
  /\ \/ cache' = [cache EXCEPT ![From(r)] = seen[r]]
     \/ "redis" \in Faults /\ UNCHANGED cache
  /\ UNCHANGED <<accounts, req, tables, stamps, locks, seen>>

\* The timestamp is the client's: any time up to now.
BalanceAt(r) ==
  /\ Op(r) = "balance_at" /\ pc[r] = "start"
  /\ \/ ~Present(From(r)) /\ Reject(r, "not_found")
     \/ /\ Present(From(r))
        /\ \E t \in 0..now : Abort(r, Balance(ledger[From(r)][t]))

-----------------------------------------------------------------------------
(* Faults *)

\* PostgreSQL aborts one transaction of a wait cycle: the driver's error is
\* not an IntegrityError, so every handler answers 500.
DeadlockAbort(r) == pc[r] # "done" /\ WaitsForItself(r) /\ Fail(r)

\* The process, its connection or a statement fails: the open transaction is
\* rolled back, the client sees an error, nothing after this point runs.
Die(r) == "die" \in Faults /\ pc[r] # "done" /\ Fail(r)

-----------------------------------------------------------------------------

Init ==
  /\ accounts \in Tables
  /\ req \in [Req -> Workload]
  /\ pc = [r \in Req |-> "start"]
  /\ ledger = [a \in Account |-> [t \in Time |-> Opening[a]]]
  /\ committed = {}
  /\ created = [r \in Req |-> 0]
  /\ now = 0
  /\ rowLock = [a \in Account |-> NoReq]
  /\ keyShare = [a \in Account |-> {}]
  /\ seen = [r \in Req |-> 0]
  /\ cache = [a \in Account |-> Miss]
  /\ reply = [r \in Req |-> NoReply]

Deposit(r) == DepositLookup(r)
Withdraw(r) == WithdrawLock(r) \/ WithdrawRead(r)
Transfer(r) == \/ TransferStart(r) \/ TransferLock1(r) \/ TransferLock2(r)
               \/ TransferRead(r) \/ TransferReread(r)
Post(r) == \/ Stamp(r) \/ InsertTransaction(r) \/ InsertDebit(r)
           \/ InsertCredit(r) \/ Commit(r) \/ Invalidate1(r) \/ Invalidate2(r)
Read(r) == CacheGet(r) \/ BalanceQuery(r) \/ CacheFill(r) \/ BalanceAt(r)

\* What the scheduler and PostgreSQL do for a request.
Advance(r) == \/ Deposit(r) \/ Withdraw(r) \/ Transfer(r) \/ Post(r) \/ Read(r)
              \/ DeadlockAbort(r)

\* The ids a request names; SYSTEM_CASH is found by its owner_name instead.
Named(r) == CASE Op(r) = "deposit"  -> {To(r)}
              [] Op(r) = "withdraw" -> {From(r)}
              [] OTHER              -> {From(r), To(r)}

\* create_account: an active account under a fresh id, which no request under
\* way can have named, or one more SYSTEM_CASH.
CreateAccount ==
  /\ \/ \E a \in Account, c \in Currency :
          /\ ~Present(a)
          /\ \A r \in Req : pc[r] \notin {"start", "done"} => a \notin Named(r)
          /\ accounts' = [accounts EXCEPT
                           ![a] = [status |-> "ACTIVE", currency |-> c, twin |-> FALSE]]
     \/ /\ Present(SystemCash) /\ ~Ambiguous
        /\ accounts' = [accounts EXCEPT ![SystemCash].twin = TRUE]
  /\ accounts' \in Tables
  /\ UNCHANGED <<req, pc, tables, stamps, locks, seen, cache, reply>>

\* Every request is answered: nothing is left to do.
AllDone == (\A r \in Req : pc[r] = "done") /\ UNCHANGED vars

Next == (\E r \in Req : Advance(r) \/ Die(r)) \/ CreateAccount \/ AllDone

Spec == Init /\ [][Next]_vars

\* asyncio runs every ready task, PostgreSQL answers every statement, and it
\* breaks every wait cycle (deadlock_timeout).
FairSpec == Spec /\ \A r \in Req : WF_vars(Advance(r))

-----------------------------------------------------------------------------
(* Properties *)

\* No account but SYSTEM_CASH is ever below zero, today or in a balance asked
\* for at an earlier time, however the withdrawals and transfers that debit it
\* interleave.
NoOverdraft == \A a \in Account \ {SystemCash}, t \in Time : ledger[a][t] >= 0

\* An idempotency key has one transaction, whatever retries and concurrent
\* duplicates carry it (create_transfer, steps 1 and 4).
OneTransactionPerKey == \A s, t \in committed : SameKey(req[s], req[t]) => s = t

\* A client told of a transaction can find it, posted for the very request it
\* sent; a client told of a 4xx had nothing posted.  A 500 promises nothing.
RepliesTruthful ==
  \A r \in Req :
    /\ reply[r].kind = "posted" =>
         \E t \in committed : reply[r] = Posted(t) /\ (t = r \/ SameRequest(req[r], req[t]))
    /\ reply[r].kind = "rejected" => r \notin committed

\* Double entry: at every time cut the accounts add up to what they did before
\* the run, whatever was rounded, rolled back or cut off half-way.
MoneyConserved ==
  \A t \in Time : SumOver([a \in Account |-> ledger[a][t]], Account)
                    = SumOver(Opening, Account)

\* Every posted entry moves something (ck_ledger_entries_amount_nonzero).
NoZeroEntry == \A r \in committed : Stored(Amount(r)) # 0

\* No statement waits for itself through others, among requests that never
\* lock the row of SYSTEM_CASH: deposits, which lock through foreign keys,
\* withdrawals from users' accounts, and transfers between them, which lock in
\* account order.
NoWaitCycle == \A r \in Req : ~WaitsForItself(r)

\* Every request is answered: wait cycles are broken, and where the connections
\* are fewer than the requests (LedgerPool) a holder of row locks has one and a
\* request that waits for one holds no lock.
AllAnswered == \A r \in Req : <>(reply[r] # NoReply)

\* A request sent again with its key is answered with the transaction the key
\* already has, never refused.
DuplicateNotRefused ==
  \A r, s \in Req :
    reply[r].kind = "posted" /\ SameRequest(req[r], req[s]) /\ reply[s] # NoReply
      => reply[s] = reply[r]

\* When nothing is running, a cached balance is the balance.
CacheFresh ==
  (\A r \in Req : pc[r] = "done") => \A a \in Account : cache[a] \in {Miss, BalanceOf(a)}

=============================================================================
