# LedgerFlow in TLA+

Specifications of LedgerFlow, a double-entry ledger behind a REST API:
TLA+ modules translated from the Python source, TLC configurations that check
them on small instances, and proofs checked by TLAPS. Paths are relative to the
repository's root; `service.py` without a directory is `app/ledger/service.py`.

## 1. The system

```
 client --HTTP--> FastAPI routers --> ledger service --SQL--> PostgreSQL
                                          |  ^                 accounts, transactions,
                                   delete |  | get / set       ledger_entries, outbox_events
                                          v  |                       ^     |
                                         Redis               marks   |     | claims
                                                                  outbox worker --> Kafka
                                                                                      |
                                            account_balance_projections <-- consumer <+
```

| Component | State | Operations | Talks to |
|---|---|---|---|
| ledger writers (`app/ledger`) | transactions, entries (PostgreSQL) | `create_deposit`, `create_withdrawal`, `create_transfer` | accounts (row locks, foreign keys), outbox (an event in the same COMMIT), Redis (invalidation after COMMIT) |
| ledger readers, cache (`app/ledger`) | `account:<id>:balance` in Redis, no expiry | `get_balance`, `get_balance_at`, `get_transaction_history` | PostgreSQL, Redis |
| accounts (`app/accounts`) | accounts table | `create_account` | - |
| outbox (`app/outbox`) | `outbox_events`: status, retry_count, next_retry_at, claimed_at | create, recover, claim, send, mark published, mark failed | PostgreSQL (SKIP LOCKED), Kafka |
| Kafka producer (`app/kafka`) | one producer per process | `start`, `send`, `stop` | Kafka |
| consumer (`app/consumers`) | `processed_events`, the offset of its group | `process_message` | Kafka, PostgreSQL |
| projection (`app/consumers`) | `account_balance_projections` | `apply_balance_projection` | in the consumer's transaction |
| lifecycle (`app/main.py`) | the worker task | startup, shutdown, task-done callback | the outbox worker |

What is hard: handlers run concurrently, in one process as asyncio tasks and in
several processes, and meet only in PostgreSQL and Redis; a handler reads,
awaits, and writes on what it read; locks are taken explicitly (`FOR UPDATE`)
and implicitly (foreign keys, the unique index); a COMMIT is followed by steps
that can fail; outbox workers take over each other's work by timeout; delivery
to Kafka is at least once. What makes each component correct:

* **writers**: no account but SYSTEM_CASH goes below zero; money is neither
  created nor lost; a key has one transaction; answers are true; every request
  is answered; user traffic does not deadlock.
* **readers**: a balance shown is one the posted transactions give; the past
  does not change; the cache is not stale at rest.
* **outbox**: nothing is published that was not sent, nothing is sent twice
  without need, nothing is given up early, every event is settled.
* **consumer, projection**: an event is applied once, a redelivery changes
  nothing, the projection is the sum of the ledger.

`PROJECT.json` lists the hazards with the line where each bites and the
properties that watch it.

## 2. Modules

| Module | What it is |
|---|---|
| `Requests` | request bodies, rounding to the column, the comparison before it, the entries of a request, the request hash |
| `LedgerService` | the five handlers, a statement per step, on PostgreSQL and Redis |
| `AtomicLedger` | the promise: transactions posted in one step, answers and refusals true when given |
| `LedgerRefinement`, `LedgerRefinementProofs` | the mapping from `LedgerService` to `AtomicLedger`, and the proof that it is a refinement |
| `LedgerInvariants`, `LedgerServiceProofs` | inductive invariants and theorems of `LedgerService` |
| `SumProofs` | lemmas about sums over finite sets |
| `LedgerHistory` | `LedgerService` with a history variable: what point-in-time balances have been |
| `LedgerPool` | `LedgerService` on the connection pool: sessions that wait for a connection, hold one, time out |
| `LedgerPaging` | `LedgerService` beside a client that reads an account's history page by page |
| `LedgerReadsProofs` | the theorems of `LedgerHistory` and `LedgerPaging` |
| `OutboxWorker` | the outbox workers on `outbox_events` and a topic, from startup to shutdown |
| `OutboxInvariants`, `OutboxWorkerProofs`, `OutboxClaimsProofs` | inductive invariants and theorems of `OutboxWorker`: those for all faults, and those about claims |
| `LedgerEvents` | an event as the projection reads it: payload keys, upserts |
| `BalanceProjection` | the promise of the consumers: each event applied at most once, in one step, to the projections of users' accounts |
| `Consumer`, `ConsumerProofs` | the consumer group on a partitioned topic, and its theorems |
| `Pipeline`, `PipelineProofs` | `OutboxWorker` and `Consumer` joined by the topic, and the theorems about the two together |
| `MC...` | values of the constants for TLC |

### LedgerService

A request `r` has a body `req[r]` and a place `pc[r]`, named for the statement
it is about to await:

| Code (`service.py`) | Steps |
|---|---|
| `create_deposit`, 69-99 | `DepositLookup`: both SELECTs and the checks; no lock is taken |
| `create_withdrawal`, 281-335 | `WithdrawLock` (`FOR UPDATE`), `WithdrawRead` (SUM, comparison, SYSTEM_CASH) |
| `create_transfer`, 437-467 | `TransferStart`: the fast idempotency check, then the same-account check |
| 482-527 | `TransferLock1`, `TransferLock2`: the one SELECT locks its rows one after the other in account order; the checks come with the second |
| 535-552 | `TransferRead` |
| `db.flush()`, all three | `Stamp` (the default of `created_at`), `InsertTransaction` (the unique index) |
| the entries and the event | `InsertDebit`, `InsertCredit` (foreign-key locks), `Commit` |
| invalidations | `Invalidate1`, `Invalidate2` |
| `except IntegrityError`, 642-674 | `IntegrityError` (rollback), `TransferReread` |
| `get_balance`, 203-265 | `CacheGet`, `BalanceQuery`, `CacheFill` |
| `get_balance_at`, 731-776 | `BalanceAt` |

A rejection is a `ValueError` (400 or 404), an error is anything else (500).
`Abort` is the end of a handler with its session: the transaction is rolled
back and its locks are released.

*Data.* The entries table is kept as the answers to the two queries the code
asks of it: `ledger[a][t]` is the sum of account `a` over transactions stamped
at or before `t`. `Stamp` gives `created_at` from one clock that increases with
every stamp, whichever process takes it. The code takes each process's own
`datetime.now` (`app/ledger/model.py`, 78-82), which may be skewed against
another's, tie or step back; what leans on the one clock is named in section 5.
Stored amounts are hundredths, requested ones thousandths, so
that rounding shows. Ids are numbers, keys and currencies model values. The
event inserted with a transaction is in its COMMIT and has no variable of its
own. Statements that take no lock and only read accounts are joined with the
next (the program only adds account rows, and one added between two joined
statements is as good as one added before both); each SUM and each read of
`transactions` or Redis is a step, or the first in its step.

*PostgreSQL* is external and modelled by what the handlers rely on: READ
COMMITTED reads, `FOR UPDATE` and `FOR KEY SHARE` row locks held to the end of
the transaction, an insert that waits for an uncommitted row with its key and
is refused by a committed one, rollback, and the deadlock detector, which
aborts one transaction of a wait cycle (`WaitsForItself`).

*Accounts.* `CreateAccount` (`app/accounts/service.py`) inserts an active row
under a fresh id, which no request under way can have named, or one more row
named SYSTEM_CASH (`twin`), which anyone may add and which makes
`scalar_one_or_none` raise in the lookups after it (`Ambiguous`). `Tables` bounds
what the table may become. No code changes a row: frozen and closed accounts are
initial ones.

*The pool* (`LedgerPool`; `app/db/database.py`, 10-26). A session takes a
connection at its first statement (`Checkout`) and returns it when its
transaction ends (`Returned`): a request that waits for a row lock keeps its
connection, and one that has committed needs one again for `db.refresh`. A
session that waits too long is refused (`PoolTimeout`), before or after its
COMMIT.

*The pages* (`LedgerPaging`; `service.py`, 681-724). `Rows` are the rows of the
join, one per entry on the account, so two for a deposit to SYSTEM_CASH's own id.
`ReadPage` is one request for a page of a client that chooses an account with the
first page and asks for the next (`Asks`) at the offset of what it has been shown
until a page is short.

*Faults.* `"die"`: a process, connection or statement fails at any step. `"redis"`: any Redis call raises. The code catches the latter,
and a transfer whose first invalidation raises skips the second.

### OutboxWorker

Each worker is at a step of `process_batch` (`app/outbox/worker.py`, 81-174)
and holds the rows it has `locked`, the `batch` it has claimed and the row it
`got` to mark. `Recover`/`CommitRecovery` and `Claim`/`CommitClaim` are the two
transactions with `FOR UPDATE SKIP LOCKED` (`app/outbox/service.py`, 35-103);
`Send` is acknowledged, refused, or delivered and reported as failed; `Get`
reads the row in a new session without a lock; `MarkPublished` and `MarkFailed`
write it back (106-142). The session writes only attributes that differ from
what it read (`Written`), so a late mark may leave parts of another's behind.
Time is abstract: a fresh claim goes stale (`ClaimAges`) and a retry falls due
(`RetryDue`) between any two steps; unless `"slow"` is among the faults, claims
do not go stale under a worker that still has the event in hand. 
*Lifecycle.* `StartProducer` is the head of `run` (`app/outbox/worker.py`,
35-45); `Stop` is `shutdown` (`app/main.py`, 93-106), which lowers `_running`
and waits; `Exit` is the loop condition, read only before a round, so that a
worker told to stop first deals with its whole batch. `Crash` is a process that
dies or a `run` that raises; nothing restarts it (`app/main.py`, 58-90). Stops
and crashes spare one worker (`Spared`): without a running worker nothing is
settled, and that is a matter of deployment.

### Consumer

| Code (`app/consumers/`) | Steps |
|---|---|
| `run_consumer.py`, `consumer.py`, 41-47 | `Start`: a process joins the group, which is rebalanced |
| `consumer.py`, 49-58 | `Poll`: the owner of a partition is handed its next message |
| `mark_event_processed` | `Register`: the insert into `processed_events` waits for an uncommitted row of the same event; a committed one sends the message straight to its acknowledgement |
| `apply_balance_projection` | `ApplyDelta`, an upsert per step: it waits for the transaction that wrote its row; missing payload keys and a value wider than `Numeric(18, 2)` raise |
| `db.commit()` | `Commit`: registration and upserts at once |
| `_commit_message_offset` | `Ack`: stored; stored and reported as failed; refused, because the partition has been given away |
| every `raise` of `process_message` | `Raise`: rollback, and the consumer stops and leaves the group |

Kafka is external: the owner of a partition is handed its messages in order from
the committed offset; `Rebalance` hands the partitions out anew, also while a
consumer is at work, which then goes on with the message it holds beside the new
owner. `Die` is a consumer that raises at any await, or a process that dies and
is a member until its session expires. `DeadlockAbort` is PostgreSQL's answer to
consumers that upsert two rows in opposite orders. An event stands for the
request that posted it, so that `Upserts` can be compared with the entries of the
ledger (`Requests!Entry`).

`BalanceProjection` has no message, offset, lock or redelivery: `Apply` takes an
event that is in the topic and not yet applied, and adds to each user's account
what the ledger added. It says nothing of the projection of SYSTEM_CASH. A deposit
or withdrawal event names one account and the projection moves that one, so
SYSTEM_CASH's row is written only if somebody names its id, as the deposits and
withdrawals of the code let anyone do; the ledger then nets zero and the
projection moves, and of all other deposits it lacks SYSTEM_CASH's side.
`PromiseSpec` is that `Consumer` implements it, with `processed_events` as the
events applied.

### Pipeline

`Forward` is a step of a worker of `OutboxWorker`; if it delivers, the event is
appended to a partition of the producer's choice by `Consumer!Produce`. Every
other step is a step of one side. `Create` is the COMMIT of a ledger transaction
with its event.

## 3. What is checked

Three requests over two user accounts and SYSTEM_CASH are enough for every pair
of handlers to interleave with a third that spends, refills, reads or repeats
(`ledger_atomic` has a third user account, so that two transfers with one key can
meet at the unique index without a row lock between them);
SYSTEM_CASH has the middle id, so that it is first in the lock order of one
account and second in that of the other. `Last = 3` lets every request of a run
stamp a transaction. Opening balances are ten cents and zero, less than the
requests of a workload ask for. Requests and workers are symmetric; the liveness
runs use no symmetry.

| Run | Instance | Shows |
|---|---|---|
| `ledger_atomic` | 3 requests of `Mixed`, a second SYSTEM_CASH that may be opened at any time, deaths, Redis errors, wait cycles | `NoOverdraft` and `MoneyConserved` at every time cut, `OneTransactionPerKey`, `RepliesTruthful`, `LocksOwned`, the inductive invariants of the proofs (`OverdraftInv`, `KeysUnique`, `CommitsOnce`, `AtomicInv`), and `AtomicSpec`: `LedgerService` implements `AtomicLedger` |
| `ledger_user_traffic` | 3 of `UserTraffic`, deaths, beside a client that pages through the history of any account | `NoWaitCycle`: row, foreign-key and index waits never form a cycle when no withdrawal or transfer names SYSTEM_CASH; `NothingSkipped`: pages may repeat a transaction, never skip one that was there when the first was read |
| `ledger_refusals` | 2 of `Refusals` on frozen, foreign and absent accounts that may be opened meanwhile, a doubled SYSTEM_CASH, with the CHECK constraint, deaths, Redis errors | `AtomicSpec`; `HistorySettled`: balances of a quiet moment never change; `TypeOK` |
| `ledger_liveness` | 3 of `SystemTraffic`, deaths, a pool of 2 connections | `AllAnswered`, through wait cycles and an empty pool |
| `outbox_faults` | 1 event, 2 workers, all faults | `PublishedWasSent`, `GivesUpLate` and their inductive forms, `EventsSettle`, `StopsInTheEnd` |
| `outbox_healthy` | 3 events, 2 workers, batches of 2, refusals, shutdowns | `NotSentTwice`, `ClaimsHandled` and their inductive forms, `TypeOK` |
| `consumer_group` | 2 consumers, 2 partitions, 2 events, all faults | `AckedApplied`, `RegisteredOnce`, the inductive `AckInv`, `TypeOK`, and `PromiseSpec`: `Consumer` implements `BalanceProjection` |
| `pipeline` | 1 deposit's event with the keys the ledger writes, 2 workers, 1 consumer, 2 partitions, refusals, lost acknowledgements, shutdowns, crashes, a consumer that dies | `NothingLost`: a PUBLISHED event is applied or ahead of the committed offset; `ProjectsCommitted`: users' projections are the sums of committed transactions, each counted once; `CatchesUp`: in the end they are the ledger's balances, unless an event is given up (`NoneGivenUp`) |

`NothingSkipped` needs the three requests that post: two rows that are due and a
commit between the pages, which moves one of them under the offset. (Its mutant, a
client that stops after as many rows as there were at first, is not found with
two.) `StampAtImport` breaks `HistorySettled` with two.

`CatchesUp` has a hypothesis, because the code does give events up: after
`MaxRetries` sends that raised an event is FAILED, nothing tries it again, and if
none of these sends was delivered the projection lacks it for good
(`app/outbox/service.py`, 127-130). Without the hypothesis the property is false of
the code; with it, it still covers every other way a send, a mark, a worker or the
consumer may fail, and an event that is FAILED although a copy is in the topic.

One event is enough for `outbox_faults`: its hazards are two workers at one row,
while events share only the order of a batch, which `outbox_healthy` has. (With 2
events and without liveness the same invariants hold over 2.0 million states.)

In `consumer_group` the partitions begin with the two events in both orders, or
with one event and room for more: that is enough for a duplicate in another
partition, a redelivery in the same one, transfers that upsert two rows in
opposite orders, and a message behind one that is not acknowledged. `Limit` is
small enough that a deposit, or the sum of two events, does not fit the column.

One event is enough for `pipeline` too: what joins the sides is the copies of an
event, which the two workers make; orders of different events are `consumer_group`'s.
(With 2 events, 2 workers that crash and 2 consumers that die, `NothingLost` and
`ProjectsCommitted` hold over 530 thousand states.) It has one consumer,
because two can keep each other from ever moving on: whoever loses an
acknowledgement leaves the group, joins again, and each time the rebalance fails
the acknowledgement of the other. Kafka's session timing makes that unlikely;
nothing in the code excludes it.

Bounds: `Last` (a request does not stamp beyond it), `MaxCopies` (copies are
counted up to it: 1 where only presence matters, 2 for duplicates, and in
`Pipeline` as many as there can be, `PipelineAssumption`), `MaxLog` (the length
of a partition; in `pipeline` it is never met), `MaxRetries` (2 for the code's 5,
and the bound to which `fails` is counted), `BatchSize` (1 or 2 for 100; the runs
have more events than one batch), `PoolSize` (2 for 15, fewer than the requests),
`PageSize` (1, so that every page ends where rows can move).

Deadlock is checked in every run but the consumers', whose processes may all be
down with nothing left to do.

*Fairness.* `LedgerService!FairSpec` has weak fairness of each request's steps:
asyncio runs every ready task, PostgreSQL answers every statement that can
proceed, and its deadlock timeout breaks every cycle; `FairPoolSpec` adds that a
free connection goes to who asks, and assumes nothing of the pool's timeout.
`OutboxWorker!FairSpec` has weak fairness of the steps of each worker, which
polls for ever, and of time. It assumes that one worker lives on: in a deployment
where the last worker has ended, nothing starts another and no event settles.
`Pipeline!FairSpec` adds the consumers' steps, that a consumer which ended is
started again (the code ends the process and leaves this to its supervisor), and
that their calls do not fail for ever.

### Disagreements found

Each is a run that TLC finds violated; `PROJECT.json` quotes the lines.

| Run | Property | What happens |
|---|---|---|
| `ledger_cache_stale` | `CacheFresh` | a balance request fills the cache with the sum from before a movement, after the movement has deleted it; there is no expiry |
| `ledger_dup_refused` | `DuplicateNotRefused` | a copy of a transfer that passes the fast check too early is refused for insufficient funds, spent by its own first copy |
| `ledger_zero_entry` | `NoZeroEntry` | no migration creates the CHECK constraint of the model, and a deposit below half a cent is posted as two zero entries |
| `pipeline_transfer` | `CatchesUp` | the ledger names the accounts of a `TRANSFER_POSTED` payload `from_account_id` and `to_account_id`, the projection reads `source_account_id` and `destination_account_id`: every transfer ends the consumer, after each restart again, and what lies behind it is never applied |

`consumer_group` therefore has `TransferKeys` as the projection reads them: it
shows what holds of the rest of the code, transfers included. `pipeline` has the
ledger's keys and a deposit, the code as it is.

Two things the outbox does that are not counted among these, because delivery
at least once is its design and the consumer is to remove duplicates: with
`"slow"` among the faults an event can be sent twice, since the claims of a
batch go stale together while it is sent one by one; and the mark at
`app/outbox/worker.py`, 156-168, makes an event PUBLISHED from whatever status
it has by then, PENDING among them.

## 4. What is proved

`LedgerServiceProofs`, for any accounts, requests, keys, workload, tables with
user balances not below zero, and faults (`LedgerAssumption`,
`WorkloadAssumption`):

* `TypeCorrect`: `Spec => []TypeOK`.
* `Solvent`: `Spec => []NoOverdraft`. The invariant alone is not inductive: a
  COMMIT subtracts an amount checked four statements earlier. `OverdraftInv`
  adds that the rows a handler locked are still its own (`LocksHeld`), that no
  stamp is in the future (`StampsPast`), so that every cut from now on equals
  the balance (`CutsSettled`), and that the balance checked still covers the
  debit at every cut that will count it (`Funded`). Another handler's COMMIT
  can lower an account only while it holds that account's row, which it cannot.
* `KeysSpentOnce`: `Spec => []OneTransactionPerKey`, with `KeysUnique`, which
  counts the rows inserted and not yet committed.
* `TruthfulReplies`: `Spec => []RepliesTruthful`, with `CommitsOnce`: past its
  COMMIT a handler only invalidates and confirms.

`OutboxWorkerProofs`, for any events, finite set of workers, batch size, number
of retries and faults (`OutboxAssumption`):

* `TypeCorrect`: `Spec => []TypeOK`.
* `PublishedOnlyIfSent`: `Spec => []PublishedWasSent`, with `SentBeforeMark`: the
  event in the hand of a worker past its acknowledgement is in the topic, and
  no other step changes what is in its hand.
* `GivenUpLate`: `Spec => []GivesUpLate`, with `RetriesAccounted`: a stored
  `retry_count`, or one a worker has read and may write back over others,
  plus the number of workers whose raise is not yet written is at most the
  number of sends that raised. A raise adds one to both sides; a mark moves one
  from the workers to the count; an overwritten count only falls behind.

* `SentBeforeMarked`, `RetriesCounted`: the two inductive invariants themselves.

`OutboxClaimsProofs`, for workers that are neither slow nor die
(`Faults \cap {"slow", "crash"} = {}` is a hypothesis of each theorem):

* `ClaimsAreExclusive`: `ClaimsExclusive` ties the table to the workers: a row is
  PROCESSING exactly while its claim is fresh and it is in one worker's batch; a
  row locked for a claim is PENDING; batches and locks of different workers are
  apart. SKIP LOCKED keeps a SELECT off the rows of another's open claim, and the
  status keeps it off the rows claimed.
* `NoneStranded`: `ClaimsHandled` follows, so that no shutdown leaves a claim.
* `CopiedOnce`, `NeverSentTwice`: if no acknowledgement is lost either, an event
  with a copy has one, and is PUBLISHED or in the hand of the worker that sent it
  (`SentOnce`). A worker about to send holds a PROCESSING row alone, so that its
  event has no copy.

`ConsumerProofs`, for any events, transactions, consumers, partitions, initial
contents of the topic, column width and faults, where a transfer is between
different accounts, as `create_transfer` makes sure (`ConsumerAssumption`); deposits
and withdrawals may name any account:

* `TypeCorrect`: no committed offset is beyond the end of its partition.
* `AcknowledgedAreApplied`: `AckedApplied` alone is not inductive, since an
  acknowledgement stores a position. `AckInv` (`HandedInOrder`) adds that every
  message the owner has been handed is applied or is the one in its hand
  (`PassedApplied`), unless the owner is dead, and that a message in a hand, be it
  of an owner or of one who lost the partition, has only applied ones before it
  (`HandFollowsApplied`). An acknowledgement that comes late, from a consumer that
  has been given its partition again, may move the offset back, never too far.
* `RegisteredAlone`, `AppliedOnce`: `Spec => PromiseSpec`. A COMMIT maps to `Apply`
  because the event of an open transaction is not in `processed_events`
  (`RegisteredOnce`) and the upserts add up to the entries on every user's account
  (`UpsertsProject`); a send maps to `Send`, every other step to a stutter.

Further in `LedgerServiceProofs`: the inductive invariants as theorems
(`FundsHeld`, `KeysHeldOnce`, `CommittedOnce`), and

* `NoLockOutlives`: `Spec => []LocksOwned`. A handler owns a row only from the
  statement that locks it to the end of its transaction, a foreign-key lock only
  from its entry to its COMMIT.
* `UsersNeverDeadlock`: if no withdrawal or transfer names SYSTEM_CASH
  (`UserRequest`; a deposit locks no row), `Spec => []NoWaitCycle`. Every request
  has a rank: the stage it has reached (no row, its first row, all its rows, past
  the insert with its key), and among those that wait for a second row the id of
  the row they hold, since transfers lock in account order. A request only waits
  for requests of a higher rank (`BlockersAhead`), so that the ones ahead of it are
  a set which holds its blockers and theirs but not itself. Foreign-key locks on
  SYSTEM_CASH, which all deposits and withdrawals share, block nobody because
  nobody asks for its row.

`SumProofs`: `SumOver` of a finite set is the sum over the rest plus the value of
any of its members, so that sums are equal, add and split as expected. The
library's induction theorems take an operator as a parameter, so the induction is
spelled out once: the subsets of a finite set are well-founded under strict
inclusion.

`LedgerRefinementProofs`, under the same assumptions:

* `DoubleEntry`: `Spec => []MoneyConserved`. The entries of one request cancel
  over any set of accounts that holds both, rounded as they are (`EntriesCancel`).
* `PostsAsChecked`: `Spec => []AtomicInv`. A ledger cell is the sum of the posted
  entries stamped by then (`LedgerIsSum`); what is read or cached is such a sum
  (`ReadsPosted`); the accounts of a handler between its checks and its COMMIT are
  what it found them to be (`Accepted`), since no code changes an account; and the
  amount asked for, before rounding, is still covered (`Covered`). The last holds
  of SYSTEM_CASH too, which every deposit debits without locking its row: the
  foreign-key lock of the deposit's entry excludes the FOR UPDATE lock of a
  transfer that has checked SYSTEM_CASH, and lasts until the COMMIT
  (`LocksExclude`).
* `ImplementsAtomicLedger`: `Spec => AtomicSpec`. The COMMIT is `Post`, and
  `AtomicInv` with `KeysUnique` is why it may post then; an answer is `Confirm`,
  `Refuse`, `Show` or `Fail`, true of what is posted when it is given; a created
  account is `OpenAccount`; every other statement is a stutter.
* `PoolImplementsService`: with `"die"` among the faults, `PoolSpec => Spec`: a
  timeout of the pool is a failure at the statement that waits for a connection.
  `PooledLedger` lists what follows for sessions on a pool of any size.

`LedgerReadsProofs`:

* `PastIsSettled`: `HistorySpec => []HistorySettled`. Later commits change only the
  cuts from their stamp on; a stamp is given later than every moment that was quiet
  before it, because a transaction in flight is what makes a moment not quiet.
* `PagingComplete`: `PagingSpec => []NothingSkipped`, for any account and page size.
  A transaction's last row in the list stands at the number of rows that are not
  older (`Places`). A COMMIT, under however early a stamp, only adds rows and so
  only moves it down; hence a transaction posted before the first page is, at any
  later time, shown already or has its last row below the offset the client asks
  for next. Stamps are distinct. Two rows of one transaction, in whichever order
  and on whichever pages, are covered.

Further in `OutboxWorkerProofs`, `CommittedBeforeSent`: an event that is claimed, in a batch
or sent belongs to a committed ledger transaction, and stays so; in
`ConsumerProofs`, `ProjectionSums`: the projection of a user's account is the sum,
over `processed_events`, of what the transaction of each event posted to it.

`PipelineProofs`, for any workers, consumers, partitions and faults of both sides,
slow workers included (`SidesAssumption`; the bounds of `PipelineAssumption`, which
only the liveness run needs, are not used):

* `ImplementsSides`: `Spec => Outbox!Spec /\ Group!Spec`. A step of one side is a
  stutter of the other, except a send, which is a step of both. Every safety
  theorem about either side therefore holds of the two together.
* `NoEventLost`: `Spec => []NothingLost`. A PUBLISHED event has a copy
  (`PublishedWasSent`); every copy the workers count is in a partition, which
  nothing is removed from; and what is at or before the committed offset has been
  applied (`AckedApplied`). No theorem of one side alone says this.
* `OnlyCommitted`: `Spec => []ProjectsCommitted`. What is applied is in the topic,
  what is in the topic was sent, and what was sent was committed
  (`CommittedBeforeSent`); the sum is that of `ProjectionSums`, with the upserts of
  an event equal to the entries of its transaction on users' accounts.

Every invariant and every refinement that a passing run checks is thus a theorem.
Only model-checked: liveness (`AllAnswered`, `EventsSettle`, `StopsInTheEnd`,
`CatchesUp`), which is out of the prover's reach. `NoZeroEntry` has no theorem and
no passing run: the constraint it needs is in the model class and in no migration.

## 5. What is not modelled, and the plan

* The text of amounts in the request hash: 100 and 100.00 hash differently, and
  no document says that they are one request. The overflow of `Numeric(20, 2)`, which no
  instance small enough to check can tell from an amount that fits.
* Clocks that differ between processes, tie or step back (see `Stamp` in section
  2). The time-cut part of `NoOverdraft`, `HistorySettled` and `NothingSkipped` lean
  on the one clock; current balances, keys and locks do
  not. With skewed clocks a balance at a past moment can be below zero although
  the account never was.
* `HistorySettled` is about moments with nothing in flight. A COMMIT that comes
  late under an early stamp does change the balance at a moment already asked
  about; no document promises otherwise.
* A client that sends a deposit or withdrawal again because its answer was lost
  posts it twice: only transfers carry an `Idempotency-Key`. `README.md`, line 25,
  says that "money cannot be accidentally created, duplicated, or lost even when
  requests arrive concurrently or infrastructure components fail". The model has
  single HTTP requests, and nothing by which two deposits would be one.
* An event given up without a delivered send never reaches the projection; nothing
  retries it, and nothing compares the projection with the ledger. The projection
  of SYSTEM_CASH is not its balance in the ledger and no property speaks of it.
* The outbox worker's and the consumers' use of the connection pool, and the
  Redis client's.
* A message that can never be applied (`consumer.py`, 127-140) stops its
  partition for good. `consumer_group` has such messages and shows that what is
  promised still holds; there is no promise that it ends.
* Left out for good: migrations, metrics, the health endpoint, load tests,
  logging, field formatting (among it the currency `"INR"` that the balance
  endpoint writes whatever the account's is), `updated_at` of the projection.
* Assumed: SYSTEM_CASH is not compared by currency, as in the code.

What the plan has left, most important first:

1. The consumers' group with a bound on rebalances, for liveness with two of them.
2. `Pipeline` behind `LedgerService`: its `Create` is the COMMIT of a request that
   `AtomicLedger` may post.

## 6. Running

`tlc -config <run>.cfg <module>` with the modules `PROJECT.json` names for each
run; `tlapm <module>.tla` checks the proofs of `SumProofs`, `LedgerServiceProofs`,
`LedgerRefinementProofs`, `LedgerReadsProofs`, `OutboxWorkerProofs`,
`OutboxClaimsProofs`, `ConsumerProofs` and `PipelineProofs`. Operators whose comment begins "Mutant of" are not used by the
models: each is a definition with a plausible bug in it, and `PROJECT.json` says
which property of which run finds it.
