---------------------------- MODULE OutboxWorker -----------------------------
(***************************************************************************)
(* The outbox workers (app/outbox/worker.py, app/outbox/service.py): every *)
(* process of the application runs one over the same outbox_events table   *)
(* and the same Kafka topic.  A step is what a worker does between two     *)
(* awaits that other workers can overtake.                                 *)
(*                                                                         *)
(* Time is abstract: a claim is fresh until CLAIM_TIMEOUT_SECONDS have     *)
(* passed, a retry is later until its delay has, and either may happen     *)
(* between any two steps, in any order over the events.                    *)
(*                                                                         *)
(* Kafka and PostgreSQL are external: a send is acknowledged, refused, or  *)
(* delivered and then reported as failed; FOR UPDATE SKIP LOCKED passes    *)
(* over the rows of another open transaction; an UPDATE waits for it.      *)
(***************************************************************************)
EXTENDS Integers, FiniteSets

CONSTANTS
  Event,       \* outbox events: numbers, in the order of created_at
  Worker,      \* worker processes
  BatchSize,   \* LIMIT of the two SELECTs
  MaxRetries,  \* MAX_RETRIES
  MaxCopies,   \* copies of an event are counted up to this bound
  Faults       \* subset of {"slow", "refused", "ack_lost", "stop", "crash"}

ASSUME OutboxAssumption ==
  /\ Event \subseteq Nat /\ IsFiniteSet(Event) /\ IsFiniteSet(Worker)
  /\ BatchSize \in Nat \ {0} /\ MaxRetries \in Nat \ {0} /\ MaxCopies \in Nat \ {0}
  /\ Faults \subseteq {"slow", "refused", "ack_lost", "stop", "crash"}

VARIABLES
  row,     \* the outbox_events table
  running, \* _running of each worker
  pc,      \* where each worker is
  locked,  \* rows a worker has selected FOR UPDATE and not yet committed
  batch,   \* events a worker has claimed and not yet dealt with
  got,     \* the row a worker read to mark it
  copies,  \* copies of each event in the Kafka topic
  fails    \* sends of each event that raised

sessions == <<pc, locked, batch, got>>
kafka == <<copies, fails>>
vars == <<row, sessions, kafka, running>>

Statuses == {"ABSENT", "PENDING", "PROCESSING", "PUBLISHED", "FAILED"}

Row == [status : Statuses,
        retries : Nat,                          \* retry_count
        retryAt : {"null", "later", "due"},     \* next_retry_at
        claimed : {"null", "fresh", "stale"}]   \* claimed_at

Steps == {"starting", "recover", "recovering", "claim", "claiming",
          "send", "sent", "publishing", "raised", "failing", "down"}

\* Steps at which a worker has an event in hand.
Handling == {"send", "sent", "publishing", "raised", "failing"}

\* Shapes of the state, and no worker handles an empty batch.
TypeOK ==
  /\ row \in [Event -> Row]
  /\ running \in [Worker -> BOOLEAN]
  /\ pc \in [Worker -> Steps]
  /\ locked \in [Worker -> SUBSET Event]
  /\ batch \in [Worker -> SUBSET Event]
  /\ got \in [Worker -> Row]
  /\ copies \in [Event -> 0..MaxCopies]
  /\ fails \in [Event -> 0..MaxRetries]
  /\ \A w \in Worker : pc[w] \in Handling => batch[w] # {}

-----------------------------------------------------------------------------
(* Queries *)

Least(m, n) == IF m < n THEN m ELSE n

\* ORDER BY created_at LIMIT BatchSize
Oldest(S) == {e \in S : Cardinality({f \in S : f < e}) < BatchSize}

\* FOR UPDATE SKIP LOCKED: rows no other transaction has locked.
Free(w, e) == \A v \in Worker \ {w} : e \notin locked[v]

\* Mutant of Stale: events of dead workers are not looked for.
NoneStale(w) == {}

\* WHERE of recover_stale_events
Stale(w) == {e \in Event : /\ row[e].status = "PROCESSING"
                           /\ row[e].claimed = "stale"
                           /\ Free(w, e)}

\* Mutant of Claimable: the SELECT does not lock.
ClaimableUnlocked(w) == {e \in Event : /\ row[e].status = "PENDING"
                                       /\ row[e].retryAt # "later"}

\* WHERE of claim_pending_events
Claimable(w) == {e \in Event : /\ row[e].status = "PENDING"
                               /\ row[e].retryAt # "later"
                               /\ Free(w, e)}

\* The event a worker has in hand: the oldest left of its batch.
Current(w) == CHOOSE e \in batch[w] : \A f \in batch[w] : e <= f

Goto(w, step) == pc' = [pc EXCEPT ![w] = step]

-----------------------------------------------------------------------------
(* run, and process_batch, steps 0 and 1 *)

Idle == UNCHANGED <<row, locked, batch, got, kafka, running>>

\* The task that startup() created connects the producer.
StartProducer(w) == pc[w] = "starting" /\ Goto(w, "recover") /\ Idle

\* while self._running: the worker was told to stop, and its task ends.
Exit(w) == pc[w] = "recover" /\ ~running[w] /\ Goto(w, "down") /\ Idle

\* Mutant of Recover: while True.
RecoverForever(w) ==
  /\ pc[w] = "recover"
  /\ \E S \in SUBSET Stale(w) :
       /\ Cardinality(S) = Least(BatchSize, Cardinality(Stale(w)))
       /\ locked' = [locked EXCEPT ![w] = S]
  /\ Goto(w, "recovering")
  /\ UNCHANGED <<row, batch, got, kafka, running>>

\* recover_stale_events: the SELECT, oldest claims first ...
Recover(w) ==
  /\ pc[w] = "recover" /\ running[w]
  /\ \E S \in SUBSET Stale(w) :
       /\ Cardinality(S) = Least(BatchSize, Cardinality(Stale(w)))
       /\ locked' = [locked EXCEPT ![w] = S]
  /\ Goto(w, "recovering")
  /\ UNCHANGED <<row, batch, got, kafka, running>>

\* Mutant of CommitRecovery: to be abandoned counts as a retry.
RecoveryCounts(w) ==
  /\ pc[w] = "recovering"
  /\ row' = [e \in Event |->
               IF e \in locked[w]
               THEN [row[e] EXCEPT !.status = "PENDING", !.claimed = "null",
                                   !.retries = Least(@ + 1, MaxRetries)]
               ELSE row[e]]
  /\ locked' = [locked EXCEPT ![w] = {}]
  /\ Goto(w, "claim")
  /\ UNCHANGED <<batch, got, kafka, running>>

\* ... and the COMMIT: PROCESSING -> PENDING.
CommitRecovery(w) ==
  /\ pc[w] = "recovering"
  /\ row' = [e \in Event |->
               IF e \in locked[w]
               THEN [row[e] EXCEPT !.status = "PENDING", !.claimed = "null"]
               ELSE row[e]]
  /\ locked' = [locked EXCEPT ![w] = {}]
  /\ Goto(w, "claim")
  /\ UNCHANGED <<batch, got, kafka, running>>

\* claim_pending_events: the SELECT ...
Claim(w) ==
  /\ pc[w] = "claim"
  /\ locked' = [locked EXCEPT ![w] = Oldest(Claimable(w))]
  /\ Goto(w, "claiming")
  /\ UNCHANGED <<row, batch, got, kafka, running>>

\* ... and the COMMIT: PENDING -> PROCESSING.  An empty batch ends the round.
CommitClaim(w) ==
  /\ pc[w] = "claiming"
  /\ row' = [e \in Event |->
               IF e \in locked[w]
               THEN [row[e] EXCEPT !.status = "PROCESSING", !.claimed = "fresh"]
               ELSE row[e]]
  /\ batch' = [batch EXCEPT ![w] = locked[w]]
  /\ locked' = [locked EXCEPT ![w] = {}]
  /\ Goto(w, IF locked[w] = {} THEN "recover" ELSE "send")
  /\ UNCHANGED <<got, kafka, running>>

-----------------------------------------------------------------------------
(* process_batch, step 2 *)

Deliver(e) == copies' = [copies EXCEPT ![e] = Least(@ + 1, MaxCopies)]
Raise(e) == fails' = [fails EXCEPT ![e] = Least(@ + 1, MaxRetries)]

\* Mutant of Send: the producer does not wait for the broker's answer.
SendAndForget(w) ==
  /\ pc[w] = "send"
  /\ Goto(w, "sent")
  /\ Deliver(Current(w)) \/ ("refused" \in Faults /\ UNCHANGED copies)
  /\ UNCHANGED <<row, locked, batch, got, fails, running>>

\* producer.send: acknowledged; refused; or delivered and reported as failed.
Send(w) ==
  /\ pc[w] = "send"
  /\ \/ Deliver(Current(w)) /\ Goto(w, "sent") /\ UNCHANGED fails
     \/ /\ "refused" \in Faults
        /\ Raise(Current(w)) /\ Goto(w, "raised") /\ UNCHANGED copies
     \/ /\ "ack_lost" \in Faults
        /\ Deliver(Current(w)) /\ Raise(Current(w)) /\ Goto(w, "raised")
  /\ UNCHANGED <<row, locked, batch, got, running>>

\* db.get of the event, in a new session: no lock, and no look at its status.
Get(w) ==
  /\ \/ pc[w] = "sent" /\ Goto(w, "publishing")
     \/ pc[w] = "raised" /\ Goto(w, "failing")
  /\ got' = [got EXCEPT ![w] = row[Current(w)]]
  /\ UNCHANGED <<row, locked, batch, kafka, running>>

\* The session writes an attribute only if it differs from what was read.
Written(new, read, stored) == IF new = read THEN stored ELSE new

\* Mutant of NextEvent: the loop does not end with the batch.
SendForever(w) == batch' = [batch EXCEPT ![w] = @ \ {Current(w)}] /\ Goto(w, "send")

\* Mutant of NextEvent: a worker told to stop leaves its batch.
LeaveBatch(w) ==
  /\ batch' = [batch EXCEPT ![w] = IF running[w] THEN @ \ {Current(w)} ELSE {}]
  /\ Goto(w, IF batch[w] = {Current(w)} \/ ~running[w] THEN "recover" ELSE "send")

\* The rest of the batch, or the next round.
NextEvent(w) ==
  /\ batch' = [batch EXCEPT ![w] = @ \ {Current(w)}]
  /\ Goto(w, IF batch[w] = {Current(w)} THEN "recover" ELSE "send")

\* mark_published: row x when the session read y.
Published(x, y) ==
  [x EXCEPT !.status = Written("PUBLISHED", y.status, @),
            !.retryAt = Written("null", y.retryAt, @),
            !.claimed = Written("null", y.claimed, @)]

\* COMMIT, on top of whatever the row holds by now.
MarkPublished(w) ==
  /\ pc[w] = "publishing"
  /\ Free(w, Current(w))
  /\ row' = [row EXCEPT ![Current(w)] = Published(@, got[w])]
  /\ NextEvent(w)
  /\ UNCHANGED <<locked, got, kafka, running>>

\* Mutant of GivesUp: one retry less.
GivesUpEarly(n) == n + 1 >= MaxRetries

\* mark_failed: the event is not to be tried again.
GivesUp(n) == n >= MaxRetries

\* mark_failed: row x when the session read y.  A new next_retry_at always
\* differs from the old.
Failed(x, y) ==
  LET retries == y.retries + 1
      status == IF GivesUp(retries) THEN "FAILED" ELSE "PENDING"
  IN  [x EXCEPT !.status = Written(status, y.status, @),
                !.retries = retries,
                !.retryAt = IF GivesUp(retries) THEN Written("null", y.retryAt, @)
                                                ELSE "later",
                !.claimed = Written("null", y.claimed, @)]

MarkFailed(w) ==
  /\ pc[w] = "failing"
  /\ Free(w, Current(w))
  /\ row' = [row EXCEPT ![Current(w)] = Failed(@, got[w])]
  /\ NextEvent(w)
  /\ UNCHANGED <<locked, got, kafka, running>>

-----------------------------------------------------------------------------
(* Around the workers *)

\* A ledger transaction commits its event; commits need not come in the order
\* of created_at.
Create(e) ==
  /\ row[e].status = "ABSENT"
  /\ row' = [row EXCEPT ![e].status = "PENDING"]
  /\ UNCHANGED <<sessions, kafka, running>>

\* The delay of a retry passes.
RetryDue(e) ==
  /\ row[e].retryAt = "later"
  /\ row' = [row EXCEPT ![e].retryAt = "due"]
  /\ UNCHANGED <<sessions, kafka, running>>

\* The claim timeout passes; while its worker still handles the event only if
\* workers may be that slow.
ClaimAges(e) ==
  /\ row[e].claimed = "fresh"
  /\ "slow" \in Faults \/ \A w \in Worker : e \notin batch[w]
  /\ row' = [row EXCEPT ![e].claimed = "stale"]
  /\ UNCHANGED <<sessions, kafka, running>>

\* One worker is left running.
Spared(w) == \E v \in Worker \ {w} : pc[v] # "down" /\ running[v]

\* shutdown() of a process: stop() only lowers the flag.
Stop(w) ==
  /\ "stop" \in Faults
  /\ running[w] /\ pc[w] # "down" /\ Spared(w)
  /\ running' = [running EXCEPT ![w] = FALSE]
  /\ UNCHANGED <<row, sessions, kafka>>

\* A worker dies with its process, or leaves run() by an exception (of
\* producer.start() too): nothing starts it again.  Its open transaction is
\* rolled back, its claims stay.
Crash(w) ==
  /\ "crash" \in Faults
  /\ pc[w] # "down" /\ Spared(w)
  /\ Goto(w, "down")
  /\ locked' = [locked EXCEPT ![w] = {}]
  /\ batch' = [batch EXCEPT ![w] = {}]
  /\ UNCHANGED <<row, got, kafka, running>>

-----------------------------------------------------------------------------

NewRow == [status |-> "ABSENT", retries |-> 0, retryAt |-> "null", claimed |-> "null"]

Init ==
  /\ row = [e \in Event |-> NewRow]
  /\ running = [w \in Worker |-> TRUE]
  /\ pc = [w \in Worker |-> "starting"]
  /\ locked = [w \in Worker |-> {}]
  /\ batch = [w \in Worker |-> {}]
  /\ got = [w \in Worker |-> NewRow]
  /\ copies = [e \in Event |-> 0]
  /\ fails = [e \in Event |-> 0]

Work(w) == \/ Recover(w) \/ CommitRecovery(w) \/ Claim(w) \/ CommitClaim(w)
           \/ Send(w) \/ Get(w) \/ MarkPublished(w) \/ MarkFailed(w)

Run(w) == StartProducer(w) \/ Work(w) \/ Exit(w)

Passing(e) == RetryDue(e) \/ ClaimAges(e)

Next == \/ \E w \in Worker : Run(w) \/ Stop(w) \/ Crash(w)
        \/ \E e \in Event : Create(e) \/ Passing(e)

Spec == Init /\ [][Next]_vars

\* A worker that is not down keeps polling, and time passes.
FairSpec == /\ Spec
            /\ \A w \in Worker : WF_vars(Run(w))
            /\ \A e \in Event : WF_vars(Passing(e))

-----------------------------------------------------------------------------
(* Properties *)

\* An event is marked published only when it is in the topic, whatever
\* timeouts, races between marks and crashes there were.
PublishedWasSent == \A e \in Event : row[e].status = "PUBLISHED" => copies[e] > 0

\* The worker gives an event up only after MAX_RETRIES sends have raised,
\* though two workers may read the same retry_count and one overwrite the
\* other's.
GivesUpLate == \A e \in Event : row[e].status = "FAILED" => fails[e] = MaxRetries

\* No event is sent twice by workers that are never slower than the claim
\* timeout, with a broker that loses no acknowledgement: what SKIP LOCKED and
\* the PROCESSING status are for.
NotSentTwice == \A e \in Event : copies[e] < 2

\* A stopped worker strands no event: among workers that are never slower than
\* the claim timeout and do not die, a claimed event is in the batch of a worker,
\* which empties its batch before it looks at _running.
ClaimsHandled ==
  \A e \in Event : row[e].status = "PROCESSING" => \E w \in Worker : e \in batch[w]

\* shutdown() ends: it awaits the task of the worker it has told to stop, which
\* reads the flag between two batches only.
StopsInTheEnd == \A w \in Worker : ~running[w] ~> pc[w] = "down"

\* As long as one worker lives, every event is settled in the end: published
\* or given up, and no late mark by a slow worker unsettles it again.
Settled(e) == row[e].status \in {"PUBLISHED", "FAILED"}
EventsSettle == \A e \in Event : (row[e].status # "ABSENT") ~> []Settled(e)

=============================================================================
