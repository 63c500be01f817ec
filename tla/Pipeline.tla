------------------------------ MODULE Pipeline -------------------------------
(***************************************************************************)
(* From the outbox to the projection: the workers of OutboxWorker and the  *)
(* consumer group of Consumer, joined by the topic.  A ledger transaction  *)
(* commits its event (Create), a worker's delivered send appends it to a   *)
(* partition, and the group applies it.  Every other step of one side      *)
(* leaves the other alone.                                                 *)
(***************************************************************************)
EXTENDS LedgerEvents, FiniteSets, FiniteSetsExt

CONSTANTS
  Event, Worker, BatchSize, MaxRetries, MaxCopies, WorkerFaults,
  Consumer, NoOne, Partition, Workload, Limit, Logs, MaxLog, ConsumerFaults

\* What both sides assume; the topic is empty at first.
ASSUME SidesAssumption ==
  /\ Event \subseteq Nat /\ IsFiniteSet(Event) /\ IsFiniteSet(Worker)
  /\ BatchSize \in Nat \ {0} /\ MaxRetries \in Nat \ {0} /\ MaxCopies \in Nat \ {0}
  /\ WorkerFaults \subseteq {"slow", "refused", "ack_lost", "stop", "crash"}
  /\ NoOne \notin Consumer /\ Limit \in Nat /\ MaxLog \in Nat
  /\ \A q \in Workload : WellFormed(q) /\ q.op \in Writers
  /\ \A q \in Workload : q.op = "transfer" => q.from # q.to
  /\ ConsumerFaults \subseteq {"die", "rebalance", "ack_lost"}
  /\ Logs = {[p \in Partition |-> <<>>]}

\* A partition has room for every copy of an event there can be: one for every
\* send that raises and for every worker but the last that dies after its send.
ASSUME PipelineAssumption ==
  /\ "slow" \notin WorkerFaults
  /\ MaxCopies >= MaxRetries + Cardinality(Worker) - 1
  /\ MaxLog >= MaxCopies * Cardinality(Event)

VARIABLES
  row, running, workerPc, locked, batch, got, copies, fails,
  body, topic, offset, owner, position, consumerPc, msg, done, processed, projection

workers == <<row, running, workerPc, locked, batch, got, copies, fails>>
consumers == <<body, topic, offset, owner, position, consumerPc, msg, done,
               processed, projection>>
vars == <<workers, consumers>>

Outbox == INSTANCE OutboxWorker WITH pc <- workerPc, Faults <- WorkerFaults
Group == INSTANCE Consumer WITH pc <- consumerPc, Faults <- ConsumerFaults

Init == Outbox!Init /\ Group!Init

\* A worker's step; what its send delivers is appended to a partition.
Forward(w) ==
  /\ Outbox!Run(w)
  /\ \/ copies' = copies /\ UNCHANGED consumers
     \/ copies' # copies /\ \E p \in Partition : Group!Produce(p, Outbox!Current(w))

Create(e) == Outbox!Create(e) /\ UNCHANGED consumers
Passing(e) == Outbox!Passing(e) /\ UNCHANGED consumers
StopWorker(w) == Outbox!Stop(w) /\ UNCHANGED consumers
CrashWorker(w) == Outbox!Crash(w) /\ UNCHANGED consumers

Process(c) == Group!Process(c) /\ UNCHANGED workers
Start(c) == Group!Start(c) /\ UNCHANGED workers
Expire == Group!Rebalance /\ UNCHANGED workers
Die(c) == Group!Die(c) /\ UNCHANGED workers

Next == \/ \E w \in Worker : Forward(w) \/ StopWorker(w) \/ CrashWorker(w)
        \/ \E e \in Event : Create(e) \/ Passing(e)
        \/ \E c \in Consumer : Process(c) \/ Start(c) \/ Die(c)
        \/ Expire

Spec == Init /\ [][Next]_vars

\* The workers and consumers that run make progress, time passes, a consumer
\* that ended is started again (by whoever runs run_consumer.py), and the
\* consumers' calls do not fail for ever.
FairSpec ==
  /\ Spec
  /\ \A w \in Worker : WF_vars(Forward(w))
  /\ \A e \in Event : WF_vars(Passing(e))
  /\ \A c \in Consumer : WF_vars(Process(c)) /\ WF_vars(Start(c))
  /\ <>[][\A c \in Consumer : ~Die(c)]_vars

-----------------------------------------------------------------------------
(* Properties *)

\* Events of committed ledger transactions.
Committed == {e \in Event : row[e].status # "ABSENT"}

\* No event is given up, after MaxRetries sends that raised, without one of them
\* having been delivered.
NoneGivenUp == \A e \in Event : row[e].status = "FAILED" => copies[e] > 0

\* What the transactions of these events posted to account a.
PostedBy(S, a) == SumOver([e \in Event |-> Entry(body[e], a)], S)

\* Nothing is lost on the way: an event marked PUBLISHED has been applied, or is
\* in a partition behind the offset from which the group will go on, whatever
\* sends failed, marks came late, workers died and consumers were rebalanced.
NothingLost ==
  \A e \in Event : row[e].status = "PUBLISHED" =>
    \/ e \in processed
    \/ \E p \in Partition : \E n \in (offset[p] + 1)..Len(topic[p]) : topic[p][n] = e

\* Nothing is invented or counted twice: the projection of a user's account is at
\* any moment what some committed transactions have posted to it, those of the
\* events in processed_events.
ProjectsCommitted ==
  /\ processed \subseteq Committed
  /\ \A a \in Account \ {SystemCash} : projection[a] = PostedBy(processed, a)

\* In the end the projection of every user's account is its balance in the
\* ledger, over refused sends, lost acknowledgements, dead workers, consumers
\* that die at any step and messages delivered again, unless the workers give an
\* event up: a FAILED event of which no send was delivered is not tried again by
\* anyone, and the projection lacks it for good.
CatchesUp ==
  []NoneGivenUp => <>[](\A a \in Account \ {SystemCash} : projection[a] = PostedBy(Committed, a))

=============================================================================
