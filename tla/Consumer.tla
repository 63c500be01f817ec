------------------------------ MODULE Consumer -------------------------------
(***************************************************************************)
(* The consumers of the ledger's topic (app/consumers/): a group of        *)
(* processes that read the partitions, register every event in             *)
(* processed_events and apply it to account_balance_projections in one     *)
(* PostgreSQL transaction, and then commit the offset after the message.   *)
(* A step is one call a consumer awaits, with the code up to the next one. *)
(*                                                                         *)
(* Kafka and PostgreSQL are external.  Kafka: the events of a partition    *)
(* are handed out in order to the partition's owner, from the committed    *)
(* offset whenever the group is rebalanced; a consumer that lost its       *)
(* partition goes on with the message it holds, and its offset commit is   *)
(* refused.  PostgreSQL: an insert waits for an uncommitted row with its   *)
(* key, an upsert for the open transaction that wrote its row, a wait      *)
(* cycle is broken by the abort of one transaction, and a value wider than *)
(* its column is an error.                                                 *)
(***************************************************************************)
EXTENDS LedgerEvents, FiniteSets

CONSTANTS
  Event,      \* events of the outbox: numbers
  Consumer,   \* consumer processes of one group
  NoOne,      \* the owner of a partition nobody reads
  Partition,  \* partitions of the topic
  Workload,   \* requests whose transactions the events stand for
  Limit,      \* the largest value of Numeric(18, 2)
  Logs,       \* possible contents of the topic when the consumers start
  MaxLog,     \* bound of the length of a partition
  Faults      \* subset of {"die", "rebalance", "ack_lost"}

\* create_transfer refuses a transfer from an account to itself; a deposit to the
\* id of SYSTEM_CASH, or a withdrawal from it, is posted like any other.
ASSUME ConsumerAssumption ==
  /\ Event \subseteq Nat /\ NoOne \notin Consumer
  /\ Limit \in Nat /\ MaxLog \in Nat
  /\ \A q \in Workload : WellFormed(q) /\ q.op \in Writers
  /\ \A q \in Workload : q.op = "transfer" => q.from # q.to
  /\ Logs \subseteq [Partition -> Seq(Event)]
  /\ \A log \in Logs, p \in Partition : Len(log[p]) <= MaxLog
  /\ Faults \subseteq {"die", "rebalance", "ack_lost"}

VARIABLES
  body,       \* the transaction of each event
  topic,      \* the log of each partition
  offset,     \* committed offset of each partition: messages acknowledged
  owner,      \* the consumer each partition is assigned to
  position,   \* messages of each partition its owner has been handed
  pc,         \* where each consumer is
  msg,        \* the message a consumer has in hand
  done,       \* upserts its open transaction has made
  processed,  \* processed_events
  projection  \* account_balance_projections

log == <<body, topic>>
group == <<offset, owner, position>>
tables == <<processed, projection>>
vars == <<log, group, pc, msg, done, tables>>

NoMessage == [n |-> 0]
Message == [partition : Partition, n : Nat \ {0}]

\* Steps at which a consumer has a message in hand.
Handling == {"register", "apply", "ack"}

\* Shapes of the state; no offset is beyond the end of its partition, where it
\* would have the next event skipped before it is written.
TypeOK ==
  /\ body \in [Event -> Workload]
  /\ topic \in [Partition -> Seq(Event)]
  /\ owner \in [Partition -> Consumer \cup {NoOne}]
  /\ offset \in [Partition -> Nat] /\ position \in [Partition -> Nat]
  /\ \A p \in Partition : offset[p] <= Len(topic[p]) /\ position[p] <= Len(topic[p])
  /\ pc \in [Consumer -> {"down", "poll"} \cup Handling]
  /\ msg \in [Consumer -> Message \cup {NoMessage}]
  /\ \A c \in Consumer :
       pc[c] \in Handling => msg[c] \in Message /\ msg[c].n <= Len(topic[msg[c].partition])
  /\ done \in [Consumer -> 0..2]
  /\ processed \in SUBSET Event
  /\ projection \in [Account -> Int]

-----------------------------------------------------------------------------

Live == {c \in Consumer : pc[c] # "down"}

\* The event a consumer has in hand, and its upserts.
InHand(c) == topic[msg[c].partition][msg[c].n]
Writes(c) == Upserts(body[InHand(c)])

\* The transaction of c is open and has registered the event in hand.
Registered(c) == pc[c] = "apply"

\* Rows the transaction of c has written, and the one it writes next.
Written(c) == {Writes(c)[i].account : i \in 1..done[c]}
NextWrite(c) == Writes(c)[done[c] + 1]

\* The transactions whose end the next statement of c waits for.
Blockers(c) ==
  {d \in Consumer \ {c} : Registered(d) /\
     \/ pc[c] = "register" /\ InHand(c) = InHand(d)
     \/ /\ pc[c] = "apply" /\ Readable(body[InHand(c)]) /\ done[c] < Len(Writes(c))
        /\ NextWrite(c).account \in Written(d)}

\* c waits for itself: every set of consumers that holds the blockers of c and
\* the blockers of its members holds c too.
WaitsForItself(c) ==
  \A S \in SUBSET Consumer :
    Blockers(c) \subseteq S /\ (\A d \in S : Blockers(d) \subseteq S) => c \in S

Overflows(x) == x > Limit \/ x < -Limit

Goto(c, step) == pc' = [pc EXCEPT ![c] = step]

\* The group is rebalanced over the consumers in S: every owner starts from
\* the committed offsets.
Rebalanced(S, stored) ==
  /\ owner' \in [Partition -> IF S = {} THEN {NoOne} ELSE S]
  /\ offset' = stored
  /\ position' = stored

Dropped(c) ==
  /\ msg' = [msg EXCEPT ![c] = NoMessage]
  /\ done' = [done EXCEPT ![c] = 0]

\* An exception leaves run(): the transaction is rolled back, and the consumer
\* stops and leaves the group.
Ended(c, stored) ==
  /\ Goto(c, "down")
  /\ Dropped(c)
  /\ Rebalanced(Live \ {c}, stored)
  /\ UNCHANGED <<log, tables>>

Raise(c) == Ended(c, offset)

-----------------------------------------------------------------------------
(* The loop of run *)

\* A consumer process is started, or started again, and joins the group.
Start(c) ==
  /\ pc[c] = "down"
  /\ Goto(c, "poll")
  /\ Rebalanced(Live \cup {c}, offset)
  /\ UNCHANGED <<log, msg, done, tables>>

Hand(c, p) ==
  /\ owner[p] = c /\ position[p] < Len(topic[p])
  /\ position' = [position EXCEPT ![p] = @ + 1]
  /\ msg' = [msg EXCEPT ![c] = [partition |-> p, n |-> position[p] + 1]]
  /\ Goto(c, "register")

\* Mutant of Poll: enable_auto_commit, with the offset of what is handed out.
PollAutoCommit(c) ==
  /\ pc[c] = "poll"
  /\ \E p \in Partition : Hand(c, p) /\ offset' = [offset EXCEPT ![p] = position'[p]]
  /\ UNCHANGED <<log, owner, done, tables>>

\* async for message in self.consumer
Poll(c) ==
  /\ pc[c] = "poll"
  /\ \E p \in Partition : Hand(c, p)
  /\ UNCHANGED <<log, offset, owner, done, tables>>

-----------------------------------------------------------------------------
(* process_message *)

\* Mutant of Register: is_event_processed instead of the unique insert.
CheckProcessed(c) ==
  /\ pc[c] = "register"
  /\ Goto(c, IF InHand(c) \in processed THEN "ack" ELSE "apply")
  /\ UNCHANGED <<log, group, msg, done, tables>>

\* Mutant of Register: ON CONFLICT DO NOTHING, and on without asking whether it
\* inserted a row.
RegisterAgain(c) ==
  /\ pc[c] = "register"
  /\ Blockers(c) = {}
  /\ Goto(c, "apply")
  /\ UNCHANGED <<log, group, msg, done, tables>>

\* mark_event_processed: the insert waits for an uncommitted row of the same
\* event; a committed one has the transaction rolled back and the message
\* acknowledged.
Register(c) ==
  /\ pc[c] = "register"
  /\ Blockers(c) = {}
  /\ Goto(c, IF InHand(c) \in processed THEN "ack" ELSE "apply")
  /\ UNCHANGED <<log, group, msg, done, tables>>

\* apply_balance_projection: the next upsert.  A payload without the expected
\* keys raises before the first.
ApplyDelta(c) ==
  /\ pc[c] = "apply" /\ done[c] < Len(Writes(c))
  /\ Blockers(c) = {}
  /\ LET fits == /\ Readable(body[InHand(c)])
                 /\ ~Overflows(NextWrite(c).delta)
                 /\ ~Overflows(projection[NextWrite(c).account] + NextWrite(c).delta)
     IN  \/ ~fits /\ Raise(c)
         \/ /\ fits
            /\ done' = [done EXCEPT ![c] = @ + 1]
            /\ UNCHANGED <<log, group, pc, msg, tables>>

\* db.commit() of the registration and the upserts.
Commit(c) ==
  /\ pc[c] = "apply" /\ done[c] = Len(Writes(c))
  /\ processed' = processed \cup {InHand(c)}
  /\ projection' = [a \in Account |-> projection[a] + DeltaOn(body[InHand(c)], a)]
  /\ done' = [done EXCEPT ![c] = 0]
  /\ Goto(c, "ack")
  /\ UNCHANGED <<log, group, msg>>

\* Mutant of Acknowledged: Kafka offsets count from zero, these do not.
AcknowledgedPlusOne(c) == [offset EXCEPT ![msg[c].partition] = msg[c].n + 1]

\* The committed offsets once message.offset + 1 is stored.
Acknowledged(c) == [offset EXCEPT ![msg[c].partition] = msg[c].n]

\* _commit_message_offset: stored; stored and reported as failed; or refused
\* because the partition is no longer assigned to c.
Ack(c) ==
  /\ pc[c] = "ack"
  /\ \/ /\ owner[msg[c].partition] = c
        /\ offset' = Acknowledged(c)
        /\ Goto(c, "poll")
        /\ Dropped(c)
        /\ UNCHANGED <<log, owner, position, tables>>
     \/ /\ "ack_lost" \in Faults /\ owner[msg[c].partition] = c
        /\ Ended(c, Acknowledged(c))
     \/ owner[msg[c].partition] # c /\ Raise(c)

-----------------------------------------------------------------------------
(* Around the consumers *)

\* PostgreSQL aborts one transaction of a wait cycle.
DeadlockAbort(c) == WaitsForItself(c) /\ Raise(c)

\* A statement or a call to Kafka raises, or the process dies: then the group
\* keeps its member until the session expires.
Die(c) ==
  /\ "die" \in Faults /\ c \in Live
  /\ \/ Raise(c)
     \/ Goto(c, "down") /\ Dropped(c) /\ UNCHANGED <<log, group, tables>>

\* The coordinator drops a member: a dead one, or one whose heartbeats were
\* late, which rejoins before it polls again.
Dead(p) == owner[p] \notin Live \cup {NoOne}
Rebalance ==
  /\ (\E p \in Partition : Dead(p)) \/ "rebalance" \in Faults
  /\ Rebalanced(Live, offset)
  /\ UNCHANGED <<log, pc, msg, done, tables>>

\* An outbox worker's send, to a partition of the producer's choice.
Produce(p, e) ==
  /\ Len(topic[p]) < MaxLog
  /\ topic' = [topic EXCEPT ![p] = Append(@, e)]
  /\ UNCHANGED <<body, group, pc, msg, done, tables>>

-----------------------------------------------------------------------------

Init ==
  /\ body \in [Event -> Workload]
  /\ topic \in Logs
  /\ offset = [p \in Partition |-> 0]
  /\ owner = [p \in Partition |-> NoOne]
  /\ position = [p \in Partition |-> 0]
  /\ pc = [c \in Consumer |-> "down"]
  /\ msg = [c \in Consumer |-> NoMessage]
  /\ done = [c \in Consumer |-> 0]
  /\ processed = {}
  /\ projection = [a \in Account |-> 0]

Process(c) == \/ Poll(c) \/ Register(c) \/ ApplyDelta(c) \/ Commit(c) \/ Ack(c)
              \/ DeadlockAbort(c)

Next == \/ \E c \in Consumer : Start(c) \/ Process(c) \/ Die(c)
        \/ Rebalance
        \/ \E p \in Partition, e \in Event : Produce(p, e)

Spec == Init /\ [][Next]_vars

-----------------------------------------------------------------------------
(* Properties *)

\* A message is acknowledged only when its event has been applied, whatever
\* rebalances, crashes and late commits there were: a restarted consumer that
\* starts from the committed offset misses nothing.
AckedApplied ==
  \A p \in Partition : \A n \in 1..offset[p] : topic[p][n] \in processed

\* Why: a message that has been passed over is applied or in the hand of the
\* owner, until the owner dies; and one at hand comes after applied ones only.
PassedApplied ==
  \A p \in Partition : Dead(p) \/ \A n \in 1..position[p] :
    \/ topic[p][n] \in processed
    \/ \E c \in Consumer : owner[p] = c /\ pc[c] \in Handling
                             /\ msg[c] = [partition |-> p, n |-> n]

HandFollowsApplied ==
  \A c \in Consumer : pc[c] \in Handling =>
    /\ \A n \in 1..(msg[c].n - 1) : topic[msg[c].partition][n] \in processed
    /\ pc[c] = "ack" => InHand(c) \in processed

\* The inductive invariant behind AckedApplied.
AckInv == AckedApplied /\ PassedApplied /\ HandFollowsApplied

\* The event of an open transaction has not been applied, and no two open
\* transactions have registered the same: the unique key of processed_events.
RegisteredOnce ==
  \A c \in Consumer : Registered(c) =>
    /\ InHand(c) \notin processed
    /\ \A d \in Consumer \ {c} : Registered(d) => InHand(d) # InHand(c)

\* The group implements BalanceProjection (PromiseSpec): however often and by whomever a
\* message is delivered, its event is applied once, by one transaction, and adds
\* to users' accounts what its transaction added to them in the ledger.
InTopic == {e \in Event : \E p \in Partition : \E n \in 1..Len(topic[p]) : topic[p][n] = e}

UserProjections == [a \in Account \ {SystemCash} |-> projection[a]]

Promise == INSTANCE BalanceProjection WITH
  sent <- InTopic,
  applied <- processed,
  balance <- UserProjections

PromiseSpec == Promise!Spec

\* What follows for the projection of a user's account: it is what the
\* transactions of processed_events posted to the account, each counted once.
ProjectionIsSum ==
  /\ IsFiniteSet(processed) /\ processed \subseteq InTopic
  /\ \A a \in Account \ {SystemCash} :
       projection[a] = SumOver([e \in Event |-> Entry(body[e], a)], processed)

=============================================================================
