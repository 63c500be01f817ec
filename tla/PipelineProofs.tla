--------------------------- MODULE PipelineProofs ----------------------------
(***************************************************************************)
(* Theorems about Pipeline: each side behaves as it does alone, so that    *)
(* its theorems hold of the whole, and what follows from both together.    *)
(***************************************************************************)
EXTENDS Pipeline, TLAPS

\* The sides with their theorems.
OutboxSide == INSTANCE OutboxWorkerProofs WITH pc <- workerPc, Faults <- WorkerFaults
GroupSide == INSTANCE ConsumerProofs WITH pc <- consumerPc, Faults <- ConsumerFaults

-----------------------------------------------------------------------------
(* The sides with their theorems are the sides of Pipeline: a definition and *)
(* its namesake of the other instance are one formula when expanded          *)

LEMMA SameWorkerSteps ==
  ASSUME NEW w \in Worker
  PROVE  /\ Outbox!StartProducer(w) = OutboxSide!StartProducer(w)
         /\ Outbox!Exit(w) = OutboxSide!Exit(w)
         /\ Outbox!Recover(w) = OutboxSide!Recover(w)
         /\ Outbox!CommitRecovery(w) = OutboxSide!CommitRecovery(w)
         /\ Outbox!Claim(w) = OutboxSide!Claim(w)
         /\ Outbox!CommitClaim(w) = OutboxSide!CommitClaim(w)
         /\ Outbox!Send(w) = OutboxSide!Send(w)
         /\ Outbox!Get(w) = OutboxSide!Get(w)
         /\ Outbox!MarkPublished(w) = OutboxSide!MarkPublished(w)
         /\ Outbox!MarkFailed(w) = OutboxSide!MarkFailed(w)
         /\ Outbox!Stop(w) = OutboxSide!Stop(w)
         /\ Outbox!Crash(w) = OutboxSide!Crash(w)
<1>1. Outbox!StartProducer(w) = OutboxSide!StartProducer(w)
  BY DEF Outbox!StartProducer, OutboxSide!StartProducer, Outbox!Goto, OutboxSide!Goto,
         Outbox!Idle, OutboxSide!Idle, Outbox!kafka, OutboxSide!kafka
<1>2. Outbox!Exit(w) = OutboxSide!Exit(w)
  BY DEF Outbox!Exit, OutboxSide!Exit, Outbox!Goto, OutboxSide!Goto, Outbox!Idle,
         OutboxSide!Idle, Outbox!kafka, OutboxSide!kafka
<1>3. Outbox!Recover(w) = OutboxSide!Recover(w)
  BY DEF Outbox!Recover, OutboxSide!Recover, Outbox!Stale, OutboxSide!Stale,
         Outbox!Free, OutboxSide!Free, Outbox!Least, OutboxSide!Least,
         Outbox!Cardinality, OutboxSide!Cardinality, Outbox!Goto, OutboxSide!Goto,
         Outbox!kafka, OutboxSide!kafka
<1>4. Outbox!CommitRecovery(w) = OutboxSide!CommitRecovery(w)
  BY DEF Outbox!CommitRecovery, OutboxSide!CommitRecovery, Outbox!Goto,
         OutboxSide!Goto, Outbox!kafka, OutboxSide!kafka
<1>5. Outbox!Claim(w) = OutboxSide!Claim(w)
  BY DEF Outbox!Claim, OutboxSide!Claim, Outbox!Claimable, OutboxSide!Claimable,
         Outbox!Oldest, OutboxSide!Oldest, Outbox!Cardinality, OutboxSide!Cardinality,
         Outbox!Free, OutboxSide!Free, Outbox!Goto, OutboxSide!Goto, Outbox!kafka,
         OutboxSide!kafka
<1>6. Outbox!CommitClaim(w) = OutboxSide!CommitClaim(w)
  BY DEF Outbox!CommitClaim, OutboxSide!CommitClaim, Outbox!Goto, OutboxSide!Goto,
         Outbox!kafka, OutboxSide!kafka
<1>7. Outbox!Send(w) = OutboxSide!Send(w)
  BY DEF Outbox!Send, OutboxSide!Send, Outbox!Deliver, OutboxSide!Deliver,
         Outbox!Raise, OutboxSide!Raise, Outbox!Current, OutboxSide!Current,
         Outbox!Least, OutboxSide!Least, Outbox!Goto, OutboxSide!Goto
<1>8. Outbox!Get(w) = OutboxSide!Get(w)
  BY DEF Outbox!Get, OutboxSide!Get, Outbox!Goto, OutboxSide!Goto, Outbox!Current,
         OutboxSide!Current, Outbox!kafka, OutboxSide!kafka
<1>9. Outbox!MarkPublished(w) = OutboxSide!MarkPublished(w)
  BY DEF Outbox!MarkPublished, OutboxSide!MarkPublished, Outbox!Free, OutboxSide!Free,
         Outbox!Current, OutboxSide!Current, Outbox!Published, OutboxSide!Published,
         Outbox!Written, OutboxSide!Written, Outbox!NextEvent, OutboxSide!NextEvent,
         Outbox!Goto, OutboxSide!Goto, Outbox!kafka, OutboxSide!kafka
<1>10. Outbox!MarkFailed(w) = OutboxSide!MarkFailed(w)
  BY DEF Outbox!MarkFailed, OutboxSide!MarkFailed, Outbox!Free, OutboxSide!Free,
         Outbox!Current, OutboxSide!Current, Outbox!Failed, OutboxSide!Failed,
         Outbox!GivesUp, OutboxSide!GivesUp, Outbox!Written, OutboxSide!Written,
         Outbox!NextEvent, OutboxSide!NextEvent, Outbox!Goto, OutboxSide!Goto,
         Outbox!kafka, OutboxSide!kafka
<1>11. Outbox!Stop(w) = OutboxSide!Stop(w)
  BY DEF Outbox!Stop, OutboxSide!Stop, Outbox!Spared, OutboxSide!Spared,
         Outbox!sessions, OutboxSide!sessions, Outbox!kafka, OutboxSide!kafka
<1>12. Outbox!Crash(w) = OutboxSide!Crash(w)
  BY DEF Outbox!Crash, OutboxSide!Crash, Outbox!Spared, OutboxSide!Spared,
         Outbox!Goto, OutboxSide!Goto, Outbox!kafka, OutboxSide!kafka
<1> QED
  BY <1>1, <1>2, <1>3, <1>4, <1>5, <1>6, <1>7, <1>8, <1>9, <1>10, <1>11, <1>12

LEMMA SameEventSteps ==
  ASSUME NEW e \in Event
  PROVE  /\ Outbox!Create(e) = OutboxSide!Create(e)
         /\ Outbox!RetryDue(e) = OutboxSide!RetryDue(e)
         /\ Outbox!ClaimAges(e) = OutboxSide!ClaimAges(e)
<1>1. Outbox!Create(e) = OutboxSide!Create(e)
  BY DEF Outbox!Create, OutboxSide!Create, Outbox!sessions, OutboxSide!sessions,
         Outbox!kafka, OutboxSide!kafka
<1>2. Outbox!RetryDue(e) = OutboxSide!RetryDue(e)
  BY DEF Outbox!RetryDue, OutboxSide!RetryDue, Outbox!sessions, OutboxSide!sessions,
         Outbox!kafka, OutboxSide!kafka
<1>3. Outbox!ClaimAges(e) = OutboxSide!ClaimAges(e)
  BY DEF Outbox!ClaimAges, OutboxSide!ClaimAges, Outbox!sessions, OutboxSide!sessions,
         Outbox!kafka, OutboxSide!kafka
<1> QED
  BY <1>1, <1>2, <1>3

LEMMA SameOutbox == Outbox!Spec => OutboxSide!Spec
<1>1. Outbox!Init => OutboxSide!Init
  BY DEF Outbox!Init, OutboxSide!Init, Outbox!NewRow, OutboxSide!NewRow
<1>2. Outbox!vars = OutboxSide!vars
  BY DEF Outbox!vars, OutboxSide!vars, Outbox!sessions, OutboxSide!sessions,
         Outbox!kafka, OutboxSide!kafka
<1>3. [Outbox!Next]_(Outbox!vars) => [OutboxSide!Next]_(OutboxSide!vars)
  <2>1. Outbox!Next => OutboxSide!Next
    BY SameWorkerSteps, SameEventSteps
       DEF Outbox!Next, OutboxSide!Next, Outbox!Run, OutboxSide!Run, Outbox!Work,
           OutboxSide!Work, Outbox!Passing, OutboxSide!Passing
  <2>2. UNCHANGED Outbox!vars => UNCHANGED OutboxSide!vars
    BY DEF Outbox!vars, OutboxSide!vars, Outbox!sessions, OutboxSide!sessions,
           Outbox!kafka, OutboxSide!kafka
  <2> QED
    BY <2>1, <2>2
<1> QED
  BY <1>1, <1>3, PTL DEF Outbox!Spec, OutboxSide!Spec

LEMMA SameGroupParts ==
  ASSUME NEW c
  PROVE  /\ Group!Start(c) = GroupSide!Start(c)
         /\ Group!Poll(c) = GroupSide!Poll(c)
         /\ Group!Blockers(c) = GroupSide!Blockers(c)
         /\ Group!Raise(c) = GroupSide!Raise(c)
<1>1. Group!Start(c) = GroupSide!Start(c)
  BY DEF Group!Start, GroupSide!Start, Group!Live, GroupSide!Live, Group!Rebalanced,
         GroupSide!Rebalanced, Group!Goto, GroupSide!Goto, Group!log, GroupSide!log,
         Group!tables, GroupSide!tables
<1>2. Group!Poll(c) = GroupSide!Poll(c)
  BY DEF Group!Poll, GroupSide!Poll, Group!Hand, GroupSide!Hand, Group!Goto,
         GroupSide!Goto, Group!log, GroupSide!log, Group!tables, GroupSide!tables
<1>3. Group!Blockers(c) = GroupSide!Blockers(c)
  BY DEF Group!Blockers, GroupSide!Blockers, Group!Registered, GroupSide!Registered,
         Group!InHand, GroupSide!InHand, Group!Written, GroupSide!Written,
         Group!Writes, GroupSide!Writes, Group!NextWrite, GroupSide!NextWrite,
         Group!Readable, GroupSide!Readable, Group!Upserts, GroupSide!Upserts,
         Group!Upsert, GroupSide!Upsert, Group!Stored, GroupSide!Stored
<1>4. Group!Raise(c) = GroupSide!Raise(c)
  BY DEF Group!Raise, GroupSide!Raise, Group!Ended, GroupSide!Ended, Group!Goto,
         GroupSide!Goto, Group!Dropped, GroupSide!Dropped, Group!NoMessage,
         GroupSide!NoMessage, Group!Rebalanced, GroupSide!Rebalanced, Group!Live,
         GroupSide!Live, Group!log, GroupSide!log, Group!tables, GroupSide!tables
<1> QED
  BY <1>1, <1>2, <1>3, <1>4

LEMMA SameConsumerSteps ==
  ASSUME NEW c \in Consumer
  PROVE  /\ Group!Register(c) = GroupSide!Register(c)
         /\ Group!ApplyDelta(c) = GroupSide!ApplyDelta(c)
         /\ Group!Commit(c) = GroupSide!Commit(c)
         /\ Group!Ack(c) = GroupSide!Ack(c)
         /\ Group!DeadlockAbort(c) = GroupSide!DeadlockAbort(c)
         /\ Group!Die(c) = GroupSide!Die(c)
<1>1. Group!Register(c) = GroupSide!Register(c)
  BY SameGroupParts DEF Group!Register, GroupSide!Register, Group!InHand, GroupSide!InHand,
         Group!Goto, GroupSide!Goto, Group!log, GroupSide!log, Group!group,
         GroupSide!group, Group!tables, GroupSide!tables
<1>2. Group!ApplyDelta(c) = GroupSide!ApplyDelta(c)
  BY DEF Group!ApplyDelta, GroupSide!ApplyDelta, Group!Blockers, GroupSide!Blockers,
         Group!Registered, GroupSide!Registered, Group!Written, GroupSide!Written,
         Group!Raise, GroupSide!Raise, Group!Ended, GroupSide!Ended, Group!Goto,
         GroupSide!Goto, Group!Dropped, GroupSide!Dropped, Group!NoMessage,
         GroupSide!NoMessage, Group!Rebalanced, GroupSide!Rebalanced, Group!Live,
         GroupSide!Live, Group!Writes, GroupSide!Writes, Group!NextWrite,
         GroupSide!NextWrite, Group!InHand, GroupSide!InHand, Group!Readable,
         GroupSide!Readable, Group!Upserts, GroupSide!Upserts, Group!Upsert,
         GroupSide!Upsert, Group!Stored, GroupSide!Stored, Group!Overflows,
         GroupSide!Overflows, Group!log, GroupSide!log, Group!group, GroupSide!group,
         Group!tables, GroupSide!tables
<1>3. Group!Commit(c) = GroupSide!Commit(c)
  BY SameGroupParts DEF Group!Commit, GroupSide!Commit, Group!Writes, GroupSide!Writes, Group!InHand,
         GroupSide!InHand, Group!DeltaOn, GroupSide!DeltaOn, Group!Upserts,
         GroupSide!Upserts, Group!Upsert, GroupSide!Upsert, Group!Stored,
         GroupSide!Stored, Group!Goto, GroupSide!Goto, Group!log, GroupSide!log,
         Group!group, GroupSide!group
<1>4. Group!Ack(c) = GroupSide!Ack(c)
  BY SameGroupParts DEF Group!Ack, GroupSide!Ack, Group!Ended, GroupSide!Ended, Group!Acknowledged,
         GroupSide!Acknowledged, Group!Goto, GroupSide!Goto, Group!Dropped,
         GroupSide!Dropped, Group!NoMessage, GroupSide!NoMessage, Group!Rebalanced,
         GroupSide!Rebalanced, Group!Live, GroupSide!Live, Group!log, GroupSide!log,
         Group!tables, GroupSide!tables
<1>5. Group!DeadlockAbort(c) = GroupSide!DeadlockAbort(c)
  BY SameGroupParts DEF Group!DeadlockAbort, GroupSide!DeadlockAbort, Group!WaitsForItself,
         GroupSide!WaitsForItself
<1>6. Group!Die(c) = GroupSide!Die(c)
  BY SameGroupParts DEF Group!Die, GroupSide!Die, Group!Live, GroupSide!Live, Group!Goto,
         GroupSide!Goto, Group!Dropped, GroupSide!Dropped, Group!NoMessage,
         GroupSide!NoMessage, Group!log, GroupSide!log, Group!group, GroupSide!group,
         Group!tables, GroupSide!tables
<1> QED
  BY <1>1, <1>2, <1>3, <1>4, <1>5, <1>6

LEMMA SameGroup == Group!Spec => GroupSide!Spec
<1>1. /\ Group!Rebalance = GroupSide!Rebalance
      /\ \A c \in Consumer : Group!Start(c) = GroupSide!Start(c)
  BY SameGroupParts DEF Group!Rebalance, GroupSide!Rebalance, Group!Dead, GroupSide!Dead,
     Group!Live, GroupSide!Live, Group!Rebalanced, GroupSide!Rebalanced, Group!log,
     GroupSide!log, Group!tables, GroupSide!tables
<1>2. \A p \in Partition, e \in Event : Group!Produce(p, e) = GroupSide!Produce(p, e)
  BY DEF Group!Produce, GroupSide!Produce, Group!group, GroupSide!group, Group!tables,
         GroupSide!tables
<1>3. Group!Init => GroupSide!Init
  BY DEF Group!Init, GroupSide!Init, Group!NoMessage, GroupSide!NoMessage
<1>4. [Group!Next]_(Group!vars) => [GroupSide!Next]_(GroupSide!vars)
  <2>1. Group!Next => GroupSide!Next
    BY <1>1, <1>2, SameConsumerSteps, SameGroupParts
       DEF Group!Next, GroupSide!Next, Group!Process, GroupSide!Process
  <2>2. UNCHANGED Group!vars => UNCHANGED GroupSide!vars
    BY DEF Group!vars, GroupSide!vars, Group!log, GroupSide!log, Group!group,
           GroupSide!group, Group!tables, GroupSide!tables
  <2> QED
    BY <2>1, <2>2
<1> QED
  BY <1>3, <1>4, PTL DEF Group!Spec, GroupSide!Spec

-----------------------------------------------------------------------------
(* The assumptions of the sides *)

LEMMA OutboxAssumed == OutboxSide!OutboxAssumption
  BY SidesAssumption DEF IsFiniteSet, OutboxSide!IsFiniteSet

LEMMA GroupAssumed == GroupSide!ConsumerAssumption /\ GroupSide!TransferKeysAssumption
<1>1. ASSUME NEW log \in Logs, NEW p \in Partition
      PROVE  log[p] \in Seq(Event) /\ Len(log[p]) <= MaxLog
  <2>1. log[p] = <<>> /\ MaxLog >= 0
    BY SidesAssumption
  <2> QED
    BY <2>1
<1>2. Logs \subseteq [Partition -> Seq(Event)]
  BY <1>1, SidesAssumption
<1>3. \A q \in Workload : WellFormed(q) = GroupSide!WellFormed(q)
  BY DEF WellFormed, GroupSide!WellFormed, Request, GroupSide!Request, Ops, GroupSide!Ops
<1> QED
  BY <1>1, <1>2, <1>3, SidesAssumption, TransferKeysAssumption DEF Writers, GroupSide!Writers

-----------------------------------------------------------------------------
(* Pipeline implements its sides *)

LEMMA OutboxStep == [Next]_vars => [Outbox!Next]_(Outbox!vars)
<1>1. Next => Outbox!Next \/ UNCHANGED Outbox!vars
  BY DEF Next, Forward, Create, Passing, StopWorker, CrashWorker, Process, Start, Expire,
         Die, Outbox!Next, workers, Outbox!vars, Outbox!sessions, Outbox!kafka
<1>2. UNCHANGED vars => UNCHANGED Outbox!vars
  BY DEF vars, workers, Outbox!vars, Outbox!sessions, Outbox!kafka
<1> QED
  BY <1>1, <1>2

LEMMA OutboxImplemented == Spec => Outbox!Spec
<1>1. Init => Outbox!Init
  BY DEF Init
<1> QED
  BY <1>1, OutboxStep, PTL DEF Spec, Outbox!Spec

\* What the theorems about the workers say of the pipeline.
LEMMA OutboxKept ==
  Spec => /\ []OutboxSide!TypeOK
          /\ []OutboxSide!PublishedWasSent
          /\ []OutboxSide!CommittedFirst
<1>1. OutboxSide!Spec => []OutboxSide!TypeOK
  BY OutboxAssumed, OutboxSide!TypeCorrect
<1>2. OutboxSide!Spec => []OutboxSide!PublishedWasSent
  BY OutboxAssumed, OutboxSide!PublishedOnlyIfSent
<1>3. OutboxSide!Spec => []OutboxSide!CommittedFirst
  BY OutboxAssumed, OutboxSide!CommittedBeforeSent
<1> QED
  BY <1>1, <1>2, <1>3, OutboxImplemented, SameOutbox, PTL

LEMMA SameDelivery ==
  ASSUME NEW w \in Worker
  PROVE  /\ Outbox!Run(w) = OutboxSide!Run(w)
         /\ Outbox!Current(w) = OutboxSide!Current(w)
  BY SameWorkerSteps DEF Outbox!Run, OutboxSide!Run, Outbox!Work, OutboxSide!Work,
     Outbox!Current, OutboxSide!Current

\* A step of a worker that changes the copies is a send of Pipeline, and adds one
\* event to the topic; no other step changes either.
LEMMA ForwardDelivers ==
  ASSUME OutboxSide!TypeOK, NEW w \in Worker, Forward(w), copies' # copies
  PROVE  /\ Outbox!Current(w) \in Event
         /\ \A e \in Event : copies'[e] > 0 <=> copies[e] > 0 \/ e = Outbox!Current(w)
         /\ \E p \in Partition : Group!Produce(p, Outbox!Current(w))
<1>1. OutboxSide!Run(w)
  BY SameDelivery DEF Forward
<1>2. /\ OutboxSide!Current(w) \in Event
      /\ \A e \in Event : copies'[e] > 0 <=> copies[e] > 0 \/ e = OutboxSide!Current(w)
  BY <1>1, OutboxAssumed, OutboxSide!CopiesDelivered
<1> QED
  BY <1>2, SameDelivery DEF Forward

LEMMA GroupStep == OutboxSide!TypeOK /\ [Next]_vars => [Group!Next]_(Group!vars)
<1> SUFFICES ASSUME OutboxSide!TypeOK, [Next]_vars
             PROVE  Group!Next \/ UNCHANGED Group!vars
  OBVIOUS
<1> USE DEF consumers, Group!vars, Group!log, Group!group, Group!tables
<1>1. ASSUME NEW w \in Worker, Forward(w) PROVE Group!Next \/ UNCHANGED Group!vars
  <2>1. CASE copies' = copies
    BY <1>1, <2>1 DEF Forward
  <2>2. CASE copies' # copies
    BY <1>1, <2>2, ForwardDelivers DEF Group!Next
  <2> QED
    BY <2>1, <2>2
<1>2. ASSUME NEW w \in Worker, StopWorker(w) \/ CrashWorker(w) PROVE UNCHANGED Group!vars
  BY <1>2 DEF StopWorker, CrashWorker
<1>3. ASSUME NEW e \in Event, Create(e) \/ Passing(e) PROVE UNCHANGED Group!vars
  BY <1>3 DEF Create, Passing
<1>4. ASSUME NEW c \in Consumer, Process(c) \/ Start(c) \/ Die(c) PROVE Group!Next
  BY <1>4 DEF Process, Start, Die, Group!Next
<1>5. CASE Expire
  BY <1>5 DEF Expire, Group!Next
<1>6. CASE UNCHANGED vars
  BY <1>6 DEF vars
<1> QED
  BY <1>1, <1>2, <1>3, <1>4, <1>5, <1>6 DEF Next

LEMMA GroupImplemented == Spec => Group!Spec
<1>1. Init => Group!Init
  BY DEF Init
<1> QED
  BY <1>1, GroupStep, OutboxKept, PTL DEF Spec, Group!Spec

\* The workers and the group of the pipeline behave as they do alone: joined by
\* the topic, neither does what OutboxWorker and Consumer do not allow.
THEOREM ImplementsSides == Spec => Outbox!Spec /\ Group!Spec
  BY OutboxImplemented, GroupImplemented, PTL

\* What the theorems about the group say of the pipeline.
LEMMA GroupKept ==
  Spec => /\ []GroupSide!TypeOK
          /\ []GroupSide!AckedApplied
          /\ []GroupSide!ProjectionIsSum
<1>1. GroupSide!Spec => []GroupSide!TypeOK
  BY GroupAssumed, GroupSide!TypeCorrect
<1>2. GroupSide!Spec => []GroupSide!AckedApplied
  BY GroupAssumed, GroupSide!AcknowledgedAreApplied
<1>3. GroupSide!Spec => []GroupSide!ProjectionIsSum
  BY GroupAssumed, GroupSide!ProjectionSums
<1> QED
  BY <1>1, <1>2, <1>3, GroupImplemented, SameGroup, PTL

-----------------------------------------------------------------------------
(* What joins the sides *)

InTopic == GroupSide!InTopic

\* The copies the workers count are those in the partitions.
CopiesInTopic == \A e \in Event : copies[e] > 0 <=> e \in InTopic

LEMMA InitCopies == Init => CopiesInTopic
<1> SUFFICES ASSUME Init, NEW e \in Event PROVE ~(copies[e] > 0) /\ e \notin InTopic
  BY DEF CopiesInTopic
<1>1. copies[e] = 0
  BY DEF Init, Outbox!Init
<1>2. \A p \in Partition : topic[p] = <<>>
  BY SidesAssumption DEF Init, Group!Init
<1>3. \A p \in Partition : Len(topic[p]) = 0
  BY <1>2
<1>4. e \notin InTopic
  BY <1>3 DEF InTopic, GroupSide!InTopic
<1> QED
  BY <1>1, <1>4

LEMMA CopiesStep ==
  OutboxSide!TypeOK /\ GroupSide!TypeOK /\ CopiesInTopic /\ [Next]_vars => CopiesInTopic'
<1> SUFFICES ASSUME OutboxSide!TypeOK, GroupSide!TypeOK, CopiesInTopic, [Next]_vars
             PROVE  CopiesInTopic'
  OBVIOUS
<1>1. ASSUME UNCHANGED <<copies, topic>> PROVE CopiesInTopic'
  BY <1>1 DEF CopiesInTopic, InTopic, GroupSide!InTopic
<1>2. ASSUME NEW w \in Worker, Forward(w) PROVE CopiesInTopic'
  <2>1. CASE copies' = copies
    BY <1>1, <1>2, <2>1 DEF Forward, consumers
  <2>2. CASE copies' # copies
    <3>1. PICK p \in Partition : Group!Produce(p, Outbox!Current(w))
      BY <1>2, <2>2, ForwardDelivers
    <3>2. GroupSide!Produce(p, Outbox!Current(w))
      BY <3>1 DEF Group!Produce, GroupSide!Produce, Group!group, GroupSide!group,
                  Group!tables, GroupSide!tables
    <3>3. InTopic' = InTopic \cup {Outbox!Current(w)}
      BY <1>2, <2>2, <3>2, ForwardDelivers, GroupAssumed, GroupSide!ProduceInTopic DEF InTopic
    <3> QED
      BY <1>2, <2>2, <3>3, ForwardDelivers DEF CopiesInTopic
  <2> QED
    BY <2>1, <2>2
<1>3. ASSUME NEW w \in Worker, StopWorker(w) \/ CrashWorker(w) PROVE CopiesInTopic'
  <2>1. OutboxSide!Stop(w) \/ OutboxSide!Crash(w)
    BY <1>3, SameWorkerSteps DEF StopWorker, CrashWorker
  <2> QED
    BY <1>1, <1>3, <2>1, OutboxAssumed, OutboxSide!CopiesLeft
       DEF StopWorker, CrashWorker, consumers
<1>4. ASSUME NEW e \in Event, Create(e) \/ Passing(e) PROVE CopiesInTopic'
  <2>1. OutboxSide!Create(e) \/ OutboxSide!Passing(e)
    BY <1>4, SameEventSteps DEF Create, Passing, Outbox!Passing, OutboxSide!Passing
  <2> QED
    BY <1>1, <1>4, <2>1, OutboxAssumed, OutboxSide!CopiesLeft DEF Create, Passing, consumers
<1>5. ASSUME NEW c \in Consumer, Process(c) \/ Start(c) \/ Die(c) PROVE CopiesInTopic'
  <2>1. GroupSide!Process(c) \/ GroupSide!Start(c) \/ GroupSide!Die(c)
    BY <1>5, SameConsumerSteps, SameGroupParts
       DEF Process, Start, Die, Group!Process, GroupSide!Process
  <2> QED
    BY <1>1, <1>5, <2>1, GroupAssumed, GroupSide!TopicStays DEF Process, Start, Die, workers
<1>6. CASE Expire
  BY <1>1, <1>6 DEF Expire, Group!Rebalance, Group!log, workers
<1>7. CASE UNCHANGED vars
  BY <1>1, <1>7 DEF vars, workers, consumers
<1> QED
  BY <1>2, <1>3, <1>4, <1>5, <1>6, <1>7 DEF Next

LEMMA CopiesKept == Spec => []CopiesInTopic
  BY InitCopies, CopiesStep, OutboxKept, GroupKept, PTL DEF Spec

-----------------------------------------------------------------------------
(* End to end *)

\* Nothing is lost between the ledger's outbox and the projection: what is marked
\* PUBLISHED is applied or still ahead of the group's offset.  The mark comes
\* after a copy, the copy is in a partition, and what lies before the offset of
\* the partition has been applied.
THEOREM NoEventLost == Spec => []NothingLost
<1>1. OutboxSide!PublishedWasSent /\ CopiesInTopic /\ GroupSide!TypeOK /\ GroupSide!AckedApplied
        => NothingLost
  <2> SUFFICES ASSUME OutboxSide!PublishedWasSent, CopiesInTopic, GroupSide!TypeOK,
                      GroupSide!AckedApplied, NEW e \in Event, row[e].status = "PUBLISHED",
                      e \notin processed
               PROVE  \E p \in Partition : \E n \in (offset[p] + 1)..Len(topic[p]) : topic[p][n] = e
    BY DEF NothingLost
  <2>1. e \in InTopic
    BY DEF OutboxSide!PublishedWasSent, CopiesInTopic
  <2>2. PICK p \in Partition : \E n \in 1..Len(topic[p]) : topic[p][n] = e
    BY <2>1 DEF InTopic, GroupSide!InTopic
  <2>3. PICK n \in 1..Len(topic[p]) : topic[p][n] = e
    BY <2>2
  <2>4. n \notin 1..offset[p]
    BY <2>3 DEF GroupSide!AckedApplied
  <2>5. offset[p] \in Nat /\ Len(topic[p]) \in Nat
    BY DEF GroupSide!TypeOK
  <2>6. n \in (offset[p] + 1)..Len(topic[p])
    BY <2>4, <2>5
  <2> QED
    BY <2>3, <2>6
<1> QED
  BY <1>1, OutboxKept, GroupKept, CopiesKept, PTL

\* The projection counts committed transactions only, each once: an applied event
\* was in the topic, so a worker sent it, so its transaction was committed.
THEOREM OnlyCommitted == Spec => []ProjectsCommitted
<1>1. OutboxSide!CommittedFirst /\ CopiesInTopic /\ GroupSide!ProjectionIsSum
        => ProjectsCommitted
  <2> SUFFICES ASSUME OutboxSide!CommittedFirst, CopiesInTopic, GroupSide!ProjectionIsSum
               PROVE  ProjectsCommitted
    OBVIOUS
  <2>1. processed \subseteq InTopic /\ InTopic \subseteq Event
    BY DEF GroupSide!ProjectionIsSum, InTopic, GroupSide!InTopic
  <2>2. processed \subseteq Committed
    BY <2>1 DEF CopiesInTopic, OutboxSide!CommittedFirst, Committed
  <2>3. \A f, S : GroupSide!SumOver(f, S) = SumOver(f, S)
    BY DEF SumOver, MapThenSumSet, MapThenFoldSet, GroupSide!SumOver,
           GroupSide!MapThenSumSet, GroupSide!MapThenFoldSet
  <2>4. \A a \in Account \ {SystemCash} :
          projection[a] = GroupSide!SumOver([e \in Event |-> Entry(body[e], a)], processed)
    BY DEF GroupSide!ProjectionIsSum, GroupSide!Entry, GroupSide!Stored, Entry, Stored
  <2> QED
    BY <2>2, <2>3, <2>4 DEF ProjectsCommitted, PostedBy
<1> QED
  BY <1>1, OutboxKept, GroupKept, CopiesKept, PTL

=============================================================================
