--------------------------- MODULE ConsumerProofs ----------------------------
(***************************************************************************)
(* Theorems about Consumer, for any events, transactions, consumers,       *)
(* partitions, contents of the topic and faults.                           *)
(***************************************************************************)
EXTENDS Consumer, SumProofs

USE DEF Handling, Goto

-----------------------------------------------------------------------------
(* Facts about data *)

User == Account \ {SystemCash}

\* What an event's upserts add to a user's account is what its transaction added
\* to it in the ledger.
LEMMA UpsertsProject ==
  ASSUME NEW q \in Workload
  PROVE  /\ Len(Upserts(q)) \in {1, 2}
         /\ \A a \in Account : DeltaOn(q, a) \in Int
         /\ \A a \in User : DeltaOn(q, a) = Entry(q, a)
<1>1. /\ WellFormed(q) /\ q \in Request
      /\ q.op \in Writers /\ (q.op = "transfer" => q.from # q.to) /\ Stored(q.amount) \in Int
  BY ConsumerAssumption DEF WellFormed, Request, Stored
<1>2. ASSUME NEW a \in Account, NEW x \in Int, Upserts(q) = <<Upsert(a, x)>>
      PROVE  /\ Len(Upserts(q)) = 1
             /\ \A b \in Account : DeltaOn(q, b) = IF b = a THEN x ELSE 0
  <2>1. DOMAIN Upserts(q) = {1} /\ Upserts(q)[1] = [account |-> a, delta |-> x]
    BY <1>2 DEF Upsert
  <2>2. ASSUME NEW b \in Account, b = a PROVE DeltaOn(q, b) = x
    <3>1. {i \in DOMAIN Upserts(q) : Upserts(q)[i].account = b} = {1}
      BY <2>1, <2>2
    <3> QED
      BY <2>1, <3>1 DEF DeltaOn
  <2>3. ASSUME NEW b \in Account, b # a PROVE DeltaOn(q, b) = 0
    <3>1. {i \in DOMAIN Upserts(q) : Upserts(q)[i].account = b} = {}
      BY <2>1, <2>3
    <3> QED
      BY <3>1 DEF DeltaOn
  <2> QED
    BY <1>2, <2>2, <2>3
<1>3. CASE q.op = "deposit"
  <2>1. Upserts(q) = <<Upsert(q.to, Stored(q.amount))>> /\ q.to \in Account
    BY <1>1, <1>3 DEF Upserts, Request
  <2>2. \A a \in Account : DeltaOn(q, a) = IF a = q.to THEN Stored(q.amount) ELSE 0
    BY <1>1, <1>2, <2>1
  <2>3. q.from = SystemCash
    BY <1>1, <1>3 DEF WellFormed
  <2> QED
    BY <1>1, <1>2, <1>3, <2>1, <2>2, <2>3
    DEF User, Entry, Stored
<1>4. CASE q.op = "withdraw"
  <2>1. Upserts(q) = <<Upsert(q.from, -Stored(q.amount))>> /\ q.from \in Account
    BY <1>1, <1>4 DEF Upserts, Request
  <2>2. \A a \in Account : DeltaOn(q, a) = IF a = q.from THEN -Stored(q.amount) ELSE 0
    <3>1. -Stored(q.amount) \in Int
      BY <1>1
    <3> QED
      BY <1>2, <2>1, <3>1
  <2>3. q.to = SystemCash
    BY <1>1, <1>4 DEF WellFormed
  <2> QED
    BY <1>1, <1>2, <1>4, <2>1, <2>2, <2>3
    DEF User, Entry, Stored
<1>5. CASE q.op = "transfer"
  <2>1. Upserts(q) = <<Upsert(q.from, -Stored(q.amount)), Upsert(q.to, Stored(q.amount))>>
    BY <1>1, <1>5 DEF Upserts
  <2>2. /\ DOMAIN Upserts(q) = {1, 2} /\ Len(Upserts(q)) = 2
        /\ Upserts(q)[1] = [account |-> q.from, delta |-> -Stored(q.amount)]
        /\ Upserts(q)[2] = [account |-> q.to, delta |-> Stored(q.amount)]
    BY <2>1 DEF Upsert
  <2>3. ASSUME NEW a \in Account, a = q.from PROVE DeltaOn(q, a) = -Stored(q.amount)
    <3>1. {i \in DOMAIN Upserts(q) : Upserts(q)[i].account = a} = {1}
      BY <1>1, <1>5, <2>2, <2>3
    <3> QED
      BY <2>2, <3>1 DEF DeltaOn
  <2>4. ASSUME NEW a \in Account, a = q.to PROVE DeltaOn(q, a) = Stored(q.amount)
    <3>1. {i \in DOMAIN Upserts(q) : Upserts(q)[i].account = a} = {2}
      BY <1>1, <1>5, <2>2, <2>4
    <3> QED
      BY <2>2, <3>1 DEF DeltaOn
  <2>5. ASSUME NEW a \in Account, a # q.from, a # q.to PROVE DeltaOn(q, a) = 0
    <3>1. {i \in DOMAIN Upserts(q) : Upserts(q)[i].account = a} = {}
      BY <2>2, <2>5
    <3> QED
      BY <3>1 DEF DeltaOn
  <2> QED
    BY <1>1, <1>5, <2>2, <2>3, <2>4, <2>5
    DEF User, Entry, Stored
<1> QED
  BY <1>1, <1>3, <1>4, <1>5 DEF Writers

\* The event a consumer has in hand, and its upserts.
LEMMA InHandType ==
  ASSUME TypeOK, NEW c \in Consumer, pc[c] \in Handling
  PROVE  /\ msg[c] \in Message /\ msg[c].partition \in Partition /\ msg[c].n \in Nat \ {0}
         /\ msg[c].n \in 1..Len(topic[msg[c].partition])
         /\ InHand(c) \in Event /\ body[InHand(c)] \in Workload
         /\ Len(Writes(c)) \in {1, 2}
<1>1. /\ msg[c] \in Message /\ msg[c].partition \in Partition /\ msg[c].n \in Nat \ {0}
      /\ msg[c].n <= Len(topic[msg[c].partition])
      /\ topic[msg[c].partition] \in Seq(Event)
  BY DEF TypeOK, Message
<1>2. InHand(c) \in Event
  BY <1>1 DEF InHand
<1>3. body[InHand(c)] \in Workload
  BY <1>2 DEF TypeOK
<1> QED
  BY <1>1, <1>2, <1>3, UpsertsProject DEF Writes

-----------------------------------------------------------------------------
(* Type correctness *)

\* Offsets at which the consumers may start.
Storable(stored) ==
  stored \in [Partition -> Nat] /\ \A p \in Partition : stored[p] <= Len(topic[p])

\* What an exception leaves.
LEMMA EndedType ==
  ASSUME TypeOK, NEW c \in Consumer, NEW stored, Storable(stored), Ended(c, stored)
  PROVE  TypeOK'
<1>1. /\ pc' = [pc EXCEPT ![c] = "down"]
      /\ msg' = [msg EXCEPT ![c] = NoMessage] /\ done' = [done EXCEPT ![c] = 0]
      /\ UNCHANGED <<body, topic, processed, projection>>
      /\ offset' = stored /\ position' = stored
      /\ owner' \in [Partition -> Consumer \cup {NoOne}]
  BY DEF Ended, Dropped, Rebalanced, Live, log, tables
<1> QED
  BY <1>1 DEF TypeOK, Storable

LEMMA RaiseType == ASSUME TypeOK, NEW c \in Consumer, Raise(c) PROVE TypeOK'
<1>1. Storable(offset)
  BY DEF TypeOK, Storable
<1> QED
  BY <1>1, EndedType DEF Raise

LEMMA AcknowledgedStorable ==
  ASSUME TypeOK, NEW c \in Consumer, pc[c] \in Handling
  PROVE  Storable(Acknowledged(c))
  BY InHandType DEF TypeOK, Storable, Acknowledged

LEMMA TypeStep == TypeOK /\ [Next]_vars => TypeOK'
<1> SUFFICES ASSUME TypeOK, [Next]_vars PROVE TypeOK'
  OBVIOUS
<1>1. CASE UNCHANGED vars
  BY <1>1 DEF TypeOK, vars, log, group, tables
<1>2. ASSUME NEW c \in Consumer, Start(c) PROVE TypeOK'
  <2>1. /\ pc' = [pc EXCEPT ![c] = "poll"] /\ offset' = offset /\ position' = offset
        /\ UNCHANGED <<body, topic, msg, done, processed, projection>>
        /\ owner' \in [Partition -> Consumer \cup {NoOne}]
    BY <1>2 DEF Start, Rebalanced, Live, log, tables
  <2> QED
    BY <2>1 DEF TypeOK
<1>3. ASSUME NEW c \in Consumer, Poll(c) PROVE TypeOK'
  <2>1. PICK p \in Partition : Hand(c, p)
    BY <1>3 DEF Poll
  <2>2. UNCHANGED <<body, topic, offset, owner, done, processed, projection>>
    BY <1>3 DEF Poll, log, tables
  <2>3. position[p] + 1 \in Nat \ {0} /\ position[p] + 1 <= Len(topic[p])
    BY <2>1 DEF Hand, TypeOK
  <2>4. [partition |-> p, n |-> position[p] + 1] \in Message
    BY <2>3 DEF Message
  <2>5. /\ position' = [position EXCEPT ![p] = position[p] + 1]
        /\ msg' = [msg EXCEPT ![c] = [partition |-> p, n |-> position[p] + 1]]
        /\ pc' = [pc EXCEPT ![c] = "register"]
    BY <2>1 DEF Hand
  <2> QED
    BY <2>2, <2>3, <2>4, <2>5 DEF TypeOK
<1>4. ASSUME NEW c \in Consumer, Register(c) PROVE TypeOK'
  BY <1>4 DEF TypeOK, Register, log, group, tables
<1>5. ASSUME NEW c \in Consumer, ApplyDelta(c) PROVE TypeOK'
  <2>1. CASE Raise(c)
    BY <2>1, RaiseType
  <2>2. CASE done' = [done EXCEPT ![c] = @ + 1] /\ UNCHANGED <<log, group, pc, msg, tables>>
    <3>1. done[c] \in 0..2 /\ done[c] < Len(Writes(c)) /\ Len(Writes(c)) \in {1, 2}
      BY <1>5, InHandType DEF ApplyDelta, TypeOK
    <3>2. \A i \in 0..2, n \in {1, 2} : i < n => i + 1 \in 0..2
      OBVIOUS
    <3>3. done[c] + 1 \in 0..2
      BY <3>1, <3>2, Zenon
    <3> QED
      BY <2>2, <3>3 DEF TypeOK, log, group, tables
  <2> QED
    BY <1>5, <2>1, <2>2 DEF ApplyDelta
<1>6. ASSUME NEW c \in Consumer, Commit(c) PROVE TypeOK'
  <2>1. InHand(c) \in Event /\ body[InHand(c)] \in Workload
    BY <1>6, InHandType DEF Commit
  <2>2. \A a \in Account : projection[a] + DeltaOn(body[InHand(c)], a) \in Int
    BY <2>1, UpsertsProject DEF TypeOK
  <2>3. projection' \in [Account -> Int] /\ processed' \in SUBSET Event
    BY <1>6, <2>1, <2>2 DEF Commit, TypeOK
  <2> QED
    BY <1>6, <2>3 DEF Commit, TypeOK, log, group
<1>7. ASSUME NEW c \in Consumer, Ack(c) PROVE TypeOK'
  <2>1. Storable(Acknowledged(c))
    BY <1>7, AcknowledgedStorable DEF Ack
  <2>2. CASE Ended(c, Acknowledged(c))
    BY <2>1, <2>2, EndedType
  <2>3. CASE Raise(c)
    BY <2>3, RaiseType
  <2>4. CASE /\ offset' = Acknowledged(c) /\ Goto(c, "poll") /\ Dropped(c)
             /\ UNCHANGED <<log, owner, position, tables>>
    BY <2>1, <2>4 DEF TypeOK, Storable, Dropped, log, tables
  <2> QED
    BY <1>7, <2>2, <2>3, <2>4 DEF Ack
<1>8. ASSUME NEW c \in Consumer, DeadlockAbort(c) PROVE TypeOK'
  BY <1>8, RaiseType DEF DeadlockAbort
<1>9. ASSUME NEW c \in Consumer, Die(c) PROVE TypeOK'
  <2>1. CASE Raise(c)
    BY <2>1, RaiseType
  <2>2. CASE Goto(c, "down") /\ Dropped(c) /\ UNCHANGED <<log, group, tables>>
    BY <2>2 DEF TypeOK, Dropped, log, group, tables
  <2> QED
    BY <1>9, <2>1, <2>2 DEF Die
<1>10. CASE Rebalance
  <2>1. /\ offset' = offset /\ position' = offset
        /\ UNCHANGED <<body, topic, pc, msg, done, processed, projection>>
        /\ owner' \in [Partition -> Consumer \cup {NoOne}]
    BY <1>10 DEF Rebalance, Rebalanced, Live, log, tables
  <2> QED
    BY <2>1 DEF TypeOK
<1>11. ASSUME NEW p \in Partition, NEW e \in Event, Produce(p, e) PROVE TypeOK'
  <2>1. /\ topic' = [topic EXCEPT ![p] = Append(topic[p], e)]
        /\ UNCHANGED <<body, offset, owner, position, pc, msg, done, processed, projection>>
    BY <1>11 DEF Produce, group, tables
  <2>2. \A q \in Partition : /\ topic'[q] \in Seq(Event) /\ Len(topic[q]) \in Nat
                             /\ Len(topic'[q]) \in Nat /\ Len(topic[q]) <= Len(topic'[q])
    BY <2>1 DEF TypeOK
  <2>3. topic' \in [Partition -> Seq(Event)]
    BY <2>1, <2>2 DEF TypeOK
  <2>4. ASSUME NEW c \in Consumer, pc[c] \in Handling
        PROVE  msg[c].n <= Len(topic'[msg[c].partition])
    BY <2>2, <2>4, InHandType DEF Handling
  <2> QED
    BY <2>1, <2>2, <2>3, <2>4 DEF TypeOK
<1> QED
  BY <1>1, <1>2, <1>3, <1>4, <1>5, <1>6, <1>7, <1>8, <1>9, <1>10, <1>11 DEF Next, Process

\* Every variable keeps its type, and no offset or position is ever beyond the
\* end of its partition.
THEOREM TypeCorrect == Spec => []TypeOK
<1>1. Init => TypeOK
  BY ConsumerAssumption DEF Init, TypeOK, NoMessage
<1> QED
  BY <1>1, TypeStep, PTL DEF Spec

-----------------------------------------------------------------------------
(* Acknowledged messages are applied *)

\* The clause of HandFollowsApplied about one consumer.
Follows(c) ==
  pc[c] \in Handling =>
    /\ \A n \in 1..(msg[c].n - 1) : topic[msg[c].partition][n] \in processed
    /\ pc[c] = "ack" => InHand(c) \in processed

\* The messages before these offsets have been applied.
AppliedTo(stored) == \A p \in Partition : \A n \in 1..stored[p] : topic[p][n] \in processed

\* What has been written is still there.
Grows ==
  /\ processed \subseteq processed'
  /\ \A p \in Partition : \A n \in 1..Len(topic[p]) : topic'[p][n] = topic[p][n]

\* The consumers but c are where they were.
OthersStay(c) == \A d \in Consumer \ {c} : pc'[d] = pc[d] /\ msg'[d] = msg[d]

LEMMA FollowsStays ==
  ASSUME TypeOK, NEW c \in Consumer, Follows(c), pc'[c] = pc[c], msg'[c] = msg[c], Grows
  PROVE  Follows(c)'
<1> SUFFICES ASSUME pc[c] \in Handling
             PROVE  /\ \A n \in 1..(msg[c].n - 1) : topic'[msg[c].partition][n] \in processed'
                    /\ pc[c] = "ack" => topic'[msg[c].partition][msg[c].n] \in processed'
  BY DEF Follows, InHand
<1>1. /\ msg[c].partition \in Partition
      /\ msg[c].n \in 1..Len(topic[msg[c].partition])
      /\ Len(topic[msg[c].partition]) \in Nat
  BY InHandType DEF TypeOK
<1>2. \A n \in 1..(msg[c].n - 1) : n \in 1..Len(topic[msg[c].partition])
  BY <1>1
<1> QED
  BY <1>1, <1>2 DEF Follows, InHand, Grows

LEMMA AckedStays ==
  ASSUME TypeOK, AppliedTo(offset), offset' = offset, Grows
  PROVE  AckedApplied'
<1> SUFFICES ASSUME NEW p \in Partition, NEW n \in 1..offset[p]
             PROVE  topic'[p][n] \in processed'
  BY DEF AckedApplied
<1>1. n \in 1..Len(topic[p])
  BY DEF TypeOK
<1> QED
  BY <1>1 DEF AppliedTo, Grows

\* A rebalance starts everyone from applied messages.
LEMMA RebalancedAcked ==
  ASSUME NEW S, NEW stored, AppliedTo(stored), Rebalanced(S, stored),
         UNCHANGED <<topic, processed>>
  PROVE  AckedApplied' /\ PassedApplied'
  BY DEF AppliedTo, Rebalanced, AckedApplied, PassedApplied

\* A step of c that does not rebalance keeps its message in hand, or has
\* applied it, or ends c.
LEMMA PassedStays ==
  ASSUME TypeOK, PassedApplied, NEW c \in Consumer, OthersStay(c), Grows,
         owner' = owner, position' = position,
         pc[c] = "down" => pc'[c] = "down",
         pc[c] \in Handling => \/ pc'[c] \in Handling /\ msg'[c] = msg[c]
                              \/ InHand(c) \in processed
                              \/ pc'[c] = "down"
  PROVE  PassedApplied'
<1> SUFFICES ASSUME NEW p \in Partition, ~Dead(p)', NEW n \in 1..position[p]
             PROVE  \/ topic'[p][n] \in processed'
                    \/ \E d \in Consumer : owner[p] = d /\ pc'[d] \in Handling
                                            /\ msg'[d] = [partition |-> p, n |-> n]
  BY DEF PassedApplied
<1>1. n \in 1..Len(topic[p])
  BY DEF TypeOK
<1>2. Live' \subseteq Live
  BY DEF Live, OthersStay
<1>3. ~Dead(p)
  BY <1>2 DEF Dead
<1>4. CASE topic[p][n] \in processed
  BY <1>1, <1>4 DEF Grows
<1>5. ASSUME NEW d \in Consumer, owner[p] = d, pc[d] \in Handling,
             msg[d] = [partition |-> p, n |-> n], topic[p][n] \notin processed
      PROVE  pc'[d] \in Handling /\ msg'[d] = [partition |-> p, n |-> n]
  <2>1. CASE d # c
    BY <1>5, <2>1 DEF OthersStay
  <2>2. CASE d = c
    <3>1. InHand(c) \notin processed
      BY <1>5, <2>2 DEF InHand
    <3>2. c \in Live'
      BY <1>5, <2>2, ConsumerAssumption DEF Dead
    <3>3. pc'[c] # "down"
      BY <3>2 DEF Live
    <3> QED
      BY <1>5, <2>2, <3>1, <3>3
  <2> QED
    BY <2>1, <2>2
<1> QED
  BY <1>3, <1>4, <1>5 DEF PassedApplied

\* An exception ends c, and the others start from applied messages.
LEMMA EndedAcked ==
  ASSUME TypeOK, AckInv, NEW c \in Consumer, NEW stored, AppliedTo(stored), Ended(c, stored)
  PROVE  AckInv'
<1>1. /\ UNCHANGED <<topic, processed>> /\ pc' = [pc EXCEPT ![c] = "down"]
      /\ msg' = [msg EXCEPT ![c] = NoMessage] /\ Rebalanced(Live \ {c}, stored)
  BY DEF Ended, Dropped, log, tables
<1>2. AckedApplied' /\ PassedApplied'
  BY <1>1, RebalancedAcked
<1>3. ASSUME NEW d \in Consumer PROVE Follows(d)'
  <2>1. CASE d = c
    BY <1>1, <2>1 DEF Follows, TypeOK
  <2>2. CASE d # c
    BY <1>1, <2>2, FollowsStays DEF Follows, AckInv, HandFollowsApplied, Grows, TypeOK
  <2> QED
    BY <2>1, <2>2
<1> QED
  BY <1>2, <1>3 DEF AckInv, HandFollowsApplied, Follows

LEMMA RaiseAcked == ASSUME TypeOK, AckInv, NEW c \in Consumer, Raise(c) PROVE AckInv'
  BY EndedAcked DEF Raise, AckInv, AckedApplied, AppliedTo

\* A step of c that neither rebalances nor acknowledges.
LEMMA ProcessKeeps ==
  ASSUME TypeOK, AckInv, NEW c \in Consumer, OthersStay(c), Grows,
         UNCHANGED <<offset, owner, position>>, Follows(c)',
         pc[c] = "down" => pc'[c] = "down",
         pc[c] \in Handling => \/ pc'[c] \in Handling /\ msg'[c] = msg[c]
                              \/ InHand(c) \in processed
                              \/ pc'[c] = "down"
  PROVE  AckInv'
<1>1. AckedApplied'
  BY AckedStays DEF AckInv, AckedApplied, AppliedTo
<1>2. PassedApplied'
  BY PassedStays DEF AckInv
<1>3. ASSUME NEW d \in Consumer PROVE Follows(d)'
  BY FollowsStays DEF OthersStay, AckInv, HandFollowsApplied, Follows
<1> QED
  BY <1>1, <1>2, <1>3 DEF AckInv, HandFollowsApplied, Follows

LEMMA PollAcked == ASSUME TypeOK, AckInv, NEW c \in Consumer, Poll(c) PROVE AckInv'
<1>1. PICK p \in Partition : Hand(c, p)
  BY DEF Poll
<1>2. /\ pc[c] = "poll" /\ owner[p] = c /\ position[p] < Len(topic[p])
      /\ UNCHANGED <<body, topic, offset, owner, done, processed, projection>>
      /\ position' = [position EXCEPT ![p] = position[p] + 1]
      /\ msg' = [msg EXCEPT ![c] = [partition |-> p, n |-> position[p] + 1]]
      /\ pc' = [pc EXCEPT ![c] = "register"]
  BY <1>1 DEF Poll, Hand, log, tables
<1>3. Grows /\ OthersStay(c) /\ Live' = Live
  BY <1>2 DEF Grows, OthersStay, Live, TypeOK
<1>4. AckedApplied'
  BY <1>2, <1>3, AckedStays DEF AckInv, AckedApplied, AppliedTo
<1>5. \A n \in 1..position[p] : topic[p][n] \in processed
  <2>1. ~Dead(p)
    BY <1>2 DEF Dead, Live
  <2> QED
    BY <1>2, <2>1 DEF AckInv, PassedApplied
<1>6. ASSUME NEW d \in Consumer PROVE Follows(d)'
  <2>1. CASE d = c
    <3>1. /\ pc'[c] = "register" /\ msg'[c].partition = p /\ msg'[c].n = position[p] + 1
          /\ position[p] \in Nat
      BY <1>2 DEF TypeOK
    <3>2. msg'[c].n - 1 = position[p]
      BY <3>1
    <3> QED
      BY <1>2, <1>5, <2>1, <3>1, <3>2 DEF Follows
  <2>2. CASE d # c
    BY <1>3, <2>2, FollowsStays DEF OthersStay, AckInv, HandFollowsApplied, Follows
  <2> QED
    BY <2>1, <2>2
<1>7. PassedApplied'
  <2> SUFFICES ASSUME NEW q \in Partition, ~Dead(q)', NEW n \in 1..position'[q]
               PROVE  \/ topic[q][n] \in processed
                      \/ \E d \in Consumer : /\ owner[q] = d /\ pc'[d] \in Handling
                                              /\ msg'[d] = [partition |-> q, n |-> n]
    BY <1>2 DEF PassedApplied
  <2>1. ~Dead(q) /\ position[p] \in Nat
    BY <1>2, <1>3 DEF Dead, TypeOK
  <2>2. CASE q = p
    <3>1. position'[p] = position[p] + 1
      BY <1>2 DEF TypeOK
    <3>2. n \in 1..position[p] \/ n = position[p] + 1
      BY <2>1, <2>2, <3>1
    <3>3. CASE n = position[p] + 1
      BY <1>2, <2>2, <3>3 DEF TypeOK
    <3> QED
      BY <1>5, <2>2, <3>2, <3>3
  <2>3. CASE q # p
    <3>1. n \in 1..position[q]
      BY <1>2, <2>3 DEF TypeOK
    <3>2. CASE topic[q][n] \in processed
      BY <3>2
    <3>3. ASSUME NEW d \in Consumer, owner[q] = d, pc[d] \in Handling,
                 msg[d] = [partition |-> q, n |-> n]
          PROVE  pc'[d] \in Handling /\ msg'[d] = [partition |-> q, n |-> n]
      BY <1>2, <1>3, <3>3 DEF OthersStay
    <3> QED
      BY <2>1, <3>1, <3>2, <3>3 DEF AckInv, PassedApplied
  <2> QED
    BY <2>2, <2>3
<1> QED
  BY <1>4, <1>6, <1>7 DEF AckInv, HandFollowsApplied, Follows

\* Everything up to the message acknowledged has been applied.
LEMMA AcknowledgedApplied ==
  ASSUME TypeOK, AckInv, NEW c \in Consumer, pc[c] = "ack"
  PROVE  AppliedTo(Acknowledged(c)) /\ InHand(c) \in processed
<1>1. /\ msg[c].partition \in Partition /\ msg[c].n \in Nat \ {0}
      /\ InHand(c) = topic[msg[c].partition][msg[c].n]
  BY InHandType DEF InHand
<1>2. InHand(c) \in processed
  BY DEF AckInv, HandFollowsApplied
<1>3. \A n \in 1..msg[c].n : topic[msg[c].partition][n] \in processed
  <2>1. \A n \in 1..(msg[c].n - 1) : topic[msg[c].partition][n] \in processed
    BY DEF AckInv, HandFollowsApplied
  <2>2. \A n \in 1..msg[c].n : n \in 1..(msg[c].n - 1) \/ n = msg[c].n
    BY <1>1
  <2> QED
    BY <1>1, <1>2, <2>1, <2>2
<1> QED
  BY <1>1, <1>2, <1>3 DEF AppliedTo, Acknowledged, AckInv, AckedApplied, TypeOK

LEMMA AckStep == TypeOK /\ AckInv /\ [Next]_vars => AckInv'
<1> SUFFICES ASSUME TypeOK, AckInv, [Next]_vars PROVE AckInv'
  OBVIOUS
<1> USE DEF log, group, tables
<1>1. CASE UNCHANGED vars
  BY <1>1 DEF AckInv, AckedApplied, PassedApplied, HandFollowsApplied, Dead, Live, InHand, vars
<1>2. ASSUME NEW c \in Consumer, Start(c) PROVE AckInv'
  <2>1. /\ UNCHANGED <<topic, processed, msg>> /\ pc' = [pc EXCEPT ![c] = "poll"]
        /\ Rebalanced(Live \cup {c}, offset)
    BY <1>2 DEF Start
  <2>2. AckedApplied' /\ PassedApplied'
    BY <2>1, RebalancedAcked DEF AckInv, AckedApplied, AppliedTo
  <2>3. ASSUME NEW d \in Consumer PROVE Follows(d)'
    <3>1. CASE d = c
      BY <2>1, <3>1 DEF Follows, TypeOK
    <3>2. CASE d # c
      BY <2>1, <3>2, FollowsStays DEF AckInv, HandFollowsApplied, Follows, Grows, TypeOK
    <3> QED
      BY <3>1, <3>2
  <2> QED
    BY <2>2, <2>3 DEF AckInv, HandFollowsApplied, Follows
<1>3. ASSUME NEW c \in Consumer, Poll(c) PROVE AckInv'
  BY <1>3, PollAcked
<1>4. ASSUME NEW c \in Consumer, Register(c) PROVE AckInv'
  <2>1. /\ pc[c] = "register" /\ UNCHANGED <<topic, offset, owner, position, msg, processed>>
        /\ pc' = [pc EXCEPT ![c] = IF InHand(c) \in processed THEN "ack" ELSE "apply"]
    BY <1>4 DEF Register
  <2>2. Grows /\ OthersStay(c)
    BY <2>1 DEF Grows, OthersStay, TypeOK
  <2>3. Follows(c)'
    BY <2>1 DEF Follows, AckInv, HandFollowsApplied, InHand, TypeOK
  <2>4. pc'[c] \in Handling
    BY <2>1 DEF TypeOK
  <2> QED
    BY <2>1, <2>2, <2>3, <2>4, ProcessKeeps
<1>5. ASSUME NEW c \in Consumer, ApplyDelta(c) PROVE AckInv'
  <2>1. CASE Raise(c)
    BY <2>1, RaiseAcked
  <2>2. CASE UNCHANGED <<log, group, pc, msg, tables>>
    <3>1. Grows /\ OthersStay(c) /\ Follows(c)'
      BY <2>2 DEF Grows, OthersStay, Follows, AckInv, HandFollowsApplied, InHand
    <3> QED
      BY <2>2, <3>1, ProcessKeeps
  <2> QED
    BY <1>5, <2>1, <2>2 DEF ApplyDelta
<1>6. ASSUME NEW c \in Consumer, Commit(c) PROVE AckInv'
  <2>1. /\ pc[c] = "apply" /\ UNCHANGED <<topic, offset, owner, position, msg>>
        /\ processed' = processed \cup {InHand(c)} /\ pc' = [pc EXCEPT ![c] = "ack"]
    BY <1>6 DEF Commit
  <2>2. Grows /\ OthersStay(c)
    BY <2>1 DEF Grows, OthersStay, TypeOK
  <2>3. Follows(c)'
    BY <2>1 DEF Follows, AckInv, HandFollowsApplied, InHand, TypeOK
  <2>4. pc'[c] \in Handling
    BY <2>1 DEF TypeOK
  <2> QED
    BY <2>1, <2>2, <2>3, <2>4, ProcessKeeps
<1>7. ASSUME NEW c \in Consumer, Ack(c) PROVE AckInv'
  <2>1. AppliedTo(Acknowledged(c)) /\ InHand(c) \in processed /\ pc[c] = "ack"
    BY <1>7, AcknowledgedApplied DEF Ack
  <2>2. CASE Ended(c, Acknowledged(c))
    BY <2>1, <2>2, EndedAcked
  <2>3. CASE Raise(c)
    BY <2>3, RaiseAcked
  <2>4. CASE /\ offset' = Acknowledged(c) /\ Goto(c, "poll") /\ Dropped(c)
             /\ UNCHANGED <<log, owner, position, tables>>
    <3>1. /\ pc' = [pc EXCEPT ![c] = "poll"] /\ msg' = [msg EXCEPT ![c] = NoMessage]
          /\ UNCHANGED <<topic, owner, position, processed>>
      BY <2>4 DEF Dropped
    <3>2. Grows /\ OthersStay(c) /\ pc'[c] = "poll"
      BY <3>1 DEF Grows, OthersStay, TypeOK
    <3>3. AckedApplied'
      BY <2>1, <2>4, <3>1 DEF AckedApplied, AppliedTo
    <3>4. PassedApplied'
      BY <2>1, <3>1, <3>2, PassedStays DEF AckInv
    <3>5. ASSUME NEW d \in Consumer PROVE Follows(d)'
      BY <3>2, FollowsStays DEF OthersStay, Follows, AckInv, HandFollowsApplied
    <3> QED
      BY <3>3, <3>4, <3>5 DEF AckInv, HandFollowsApplied, Follows
  <2> QED
    BY <1>7, <2>2, <2>3, <2>4 DEF Ack
<1>8. ASSUME NEW c \in Consumer, DeadlockAbort(c) PROVE AckInv'
  BY <1>8, RaiseAcked DEF DeadlockAbort
<1>9. ASSUME NEW c \in Consumer, Die(c) PROVE AckInv'
  <2>1. CASE Raise(c)
    BY <2>1, RaiseAcked
  <2>2. CASE Goto(c, "down") /\ Dropped(c) /\ UNCHANGED <<log, group, tables>>
    <3>1. Grows /\ OthersStay(c) /\ Follows(c)' /\ pc'[c] = "down"
      BY <2>2 DEF Grows, OthersStay, Follows, Dropped, TypeOK
    <3> QED
      BY <2>2, <3>1, ProcessKeeps
  <2> QED
    BY <1>9, <2>1, <2>2 DEF Die
<1>10. CASE Rebalance
  <2>1. UNCHANGED <<topic, pc, msg, processed>> /\ Rebalanced(Live, offset)
    BY <1>10 DEF Rebalance
  <2>2. AckedApplied' /\ PassedApplied'
    BY <2>1, RebalancedAcked DEF AckInv, AckedApplied, AppliedTo
  <2> QED
    BY <2>1, <2>2 DEF AckInv, HandFollowsApplied, InHand
<1>11. ASSUME NEW p \in Partition, NEW e \in Event, Produce(p, e) PROVE AckInv'
  <2>1. /\ topic' = [topic EXCEPT ![p] = Append(topic[p], e)]
        /\ UNCHANGED <<offset, owner, position, pc, msg, processed>>
    BY <1>11 DEF Produce
  <2>2. Grows
    BY <2>1 DEF Grows, TypeOK
  <2>3. \A c \in Consumer : OthersStay(c) /\ Follows(c)'
    BY <2>1, <2>2, FollowsStays DEF OthersStay, Follows, AckInv, HandFollowsApplied
  <2>4. AckedApplied'
    BY <2>1, <2>2, AckedStays DEF AckInv, AckedApplied, AppliedTo
  <2>5. PassedApplied'
    BY <2>1, <2>2 DEF AckInv, PassedApplied, Grows, TypeOK, Dead, Live
  <2> QED
    BY <2>3, <2>4, <2>5 DEF AckInv, HandFollowsApplied, Follows
<1> QED
  BY <1>1, <1>2, <1>3, <1>4, <1>5, <1>6, <1>7, <1>8, <1>9, <1>10, <1>11 DEF Next, Process

\* A message handed out is applied, or in the hand of its owner, before the next
\* one of its partition is: what keeps committed offsets behind the projection.
THEOREM HandedInOrder == Spec => []AckInv
<1>1. Init => AckInv
  BY DEF Init, AckInv, AckedApplied, PassedApplied, HandFollowsApplied
<1> QED
  BY <1>1, AckStep, TypeCorrect, PTL DEF Spec

\* An acknowledged message has been applied: whatever rebalances, crashes and
\* late offset commits there are, a consumer started again misses no event.
THEOREM AcknowledgedAreApplied == Spec => []AckedApplied
<1>1. AckInv => AckedApplied
  BY DEF AckInv
<1> QED
  BY <1>1, HandedInOrder, PTL

-----------------------------------------------------------------------------
(* Every event is applied once: Consumer implements BalanceProjection *)

LEMMA InHandStays ==
  ASSUME TypeOK, Grows, NEW c \in Consumer, pc[c] \in Handling, msg'[c] = msg[c]
  PROVE  InHand(c)' = InHand(c)
  BY InHandType DEF InHand, Grows

\* A step that applies nothing and opens no transaction.
LEMMA RegisteredStays ==
  ASSUME TypeOK, RegisteredOnce, Grows, processed' = processed,
         \A c \in Consumer : Registered(c)' => Registered(c) /\ msg'[c] = msg[c]
  PROVE  RegisteredOnce'
<1>1. ASSUME NEW c \in Consumer, Registered(c)'
      PROVE  Registered(c) /\ InHand(c)' = InHand(c)
  BY <1>1, InHandStays DEF Registered
<1> QED
  BY <1>1 DEF RegisteredOnce

LEMMA RegisterOnce ==
  ASSUME TypeOK, RegisteredOnce, NEW c \in Consumer, Register(c)
  PROVE  RegisteredOnce'
<1>1. /\ pc[c] = "register" /\ UNCHANGED <<topic, msg, processed>> /\ Blockers(c) = {}
      /\ pc' = [pc EXCEPT ![c] = IF InHand(c) \in processed THEN "ack" ELSE "apply"]
  BY DEF Register, log, tables
<1>2. \A d \in Consumer : InHand(d)' = InHand(d)
  BY <1>1 DEF InHand
<1>3. \A d \in Consumer \ {c} : Registered(d)' <=> Registered(d)
  BY <1>1 DEF Registered, TypeOK
<1>4. Registered(c)' => InHand(c) \notin processed
  BY <1>1 DEF Registered, TypeOK
<1>5. \A d \in Consumer \ {c} : Registered(d) => InHand(d) # InHand(c)
  BY <1>1 DEF Blockers
<1> QED
  BY <1>1, <1>2, <1>3, <1>4, <1>5 DEF RegisteredOnce

LEMMA CommitOnce ==
  ASSUME TypeOK, RegisteredOnce, NEW c \in Consumer, Commit(c)
  PROVE  RegisteredOnce'
<1>1. /\ pc[c] = "apply" /\ UNCHANGED <<topic, msg>>
      /\ pc' = [pc EXCEPT ![c] = "ack"] /\ processed' = processed \cup {InHand(c)}
  BY DEF Commit, log
<1>2. \A d \in Consumer : InHand(d)' = InHand(d)
  BY <1>1 DEF InHand
<1>3. \A d \in Consumer : Registered(d)' => d # c /\ Registered(d)
  BY <1>1 DEF Registered, TypeOK
<1>4. \A d \in Consumer \ {c} : Registered(d) => InHand(d) # InHand(c)
  BY <1>1 DEF RegisteredOnce, Registered
<1> QED
  BY <1>1, <1>2, <1>3, <1>4 DEF RegisteredOnce

\* What each step does to the transactions and to what it has written.
LEMMA EndedStays ==
  ASSUME TypeOK, NEW c \in Consumer, NEW stored, Ended(c, stored)
  PROVE  /\ UNCHANGED <<body, topic, processed, projection>>
         /\ \A d \in Consumer : Registered(d)' => Registered(d) /\ msg'[d] = msg[d]
  BY DEF Ended, Dropped, Registered, TypeOK, log, tables

\* Steps that apply nothing and send nothing.
Quiet ==
  /\ UNCHANGED <<body, topic, processed, projection>>
  /\ \A d \in Consumer : Registered(d)' => Registered(d) /\ msg'[d] = msg[d]

LEMMA QuietSteps ==
  ASSUME TypeOK, [Next]_vars
  PROVE  \/ Quiet
         \/ \E c \in Consumer : Register(c) \/ Commit(c)
         \/ \E p \in Partition, e \in Event : Produce(p, e)
<1> USE DEF log, group, tables, Quiet
<1>1. CASE UNCHANGED vars
  BY <1>1 DEF vars, Registered
<1>2. ASSUME NEW c \in Consumer, Start(c) PROVE Quiet
  BY <1>2 DEF Start, Rebalanced, Registered, TypeOK
<1>3. ASSUME NEW c \in Consumer, Poll(c) PROVE Quiet
  BY <1>3 DEF Poll, Hand, Registered, TypeOK
<1>4. ASSUME NEW c \in Consumer, ApplyDelta(c) PROVE Quiet
  <2>1. CASE Raise(c)
    BY <2>1, EndedStays DEF Raise
  <2>2. CASE UNCHANGED <<log, group, pc, msg, tables>>
    BY <2>2 DEF Registered
  <2> QED
    BY <1>4, <2>1, <2>2 DEF ApplyDelta
<1>5. ASSUME NEW c \in Consumer, Ack(c) PROVE Quiet
  <2>1. CASE Ended(c, Acknowledged(c)) \/ Raise(c)
    BY <2>1, EndedStays DEF Raise
  <2>2. CASE Goto(c, "poll") /\ Dropped(c) /\ UNCHANGED <<log, owner, position, tables>>
    BY <2>2 DEF Dropped, Registered, TypeOK
  <2> QED
    BY <1>5, <2>1, <2>2 DEF Ack
<1>6. ASSUME NEW c \in Consumer, DeadlockAbort(c) PROVE Quiet
  BY <1>6, EndedStays DEF DeadlockAbort, Raise
<1>7. ASSUME NEW c \in Consumer, Die(c) PROVE Quiet
  <2>1. CASE Raise(c)
    BY <2>1, EndedStays DEF Raise
  <2>2. CASE Goto(c, "down") /\ Dropped(c) /\ UNCHANGED <<log, group, tables>>
    BY <2>2 DEF Dropped, Registered, TypeOK
  <2> QED
    BY <1>7, <2>1, <2>2 DEF Die
<1>8. CASE Rebalance
  BY <1>8 DEF Rebalance, Registered
<1> QED
  BY <1>1, <1>2, <1>3, <1>4, <1>5, <1>6, <1>7, <1>8 DEF Next, Process

LEMMA RegisteredOnceStep == TypeOK /\ RegisteredOnce /\ [Next]_vars => RegisteredOnce'
<1> SUFFICES ASSUME TypeOK, RegisteredOnce, [Next]_vars PROVE RegisteredOnce'
  OBVIOUS
<1>1. CASE Quiet
  BY <1>1, RegisteredStays DEF Quiet, Grows
<1>2. ASSUME NEW c \in Consumer, Register(c) \/ Commit(c) PROVE RegisteredOnce'
  BY <1>2, RegisterOnce, CommitOnce
<1>3. ASSUME NEW p \in Partition, NEW e \in Event, Produce(p, e) PROVE RegisteredOnce'
  <2>1. /\ topic' = [topic EXCEPT ![p] = Append(topic[p], e)]
        /\ UNCHANGED <<pc, msg, processed>>
    BY <1>3 DEF Produce, tables
  <2>2. Grows
    BY <2>1 DEF Grows, TypeOK
  <2> QED
    BY <2>1, <2>2, RegisteredStays DEF Registered
<1> QED
  BY <1>1, <1>2, <1>3, QuietSteps

\* The entries of the promise are those of the ledger.
LEMMA SameEntry == \A q, a : Promise!Entry(q, a) = Entry(q, a)
  BY DEF Promise!Entry, Promise!Stored, Entry, Stored

LEMMA CommitApplies ==
  ASSUME TypeOK, RegisteredOnce, NEW c \in Consumer, Commit(c)
  PROVE  Promise!Apply(InHand(c)) /\ InHand(c) \in Event
<1>1. /\ pc[c] = "apply" /\ UNCHANGED <<body, topic>>
      /\ processed' = processed \cup {InHand(c)}
      /\ projection' = [a \in Account |-> projection[a] + DeltaOn(body[InHand(c)], a)]
  BY DEF Commit, log
<1>2. InHand(c) \notin processed
  BY <1>1 DEF RegisteredOnce, Registered
<1>3. /\ InHand(c) \in Event /\ body[InHand(c)] \in Workload
      /\ msg[c].partition \in Partition /\ msg[c].n \in 1..Len(topic[msg[c].partition])
  BY <1>1, InHandType
<1>4. InHand(c) \in InTopic
  BY <1>3 DEF InTopic, InHand
<1>5. InTopic' = InTopic
  BY <1>1 DEF InTopic
<1>6. \A a \in User : projection'[a] = projection[a] + Entry(body[InHand(c)], a)
  BY <1>1, <1>3, UpsertsProject DEF User
<1>7. UserProjections' = [a \in User |-> UserProjections[a] + Promise!Entry(body[InHand(c)], a)]
  BY <1>6, SameEntry DEF UserProjections, User
<1> QED
  BY <1>1, <1>2, <1>3, <1>4, <1>5, <1>7 DEF Promise!Apply, Promise!User, User

\* A send adds its event to the topic, and no other step changes it.
LEMMA ProduceInTopic ==
  ASSUME TypeOK, NEW p \in Partition, NEW e \in Event, Produce(p, e)
  PROVE  InTopic' = InTopic \cup {e}
<1>1. /\ topic' = [topic EXCEPT ![p] = Append(topic[p], e)]
      /\ UNCHANGED <<body, processed, projection>>
  BY DEF Produce, tables
<1>2. /\ topic[p] \in Seq(Event) /\ Len(topic[p]) \in Nat
      /\ topic'[p] = Append(topic[p], e) /\ \A q \in Partition \ {p} : topic'[q] = topic[q]
  BY <1>1 DEF TypeOK
<1>3. /\ Len(topic'[p]) = Len(topic[p]) + 1 /\ topic'[p][Len(topic[p]) + 1] = e
      /\ \A n \in 1..Len(topic[p]) : topic'[p][n] = topic[p][n]
  BY <1>2
<1>4. ASSUME NEW f \in InTopic' PROVE f \in InTopic \cup {e}
  <2>1. PICK q \in Partition : \E n \in 1..Len(topic'[q]) : topic'[q][n] = f
    BY DEF InTopic
  <2>2. PICK n \in 1..Len(topic'[q]) : topic'[q][n] = f
    BY <2>1
  <2>3. CASE q # p
    BY <1>2, <2>2, <2>3 DEF InTopic
  <2>4. CASE q = p
    <3>1. n \in 1..Len(topic[p]) \/ n = Len(topic[p]) + 1
      BY <1>2, <1>3, <2>4
    <3> QED
      BY <1>3, <2>2, <2>4, <3>1 DEF InTopic
  <2> QED
    BY <2>3, <2>4
<1>5. ASSUME NEW f \in InTopic \cup {e} PROVE f \in InTopic'
  <2>1. CASE f = e
    <3>1. Len(topic[p]) + 1 \in 1..Len(topic'[p])
      BY <1>2, <1>3
    <3> QED
      BY <1>3, <2>1, <3>1 DEF InTopic
  <2>2. CASE f \in InTopic
    <3>1. PICK q \in Partition : \E n \in 1..Len(topic[q]) : topic[q][n] = f
      BY <2>2 DEF InTopic
    <3>2. PICK n \in 1..Len(topic[q]) : topic[q][n] = f
      BY <3>1
    <3>3. n \in 1..Len(topic'[q]) /\ topic'[q][n] = f
      <4>1. CASE q = p
        <5>1. n \in 1..(Len(topic[p]) + 1)
          BY <1>2, <4>1
        <5> QED
          BY <1>3, <3>2, <4>1, <5>1
      <4>2. CASE q # p
        BY <1>2, <3>2, <4>2
      <4> QED
        BY <4>1, <4>2
    <3> QED
      BY <2>2, <3>3 DEF InTopic
  <2> QED
    BY <1>5, <2>1, <2>2
<1> QED
  BY <1>4, <1>5

LEMMA ProduceSends ==
  ASSUME TypeOK, NEW p \in Partition, NEW e \in Event, Produce(p, e)
  PROVE  Promise!Send(e)
  BY ProduceInTopic DEF Produce, tables, Promise!Send, UserProjections

LEMMA TopicStays ==
  ASSUME NEW c \in Consumer, Start(c) \/ Process(c) \/ Die(c) \/ Rebalance
  PROVE  UNCHANGED <<body, topic>>
<1> USE DEF log, Raise, Ended
<1>1. CASE Process(c)
  BY <1>1 DEF Process, Poll, Register, ApplyDelta, Commit, Ack, DeadlockAbort
<1>2. CASE Start(c) \/ Die(c) \/ Rebalance
  BY <1>2 DEF Start, Die, Rebalance
<1> QED
  BY <1>1, <1>2

LEMMA PromiseStep ==
  TypeOK /\ RegisteredOnce /\ [Next]_vars => [Promise!Next]_(Promise!vars)
<1> SUFFICES ASSUME TypeOK, RegisteredOnce, [Next]_vars
             PROVE  Promise!Next \/ UNCHANGED Promise!vars
  OBVIOUS
<1>1. CASE Quiet
  BY <1>1 DEF Quiet, Promise!vars, InTopic, UserProjections
<1>2. ASSUME NEW c \in Consumer, Register(c) PROVE UNCHANGED Promise!vars
  BY <1>2 DEF Register, log, tables, Promise!vars, InTopic, UserProjections
<1>3. ASSUME NEW c \in Consumer, Commit(c) PROVE Promise!Next
  <2>1. PICK e \in Event : Promise!Apply(e)
    BY <1>3, CommitApplies, Zenon
  <2> QED
    BY <2>1 DEF Promise!Next
<1>4. ASSUME NEW p \in Partition, NEW e \in Event, Produce(p, e) PROVE Promise!Next
  BY <1>4, ProduceSends DEF Promise!Next
<1> QED
  BY <1>1, <1>2, <1>3, <1>4, QuietSteps

\* No two open transactions register one event, and none an applied one.
THEOREM RegisteredAlone == Spec => []RegisteredOnce
<1>1. Init => RegisteredOnce
  BY DEF Init, RegisteredOnce, Registered
<1> QED
  BY <1>1, RegisteredOnceStep, TypeCorrect, PTL DEF Spec

\* The group implements the one-step projection: whatever is delivered twice,
\* rebalanced, aborted or lost, an event is applied once, whole, and adds what
\* to the users' accounts what its transaction added to them in the ledger.
THEOREM AppliedOnce == Spec => PromiseSpec
<1>1. Init => Promise!Init
  BY DEF Init, Promise!Init, InTopic, UserProjections, Promise!User
<1> QED
  BY <1>1, PromiseStep, TypeCorrect, RegisteredAlone, PTL DEF Spec, PromiseSpec, Promise!Spec

-----------------------------------------------------------------------------
(* The projection is a sum *)

\* What the events add to the projection of a user's account.
Adds(a) == [e \in Event |-> Entry(body[e], a)]

LEMMA AddsType ==
  ASSUME TypeOK, NEW a \in User
  PROVE  \A e \in Event : Adds(a)[e] \in Int
  BY UpsertsProject DEF Adds, TypeOK, User

LEMMA ApplySums ==
  ASSUME TypeOK, ProjectionIsSum, NEW e \in Event, Promise!Apply(e)
  PROVE  ProjectionIsSum'
<1>1. /\ e \in InTopic /\ e \notin processed /\ processed' = processed \cup {e}
      /\ UserProjections' = [a \in User |-> UserProjections[a] + Entry(body[e], a)]
      /\ body' = body /\ InTopic' = InTopic
  BY SameEntry DEF Promise!Apply, Promise!User, User
<1>2. IsFiniteSet(processed) /\ processed \subseteq InTopic
  BY DEF ProjectionIsSum
<1>3. IsFiniteSet(processed') /\ processed' \subseteq InTopic'
  BY <1>1, <1>2, FS_AddElement
<1>4. ASSUME NEW a \in User PROVE projection'[a] = SumOver(Adds(a), processed')
  <2>1. \A f \in processed : Adds(a)[f] \in Int
    BY <1>2, AddsType DEF InTopic
  <2>2. Adds(a)[e] \in Int /\ Adds(a)[e] = Entry(body[e], a)
    BY AddsType DEF Adds
  <2>3. SumOver(Adds(a), processed \cup {e}) = SumOver(Adds(a), processed) + Adds(a)[e]
    BY <1>1, <1>2, <2>1, <2>2, SumPutIn
  <2>4. projection[a] = SumOver(Adds(a), processed)
    BY DEF ProjectionIsSum, Adds, User
  <2>5. projection'[a] = projection[a] + Entry(body[e], a)
    BY <1>1 DEF UserProjections, User
  <2> QED
    BY <1>1, <2>2, <2>3, <2>4, <2>5
<1>5. \A a \in User : Adds(a)' = Adds(a)
  BY <1>1 DEF Adds
<1>6. \A a \in User : projection'[a] = SumOver(Adds(a)', processed')
  BY <1>4, <1>5
<1> QED
  BY <1>3, <1>6 DEF ProjectionIsSum, Adds, User

LEMMA SumStep == TypeOK /\ ProjectionIsSum /\ [Promise!Next]_(Promise!vars) => ProjectionIsSum'
<1>1. ASSUME TypeOK, ProjectionIsSum, NEW e \in Event, Promise!Apply(e) PROVE ProjectionIsSum'
  BY <1>1, ApplySums
<1>2. ASSUME ProjectionIsSum, UNCHANGED <<body, processed, UserProjections>>,
             InTopic \subseteq InTopic'
      PROVE  ProjectionIsSum'
  <2>1. \A a \in User : projection'[a] = projection[a]
    BY <1>2 DEF UserProjections, User
  <2> QED
    BY <1>2, <2>1 DEF ProjectionIsSum, User
<1> QED
  BY <1>1, <1>2 DEF Promise!Next, Promise!Send, Promise!vars

\* Whatever is delivered twice, rebalanced or lost, the projection of a user's
\* account is what the transactions of the events in processed_events posted to
\* it, each counted once.
THEOREM ProjectionSums == Spec => []ProjectionIsSum
<1>1. Init => ProjectionIsSum
  BY FS_EmptySet, SumEmpty DEF Init, ProjectionIsSum
<1>2. TypeOK /\ RegisteredOnce /\ ProjectionIsSum /\ [Next]_vars => ProjectionIsSum'
  BY PromiseStep, SumStep
<1> QED
  BY <1>1, <1>2, TypeCorrect, RegisteredAlone, PTL DEF Spec

=============================================================================
