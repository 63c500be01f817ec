------------------------- MODULE OutboxWorkerProofs --------------------------
(***************************************************************************)
(* Theorems about OutboxWorker, for any events, workers and faults.        *)
(***************************************************************************)
EXTENDS OutboxInvariants, FiniteSetTheorems, WellFoundedInduction, TLAPS

USE DEF Statuses, Steps

\* What does not touch a row, a batch or the topic, and all a worker may do.
Manages(w) == StartProducer(w) \/ Exit(w) \/ Stop(w)
Acts(w) == Work(w) \/ Manages(w) \/ Crash(w)

LEMMA NextActs == Next => \/ \E w \in Worker : Acts(w)
                          \/ \E e \in Event : Create(e) \/ Passing(e)
  BY DEF Next, Run, Acts, Manages

-----------------------------------------------------------------------------
(* Facts about data *)

Below == {ss \in Nat \X Nat : ss[1] < ss[2]}

LEMMA BelowWellFounded == IsWellFoundedOn(Below, Nat)
  BY NatLessThanWellFounded DEF OpToRel, Below

LEMMA LeastElement ==
  ASSUME NEW S \in SUBSET Nat, S # {}
  PROVE  \E e \in S : \A f \in S : e <= f
<1>1. PICK e \in S : \A f \in S : <<f, e>> \notin Below
  BY BelowWellFounded, WFMin
<1>2. \A f \in S : ~(f < e)
  BY <1>1 DEF Below
<1> QED
  BY <1>2

\* The event in hand is one of the batch.
LEMMA CurrentType ==
  ASSUME TypeOK, NEW w \in Worker, pc[w] \in Handling
  PROVE  Current(w) \in batch[w] /\ Current(w) \in Event
<1>1. batch[w] \in SUBSET Event /\ batch[w] # {}
  BY DEF TypeOK
<1>2. batch[w] \in SUBSET Nat
  BY <1>1, OutboxAssumption
<1>3. \E e \in batch[w] : \A f \in batch[w] : e <= f
  BY <1>1, <1>2, LeastElement
<1>4. Current(w) \in batch[w]
  BY <1>3 DEF Current
<1> QED
  BY <1>1, <1>4

LEMMA RowFields ==
  ASSUME NEW x \in Row
  PROVE  /\ x.status \in Statuses /\ x.retries \in Nat
         /\ x.retryAt \in {"null", "later", "due"}
         /\ x.claimed \in {"null", "fresh", "stale"}
  BY DEF Row

LEMMA NewRowType == NewRow \in Row
  BY DEF NewRow, Row

-----------------------------------------------------------------------------
(* Type correctness *)

LEMMA InitType == Init => TypeOK
  BY NewRowType, OutboxAssumption DEF Init, TypeOK, Handling

LEMMA NextEventType ==
  ASSUME TypeOK, NEW w \in Worker, pc[w] \in Handling, NextEvent(w)
  PROVE  /\ pc' \in [Worker -> Steps]
         /\ batch' \in [Worker -> SUBSET Event]
         /\ \A v \in Worker : pc'[v] \in Handling => batch'[v] # {}
<1>1. pc' \in [Worker -> Steps] /\ batch' \in [Worker -> SUBSET Event]
  BY DEF TypeOK, NextEvent, Goto
<1>2. ASSUME NEW v \in Worker, pc'[v] \in Handling
      PROVE  batch'[v] # {}
  <2>1. CASE v # w
    <3>1. pc'[v] = pc[v] /\ batch'[v] = batch[v]
      BY <2>1 DEF TypeOK, NextEvent, Goto
    <3> QED
      BY <1>2, <3>1 DEF TypeOK
  <2>2. CASE v = w
    <3>1. pc'[w] = IF batch[w] = {Current(w)} THEN "recover" ELSE "send"
      BY DEF TypeOK, NextEvent, Goto
    <3>2. batch[w] # {Current(w)}
      BY <1>2, <2>2, <3>1 DEF Handling
    <3>3. batch'[w] = batch[w] \ {Current(w)}
      BY DEF TypeOK, NextEvent
    <3>4. batch[w] # {}
      BY DEF TypeOK
    <3> QED
      BY <2>2, <3>2, <3>3, <3>4
  <2> QED
    BY <2>1, <2>2
<1> QED
  BY <1>1, <1>2

\* A mark stores a row.
LEMMA WrittenType ==
  /\ \A x, y, z \in Statuses : Written(x, y, z) \in Statuses
  /\ \A x, y, z \in {"null", "later", "due"} : Written(x, y, z) \in {"null", "later", "due"}
  /\ \A x, y, z \in {"null", "fresh", "stale"} :
       Written(x, y, z) \in {"null", "fresh", "stale"}
  BY DEF Written

\* What mark_published and mark_failed make of a row.
LEMMA PublishedFields ==
  ASSUME NEW x \in Row, NEW y \in Row
  PROVE  /\ Published(x, y) \in Row
         /\ Published(x, y).retries = x.retries
         /\ Published(x, y).status = Written("PUBLISHED", y.status, x.status)
<1>1. /\ Written("PUBLISHED", y.status, x.status) \in Statuses
      /\ Written("null", y.retryAt, x.retryAt) \in {"null", "later", "due"}
      /\ Written("null", y.claimed, x.claimed) \in {"null", "fresh", "stale"}
  BY RowFields, WrittenType
<1> HIDE DEF Statuses
<1> QED
  BY <1>1 DEF Published, Row

LEMMA FailedFields ==
  ASSUME NEW x \in Row, NEW y \in Row
  PROVE  /\ Failed(x, y) \in Row
         /\ Failed(x, y).retries = y.retries + 1
         /\ Failed(x, y).status =
              Written(IF GivesUp(y.retries + 1) THEN "FAILED" ELSE "PENDING",
                      y.status, x.status)
<1> DEFINE status == IF GivesUp(y.retries + 1) THEN "FAILED" ELSE "PENDING"
           retryAt == IF GivesUp(y.retries + 1)
                      THEN Written("null", y.retryAt, x.retryAt) ELSE "later"
<1>1. status \in Statuses
  OBVIOUS
<1>2. /\ Written(status, y.status, x.status) \in Statuses
      /\ Written("null", y.retryAt, x.retryAt) \in {"null", "later", "due"}
      /\ Written("null", y.claimed, x.claimed) \in {"null", "fresh", "stale"}
      /\ y.retries + 1 \in Nat
  BY <1>1, RowFields, WrittenType
<1>3. retryAt \in {"null", "later", "due"}
  BY <1>2
<1>4. Failed(x, y) = [x EXCEPT !.status = Written(status, y.status, x.status),
                               !.retries = y.retries + 1,
                               !.retryAt = retryAt,
                               !.claimed = Written("null", y.claimed, x.claimed)]
  BY DEF Failed, Row
<1> HIDE DEF Statuses, status, retryAt
<1>5. /\ Failed(x, y) \in Row
      /\ Failed(x, y).retries = y.retries + 1
      /\ Failed(x, y).status = Written(status, y.status, x.status)
  BY <1>2, <1>3, <1>4 DEF Row
<1> QED
  BY <1>5 DEF status

\* What a mark does to the table.
LEMMA MarkPublishedRow ==
  ASSUME TypeOK, NEW w \in Worker, MarkPublished(w)
  PROVE  /\ row' = [row EXCEPT ![Current(w)] = Published(row[Current(w)], got[w])]
         /\ row' \in [Event -> Row]
<1>1. pc[w] \in Handling
  BY DEF MarkPublished, Handling
<1>2. row[Current(w)] \in Row /\ got[w] \in Row /\ Current(w) \in Event
  BY <1>1, CurrentType DEF TypeOK
<1>3. row' = [row EXCEPT ![Current(w)] = Published(row[Current(w)], got[w])]
  BY DEF MarkPublished
<1>4. Published(row[Current(w)], got[w]) \in Row
  BY <1>2, PublishedFields
<1> QED
  BY <1>3, <1>4 DEF TypeOK

LEMMA MarkFailedRow ==
  ASSUME TypeOK, NEW w \in Worker, MarkFailed(w)
  PROVE  /\ row' = [row EXCEPT ![Current(w)] = Failed(row[Current(w)], got[w])]
         /\ row' \in [Event -> Row]
<1>1. pc[w] \in Handling
  BY DEF MarkFailed, Handling
<1>2. row[Current(w)] \in Row /\ got[w] \in Row /\ Current(w) \in Event
  BY <1>1, CurrentType DEF TypeOK
<1>3. row' = [row EXCEPT ![Current(w)] = Failed(row[Current(w)], got[w])]
  BY DEF MarkFailed
<1>4. Failed(row[Current(w)], got[w]) \in Row
  BY <1>2, FailedFields
<1> QED
  BY <1>3, <1>4 DEF TypeOK

LEMMA CopiesType ==
  ASSUME TypeOK, NEW e, Deliver(e) \/ UNCHANGED copies
  PROVE  copies' \in [Event -> 0..MaxCopies]
<1>1. \A n \in 0..MaxCopies : Least(n + 1, MaxCopies) \in 0..MaxCopies
  BY OutboxAssumption DEF Least
<1> QED
  BY <1>1 DEF TypeOK, Deliver

LEMMA FailsType ==
  ASSUME TypeOK, NEW e, Raise(e) \/ UNCHANGED fails
  PROVE  fails' \in [Event -> 0..MaxRetries]
<1>1. \A n \in 0..MaxRetries : Least(n + 1, MaxRetries) \in 0..MaxRetries
  BY OutboxAssumption DEF Least
<1> QED
  BY <1>1 DEF TypeOK, Raise

\* A step that leaves the batches alone, and no worker in hand of an empty one.
LEMMA StepType ==
  ASSUME TypeOK, NEW w \in Worker, NEW s \in Steps, Goto(w, s), UNCHANGED batch,
         s \in Handling => pc[w] \in Handling
  PROVE  /\ pc' \in [Worker -> Steps]
         /\ \A v \in Worker : pc'[v] \in Handling => batch'[v] # {}
  BY DEF TypeOK, Goto

LEMMA NextType == TypeOK /\ [Next]_vars => TypeOK'
<1> SUFFICES ASSUME TypeOK, [Next]_vars
             PROVE  TypeOK'
  OBVIOUS
<1> USE DEF sessions, kafka
<1>1. ASSUME NEW w \in Worker, Recover(w)
      PROVE  TypeOK'
  <2>1. PICK S \in SUBSET Stale(w) : locked' = [locked EXCEPT ![w] = S]
    BY <1>1 DEF Recover
  <2>2. locked' \in [Worker -> SUBSET Event]
    BY <2>1 DEF TypeOK, Stale
  <2>3. Goto(w, "recovering") /\ UNCHANGED <<row, batch, got, kafka, running>>
    BY <1>1 DEF Recover
  <2> QED
    BY <2>2, <2>3, StepType DEF TypeOK, Handling
<1>2. ASSUME NEW w \in Worker, CommitRecovery(w)
      PROVE  TypeOK'
  <2>1. \A e \in Event : row'[e] \in Row
    BY <1>2 DEF CommitRecovery, TypeOK, Row
  <2>2. row' \in [Event -> Row]
    BY <1>2, <2>1 DEF CommitRecovery
  <2>3. locked' \in [Worker -> SUBSET Event]
    BY <1>2 DEF CommitRecovery, TypeOK
  <2>4. Goto(w, "claim") /\ UNCHANGED <<batch, got, kafka, running>>
    BY <1>2 DEF CommitRecovery
  <2> QED
    BY <2>2, <2>3, <2>4, StepType DEF TypeOK, Handling
<1>3. ASSUME NEW w \in Worker, Claim(w)
      PROVE  TypeOK'
  <2>1. Oldest(Claimable(w)) \in SUBSET Event
    BY DEF Oldest, Claimable
  <2>2. locked' \in [Worker -> SUBSET Event]
    BY <1>3, <2>1 DEF Claim, TypeOK
  <2>3. Goto(w, "claiming") /\ UNCHANGED <<row, batch, got, kafka, running>>
    BY <1>3 DEF Claim
  <2> QED
    BY <2>2, <2>3, StepType DEF TypeOK, Handling
<1>4. ASSUME NEW w \in Worker, CommitClaim(w)
      PROVE  TypeOK'
  <2>1. \A e \in Event : row'[e] \in Row
    BY <1>4 DEF CommitClaim, TypeOK, Row
  <2>2. row' \in [Event -> Row]
    BY <1>4, <2>1 DEF CommitClaim
  <2>3. /\ locked' \in [Worker -> SUBSET Event]
        /\ batch' \in [Worker -> SUBSET Event]
        /\ pc' \in [Worker -> Steps]
    BY <1>4 DEF CommitClaim, Goto, TypeOK
  <2>4. \A v \in Worker : pc'[v] \in Handling => batch'[v] # {}
    BY <1>4 DEF CommitClaim, Goto, TypeOK, Handling
  <2>5. UNCHANGED <<got, kafka, running>>
    BY <1>4 DEF CommitClaim
  <2> QED
    BY <2>2, <2>3, <2>4, <2>5 DEF TypeOK
<1>5. ASSUME NEW w \in Worker, Send(w)
      PROVE  TypeOK'
  <2>1. copies' \in [Event -> 0..MaxCopies] /\ fails' \in [Event -> 0..MaxRetries]
    BY <1>5, CopiesType, FailsType DEF Send
  <2>2. pc[w] \in Handling /\ (Goto(w, "sent") \/ Goto(w, "raised"))
    BY <1>5 DEF Send, Handling
  <2>3. UNCHANGED <<row, locked, batch, got, running>>
    BY <1>5 DEF Send
  <2> QED
    BY <2>1, <2>2, <2>3, StepType DEF TypeOK
<1>6. ASSUME NEW w \in Worker, Get(w)
      PROVE  TypeOK'
  <2>1. pc[w] \in Handling /\ (Goto(w, "publishing") \/ Goto(w, "failing"))
    BY <1>6 DEF Get, Handling
  <2>2. row[Current(w)] \in Row
    BY <2>1, CurrentType DEF TypeOK
  <2>3. got' \in [Worker -> Row]
    BY <1>6, <2>2 DEF Get, TypeOK
  <2>4. UNCHANGED <<row, locked, batch, kafka, running>>
    BY <1>6 DEF Get
  <2> QED
    BY <2>1, <2>3, <2>4, StepType DEF TypeOK
<1>7. ASSUME NEW w \in Worker, MarkPublished(w)
      PROVE  TypeOK'
  <2>1. pc[w] \in Handling /\ NextEvent(w) /\ UNCHANGED <<locked, got, kafka, running>>
    BY <1>7 DEF MarkPublished, Handling
  <2> QED
    BY <1>7, <2>1, MarkPublishedRow, NextEventType DEF TypeOK
<1>8. ASSUME NEW w \in Worker, MarkFailed(w)
      PROVE  TypeOK'
  <2>1. pc[w] \in Handling /\ NextEvent(w) /\ UNCHANGED <<locked, got, kafka, running>>
    BY <1>8 DEF MarkFailed, Handling
  <2> QED
    BY <1>8, <2>1, MarkFailedRow, NextEventType DEF TypeOK
<1>9. ASSUME NEW w \in Worker, Crash(w)
      PROVE  TypeOK'
  <2>1. \A v \in Worker : pc'[v] \in Handling => batch'[v] # {}
    BY <1>9 DEF Crash, Goto, TypeOK, Handling
  <2> QED
    BY <1>9, <2>1 DEF Crash, Goto, TypeOK
<1>10. ASSUME NEW e \in Event, Create(e) \/ Passing(e)
       PROVE  TypeOK'
  <2>0. row[e] \in Row
    BY DEF TypeOK
  <2>1. row' \in [Event -> Row]
    <3>1. CASE Create(e)
      <4>1. [row[e] EXCEPT !.status = "PENDING"] \in Row
        BY <2>0 DEF Row
      <4> QED
        BY <3>1, <4>1 DEF Create, TypeOK
    <3>2. CASE RetryDue(e)
      <4>1. [row[e] EXCEPT !.retryAt = "due"] \in Row
        BY <2>0 DEF Row
      <4> QED
        BY <3>2, <4>1 DEF RetryDue, TypeOK
    <3>3. CASE ClaimAges(e)
      <4>1. [row[e] EXCEPT !.claimed = "stale"] \in Row
        BY <2>0 DEF Row
      <4> QED
        BY <3>3, <4>1 DEF ClaimAges, TypeOK
    <3> QED
      BY <1>10, <3>1, <3>2, <3>3 DEF Passing
  <2>2. UNCHANGED <<sessions, kafka, running>>
    BY <1>10 DEF Create, Passing, RetryDue, ClaimAges
  <2> QED
    BY <2>1, <2>2 DEF TypeOK
<1>11. CASE UNCHANGED vars
  BY <1>11 DEF vars, TypeOK
<1>12. ASSUME NEW w \in Worker, Manages(w)
       PROVE  TypeOK'
  <2>1. pc' \in [Worker -> Steps] /\ running' \in [Worker -> BOOLEAN]
    BY <1>12 DEF Manages, StartProducer, Exit, Stop, Idle, Goto, TypeOK
  <2>2. \A v \in Worker : pc'[v] \in Handling => pc[v] \in Handling
    BY <1>12 DEF Manages, StartProducer, Exit, Stop, Goto, TypeOK, Handling
  <2>3. UNCHANGED <<row, locked, batch, got, kafka>>
    BY <1>12 DEF Manages, StartProducer, Exit, Stop, Idle
  <2> QED
    BY <2>1, <2>2, <2>3 DEF TypeOK
<1> QED
  BY <1>1, <1>2, <1>3, <1>4, <1>5, <1>6, <1>7, <1>8, <1>9, <1>10, <1>11, <1>12, NextActs
     DEF Acts, Work

\* Every variable keeps its shape and no worker works on an empty batch: the
\* type invariant of OutboxWorker holds for any events, workers and faults.
THEOREM TypeCorrect == Spec => []TypeOK
  BY InitType, NextType, PTL DEF Spec

-----------------------------------------------------------------------------
(* What a step leaves alone *)

LEMMA CurrentStays ==
  ASSUME NEW w, batch'[w] = batch[w]
  PROVE  Current(w)' = Current(w)
  BY DEF Current

\* A step of one worker does not show in what another has in hand.
LEMMA OthersStay ==
  ASSUME TypeOK, NEW w \in Worker, Acts(w), NEW v \in Worker, v # w
  PROVE  pc'[v] = pc[v] /\ batch'[v] = batch[v] /\ got'[v] = got[v]
<1>1. CASE Recover(w) \/ Claim(w)
  BY <1>1 DEF Recover, Claim, Goto, TypeOK
<1>2. CASE CommitRecovery(w)
  BY <1>2 DEF CommitRecovery, Goto, TypeOK
<1>3. CASE CommitClaim(w)
  BY <1>3 DEF CommitClaim, Goto, TypeOK
<1>4. CASE Send(w)
  BY <1>4 DEF Send, Goto, TypeOK
<1>5. CASE Get(w)
  BY <1>5 DEF Get, Goto, TypeOK
<1>6. CASE MarkPublished(w)
  BY <1>6 DEF MarkPublished, NextEvent, Goto, TypeOK
<1>7. CASE MarkFailed(w)
  BY <1>7 DEF MarkFailed, NextEvent, Goto, TypeOK
<1>8. CASE Crash(w)
  BY <1>8 DEF Crash, Goto, TypeOK
<1>9. CASE Manages(w)
  BY <1>9 DEF Manages, StartProducer, Exit, Stop, Idle, Goto, TypeOK, sessions
<1> QED
  BY <1>1, <1>2, <1>3, <1>4, <1>5, <1>6, <1>7, <1>8, <1>9 DEF Acts, Work

\* Only the marks touch retry_count or settle an event.
Marks(w) == MarkPublished(w) \/ MarkFailed(w)

RowKept(e) ==
  /\ row'[e].retries = row[e].retries
  /\ row'[e].status \in {"PUBLISHED", "FAILED"} => row'[e].status = row[e].status

LEMMA RowsKept ==
  ASSUME TypeOK, [Next]_vars, \A w \in Worker : ~Marks(w), NEW e \in Event
  PROVE  RowKept(e)
<1> USE DEF sessions, kafka, RowKept
<1>0. row \in [Event -> Row] /\ row[e] \in Row
  BY DEF TypeOK
<1>1. CASE row' = row
  BY <1>1
<1>2. ASSUME NEW w \in Worker, CommitRecovery(w) PROVE RowKept(e)
  BY <1>0, <1>2 DEF CommitRecovery, Row
<1>3. ASSUME NEW w \in Worker, CommitClaim(w) PROVE RowKept(e)
  BY <1>0, <1>3 DEF CommitClaim, Row
<1>4. ASSUME NEW f \in Event, Create(f) PROVE RowKept(e)
  BY <1>0, <1>4 DEF Create, Row
<1>5. ASSUME NEW f \in Event, RetryDue(f) PROVE RowKept(e)
  BY <1>0, <1>5 DEF RetryDue, Row
<1>6. ASSUME NEW f \in Event, ClaimAges(f) PROVE RowKept(e)
  BY <1>0, <1>6 DEF ClaimAges, Row
<1>7. ASSUME NEW w \in Worker, Recover(w) \/ Claim(w) \/ Send(w) \/ Get(w) \/ Crash(w)
                         \/ Manages(w)
      PROVE  row' = row
  BY <1>7 DEF Recover, Claim, Send, Get, Crash, Manages, StartProducer, Exit, Stop, Idle
<1>8. CASE UNCHANGED vars
  BY <1>1, <1>8 DEF vars
<1> QED
  BY <1>1, <1>2, <1>3, <1>4, <1>5, <1>6, <1>7, <1>8, NextActs
     DEF Acts, Work, Passing, Marks

-----------------------------------------------------------------------------
(* Published events were sent *)

LEMMA CopiesStay ==
  ASSUME TypeOK, [Next]_vars, NEW e \in Event, copies[e] > 0
  PROVE  copies'[e] > 0
<1> USE DEF sessions, kafka
<1>1. \A n \in 0..MaxCopies : Least(n + 1, MaxCopies) > 0
  BY OutboxAssumption DEF Least
<1>2. ASSUME NEW f, Deliver(f) PROVE copies'[e] > 0
  BY <1>1, <1>2 DEF Deliver, TypeOK
<1>3. ASSUME NEW w \in Worker, Send(w) PROVE copies'[e] > 0
  BY <1>2, <1>3 DEF Send
<1>4. CASE copies' = copies
  BY <1>4
<1>5. ASSUME NEW w \in Worker, Acts(w) /\ ~Send(w) PROVE copies' = copies
  BY <1>5 DEF Acts, Manages, StartProducer, Exit, Stop, Idle, Crash, Work, Recover, CommitRecovery, Claim, CommitClaim, Get,
              MarkPublished, MarkFailed
<1>6. ASSUME NEW f \in Event, Create(f) \/ Passing(f) PROVE copies' = copies
  BY <1>6 DEF Create, Passing, RetryDue, ClaimAges
<1>7. CASE UNCHANGED vars
  BY <1>4, <1>7 DEF vars
<1> QED
  BY <1>3, <1>4, <1>5, <1>6, <1>7, NextActs DEF Acts, Work

LEMMA InitSent == Init => SentBeforeMark
  BY DEF Init, SentBeforeMark, PublishedWasSent, NewRow

LEMMA MarkPublishes ==
  ASSUME TypeOK, SentBeforeMark, NEW w \in Worker, Marks(w), NEW e \in Event,
         row'[e].status = "PUBLISHED"
  PROVE  copies[e] > 0
<1>1. pc[w] \in Handling
  BY DEF Marks, MarkPublished, MarkFailed, Handling
<1>2. row[Current(w)] \in Row /\ got[w] \in Row /\ Current(w) \in Event
  BY <1>1, CurrentType DEF TypeOK
<1>3. row[e].status = "PUBLISHED" => copies[e] > 0
  BY DEF SentBeforeMark, PublishedWasSent
<1>4. CASE e # Current(w)
  BY <1>3, <1>4 DEF Marks, MarkPublished, MarkFailed, TypeOK
<1>5. CASE e = Current(w) /\ MarkPublished(w)
  BY <1>5 DEF SentBeforeMark, MarkPublished
<1>6. CASE e = Current(w) /\ MarkFailed(w)
  <2>1. row'[e] = Failed(row[e], got[w])
    BY <1>2, <1>6, MarkFailedRow DEF TypeOK
  <2>2. row'[e].status = Written(IF GivesUp(got[w].retries + 1) THEN "FAILED" ELSE "PENDING",
                                 got[w].status, row[e].status)
    BY <1>2, <1>6, <2>1, FailedFields
  <2>3. row[e].status = "PUBLISHED"
    BY <2>2 DEF Written
  <2> QED
    BY <1>3, <2>3
<1> QED
  BY <1>4, <1>5, <1>6 DEF Marks

LEMMA NextSent == TypeOK /\ SentBeforeMark /\ [Next]_vars => SentBeforeMark'
<1> SUFFICES ASSUME TypeOK, SentBeforeMark, [Next]_vars
             PROVE  SentBeforeMark'
  OBVIOUS
<1> USE DEF sessions, kafka
<1>1. ASSUME NEW e \in Event, row'[e].status = "PUBLISHED"
      PROVE  copies'[e] > 0
  <2>1. copies[e] > 0
    <3>1. CASE \E w \in Worker : Marks(w)
      BY <1>1, <3>1, MarkPublishes
    <3>2. CASE \A w \in Worker : ~Marks(w)
      <4>1. RowKept(e)
        BY <3>2, RowsKept
      <4> QED
        BY <1>1, <4>1 DEF RowKept, SentBeforeMark, PublishedWasSent
    <3> QED
      BY <3>1, <3>2
  <2> QED
    BY <2>1, CopiesStay
<1>2. ASSUME NEW v \in Worker, pc[v] \in {"sent", "publishing"}, batch'[v] = batch[v]
      PROVE  copies'[Current(v)'] > 0
  <2>1. Current(v)' = Current(v)
    BY <1>2, CurrentStays
  <2>2. Current(v) \in Event
    BY <1>2, CurrentType DEF Handling
  <2>3. copies[Current(v)] > 0
    BY <1>2 DEF SentBeforeMark
  <2> QED
    BY <2>1, <2>2, <2>3, CopiesStay
<1>3. ASSUME NEW v \in Worker, pc'[v] \in {"sent", "publishing"}
      PROVE  copies'[Current(v)'] > 0
  <2>1. CASE pc'[v] = pc[v] /\ batch'[v] = batch[v]
    BY <1>2, <1>3, <2>1
  <2>2. CASE Send(v)
    <3>1. batch'[v] = batch[v] /\ Deliver(Current(v))
      BY <1>3, <2>2 DEF Send, Goto, TypeOK
    <3>2. Current(v)' = Current(v)
      BY <3>1, CurrentStays
    <3>3. Current(v) \in Event
      BY <2>2, CurrentType DEF Send, Handling
    <3>4. copies[Current(v)] \in 0..MaxCopies
      BY <3>3 DEF TypeOK
    <3>5. copies'[Current(v)] = Least(copies[Current(v)] + 1, MaxCopies)
      BY <3>1, <3>3 DEF Deliver, TypeOK
    <3> QED
      BY <3>2, <3>4, <3>5, OutboxAssumption DEF Least
  <2>3. CASE Get(v)
    <3>1. pc[v] \in {"sent", "publishing"} /\ batch'[v] = batch[v]
      BY <1>3, <2>3 DEF Get, Goto, TypeOK
    <3> QED
      BY <1>2, <3>1
  <2>4. ASSUME Acts(v), ~Send(v), ~Get(v), ~Stop(v)
        PROVE  FALSE
    <3>1. pc'[v] \notin {"sent", "publishing"}
      BY <2>4 DEF Acts, Manages, StartProducer, Exit,
                  Work, Crash, Recover, CommitRecovery, Claim, CommitClaim,
                  MarkPublished, MarkFailed, NextEvent, Goto, TypeOK
    <3> QED
      BY <1>3, <3>1
  <2>5. ASSUME NEW w \in Worker, w # v, Acts(w)
        PROVE  pc'[v] = pc[v] /\ batch'[v] = batch[v]
    BY <2>5, OthersStay
  <2>6. ASSUME NEW e \in Event, Create(e) \/ Passing(e)
        PROVE  pc'[v] = pc[v] /\ batch'[v] = batch[v]
    BY <2>6 DEF Create, Passing, RetryDue, ClaimAges
  <2>7. CASE UNCHANGED vars
    BY <2>1, <2>7 DEF vars
  <2>8. CASE Stop(v)
    BY <2>1, <2>8 DEF Stop
  <2> QED
    BY <2>1, <2>2, <2>3, <2>4, <2>5, <2>6, <2>7, <2>8, NextActs
<1> QED
  BY <1>1, <1>3 DEF SentBeforeMark, PublishedWasSent

\* The event a worker is about to mark published is in the topic.
THEOREM SentBeforeMarked == Spec => []SentBeforeMark
<1>1. Init => TypeOK /\ SentBeforeMark
  BY InitType, InitSent
<1>2. TypeOK /\ SentBeforeMark /\ [Next]_vars => (TypeOK /\ SentBeforeMark)'
  BY NextType, NextSent
<1> QED
  BY <1>1, <1>2, PTL DEF Spec


\* An event marked PUBLISHED is in the topic, for any events, workers, faults
\* and interleavings of recovery, claims and late marks.
THEOREM PublishedOnlyIfSent == Spec => []PublishedWasSent
<1>1. SentBeforeMark => PublishedWasSent
  BY DEF SentBeforeMark
<1> QED
  BY <1>1, SentBeforeMarked, PTL

-----------------------------------------------------------------------------
(* Nothing is sent before it is committed *)

\* No step takes a row away.
LEMMA RowsRemain ==
  ASSUME TypeOK, [Next]_vars, NEW e \in Event, row[e].status # "ABSENT"
  PROVE  row'[e].status # "ABSENT"
<1> USE DEF sessions, kafka
<1>0. row \in [Event -> Row] /\ row[e] \in Row
  BY DEF TypeOK
<1>1. CASE row' = row
  BY <1>1
<1>2. ASSUME NEW w \in Worker, CommitRecovery(w) \/ CommitClaim(w)
      PROVE  row'[e].status # "ABSENT"
  <2>1. \/ row'[e] = row[e]
        \/ row'[e] = [row[e] EXCEPT !.status = "PENDING", !.claimed = "null"]
        \/ row'[e] = [row[e] EXCEPT !.status = "PROCESSING", !.claimed = "fresh"]
    BY <1>2, Zenon DEF CommitRecovery, CommitClaim
  <2> QED
    BY <1>0, <2>1 DEF Row
<1>3. ASSUME NEW f \in Event, Create(f) \/ Passing(f) PROVE row'[e].status # "ABSENT"
  BY <1>0, <1>3 DEF Create, Passing, RetryDue, ClaimAges, Row
<1>4. ASSUME NEW w \in Worker, MarkPublished(w) PROVE row'[e].status # "ABSENT"
  <2>1. /\ row' = [row EXCEPT ![Current(w)] = Published(row[Current(w)], got[w])]
        /\ row[Current(w)] \in Row /\ got[w] \in Row
    BY <1>4, MarkPublishedRow, CurrentType DEF TypeOK, MarkPublished, Handling
  <2>2. Published(row[Current(w)], got[w]).status
          = Written("PUBLISHED", got[w].status, row[Current(w)].status)
    BY <2>1, PublishedFields
  <2> QED
    BY <1>0, <2>1, <2>2 DEF Written
<1>5. ASSUME NEW w \in Worker, MarkFailed(w) PROVE row'[e].status # "ABSENT"
  <2>1. /\ row' = [row EXCEPT ![Current(w)] = Failed(row[Current(w)], got[w])]
        /\ row[Current(w)] \in Row /\ got[w] \in Row
    BY <1>5, MarkFailedRow, CurrentType DEF TypeOK, MarkFailed, Handling
  <2>2. Failed(row[Current(w)], got[w]).status
          = Written(IF GivesUp(got[w].retries + 1) THEN "FAILED" ELSE "PENDING",
                    got[w].status, row[Current(w)].status)
    BY <2>1, FailedFields
  <2> QED
    BY <1>0, <2>1, <2>2 DEF Written
<1>6. ASSUME NEW w \in Worker, Recover(w) \/ Claim(w) \/ Send(w) \/ Get(w) \/ Crash(w)
                         \/ Manages(w)
      PROVE  row' = row
  BY <1>6 DEF Recover, Claim, Send, Get, Crash, Manages, StartProducer, Exit, Stop, Idle
<1>7. CASE UNCHANGED vars
  BY <1>1, <1>7 DEF vars
<1> QED
  BY <1>1, <1>2, <1>3, <1>4, <1>5, <1>6, <1>7, NextActs DEF Acts, Work

\* Where an event may have got to: the topic, a batch, a SELECT.
Touched(e) == copies[e] > 0 \/ \E w \in Worker : e \in batch[w] \cup locked[w]

LEMMA NewlyTouched ==
  ASSUME TypeOK, [Next]_vars, NEW e \in Event, Touched(e)', ~Touched(e)
  PROVE  row[e].status # "ABSENT"
<1> USE DEF sessions, kafka
<1>1. CASE UNCHANGED <<copies, batch, locked>>
  BY <1>1 DEF Touched
<1>2. ASSUME NEW w \in Worker, Recover(w) PROVE row[e].status # "ABSENT"
  <2>1. PICK S \in SUBSET Stale(w) : locked' = [locked EXCEPT ![w] = S]
    BY <1>2 DEF Recover
  <2>2. UNCHANGED <<copies, batch>>
    BY <1>2 DEF Recover
  <2> QED
    BY <2>1, <2>2 DEF Touched, Stale, TypeOK
<1>3. ASSUME NEW w \in Worker, Claim(w) PROVE row[e].status # "ABSENT"
  <2>1. locked' = [locked EXCEPT ![w] = Oldest(Claimable(w))] /\ UNCHANGED <<copies, batch>>
    BY <1>3 DEF Claim
  <2> QED
    BY <2>1 DEF Touched, Oldest, Claimable, TypeOK
<1>4. ASSUME NEW w \in Worker, CommitRecovery(w) \/ CommitClaim(w) PROVE ~Touched(e)'
  <2>1. /\ copies' = copies /\ locked' = [locked EXCEPT ![w] = {}]
        /\ batch' = batch \/ batch' = [batch EXCEPT ![w] = locked[w]]
    BY <1>4, Zenon DEF CommitRecovery, CommitClaim
  <2>2. \A v \in Worker : batch'[v] \cup locked'[v] \subseteq batch[v] \cup locked[v]
    BY <2>1 DEF TypeOK
  <2> QED
    BY <2>1, <2>2 DEF Touched
<1>5. ASSUME NEW w \in Worker, Send(w) PROVE ~Touched(e)'
  <2>1. Current(w) \in batch[w] /\ UNCHANGED <<batch, locked>>
    BY <1>5, CurrentType DEF Send, Handling
  <2>2. \/ copies' = copies
        \/ copies' = [copies EXCEPT ![Current(w)] = Least(copies[Current(w)] + 1, MaxCopies)]
    BY <1>5 DEF Send, Deliver
  <2> QED
    BY <2>1, <2>2 DEF Touched, TypeOK
<1>6. ASSUME NEW w \in Worker, Marks(w) PROVE ~Touched(e)'
  BY <1>6 DEF Marks, MarkPublished, MarkFailed, NextEvent, Touched, TypeOK
<1>7. ASSUME NEW w \in Worker, Crash(w) PROVE ~Touched(e)'
  BY <1>7 DEF Crash, Touched, TypeOK
<1>8. ASSUME NEW w \in Worker, Get(w) \/ Manages(w) PROVE UNCHANGED <<copies, batch, locked>>
  BY <1>8 DEF Get, Manages, StartProducer, Exit, Stop, Idle
<1>9. ASSUME NEW f \in Event, Create(f) \/ Passing(f)
      PROVE  UNCHANGED <<copies, batch, locked>>
  BY <1>9 DEF Create, Passing, RetryDue, ClaimAges
<1>10. CASE UNCHANGED vars
  BY <1>1, <1>10 DEF vars
<1> QED
  BY <1>1, <1>2, <1>3, <1>4, <1>5, <1>6, <1>7, <1>8, <1>9, <1>10, NextActs DEF Acts, Work, Marks

LEMMA CommittedFirstStep == TypeOK /\ CommittedFirst /\ [Next]_vars => CommittedFirst'
<1> SUFFICES ASSUME TypeOK, CommittedFirst, [Next]_vars, NEW e \in Event, Touched(e)'
             PROVE  row'[e].status # "ABSENT"
  BY DEF CommittedFirst, Touched
<1>1. CASE Touched(e)
  BY <1>1, RowsRemain DEF CommittedFirst, Touched
<1>2. CASE ~Touched(e)
  BY <1>2, NewlyTouched, RowsRemain
<1> QED
  BY <1>1, <1>2

\* No event is selected, claimed or sent before its ledger transaction commits,
\* and no late mark takes a row back to where it was before.
THEOREM CommittedBeforeSent == Spec => []CommittedFirst
<1>1. Init => CommittedFirst
  BY DEF Init, CommittedFirst
<1> QED
  BY <1>1, CommittedFirstStep, TypeCorrect, PTL DEF Spec

-----------------------------------------------------------------------------
(* Copies in the topic *)

\* A step of a worker that changes the copies has delivered the event in its
\* hand.
LEMMA CopiesDelivered ==
  ASSUME TypeOK, NEW w \in Worker, Run(w), copies' # copies
  PROVE  /\ Current(w) \in Event
         /\ \A e \in Event : copies'[e] > 0 <=> copies[e] > 0 \/ e = Current(w)
<1>1. Send(w)
  <2>1. CASE StartProducer(w) \/ Exit(w)
    BY <2>1 DEF StartProducer, Exit, Idle, kafka
  <2>2. CASE Recover(w) \/ Claim(w) \/ Get(w)
    BY <2>2 DEF Recover, Claim, Get, kafka
  <2>3. CASE CommitRecovery(w) \/ CommitClaim(w)
    BY <2>3, Zenon DEF CommitRecovery, CommitClaim, kafka
  <2>4. CASE MarkPublished(w) \/ MarkFailed(w)
    BY <2>4 DEF MarkPublished, MarkFailed, kafka
  <2> QED
    BY <2>1, <2>2, <2>3, <2>4 DEF Run, Work
<1>2. /\ Current(w) \in Event
      /\ copies' = [copies EXCEPT ![Current(w)] = Least(copies[Current(w)] + 1, MaxCopies)]
  BY <1>1, CurrentType DEF Send, Deliver, Handling
<1>3. \A n \in 0..MaxCopies : Least(n + 1, MaxCopies) > 0
  BY OutboxAssumption DEF Least
<1> QED
  BY <1>2, <1>3 DEF TypeOK

LEMMA CopiesLeft ==
  ASSUME \/ \E w \in Worker : Stop(w) \/ Crash(w)
         \/ \E e \in Event : Create(e) \/ Passing(e)
  PROVE  copies' = copies
  BY DEF Stop, Crash, Create, Passing, RetryDue, ClaimAges, kafka

-----------------------------------------------------------------------------
(* Events are given up late *)

LEMMA UncountedType ==
  ASSUME NEW e
  PROVE  /\ IsFiniteSet(Uncounted(e)) /\ Cardinality(Uncounted(e)) \in Nat
         /\ Uncounted(e) \subseteq Worker
  <1>1. Uncounted(e) \in SUBSET Worker
    BY DEF Uncounted
  <1>2. IsFiniteSet(Uncounted(e))
    BY <1>1, FS_Subset, OutboxAssumption
  <1> QED
    BY <1>1, <1>2, FS_CardinalityType

\* With no new uncounted worker, what was accounted for stays so.
LEMMA AccountedStays ==
  ASSUME TypeOK, NEW e \in Event, NEW n \in Nat, Accounted(n, e),
         fails'[e] = fails[e], Uncounted(e)' \subseteq Uncounted(e)
  PROVE  Accounted(n, e)'
<1>1. Cardinality(Uncounted(e)') <= Cardinality(Uncounted(e))
  BY UncountedType, FS_Subset
<1>2. IsFiniteSet(Uncounted(e)') /\ Cardinality(Uncounted(e)') \in Nat
  BY UncountedType, FS_Subset, FS_CardinalityType
<1>3. fails[e] \in Nat
  BY DEF TypeOK
<1> QED
  BY <1>1, <1>2, <1>3, UncountedType DEF Accounted

\* A worker that counts its raise may write back one retry more than it read.
LEMMA AccountedCounted ==
  ASSUME TypeOK, NEW e \in Event, NEW n \in Nat, NEW w \in Uncounted(e), Accounted(n, e),
         fails'[e] = fails[e], Uncounted(e)' \subseteq Uncounted(e) \ {w}
  PROVE  Accounted(n + 1, e)'
<1>1. /\ IsFiniteSet(Uncounted(e) \ {w})
      /\ Cardinality(Uncounted(e) \ {w}) = Cardinality(Uncounted(e)) - 1
  BY UncountedType, FS_RemoveElement
<1>2. /\ Cardinality(Uncounted(e)') <= Cardinality(Uncounted(e)) - 1
      /\ Cardinality(Uncounted(e)') \in Nat
  BY <1>1, FS_Subset, FS_CardinalityType
<1>3. fails[e] \in Nat
  BY DEF TypeOK
<1> QED
  BY <1>2, <1>3, UncountedType DEF Accounted

\* A raise adds one failure and one uncounted worker.
LEMMA AccountedRaised ==
  ASSUME TypeOK, NEW e \in Event, NEW n \in Nat, NEW w, Accounted(n, e),
         Raise(e), Uncounted(e)' \subseteq Uncounted(e) \cup {w}
  PROVE  Accounted(n, e)'
<1>1. /\ IsFiniteSet(Uncounted(e) \cup {w})
      /\ Cardinality(Uncounted(e) \cup {w}) <= Cardinality(Uncounted(e)) + 1
  BY UncountedType, FS_AddElement
<1>2. /\ Cardinality(Uncounted(e)') <= Cardinality(Uncounted(e)) + 1
      /\ Cardinality(Uncounted(e)') \in Nat
  <2>1. /\ Cardinality(Uncounted(e)') <= Cardinality(Uncounted(e) \cup {w})
        /\ IsFiniteSet(Uncounted(e)')
    BY <1>1, FS_Subset
  <2>2. /\ Cardinality(Uncounted(e)') \in Nat
        /\ Cardinality(Uncounted(e) \cup {w}) \in Nat
    BY <1>1, <2>1, FS_CardinalityType
  <2> QED
    BY <1>1, <2>1, <2>2, UncountedType
<1>3. fails[e] \in 0..MaxRetries /\ fails'[e] = Least(fails[e] + 1, MaxRetries)
  BY DEF TypeOK, Raise
<1> QED
  BY <1>2, <1>3, UncountedType, OutboxAssumption DEF Accounted, Least

\* Only a raise makes a worker uncounted; to be counted ends it.
LEMMA UncountedStays ==
  ASSUME TypeOK, [Next]_vars, NEW e \in Event, NEW v \in Uncounted(e)', ~Send(v)
  PROVE  v \in Uncounted(e) /\ ~Marks(v)
<1> USE DEF sessions, kafka
<1>1. v \in Worker /\ pc'[v] \in {"raised", "failing"} /\ Current(v)' = e
  BY DEF Uncounted
<1>2. ASSUME pc[v] \in {"raised", "failing"}, batch'[v] = batch[v]
      PROVE  v \in Uncounted(e)
  BY <1>1, <1>2, CurrentStays DEF Uncounted
<1>3. ~Marks(v)
  BY <1>1 DEF Marks, MarkPublished, MarkFailed, NextEvent, Goto, TypeOK
<1>4. ASSUME Get(v)
      PROVE  v \in Uncounted(e)
  BY <1>1, <1>2, <1>4 DEF Get, Goto, TypeOK
<1>5. ASSUME Acts(v), ~Get(v), ~Stop(v)
      PROVE  FALSE
  <2>0. ~Send(v)
    OBVIOUS
  <2>1. \/ Recover(v) \/ CommitRecovery(v) \/ Claim(v) \/ CommitClaim(v) \/ Crash(v)
        \/ StartProducer(v) \/ Exit(v)
    BY <1>3, <1>5, <2>0 DEF Acts, Manages, Work, Marks
  <2>2. pc'[v] \notin {"raised", "failing"}
    BY <1>1, <2>1 DEF StartProducer, Exit, Crash, Recover, CommitRecovery, Claim, CommitClaim, Goto, TypeOK
  <2> QED
    BY <1>1, <2>2
<1>6. ASSUME NEW w \in Worker, w # v, Acts(w)
      PROVE  pc'[v] = pc[v] /\ batch'[v] = batch[v]
  BY <1>1, <1>6, OthersStay
<1>7. ASSUME NEW f \in Event, Create(f) \/ Passing(f)
      PROVE  pc'[v] = pc[v] /\ batch'[v] = batch[v]
  BY <1>7 DEF Create, Passing, RetryDue, ClaimAges
<1>8. ASSUME UNCHANGED vars
      PROVE  v \in Uncounted(e)
  BY <1>1, <1>2, <1>8 DEF vars
<1>9. ASSUME NEW w \in Worker, Acts(w)
      PROVE  v \in Uncounted(e)
  <2>0. CASE Stop(v)
    BY <1>1, <1>2, <2>0 DEF Stop
  <2>1. CASE w = v
    BY <1>4, <1>5, <1>9, <2>0, <2>1
  <2>2. CASE w # v
    BY <1>1, <1>2, <1>6, <1>9, <2>2
  <2> QED
    BY <2>1, <2>2
<1>10. ASSUME NEW f \in Event, Create(f) \/ Passing(f)
       PROVE  v \in Uncounted(e)
  BY <1>1, <1>2, <1>7, <1>10
<1> QED
  BY <1>3, <1>8, <1>9, <1>10, NextActs

LEMMA FailsStay ==
  ASSUME [Next]_vars, \A w \in Worker : ~Send(w)
  PROVE  fails' = fails
<1> USE DEF sessions, kafka
<1>1. ASSUME NEW w \in Worker, Acts(w)
      PROVE  fails' = fails
  BY <1>1 DEF Acts, Manages, StartProducer, Exit, Stop, Idle, Work, Crash, Recover,
              CommitRecovery, Claim, CommitClaim, Get, MarkPublished, MarkFailed
<1>2. ASSUME NEW e \in Event, Create(e) \/ Passing(e)
      PROVE  fails' = fails
  BY <1>2 DEF Create, Passing, RetryDue, ClaimAges
<1> QED
  BY <1>1, <1>2, NextActs DEF vars

LEMMA InitAccounted == Init => RetriesAccounted
<1> SUFFICES ASSUME Init
             PROVE  RetriesAccounted
  OBVIOUS
<1>1. \A e \in Event : Uncounted(e) = {}
  BY DEF Init, Uncounted
<1>2. \A e \in Event : Accounted(row[e].retries, e)
  <2>1. \A e \in Event : Cardinality(Uncounted(e)) = 0
    BY <1>1, FS_EmptySet
  <2>2. \A e \in Event : row[e].retries = 0 /\ fails[e] = 0
    BY DEF Init, NewRow
  <2> QED
    BY <2>1, <2>2 DEF Accounted
<1> QED
  BY <1>2 DEF Init, RetriesAccounted, GivesUpLate, NewRow

LEMMA FailedStays ==
  ASSUME TypeOK, [Next]_vars, NEW e \in Event, fails[e] = MaxRetries
  PROVE  fails'[e] = MaxRetries
<1>1. CASE \A w \in Worker : ~Send(w)
  BY <1>1, FailsStay
<1>2. ASSUME NEW w \in Worker, Send(w)
      PROVE  fails'[e] = MaxRetries
  <2>1. CASE fails' = fails
    BY <2>1
  <2>2. CASE Raise(Current(w))
    BY <2>2, OutboxAssumption DEF Raise, Least, TypeOK
  <2> QED
    BY <1>2, <2>1, <2>2 DEF Send
<1> QED
  BY <1>1, <1>2

\* A send that raises, and what it makes of the others.
LEMMA RaisedFacts ==
  ASSUME TypeOK, NEW w \in Worker, Send(w)
  PROVE  /\ Current(w) \in Event /\ Current(w)' = Current(w)
         /\ pc'[w] = "raised" => Raise(Current(w))
         /\ pc'[w] # "raised" => fails' = fails
         /\ \A v \in Worker \ {w} : ~Send(v)
<1>1. Current(w) \in Event
  BY CurrentType DEF Send, Handling
<1>2. Current(w)' = Current(w)
  BY CurrentStays DEF Send
<1>3. /\ pc'[w] = "raised" => Raise(Current(w))
      /\ pc'[w] # "raised" => fails' = fails
  BY DEF Send, Goto, TypeOK
<1>4. ASSUME NEW v \in Worker \ {w}, Send(v)
      PROVE  FALSE
  <2>1. pc'[v] = pc[v]
    BY <1>4, OthersStay DEF Acts, Work
  <2>2. pc[v] = "send" /\ pc'[v] \in {"sent", "raised"}
    BY <1>4 DEF Send, Goto, TypeOK
  <2> QED
    BY <2>1, <2>2
<1> QED
  BY <1>1, <1>2, <1>3, <1>4

\* No step takes away from what is accounted for.
LEMMA AccountedKept ==
  ASSUME TypeOK, [Next]_vars, NEW e \in Event, NEW n \in Nat, Accounted(n, e)
  PROVE  Accounted(n, e)'
<1>1. ASSUME NEW w \in Worker, Send(w), pc'[w] = "raised", Current(w) = e
      PROVE  Accounted(n, e)'
  <2>1. \A v \in Worker \ {w} : ~Send(v)
    BY <1>1, RaisedFacts
  <2>2. Uncounted(e)' \subseteq Uncounted(e) \cup {w}
    <3>1. SUFFICES ASSUME NEW v \in Uncounted(e)', v # w
                   PROVE  v \in Uncounted(e)
      OBVIOUS
    <3>2. v \in Worker
      BY DEF Uncounted
    <3> QED
      BY <2>1, <3>1, <3>2, UncountedStays
  <2>3. Raise(e)
    BY <1>1, RaisedFacts
  <2> QED
    BY <2>2, <2>3, AccountedRaised
<1>2. ASSUME \A w \in Worker : ~(Send(w) /\ pc'[w] = "raised" /\ Current(w) = e)
      PROVE  Accounted(n, e)'
  <2>1. Uncounted(e)' \subseteq Uncounted(e)
    <3>1. SUFFICES ASSUME NEW v \in Uncounted(e)'
                   PROVE  v \in Uncounted(e)
      OBVIOUS
    <3>2. v \in Worker /\ pc'[v] \in {"raised", "failing"} /\ Current(v)' = e
      BY DEF Uncounted
    <3>3. ~Send(v)
      <4>1. SUFFICES ASSUME Send(v)
                     PROVE  FALSE
        OBVIOUS
      <4>2. pc'[v] = "raised"
        BY <3>2, <4>1 DEF Send, Goto, TypeOK
      <4>3. Current(v) = e
        BY <3>2, <4>1, RaisedFacts
      <4> QED
        BY <1>2, <3>2, <4>1, <4>2, <4>3
    <3> QED
      BY <3>3, UncountedStays
  <2>2. fails'[e] = fails[e]
    <3>1. CASE \A w \in Worker : ~Send(w)
      BY <3>1, FailsStay
    <3>2. ASSUME NEW w \in Worker, Send(w)
          PROVE  fails'[e] = fails[e]
      <4>1. CASE pc'[w] # "raised"
        BY <3>2, <4>1, RaisedFacts
      <4>2. CASE pc'[w] = "raised"
        <5>1. Raise(Current(w)) /\ Current(w) # e
          BY <1>2, <3>2, <4>2, RaisedFacts
        <5> QED
          BY <5>1 DEF Raise, TypeOK
      <4> QED
        BY <4>1, <4>2
    <3> QED
      BY <3>1, <3>2
  <2> QED
    BY <2>1, <2>2, AccountedStays
<1> QED
  BY <1>1, <1>2

\* A worker that marks its event failed counts its own raise.
LEMMA MarkCounts ==
  ASSUME TypeOK, RetriesAccounted, [Next]_vars, NEW w \in Worker, MarkFailed(w),
         NEW e \in Event, e = Current(w), NEW n \in Nat, n = got[w].retries
  PROVE  /\ Accounted(n + 1, e)'
         /\ GivesUp(n + 1) => fails'[e] = MaxRetries
<1>1. w \in Uncounted(e) /\ fails' = fails
  <2>1. pc[w] = "failing" /\ fails' = fails
    BY DEF MarkFailed, kafka
  <2> QED
    BY <2>1 DEF Uncounted
<1>2. Accounted(n, e)
  BY DEF MarkFailed, RetriesAccounted
<1>3. \A f \in Event : Uncounted(f)' \subseteq Uncounted(f) \ {w}
  <2>1. SUFFICES ASSUME NEW f \in Event, NEW v \in Uncounted(f)'
                 PROVE  v \in Uncounted(f) /\ v # w
    OBVIOUS
  <2>2. v \in Worker
    BY DEF Uncounted
  <2>3. ~Send(v)
    <3>1. CASE v = w
      BY <3>1 DEF MarkFailed, Send
    <3>2. CASE v # w
      <4>1. pc'[v] = pc[v]
        BY <2>2, <3>2, OthersStay DEF Acts, Work
      <4> QED
        BY <2>2, <4>1 DEF Send, Goto, TypeOK
    <3> QED
      BY <3>1, <3>2
  <2>4. v \in Uncounted(f) /\ ~Marks(v)
    BY <2>3, UncountedStays
  <2> QED
    BY <2>4 DEF Marks
<1>4. Accounted(n + 1, e)'
  BY <1>1, <1>2, <1>3, AccountedCounted
<1>5. ASSUME GivesUp(n + 1)
      PROVE  fails'[e] = MaxRetries
  <2>1. Cardinality(Uncounted(e)) \in Nat /\ Cardinality(Uncounted(e)) # 0
    BY <1>1, UncountedType, FS_EmptySet
  <2>2. fails[e] \in 0..MaxRetries
    BY <1>1 DEF TypeOK
  <2> QED
    BY <1>1, <1>2, <1>5, <2>1, <2>2, OutboxAssumption DEF GivesUp, Accounted
<1> QED
  BY <1>4, <1>5

LEMMA NextAccounted == TypeOK /\ RetriesAccounted /\ [Next]_vars => RetriesAccounted'
<1> SUFFICES ASSUME TypeOK, RetriesAccounted, [Next]_vars
             PROVE  RetriesAccounted'
  OBVIOUS
<1> USE DEF sessions, kafka
<1>0. \A e \in Event : row[e] \in Row /\ row[e].retries \in Nat
  BY DEF TypeOK, Row
<1>1. ASSUME NEW e \in Event
      PROVE  /\ row'[e].status = "FAILED" => fails'[e] = MaxRetries
             /\ Accounted(row[e].retries, e)'
  <2>1. row[e].status = "FAILED" => fails'[e] = MaxRetries
    BY FailedStays DEF RetriesAccounted, GivesUpLate
  <2>2. ASSUME NEW n \in Nat, n = row[e].retries
        PROVE  Accounted(n, e)'
    BY <2>2, AccountedKept DEF RetriesAccounted
  <2>3. ASSUME RowKept(e)
        PROVE  /\ row'[e].status = "FAILED" => fails'[e] = MaxRetries
               /\ Accounted(row[e].retries, e)'
    BY <1>0, <2>1, <2>2, <2>3 DEF RowKept, Accounted
  <2>4. ASSUME NEW w \in Worker, Marks(w)
        PROVE  /\ row'[e].status = "FAILED" => fails'[e] = MaxRetries
               /\ Accounted(row[e].retries, e)'
    <3>1. pc[w] \in Handling
      BY <2>4 DEF Marks, MarkPublished, MarkFailed, Handling
    <3>2. row[Current(w)] \in Row /\ got[w] \in Row /\ Current(w) \in Event
      BY <3>1, CurrentType DEF TypeOK
    <3>3. CASE e # Current(w)
      <4>1. row'[e] = row[e]
        BY <2>4, <3>3 DEF Marks, MarkPublished, MarkFailed, TypeOK
      <4> QED
        BY <2>3, <4>1 DEF RowKept
    <3>4. CASE e = Current(w) /\ MarkPublished(w)
      <4>1. row'[e] = Published(row[e], got[w])
        BY <3>2, <3>4, MarkPublishedRow DEF TypeOK
      <4>2. /\ row'[e].retries = row[e].retries
            /\ row'[e].status = Written("PUBLISHED", got[w].status, row[e].status)
        BY <3>2, <3>4, <4>1, PublishedFields
      <4>3. row'[e].status = "FAILED" => row[e].status = "FAILED"
        BY <4>2 DEF Written
      <4> QED
        BY <1>0, <2>1, <2>2, <4>2, <4>3 DEF Accounted
    <3>5. CASE e = Current(w) /\ MarkFailed(w)
      <4>1. row'[e] = Failed(row[e], got[w])
        BY <3>2, <3>5, MarkFailedRow DEF TypeOK
      <4>2. /\ row'[e].retries = got[w].retries + 1
            /\ row'[e].status =
                 Written(IF GivesUp(got[w].retries + 1) THEN "FAILED" ELSE "PENDING",
                         got[w].status, row[e].status)
        BY <3>2, <3>5, <4>1, FailedFields
      <4>3. got[w].retries \in Nat
        BY <3>2, RowFields
      <4>4. ASSUME NEW n \in Nat, n = got[w].retries
            PROVE  /\ Accounted(n + 1, e)'
                   /\ GivesUp(n + 1) => fails'[e] = MaxRetries
        BY <3>5, <4>4, MarkCounts
      <4>5. Accounted(row[e].retries, e)'
        BY <4>2, <4>3, <4>4 DEF Accounted
      <4>6. row'[e].status = "FAILED" =>
              row[e].status = "FAILED" \/ GivesUp(got[w].retries + 1)
        BY <4>2 DEF Written
      <4> QED
        BY <2>1, <4>3, <4>4, <4>5, <4>6
    <3> QED
      BY <2>4, <3>3, <3>4, <3>5 DEF Marks
  <2> QED
    BY <2>3, <2>4, RowsKept
<1>2. ASSUME NEW v \in Worker, pc'[v] = "failing"
      PROVE  Accounted(got[v].retries, Current(v))'
  <2>1. ASSUME NEW e \in Event, e = Current(v), batch'[v] = batch[v],
               NEW n \in Nat, n = got'[v].retries, Accounted(n, e)
        PROVE  Accounted(got[v].retries, Current(v))'
    <3>1. Current(v)' = e
      BY <2>1, CurrentStays
    <3>2. Accounted(n, e)'
      BY <2>1, AccountedKept
    <3> QED
      BY <2>1, <3>1, <3>2 DEF Accounted, Uncounted
  <2>2. ASSUME pc[v] = "failing", batch'[v] = batch[v], got'[v] = got[v]
        PROVE  Accounted(got[v].retries, Current(v))'
    <3>1. Current(v) \in Event /\ got[v].retries \in Nat
      BY <2>2, CurrentType, RowFields DEF TypeOK, Handling
    <3>2. Accounted(got[v].retries, Current(v))
      BY <2>2 DEF RetriesAccounted
    <3> QED
      BY <2>1, <2>2, <3>1, <3>2
  <2>3. CASE Get(v)
    <3>1. pc[v] = "raised" /\ batch'[v] = batch[v] /\ got'[v] = row[Current(v)]
      BY <1>2, <2>3 DEF Get, Goto, TypeOK
    <3>2. Current(v) \in Event
      BY <3>1, CurrentType DEF Handling
    <3>3. got'[v].retries \in Nat /\ Accounted(got'[v].retries, Current(v))
      BY <1>0, <3>1, <3>2 DEF RetriesAccounted
    <3> QED
      BY <2>1, <3>1, <3>2, <3>3
  <2>4. ASSUME Acts(v), ~Get(v), ~Stop(v)
        PROVE  FALSE
    <3>1. pc'[v] # "failing"
      BY <2>4 DEF Acts, Manages, StartProducer, Exit,
                  Work, Crash, Recover, CommitRecovery, Claim, CommitClaim, Send,
                  MarkPublished, MarkFailed, NextEvent, Goto, TypeOK
    <3> QED
      BY <1>2, <3>1
  <2>5. ASSUME NEW w \in Worker, w # v, Acts(w)
        PROVE  pc'[v] = pc[v] /\ batch'[v] = batch[v] /\ got'[v] = got[v]
    BY <2>5, OthersStay
  <2>6. ASSUME NEW f \in Event, Create(f) \/ Passing(f)
        PROVE  pc'[v] = pc[v] /\ batch'[v] = batch[v] /\ got'[v] = got[v]
    BY <2>6 DEF Create, Passing, RetryDue, ClaimAges
  <2>7. CASE UNCHANGED vars
    BY <1>2, <2>2, <2>7 DEF vars
  <2>8. CASE Stop(v)
    BY <1>2, <2>2, <2>8 DEF Stop
  <2> QED
    BY <1>2, <2>2, <2>3, <2>4, <2>5, <2>6, <2>7, <2>8, NextActs
<1>3. GivesUpLate'
  BY <1>1 DEF GivesUpLate
<1> QED
  BY <1>1, <1>2, <1>3 DEF RetriesAccounted

\* No retry_count, stored or about to be written back, is ahead of the sends
\* that raised.
THEOREM RetriesCounted == Spec => []RetriesAccounted
<1>1. Init => TypeOK /\ RetriesAccounted
  BY InitType, InitAccounted
<1>2. TypeOK /\ RetriesAccounted /\ [Next]_vars => (TypeOK /\ RetriesAccounted)'
  BY NextType, NextAccounted
<1> QED
  BY <1>1, <1>2, PTL DEF Spec


\* An event is given up only after MaxRetries sends of it have raised, though
\* workers may read the same retry_count and write it back over each other.
THEOREM GivenUpLate == Spec => []GivesUpLate
<1>1. RetriesAccounted => GivesUpLate
  BY DEF RetriesAccounted
<1> QED
  BY <1>1, RetriesCounted, PTL

=============================================================================
