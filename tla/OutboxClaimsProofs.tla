------------------------- MODULE OutboxClaimsProofs --------------------------
(***************************************************************************)
(* What SKIP LOCKED and the claims are for: theorems about OutboxWorker    *)
(* with workers that are never slower than the claim timeout and do not    *)
(* die, for any events and any finite set of workers.                      *)
(***************************************************************************)
EXTENDS OutboxWorkerProofs

-----------------------------------------------------------------------------
(* Claims are exclusive *)

\* A step that leaves the claims as they are.
LEMMA ClaimsStay ==
  ASSUME TypeOK, ClaimsExclusive, NEW w \in Worker,
         \A e \in Event : row'[e].status = row[e].status /\ row'[e].claimed = row[e].claimed,
         UNCHANGED <<locked, batch>>,
         \A v \in Worker \ {w} : pc'[v] = pc[v] /\ got'[v] = got[v],
         batch[w] # {} => pc'[w] \in Handling,
         locked[w] # {} => pc'[w] = "claiming",
         pc'[w] \in {"publishing", "failing"} =>
           got'[w].status = "PROCESSING" /\ got'[w].claimed = "fresh"
  PROVE  ClaimsExclusive'
<1>1. \A e \in Event : ClaimFresh(e)'
  BY DEF ClaimsExclusive, ClaimFresh
<1>2. ASSUME NEW v \in Worker PROVE ClaimOwned(v)'
  <2>1. batch[v] \subseteq Event /\ locked[v] \subseteq Event
    BY DEF TypeOK
  <2>2. ClaimOwned(v)
    BY DEF ClaimsExclusive
  <2> QED
    BY <2>1, <2>2 DEF ClaimOwned
<1>3. \A v \in Worker : \A u \in Worker \ {v} : Apart(u, v)'
  BY DEF ClaimsExclusive, Apart
<1> QED
  BY <1>1, <1>2, <1>3 DEF ClaimsExclusive

\* The SELECT of a claim locks pending rows nobody else has locked.
LEMMA ClaimExclusive ==
  ASSUME TypeOK, ClaimsExclusive, NEW w \in Worker, Claim(w)
  PROVE  ClaimsExclusive'
<1>1. /\ pc[w] = "claim" /\ pc' = [pc EXCEPT ![w] = "claiming"]
      /\ locked' = [locked EXCEPT ![w] = Oldest(Claimable(w))]
      /\ UNCHANGED <<row, batch, got>>
  BY DEF Claim, Goto
<1>2. ASSUME NEW e \in Oldest(Claimable(w))
      PROVE  row[e].status = "PENDING" /\ \A v \in Worker \ {w} : e \notin locked[v]
  BY DEF Oldest, Claimable, Free
<1>3. /\ locked'[w] = Oldest(Claimable(w)) /\ pc'[w] = "claiming"
      /\ \A v \in Worker \ {w} : locked'[v] = locked[v] /\ pc'[v] = pc[v]
  BY <1>1 DEF TypeOK
<1>4. \A e \in Event : ClaimFresh(e)'
  BY <1>1 DEF ClaimsExclusive, ClaimFresh
<1>5. ASSUME NEW v \in Worker PROVE ClaimOwned(v)'
  <2>1. ClaimOwned(v) /\ batch[w] = {}
    BY <1>1 DEF ClaimsExclusive, ClaimOwned, Handling
  <2>2. CASE v = w
    BY <1>1, <1>2, <1>3, <2>1, <2>2 DEF ClaimOwned
  <2>3. CASE v # w
    BY <1>1, <1>3, <2>1, <2>3 DEF ClaimOwned
  <2> QED
    BY <2>2, <2>3
<1>6. ASSUME NEW v \in Worker, NEW u \in Worker \ {v} PROVE Apart(u, v)'
  <2>1. Apart(u, v)
    BY DEF ClaimsExclusive
  <2>2. CASE u # w /\ v # w
    BY <1>1, <1>3, <2>1, <2>2 DEF Apart
  <2>3. CASE u = w \/ v = w
    BY <1>1, <1>2, <1>3, <2>1, <2>3 DEF Apart
  <2> QED
    BY <2>2, <2>3
<1> QED
  BY <1>4, <1>5, <1>6 DEF ClaimsExclusive

\* The COMMIT of a claim hands the locked rows to the worker.
LEMMA CommitClaimExclusive ==
  ASSUME TypeOK, ClaimsExclusive, NEW w \in Worker, CommitClaim(w)
  PROVE  ClaimsExclusive'
<1>1. /\ pc[w] = "claiming"
      /\ pc' = [pc EXCEPT ![w] = IF locked[w] = {} THEN "recover" ELSE "send"]
      /\ batch' = [batch EXCEPT ![w] = locked[w]] /\ locked' = [locked EXCEPT ![w] = {}]
      /\ got' = got
      /\ row' = [e \in Event |->
                   IF e \in locked[w]
                   THEN [row[e] EXCEPT !.status = "PROCESSING", !.claimed = "fresh"]
                   ELSE row[e]]
  BY DEF CommitClaim, Goto
<1>2. /\ locked[w] \subseteq Event /\ batch[w] = {}
      /\ \A e \in locked[w] : row[e].status = "PENDING"
  BY <1>1 DEF TypeOK, ClaimsExclusive, ClaimOwned, Handling
<1>3. /\ \A e \in locked[w] : row'[e].status = "PROCESSING" /\ row'[e].claimed = "fresh"
      /\ \A e \in Event \ locked[w] : row'[e] = row[e]
  BY <1>1, <1>2 DEF TypeOK, Row
<1>4. /\ batch'[w] = locked[w] /\ locked'[w] = {}
      /\ pc'[w] = IF locked[w] = {} THEN "recover" ELSE "send"
      /\ \A v \in Worker \ {w} :
           batch'[v] = batch[v] /\ locked'[v] = locked[v] /\ pc'[v] = pc[v]
  BY <1>1 DEF TypeOK
<1>5. \A v \in Worker : \A e \in batch[v] : e \notin locked[w]
  BY <1>2 DEF ClaimsExclusive, ClaimOwned
<1>6. ASSUME NEW e \in Event PROVE ClaimFresh(e)'
  <2>1. ClaimFresh(e)
    BY DEF ClaimsExclusive
  <2>2. CASE e \in locked[w]
    BY <1>3, <1>4, <2>2 DEF ClaimFresh
  <2>3. CASE e \notin locked[w]
    BY <1>2, <1>3, <1>4, <2>1, <2>3 DEF ClaimFresh
  <2> QED
    BY <2>2, <2>3
<1>7. ASSUME NEW v \in Worker PROVE ClaimOwned(v)'
  <2>1. ClaimOwned(v) /\ batch[v] \subseteq Event /\ locked[v] \subseteq Event
    BY DEF ClaimsExclusive, TypeOK
  <2>2. CASE v = w
    <3>1. pc'[w] \in {"recover", "send"} /\ (batch'[w] # {} => pc'[w] = "send")
      BY <1>4
    <3>2. \A e \in batch'[w] : row'[e].status = "PROCESSING"
      BY <1>3, <1>4
    <3> QED
      BY <1>4, <2>2, <3>1, <3>2 DEF ClaimOwned, Handling
  <2>3. CASE v # w
    <3>1. locked[v] \cap locked[w] = {}
      BY <2>3 DEF ClaimsExclusive, Apart
    <3> QED
      BY <1>1, <1>3, <1>4, <1>5, <2>1, <2>3, <3>1 DEF ClaimOwned
  <2> QED
    BY <2>2, <2>3
<1>8. ASSUME NEW v \in Worker, NEW u \in Worker \ {v} PROVE Apart(u, v)'
  BY <1>4, <1>5 DEF ClaimsExclusive, Apart
<1> QED
  BY <1>6, <1>7, <1>8 DEF ClaimsExclusive

\* What a mark makes of the claim of the worker that marks.
LEMMA MarkedRow ==
  ASSUME TypeOK, ClaimsExclusive, NEW w \in Worker, Marks(w)
  PROVE  /\ row'[Current(w)].status \in {"PUBLISHED", "FAILED", "PENDING"}
         /\ MarkPublished(w) => row'[Current(w)].status = "PUBLISHED"
         /\ row'[Current(w)].claimed = "null"
         /\ \A e \in Event \ {Current(w)} : row'[e] = row[e]
<1>1. pc[w] \in {"publishing", "failing"} /\ pc[w] \in Handling
  BY DEF Marks, MarkPublished, MarkFailed, Handling
<1>2. /\ got[w].status = "PROCESSING" /\ got[w].claimed = "fresh"
      /\ got[w] \in Row /\ row[Current(w)] \in Row /\ Current(w) \in Event
  BY <1>1, CurrentType DEF ClaimsExclusive, ClaimOwned, TypeOK
<1>3. CASE MarkPublished(w)
  <2>1. row'[Current(w)] = Published(row[Current(w)], got[w])
    BY <1>2, <1>3, MarkPublishedRow DEF TypeOK
  <2>2. /\ Published(row[Current(w)], got[w]).status = "PUBLISHED"
        /\ Published(row[Current(w)], got[w]).claimed = "null"
    BY <1>2 DEF Published, Written, Row
  <2> QED
    BY <1>2, <1>3, <2>1, <2>2, MarkPublishedRow DEF TypeOK
<1>4. CASE MarkFailed(w)
  <2>1. row'[Current(w)] = Failed(row[Current(w)], got[w])
    BY <1>2, <1>4, MarkFailedRow DEF TypeOK
  <2>2. /\ Failed(row[Current(w)], got[w]).status \in {"FAILED", "PENDING"}
        /\ Failed(row[Current(w)], got[w]).claimed = "null"
    BY <1>2 DEF Failed, Written, Row
  <2>3. ~MarkPublished(w)
    BY <1>4 DEF MarkFailed, MarkPublished
  <2> QED
    BY <1>2, <1>4, <2>1, <2>2, <2>3, MarkFailedRow DEF TypeOK
<1> QED
  BY <1>3, <1>4 DEF Marks

\* A mark ends a claim.
LEMMA MarkExclusive ==
  ASSUME TypeOK, ClaimsExclusive, NEW w \in Worker, Marks(w)
  PROVE  ClaimsExclusive'
<1>1. /\ pc[w] \in {"publishing", "failing"} /\ pc[w] \in Handling
      /\ NextEvent(w) /\ UNCHANGED <<locked, got>>
  BY DEF Marks, MarkPublished, MarkFailed, Handling
<1>2. Current(w) \in batch[w] /\ Current(w) \in Event
  BY <1>1, CurrentType
<1>3. /\ batch'[w] = batch[w] \ {Current(w)}
      /\ pc'[w] = IF batch[w] = {Current(w)} THEN "recover" ELSE "send"
      /\ \A v \in Worker \ {w} : batch'[v] = batch[v] /\ pc'[v] = pc[v]
  BY <1>1 DEF NextEvent, Goto, TypeOK
<1>4. /\ row'[Current(w)].status \in {"PUBLISHED", "FAILED", "PENDING"}
      /\ row'[Current(w)].claimed = "null"
      /\ \A e \in Event \ {Current(w)} : row'[e] = row[e]
  BY MarkedRow
<1>5. /\ \A v \in Worker \ {w} : Current(w) \notin batch[v]
      /\ \A v \in Worker : Current(w) \notin locked[v]
  BY <1>2 DEF ClaimsExclusive, Apart, ClaimOwned
<1>6. ASSUME NEW e \in Event PROVE ClaimFresh(e)'
  <2>1. CASE e = Current(w)
    BY <1>4, <2>1 DEF ClaimFresh
  <2>2. CASE e # Current(w)
    <3>1. ClaimFresh(e) /\ row'[e] = row[e]
      BY <1>4, <2>2 DEF ClaimsExclusive
    <3>2. \A v \in Worker : e \in batch[v] => e \in batch'[v]
      BY <1>3, <2>2
    <3> QED
      BY <3>1, <3>2 DEF ClaimFresh
  <2> QED
    BY <2>1, <2>2
<1>7. ASSUME NEW v \in Worker PROVE ClaimOwned(v)'
  <2>1. ClaimOwned(v) /\ batch[v] \subseteq Event /\ locked[v] \subseteq Event
    BY DEF ClaimsExclusive, TypeOK
  <2>2. CASE v = w
    BY <1>1, <1>3, <1>4, <1>5, <2>1, <2>2 DEF ClaimOwned, Handling
  <2>3. CASE v # w
    BY <1>1, <1>3, <1>4, <1>5, <2>1, <2>3 DEF ClaimOwned
  <2> QED
    BY <2>2, <2>3
<1>8. ASSUME NEW v \in Worker, NEW u \in Worker \ {v} PROVE Apart(u, v)'
  BY <1>1, <1>3 DEF ClaimsExclusive, Apart
<1> QED
  BY <1>6, <1>7, <1>8 DEF ClaimsExclusive

\* Nothing is stale to be recovered.
LEMMA RecoverExclusive ==
  ASSUME TypeOK, ClaimsExclusive, NEW w \in Worker, Recover(w) \/ CommitRecovery(w)
  PROVE  ClaimsExclusive'
<1>1. locked[w] = {} /\ batch[w] = {}
  BY DEF Recover, CommitRecovery, ClaimsExclusive, ClaimOwned, Handling
<1>2. CASE Recover(w)
  <2>1. Stale(w) = {}
    BY DEF Stale, ClaimsExclusive, ClaimFresh
  <2>2. locked' = [locked EXCEPT ![w] = {}]
    BY <1>2, <2>1 DEF Recover
  <2>3. locked' = locked
    BY <1>1, <2>2 DEF TypeOK
  <2>4. /\ pc' = [pc EXCEPT ![w] = "recovering"] /\ UNCHANGED <<row, batch, got>>
    BY <1>2 DEF Recover, Goto
  <2> QED
    BY <1>1, <2>3, <2>4, ClaimsStay DEF TypeOK
<1>3. CASE CommitRecovery(w)
  <2>1. /\ pc' = [pc EXCEPT ![w] = "claim"] /\ UNCHANGED <<batch, got>>
        /\ locked' = [locked EXCEPT ![w] = {}]
        /\ \A e \in Event : row'[e] = row[e]
    BY <1>1, <1>3 DEF CommitRecovery, Goto
  <2>2. locked' = locked
    BY <1>1, <2>1 DEF TypeOK
  <2> QED
    BY <1>1, <2>1, <2>2, ClaimsStay DEF TypeOK
<1> QED
  BY <1>2, <1>3

LEMMA ExclusiveStep ==
  ASSUME Faults \cap {"slow", "crash"} = {}, TypeOK, ClaimsExclusive, [Next]_vars
  PROVE  ClaimsExclusive'
<1> USE DEF sessions, kafka
<1>1. CASE UNCHANGED vars
  BY <1>1 DEF vars, ClaimsExclusive, ClaimFresh, ClaimOwned, Apart
<1>2. ASSUME NEW w \in Worker, Recover(w) \/ CommitRecovery(w) \/ Claim(w) \/ CommitClaim(w)
                            \/ Marks(w)
      PROVE  ClaimsExclusive'
  BY <1>2, RecoverExclusive, ClaimExclusive, CommitClaimExclusive, MarkExclusive
<1>3. ASSUME NEW w \in Worker, Send(w) PROVE ClaimsExclusive'
  <2>1. /\ pc[w] = "send" /\ pc' = [pc EXCEPT ![w] = pc'[w]] /\ pc'[w] \in {"sent", "raised"}
        /\ UNCHANGED <<row, locked, batch, got>>
    BY <1>3 DEF Send, Goto, TypeOK
  <2>2. locked[w] = {}
    BY <2>1 DEF ClaimsExclusive, ClaimOwned
  <2> QED
    BY <2>1, <2>2, ClaimsStay DEF Handling, TypeOK
<1>4. ASSUME NEW w \in Worker, Get(w) PROVE ClaimsExclusive'
  <2>1. /\ pc[w] \in {"sent", "raised"} /\ pc'[w] \in {"publishing", "failing"}
        /\ \A v \in Worker \ {w} : pc'[v] = pc[v] /\ got'[v] = got[v]
        /\ UNCHANGED <<row, locked, batch>> /\ got'[w] = row[Current(w)]
    BY <1>4 DEF Get, Goto, TypeOK
  <2>2. row[Current(w)].status = "PROCESSING" /\ row[Current(w)].claimed = "fresh"
    BY <2>1, CurrentType DEF ClaimsExclusive, ClaimOwned, ClaimFresh, Handling
  <2>3. locked[w] = {}
    BY <2>1 DEF ClaimsExclusive, ClaimOwned
  <2> QED
    BY <2>1, <2>2, <2>3, ClaimsStay DEF Handling
<1>5. ASSUME NEW w \in Worker, Manages(w) PROVE ClaimsExclusive'
  <2>1. CASE Stop(w)
    BY <2>1 DEF Stop, ClaimsExclusive, ClaimFresh, ClaimOwned, Apart
  <2>2. CASE StartProducer(w) \/ Exit(w)
    <3>1. /\ pc[w] \in {"starting", "recover"} /\ pc'[w] \in {"recover", "down"}
          /\ \A v \in Worker \ {w} : pc'[v] = pc[v] /\ got'[v] = got[v]
          /\ UNCHANGED <<row, locked, batch, got>>
      BY <2>2 DEF StartProducer, Exit, Idle, Goto, TypeOK
    <3>2. locked[w] = {} /\ batch[w] = {}
      BY <3>1 DEF ClaimsExclusive, ClaimOwned, Handling
    <3> QED
      BY <3>1, <3>2, ClaimsStay
  <2> QED
    BY <1>5, <2>1, <2>2 DEF Manages
<1>6. ASSUME NEW w \in Worker, Crash(w) PROVE FALSE
  BY <1>6 DEF Crash
<1>7. ASSUME NEW e \in Event, Create(e) PROVE ClaimsExclusive'
  <2>1. /\ row[e].status = "ABSENT" /\ row[e] \in Row
        /\ row'[e].status = "PENDING" /\ row'[e].claimed = row[e].claimed
        /\ \A f \in Event \ {e} : row'[f] = row[f]
        /\ UNCHANGED <<pc, locked, batch, got>>
    BY <1>7 DEF Create, TypeOK, Row
  <2>2. \A w \in Worker : e \notin batch[w] /\ e \notin locked[w]
    BY <2>1 DEF ClaimsExclusive, ClaimOwned
  <2>3. ASSUME NEW f \in Event PROVE ClaimFresh(f)'
    BY <2>1 DEF ClaimsExclusive, ClaimFresh
  <2>4. ASSUME NEW w \in Worker PROVE ClaimOwned(w)'
    <3>1. ClaimOwned(w) /\ batch[w] \subseteq Event /\ locked[w] \subseteq Event
      BY DEF ClaimsExclusive, TypeOK
    <3> QED
      BY <2>1, <2>2, <3>1 DEF ClaimOwned
  <2> QED
    BY <2>1, <2>3, <2>4 DEF ClaimsExclusive, Apart
<1>8. ASSUME NEW e \in Event, RetryDue(e) PROVE ClaimsExclusive'
  <2>1. /\ \A f \in Event : row'[f].status = row[f].status /\ row'[f].claimed = row[f].claimed
        /\ UNCHANGED <<pc, locked, batch, got>>
    BY <1>8 DEF RetryDue, TypeOK, Row
  <2>2. ASSUME NEW w \in Worker PROVE ClaimOwned(w)'
    <3>1. ClaimOwned(w) /\ batch[w] \subseteq Event /\ locked[w] \subseteq Event
      BY DEF ClaimsExclusive, TypeOK
    <3> QED
      BY <2>1, <3>1 DEF ClaimOwned
  <2> QED
    BY <2>1, <2>2 DEF ClaimsExclusive, ClaimFresh, Apart
<1>9. ASSUME NEW e \in Event, ClaimAges(e) PROVE FALSE
  BY <1>9 DEF ClaimAges, ClaimsExclusive, ClaimFresh
<1> QED
  BY <1>1, <1>2, <1>3, <1>4, <1>5, <1>6, <1>7, <1>8, <1>9, NextActs
  DEF Acts, Work, Passing, Marks

\* With workers neither slow nor dying, a claim is one worker's, which has the
\* event in its batch, and none goes stale.
THEOREM ClaimsAreExclusive ==
  Faults \cap {"slow", "crash"} = {} => (Spec => []ClaimsExclusive)
<1> SUFFICES ASSUME Faults \cap {"slow", "crash"} = {} PROVE Spec => []ClaimsExclusive
  OBVIOUS
<1>1. Init => ClaimsExclusive
  BY DEF Init, ClaimsExclusive, ClaimFresh, ClaimOwned, Apart, NewRow, Handling
<1>2. TypeOK /\ ClaimsExclusive /\ [Next]_vars => ClaimsExclusive'
  BY ExclusiveStep
<1> QED
  BY <1>1, <1>2, TypeCorrect, PTL DEF Spec

\* A claimed event is in the batch of one worker, which deals with it before it
\* looks at _running: no shutdown strands it, if workers are neither slow nor
\* die.
THEOREM NoneStranded ==
  Faults \cap {"slow", "crash"} = {} => (Spec => []ClaimsHandled)
<1> SUFFICES ASSUME Faults \cap {"slow", "crash"} = {} PROVE Spec => []ClaimsHandled
  OBVIOUS
<1>1. ClaimsExclusive => ClaimsHandled
  BY DEF ClaimsExclusive, ClaimFresh, ClaimsHandled
<1> QED
  BY <1>1, ClaimsAreExclusive, PTL

-----------------------------------------------------------------------------
(* An event is sent once *)

\* A step in which nothing is sent, and no mark is taken back or missed.
LEMMA OnceStays ==
  ASSUME SentOnce, UNCHANGED copies,
         \A e \in Event : row[e].status = "PUBLISHED" => row'[e].status = "PUBLISHED",
         \A w \in Worker : pc[w] \in {"sent", "publishing"} =>
                             pc'[w] \in {"sent", "publishing"} /\ batch'[w] = batch[w]
  PROVE  SentOnce'
<1> SUFFICES ASSUME NEW e \in Event, copies[e] > 0
             PROVE  /\ copies[e] = 1
                    /\ \/ row'[e].status = "PUBLISHED"
                       \/ \E w \in Worker : pc'[w] \in {"sent", "publishing"} /\ Current(w)' = e
  BY DEF SentOnce
<1>1. CASE row[e].status = "PUBLISHED"
  BY <1>1 DEF SentOnce
<1>2. CASE row[e].status # "PUBLISHED"
  <2>1. PICK w \in Worker : pc[w] \in {"sent", "publishing"} /\ Current(w) = e
    BY <1>2 DEF SentOnce
  <2>2. pc'[w] \in {"sent", "publishing"} /\ Current(w)' = e
    BY <2>1, CurrentStays
  <2> QED
    BY <2>2 DEF SentOnce
<1> QED
  BY <1>1, <1>2

\* The event of a worker that has not delivered it has no copy.
LEMMA NoCopyYet ==
  ASSUME TypeOK, ClaimsExclusive, SentOnce, NEW w \in Worker, pc[w] \in {"send", "failing"}
  PROVE  copies[Current(w)] = 0
<1>1. Current(w) \in batch[w] /\ Current(w) \in Event
  BY CurrentType DEF Handling
<1>2. row[Current(w)].status = "PROCESSING"
  BY <1>1 DEF ClaimsExclusive, ClaimOwned
<1>3. ASSUME NEW v \in Worker, pc[v] \in {"sent", "publishing"} PROVE Current(v) # Current(w)
  <2>1. Current(v) \in batch[v] /\ v # w
    BY <1>3, CurrentType DEF Handling
  <2> QED
    BY <1>1, <2>1 DEF ClaimsExclusive, Apart
<1>4. ~(copies[Current(w)] > 0)
  BY <1>1, <1>2, <1>3 DEF SentOnce
<1>5. copies[Current(w)] \in Nat
  BY <1>1 DEF TypeOK
<1> QED
  BY <1>4, <1>5

LEMMA SendOnce ==
  ASSUME "ack_lost" \notin Faults, TypeOK, ClaimsExclusive, SentOnce,
         NEW w \in Worker, Send(w)
  PROVE  SentOnce'
<1>1. pc[w] = "send" /\ pc[w] \in Handling /\ UNCHANGED <<row, batch>>
  BY DEF Send, Handling
<1>2. CASE Deliver(Current(w)) /\ Goto(w, "sent")
  <2>1. /\ copies' = [copies EXCEPT ![Current(w)] = Least(copies[Current(w)] + 1, MaxCopies)]
        /\ pc'[w] = "sent" /\ \A v \in Worker \ {w} : pc'[v] = pc[v]
    BY <1>2 DEF Deliver, Goto, TypeOK
  <2>2. Current(w) \in Event /\ copies[Current(w)] = 0 /\ Current(w)' = Current(w)
    BY <1>1, CurrentType, NoCopyYet, CurrentStays
  <2>3. Least(0 + 1, MaxCopies) = 1
    BY OutboxAssumption DEF Least
  <2>4. copies'[Current(w)] = 1 /\ \A e \in Event \ {Current(w)} : copies'[e] = copies[e]
    BY <2>1, <2>2, <2>3 DEF TypeOK
  <2>5. ASSUME NEW e \in Event, copies'[e] > 0
        PROVE  /\ copies'[e] = 1
               /\ \/ row'[e].status = "PUBLISHED"
                  \/ \E v \in Worker : pc'[v] \in {"sent", "publishing"} /\ Current(v)' = e
    <3>1. CASE e = Current(w)
      BY <2>1, <2>2, <2>4, <3>1
    <3>2. CASE e # Current(w) /\ row[e].status = "PUBLISHED"
      BY <1>1, <2>4, <2>5, <3>2 DEF SentOnce
    <3>3. CASE e # Current(w) /\ row[e].status # "PUBLISHED"
      <4>1. copies[e] = 1 /\ copies'[e] = 1
        BY <2>4, <2>5, <3>3 DEF SentOnce
      <4>2. PICK v \in Worker : pc[v] \in {"sent", "publishing"} /\ Current(v) = e
        BY <2>4, <2>5, <3>3 DEF SentOnce
      <4>3. pc'[v] = pc[v] /\ Current(v)' = e
        BY <1>1, <2>1, <4>2, CurrentStays
      <4> QED
        BY <4>1, <4>2, <4>3
    <3> QED
      BY <3>1, <3>2, <3>3
  <2> QED
    BY <2>5 DEF SentOnce
<1>3. CASE Goto(w, "raised") /\ UNCHANGED copies
  <2>1. \A v \in Worker \ {w} : pc'[v] = pc[v]
    BY <1>3 DEF Goto, TypeOK
  <2> QED
    BY <1>1, <1>3, <2>1, OnceStays
<1> QED
  BY <1>2, <1>3 DEF Send

LEMMA MarkOnce ==
  ASSUME TypeOK, ClaimsExclusive, SentOnce, NEW w \in Worker, Marks(w)
  PROVE  SentOnce'
<1>1. /\ pc[w] \in {"publishing", "failing"} /\ pc[w] \in Handling /\ NextEvent(w)
      /\ UNCHANGED copies
  BY DEF Marks, MarkPublished, MarkFailed, Handling, kafka
<1>2. \A v \in Worker \ {w} : pc'[v] = pc[v] /\ batch'[v] = batch[v]
  BY <1>1 DEF NextEvent, Goto, TypeOK
<1>3. \A e \in Event \ {Current(w)} : row'[e] = row[e]
  BY MarkedRow
<1> SUFFICES ASSUME NEW e \in Event, copies[e] > 0
             PROVE  /\ copies[e] = 1
                    /\ \/ row'[e].status = "PUBLISHED"
                       \/ \E v \in Worker : pc'[v] \in {"sent", "publishing"} /\ Current(v)' = e
  BY <1>1 DEF SentOnce
<1>4. CASE e = Current(w)
  <2>1. pc[w] = "publishing"
    BY <1>1, <1>4, NoCopyYet
  <2>2. MarkPublished(w)
    BY <2>1 DEF Marks, MarkFailed
  <2>3. row'[e].status = "PUBLISHED"
    BY <1>4, <2>2, MarkedRow
  <2> QED
    BY <2>3 DEF SentOnce
<1>5. CASE e # Current(w) /\ row[e].status = "PUBLISHED"
  BY <1>3, <1>5 DEF SentOnce
<1>6. CASE e # Current(w) /\ row[e].status # "PUBLISHED"
  <2>1. PICK v \in Worker : pc[v] \in {"sent", "publishing"} /\ Current(v) = e
    BY <1>6 DEF SentOnce
  <2>2. v # w
    BY <1>6, <2>1
  <2>3. pc'[v] = pc[v] /\ Current(v)' = e
    BY <1>2, <2>1, <2>2, CurrentStays
  <2> QED
    BY <2>1, <2>3 DEF SentOnce
<1> QED
  BY <1>4, <1>5, <1>6

LEMMA OnceStep ==
  ASSUME Faults \cap {"slow", "crash", "ack_lost"} = {}, TypeOK, ClaimsExclusive, SentOnce,
         [Next]_vars
  PROVE  SentOnce'
<1> USE DEF sessions, kafka
<1>1. CASE UNCHANGED vars
  BY <1>1, OnceStays DEF vars
<1>2. ASSUME NEW w \in Worker, Send(w) \/ Marks(w) PROVE SentOnce'
  BY <1>2, SendOnce, MarkOnce
<1>3. ASSUME NEW w \in Worker, Recover(w) \/ Claim(w) \/ Get(w) \/ Manages(w)
      PROVE  SentOnce'
  <2>1. UNCHANGED <<row, batch, copies>>
    BY <1>3 DEF Recover, Claim, Get, Manages, StartProducer, Exit, Stop, Idle
  <2>2. \A v \in Worker : pc[v] \in {"sent", "publishing"} => pc'[v] \in {"sent", "publishing"}
    BY <1>3 DEF Recover, Claim, Get, Manages, StartProducer, Exit, Stop, Goto, TypeOK
  <2> QED
    BY <2>1, <2>2, OnceStays
<1>4. ASSUME NEW w \in Worker, CommitRecovery(w) \/ CommitClaim(w) PROVE SentOnce'
  <2>1. \A v \in Worker : pc[v] \in {"sent", "publishing"} =>
                            pc'[v] \in {"sent", "publishing"} /\ batch'[v] = batch[v]
    BY <1>4 DEF CommitRecovery, CommitClaim, Goto, TypeOK
  <2>2. \A e \in Event : e \notin locked[w] => row'[e] = row[e]
    BY <1>4 DEF CommitRecovery, CommitClaim
  <2>3. \A e \in locked[w] : row[e].status = "PENDING"
    BY DEF ClaimsExclusive, ClaimOwned
  <2>4. UNCHANGED copies
    BY <1>4 DEF CommitRecovery, CommitClaim
  <2> QED
    BY <2>1, <2>2, <2>3, <2>4, OnceStays
<1>5. ASSUME NEW w \in Worker, Crash(w) PROVE FALSE
  BY <1>5 DEF Crash
<1>6. ASSUME NEW e \in Event, Create(e) \/ RetryDue(e) PROVE SentOnce'
  <2>1. UNCHANGED <<pc, batch, copies>>
    BY <1>6 DEF Create, RetryDue
  <2>2. \A f \in Event : row[f].status = "PUBLISHED" => row'[f].status = "PUBLISHED"
    BY <1>6 DEF Create, RetryDue, TypeOK, Row
  <2> QED
    BY <2>1, <2>2, OnceStays
<1>7. ASSUME NEW e \in Event, ClaimAges(e) PROVE FALSE
  BY <1>7 DEF ClaimAges, ClaimsExclusive, ClaimFresh
<1> QED
  BY <1>1, <1>2, <1>3, <1>4, <1>5, <1>6, <1>7, NextActs DEF Acts, Work, Passing, Marks

\* With workers neither slow nor dying and no acknowledgement lost, the one
\* copy of an event is marked, or about to be by the worker that sent it.
THEOREM CopiedOnce ==
  Faults \cap {"slow", "crash", "ack_lost"} = {} => (Spec => []SentOnce)
<1> SUFFICES ASSUME Faults \cap {"slow", "crash", "ack_lost"} = {} PROVE Spec => []SentOnce
  OBVIOUS
<1>1. Init => SentOnce
  BY DEF Init, SentOnce
<1>2. TypeOK /\ ClaimsExclusive /\ SentOnce /\ [Next]_vars => SentOnce'
  BY OnceStep
<1>3. Faults \cap {"slow", "crash"} = {}
  OBVIOUS
<1> QED
  BY <1>1, <1>2, <1>3, TypeCorrect, ClaimsAreExclusive, PTL DEF Spec

\* Workers that are neither slow nor die send every event at most once to a
\* broker that loses no acknowledgement.
THEOREM NeverSentTwice ==
  Faults \cap {"slow", "crash", "ack_lost"} = {} => (Spec => []NotSentTwice)
<1> SUFFICES ASSUME Faults \cap {"slow", "crash", "ack_lost"} = {}
             PROVE  Spec => []NotSentTwice
  OBVIOUS
<1>1. TypeOK /\ SentOnce => NotSentTwice
  BY DEF TypeOK, SentOnce, NotSentTwice
<1> QED
  BY <1>1, TypeCorrect, CopiedOnce, PTL

=============================================================================
