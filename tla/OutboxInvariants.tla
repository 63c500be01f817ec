-------------------------- MODULE OutboxInvariants ---------------------------
(***************************************************************************)
(* Why OutboxWorker keeps its promises: the facts about workers on their   *)
(* way from a send to its mark.                                            *)
(***************************************************************************)
EXTENDS OutboxWorker

\* The inductive invariant behind PublishedWasSent: the event a worker is about
\* to mark published is in the topic.
SentBeforeMark ==
  /\ PublishedWasSent
  /\ \A w \in Worker : pc[w] \in {"sent", "publishing"} => copies[Current(w)] > 0

\* A worker selects, claims and sends only events whose transaction is committed.
CommittedFirst ==
  \A e \in Event :
    (copies[e] > 0 \/ \E w \in Worker : e \in batch[w] \cup locked[w]) =>
      row[e].status # "ABSENT"

\* Workers whose send of e raised and who have not yet counted it.
Uncounted(e) == {w \in Worker : pc[w] \in {"raised", "failing"} /\ Current(w) = e}

\* Enough sends of e have raised for a retry_count of n and the uncounted ones.
Accounted(n, e) == \/ fails[e] = MaxRetries
                   \/ fails[e] >= n + Cardinality(Uncounted(e))

\* The inductive invariant behind GivesUpLate: neither the retry_count of a row
\* nor one that a worker has read, and may write back after others have counted
\* theirs, is ahead of the sends that raised.
RetriesAccounted ==
  /\ GivesUpLate
  /\ \A e \in Event : Accounted(row[e].retries, e)
  /\ \A w \in Worker : pc[w] = "failing" => Accounted(got[w].retries, Current(w))

\* Among workers that are neither slow nor die: a claim is one worker's, which
\* has the event in its batch, and none goes stale.
ClaimFresh(e) ==
  /\ row[e].status = "PROCESSING" <=> row[e].claimed = "fresh"
  /\ row[e].claimed # "stale"
  /\ row[e].status = "PROCESSING" => \E w \in Worker : e \in batch[w]

ClaimOwned(w) ==
  /\ \A e \in batch[w] : row[e].status = "PROCESSING"
  /\ \A e \in locked[w] : row[e].status = "PENDING"
  /\ batch[w] # {} => pc[w] \in Handling
  /\ locked[w] # {} => pc[w] = "claiming"
  /\ pc[w] \in {"publishing", "failing"} =>
       got[w].status = "PROCESSING" /\ got[w].claimed = "fresh"

Apart(v, w) == batch[v] \cap batch[w] = {} /\ locked[v] \cap locked[w] = {}

\* The inductive invariant behind ClaimsHandled.
ClaimsExclusive ==
  /\ \A e \in Event : ClaimFresh(e)
  /\ \A w \in Worker : ClaimOwned(w)
  /\ \A w \in Worker : \A v \in Worker \ {w} : Apart(v, w)

\* The inductive invariant behind NotSentTwice: the one copy of an event is
\* published, or about to be marked so by the worker that sent it.
SentOnce ==
  \A e \in Event : copies[e] > 0 =>
    /\ copies[e] = 1
    /\ \/ row[e].status = "PUBLISHED"
       \/ \E w \in Worker : pc[w] \in {"sent", "publishing"} /\ Current(w) = e

=============================================================================
