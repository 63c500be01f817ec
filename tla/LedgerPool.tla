----------------------------- MODULE LedgerPool ------------------------------
(***************************************************************************)
(* LedgerService on the connection pool of app/db/database.py: a session   *)
(* takes a connection at its first statement and returns it when its       *)
(* transaction ends, so that a request waiting for a row lock keeps one,   *)
(* and one that has committed needs one again for its db.refresh().        *)
(***************************************************************************)
EXTENDS LedgerService

CONSTANT PoolSize  \* pool_size + max_overflow

ASSUME PoolAssumption == PoolSize \in Nat \ {0}

VARIABLE held  \* requests whose session holds a connection

poolVars == <<vars, held>>

\* The next step of r begins with a statement; past the COMMIT, db.refresh().
UsesDatabase(r) ==
  \/ pc[r] = "start" /\ Op(r) # "balance"
  \/ pc[r] \in {"lock1", "lock2", "read", "stamp", "insert", "entry1", "entry2",
                "commit", "invalidate1", "reread", "query"}

Waits(r) == UsesDatabase(r) /\ r \notin held
Full == Cardinality(held) >= PoolSize

Checkout(r) ==
  /\ Waits(r) /\ ~Full
  /\ held' = held \cup {r}
  /\ UNCHANGED vars

\* pool_timeout: SQLAlchemy raises, before or after the COMMIT.
PoolTimeout(r) == Waits(r) /\ Full /\ Fail(r) /\ UNCHANGED held

\* Mutant of Returned: a session is not closed when its handler ends.
NeverClosed(r) == IF pc'[r] \in {"invalidate1", "reread"} THEN held \ {r} ELSE held

\* COMMIT, ROLLBACK and the end of get_db return the connection.
Returned(r) == IF pc'[r] \in {"done", "invalidate1", "reread"} THEN held \ {r} ELSE held

PoolStep(r) == ~Waits(r) /\ Advance(r) /\ held' = Returned(r)

PoolDie(r) == Die(r) /\ held' = held \ {r}

PoolInit == Init /\ held = {}

PoolNext ==
  \/ \E r \in Req : Checkout(r) \/ PoolStep(r) \/ PoolTimeout(r) \/ PoolDie(r)
  \/ (CreateAccount \/ AllDone) /\ UNCHANGED held

PoolSpec == PoolInit /\ [][PoolNext]_poolVars

\* Those of FairSpec, and a free connection is given to who asks.  Nothing is
\* assumed of PoolTimeout: no answer may depend on it.
FairPoolSpec ==
  /\ PoolSpec
  /\ \A r \in Req : WF_poolVars(PoolStep(r)) /\ WF_poolVars(Checkout(r))

=============================================================================
