---------------------------- MODULE LedgerHistory ----------------------------
(***************************************************************************)
(* LedgerService with a record of the past: the first time the clock shows *)
(* t while no stamped transaction is uncommitted, told[t] keeps what       *)
(* get_balance_at would answer for t.                                      *)
(***************************************************************************)
EXTENDS LedgerService

VARIABLE told

Untold == [none |-> TRUE]

\* r has stamped its Transaction row and not yet committed it.
InFlight(r) == pc[r] = "insert" \/ Inserted(r)
Quiet == \A r \in Req : ~InFlight(r)

Tell ==
  told' = IF Quiet' /\ told[now'] = Untold
          THEN [told EXCEPT ![now'] = [a \in Account |-> ledger'[a][now']]]
          ELSE told

HistoryInit ==
  /\ Init
  /\ told = [t \in Time |-> IF t = 0 THEN Opening ELSE Untold]

HistoryNext == Next /\ Tell

HistorySpec == HistoryInit /\ [][HistoryNext]_<<vars, told>>

\* get_balance_at is repeatable: the balances of a moment at which no stamped
\* transaction was uncommitted never change afterwards, although requests that
\* had begun by then, and waited for locks, commit later.
HistorySettled ==
  \A t \in Time : told[t] # Untold => \A a \in Account : ledger[a][t] = told[t][a]

=============================================================================
