-------------------------- MODULE BalanceProjection --------------------------
(***************************************************************************)
(* What the consumers promise: every event is applied at most once, in one *)
(* step, and adds to the projections of the users' accounts what its       *)
(* transaction added to them in the ledger.  There are no messages,        *)
(* offsets, locks or redeliveries here.  Nothing is promised of the        *)
(* projection of SYSTEM_CASH: it has the deposits to SYSTEM_CASH's own id  *)
(* and the withdrawals from it, which net zero in the ledger, and lacks    *)
(* SYSTEM_CASH's side of all others.                                       *)
(***************************************************************************)
EXTENDS Requests

CONSTANTS Event, Workload

VARIABLES
  body,      \* the transaction of each event
  sent,      \* events in the topic
  applied,   \* events applied to the projection
  balance    \* the projections of the users' accounts

vars == <<body, sent, applied, balance>>

User == Account \ {SystemCash}

Init ==
  /\ body \in [Event -> Workload]
  /\ sent \in SUBSET Event
  /\ applied = {}
  /\ balance = [a \in User |-> 0]

Send(e) ==
  /\ sent' = sent \cup {e}
  /\ UNCHANGED <<body, applied, balance>>

Apply(e) ==
  /\ e \in sent \ applied
  /\ applied' = applied \cup {e}
  /\ balance' = [a \in User |-> balance[a] + Entry(body[e], a)]
  /\ UNCHANGED <<body, sent>>

Next == \E e \in Event : Send(e) \/ Apply(e)

Spec == Init /\ [][Next]_vars

=============================================================================
