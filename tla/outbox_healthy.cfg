SPECIFICATION Spec
CONSTANTS
  Event = {1, 2, 3}
  Worker = {w1, w2}
  BatchSize = 2
  MaxRetries = 2
  MaxCopies = 2
  Faults = {"refused", "stop"}
SYMMETRY Symmetry
INVARIANTS
  TypeOK
  NotSentTwice
  ClaimsExclusive
  SentOnce
  ClaimsHandled
