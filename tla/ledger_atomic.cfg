SPECIFICATION Spec
CONSTANTS
  Req = {r1, r2, r3}
  NoReq = NoReq
  Account <- Accounts4
  SystemCash = 2
  Currency = {"INR", "USD"}
  Tables <- CashTwice4
  Opening <- TenCents4
  Key = {"k1", "k2", "k3"}
  NoKey = NoKey
  Workload <- Mixed
  Last = 3
  Miss = Miss
  AmountCheck = FALSE
  Faults = {"die", "redis"}
SYMMETRY Symmetry
INVARIANTS
  NoOverdraft
  MoneyConserved
  OneTransactionPerKey
  RepliesTruthful
  OverdraftInv
  KeysUnique
  CommitsOnce
  AtomicInv
  LocksOwned
PROPERTIES
  AtomicSpec
