SPECIFICATION HistorySpec
CONSTANTS
  Req = {r1, r2}
  NoReq = NoReq
  Account <- Accounts
  SystemCash = 2
  Currency = {"INR", "USD"}
  Tables <- OddTables
  Opening <- TenCents
  Key = {"k1", "k2", "k3"}
  NoKey = NoKey
  Workload <- Refusals
  Last = 3
  Miss = Miss
  AmountCheck = TRUE
  Faults = {"die", "redis"}
SYMMETRY Symmetry
INVARIANTS
  TypeOK
  HistorySettled
PROPERTIES
  AtomicSpec
