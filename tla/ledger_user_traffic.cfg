SPECIFICATION PagingSpec
CONSTANTS
  Req = {r1, r2, r3}
  NoReq = NoReq
  Account <- Accounts
  SystemCash = 2
  Currency = {"INR", "USD"}
  Tables <- AllActive
  Opening <- TenCents
  Key = {"k1", "k2", "k3"}
  NoKey = NoKey
  Workload <- UserTraffic
  Last = 3
  Miss = Miss
  PageSize = 1
  AmountCheck = FALSE
  Faults = {"die"}
SYMMETRY Symmetry
INVARIANTS
  NothingSkipped
  NoWaitCycle
