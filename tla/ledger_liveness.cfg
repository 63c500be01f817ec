SPECIFICATION FairPoolSpec
CONSTANTS
  Req = {r1, r2, r3}
  NoReq = NoReq
  Account <- Accounts
  SystemCash = 2
  Currency = {"INR", "USD"}
  Tables <- AllActive
  Opening <- TenCents
  Key = {"k1", "k2", "k3"}
  NoKey = NoKey
  Workload <- SystemTraffic
  Last = 3
  Miss = Miss
  AmountCheck = TRUE
  Faults = {"die"}
  PoolSize = 2
PROPERTIES
  AllAnswered
