SPECIFICATION Spec
CONSTANTS
  Req = {r1, r2}
  NoReq = NoReq
  Account <- Accounts
  SystemCash = 2
  Currency = {"INR", "USD"}
  Tables <- AllActive
  Opening <- TenCents
  Key = {"k1", "k2", "k3"}
  NoKey = NoKey
  Workload <- OneTransfer
  Last = 3
  Miss = Miss
  AmountCheck = FALSE
  Faults = {}
SYMMETRY Symmetry
INVARIANTS
  DuplicateNotRefused
