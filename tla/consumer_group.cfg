SPECIFICATION Spec
CONSTANTS
  Account <- Accounts
  SystemCash = 2
  Key = {"k"}
  NoKey = NoKey
  TransferKeys = "source_account_id"
  Event = {1, 2}
  Consumer = {c1, c2}
  NoOne = NoOne
  Partition = {"p1", "p2"}
  Workload <- Mixed
  Limit = 3
  Logs <- CrossedLogs
  MaxLog = 2
  Faults = {"die", "rebalance", "ack_lost"}
SYMMETRY Symmetry
INVARIANTS
  TypeOK
  AckedApplied
  AckInv
  RegisteredOnce
PROPERTIES
  PromiseSpec
CHECK_DEADLOCK FALSE
