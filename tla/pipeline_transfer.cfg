SPECIFICATION FairSpec
CONSTANTS
  Account <- Accounts
  SystemCash = 2
  Key = {"k"}
  NoKey = NoKey
  TransferKeys = "from_account_id"
  Event = {1, 2}
  Worker = {w1}
  BatchSize = 1
  MaxRetries = 2
  MaxCopies = 2
  WorkerFaults = {}
  Consumer = {c1}
  NoOne = NoOne
  Partition = {"p1", "p2"}
  Workload <- DepositAndTransfer
  Limit = 9
  Logs <- EmptyLogs
  MaxLog = 4
  ConsumerFaults = {}
PROPERTIES
  CatchesUp
CHECK_DEADLOCK FALSE
