SPECIFICATION FairSpec
CONSTANTS
  Account <- Accounts
  SystemCash = 2
  Key = {"k"}
  NoKey = NoKey
  TransferKeys = "from_account_id"
  Event = {1}
  Worker = {w1, w2}
  BatchSize = 1
  MaxRetries = 2
  MaxCopies = 3
  WorkerFaults = {"refused", "ack_lost", "stop", "crash"}
  Consumer = {c1}
  NoOne = NoOne
  Partition = {"p1", "p2"}
  Workload <- OneDeposit
  Limit = 9
  Logs <- EmptyLogs
  MaxLog = 3
  ConsumerFaults = {"die", "ack_lost"}
INVARIANTS
  NothingLost
  ProjectsCommitted
PROPERTIES
  CatchesUp
CHECK_DEADLOCK FALSE
