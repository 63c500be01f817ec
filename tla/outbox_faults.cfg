SPECIFICATION FairSpec
CONSTANTS
  Event = {1}
  Worker = {w1, w2}
  BatchSize = 1
  MaxRetries = 2
  MaxCopies = 1
  Faults = {"slow", "refused", "ack_lost", "stop", "crash"}
INVARIANTS
  PublishedWasSent
  GivesUpLate
  SentBeforeMark
  RetriesAccounted
PROPERTIES
  EventsSettle
  StopsInTheEnd
