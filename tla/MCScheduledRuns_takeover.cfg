SPECIFICATION FairSpec
CONSTANTS
  r = r
  None = None
  Run = {r}
  Item = {1}
  RunOf <- OneRun
  Executor = {x1, x2}
  MaxItems = 10
  MaxAttempts = 2
  Lease = 1
  MaxRetries = 1
  MaxSender = 1
  MaxFaults = 2
INVARIANTS NothingExpiresIntoAction OneMessage
PROPERTIES LeaseRespected EventuallyResolved
CHECK_DEADLOCK FALSE
