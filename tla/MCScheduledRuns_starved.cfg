SPECIFICATION FairSpec
CONSTANTS
  r = r
  None = None
  Run = {r}
  Item = {1, 2}
  RunOf <- OneRun
  Executor = {x1}
  MaxItems = 1
  MaxAttempts = 1
  Lease = 1
  MaxRetries = 0
  MaxSender = 0
  MaxFaults = 1
PROPERTIES EventuallyResolved
CHECK_DEADLOCK FALSE
