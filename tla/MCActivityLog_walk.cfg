SPECIFICATION LogSpec
CONSTANTS
  log_ = log_
  e1 = e1
  e2 = e2
  roll1 = roll1
  d1 = d1
  d2 = d2
  None = None
  Subscriber = {log_}
  Activity = log_
  Event = {e1, e2, roll1}
  Prior <- OneAggregate
  Drain = {d1}
  Deployment <- OneRegistry
  RetryDelay <- DelayOne
  Lease = 1
  DrainLimit = 1
  MaxFaults = 1
  MaxRetries = 0
  MaxInstant = 1
  YearOf <- NewYear
  RollEvent <- RollOfYear
  Rank <- Ranks
  MaxWalks = 1
INVARIANTS AcknowledgedIsLogged LogFollowsAggregate WalkComplete
