SPECIFICATION FairSpec
CONSTANTS
  None = None
  Delivery = {m}
  Consumer = {c1, c2}
  MaxAttempts = 2
  Timeout = 1
  Lease = 2
  MaxHandoffs = 3
  MaxFaults = 2
INVARIANTS OneCallAtATime BudgetKept UnavailableMeansUncalled
PROPERTIES ImplementsMailLog EventuallySettled
CHECK_DEADLOCK FALSE
