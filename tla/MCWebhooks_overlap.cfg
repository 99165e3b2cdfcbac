SPECIFICATION FairSpec
CONSTANTS
  h1 = h1
  h2 = h2
  w1 = w1
  w2 = w2
  None = None
  Subscription = {s}
  Event = {e}
  Sweep = {w1, w2}
  Handler = {h1, h2}
  SweepOf <- Overlapping
  Batch = 10
  MaxAttempts = 2
  RetryDelay <- DelayOne
  Lease = 1
  MaxFaults = 1
  MaxCommands = 2
  MaxReplays = 1
INVARIANTS BudgetKept RemovedIsQuiet DeliveredMeansAccepted
PROPERTIES EventuallySettled
