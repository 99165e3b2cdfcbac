SPECIFICATION FairSpec
CONSTANTS
  s1 = s1
  e1 = e1
  e2 = e2
  d1 = d1
  d2 = d2
  None = None
  Subscriber = {s1}
  Event = {e1, e2}
  Prior <- OneAggregate
  Drain = {d1, d2}
  Deployment <- TwoBudgets
  RetryDelay <- DelayOne
  Lease = 1
  DrainLimit = 2
  MaxFaults = 1
  MaxRetries = 1
INVARIANTS EffectsInOrder PublishedMeansApplied BudgetKept
PROPERTIES LeaseRespected PromiseKept EventuallySettled
