SPECIFICATION FairSpec
CONSTANTS
  None = None
  Worker = {w1, w2}
  Copy = {c1, c2, c3, c4, c5}
  Chunks = 1
  Lease = 1
  FailAfter = 2
  MaxDeliveries = 2
  MaxFaults = 2
  MaxCommands = 2
INVARIANTS MessageKept SourceNeeded
PROPERTIES PromiseKept EventuallyOver
CHECK_DEADLOCK FALSE
