SPECIFICATION FairSpec
CONSTANTS
  None = None
  Delivery = {m}
  MaxAttempts = 2
  Bounces = {b}
  Complaints = {c}
  Request = {r1, r2}
  MaxStops = 1
INVARIANTS OutcomeMeansMarked VerdictHasEvidence
PROPERTIES VerdictStands PromptEventLands
CHECK_DEADLOCK FALSE
