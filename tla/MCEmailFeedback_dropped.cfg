SPECIFICATION Spec
CONSTANTS
  None = None
  Delivery = {m}
  MaxAttempts = 1
  Bounces = {b}
  Complaints = {}
  Request = {r}
  MaxStops = 0
INVARIANTS NoEventDropped
CHECK_DEADLOCK FALSE
