SPECIFICATION Spec
CONSTANTS
  None = None
  r1 = r1
  r2 = r2
  i1 = i1
  i2 = i2
  person = person
  Run = {r1, r2}
  Item = {i1, i2}
  RunOf <- RunOfItem
  Account = {person}
  AccountOf <- OneAccount
  Amount <- Ones
  Owed <- OneOwed
  Revised = {}
  MaxManual = 0
  Worker = {w1}
  MaxAttempts = 2
  MaxFaults = 0
INVARIANTS ReservationsCovered
CHECK_DEADLOCK FALSE
