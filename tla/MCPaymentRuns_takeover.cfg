SPECIFICATION FairSpec
CONSTANTS
  None = None
  r1 = r1
  r2 = r2
  i1 = i1
  i2 = i2
  person = person
  Run = {r1}
  Item = {i1}
  RunOf <- RunOfItem
  Account = {person}
  AccountOf <- OneAccount
  Amount <- Ones
  Owed <- TwoOwed
  Revised = {3}
  MaxManual = 1
  Worker = {w1, w2}
  MaxAttempts = 2
  MaxFaults = 2
INVARIANTS FundedOnce ReleasedIsOver
PROPERTIES RecordedStands EventuallyReconciled
CHECK_DEADLOCK FALSE
