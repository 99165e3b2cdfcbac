SPECIFICATION FairSpec
CONSTANTS
  a1 = a1
  a2 = a2
  same = same
  None = None
  Attempt = {a1, a2}
  Body <- AllSame
  Credential <- AllSame
  Secret <- AllSame
  Api = {a1, a2}
  MaxWrites = 2
  MaxRevision = 1
INVARIANTS OnceOnly UnrecordedWroteNothing UnavailableMeansWritten
PROPERTIES AnsweredWritesNothing ReplayIsAuthorized EventuallyAnswered
CHECK_DEADLOCK FALSE
