\* Stores to closing may be seen late.
CONSTANTS
  t1 = t1
  t2 = t2
  t3 = t3
  r1 = r1
  r2 = r2
  r3 = r3
  Threads = {t1, t2}
  Workers = {t1, t2}
  FreeWorker = TRUE
  Requests = {r1}
  MaxRequests = 1
  MaxGen = 1
  MaxCalls = 1
  Templates <- PlainTemplate
  TSO = TRUE
SPECIFICATION FairSpec
PROPERTY DrainedIsFinalized
CHECK_DEADLOCK FALSE
