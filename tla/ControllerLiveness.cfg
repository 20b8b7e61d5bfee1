\* Operations return and drained generations are finalized.
CONSTANTS
  t1 = t1
  t2 = t2
  t3 = t3
  r1 = r1
  r2 = r2
  r3 = r3
  Threads = {t1, t2}
  Workers = {t1}
  FreeWorker = TRUE
  Requests = {r1, r2}
  MaxRequests = 1
  MaxGen = 1
  MaxCalls = 2
  Templates <- MixedTemplates
  TSO = FALSE
SPECIFICATION FairSpec
PROPERTIES DrainedIsFinalized OperationsReturn LimitsHitCloses
CHECK_DEADLOCK FALSE
