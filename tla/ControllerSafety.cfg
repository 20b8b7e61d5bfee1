\* Two threads, three requests for two slots, two generations, mixed templates.
CONSTANTS
  t1 = t1
  t2 = t2
  t3 = t3
  r1 = r1
  r2 = r2
  r3 = r3
  Threads = {t1, t2}
  Workers = {t1, t2}
  FreeWorker = TRUE
  Requests = {r1, r2, r3}
  MaxRequests = 2
  MaxGen = 2
  MaxCalls = 2
  Templates <- MixedTemplates
  TSO = TRUE
SPECIFICATION Spec
SYMMETRY Sym
INVARIANTS TypeOK InflightExact AdmissionAgrees ClosersDrain ReportsAgree SamplerEndsFirst
PROPERTY ImplementsCapture
CHECK_DEADLOCK FALSE
