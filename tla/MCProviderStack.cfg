CONSTANTS
  Callers = {t1, t2}
  Depth = 2
  Attempts = 2
  RetriesUnavailable = {2}
  Threshold = 2
  Recovery = 1
  Unclassified = TRUE
  None = None
SPECIFICATION Spec
INVARIANTS TypeOK UpstreamCallsBounded LateRetriesBounded
PROPERTIES EveryCallEnds CircuitsAreCircuitBreakers RefinesFailover
