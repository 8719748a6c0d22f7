CONSTANTS
  Callers = {t1, t2}
  Threshold = 2
  Recovery = 2
  PairScoped = FALSE
  Unclassified = TRUE
  None = None
SPECIFICATION Spec
PROPERTY CircuitRecovers
