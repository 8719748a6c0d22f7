CONSTANTS
  Callers = {t1, t2, t3}
  Threshold = 2
  Recovery = 1
  PairScoped = FALSE
  Unclassified = FALSE
  None = None
SPECIFICATION Spec
SYMMETRY Symmetric
INVARIANT OneProbe
