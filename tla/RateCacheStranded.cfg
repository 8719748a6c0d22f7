CONSTANTS
  Threads = {t1, t2}
  Pairs = {p1}
  Ttl = 1
  MaxSize = 1
  StaleIfError = 1
  DerivedPairs = {p1}
  MaxTime = 3
  None = None
SPECIFICATION Spec
INVARIANT NoStrandedWaiter
