CONSTANTS
  Tasks = {t1, t2, t3}
  Pairs = {p1, p2}
  Ttl = 1
  MaxSize = 1
  StaleIfError = 1
  DerivedPairs = {p1}
  MaxTime = 3
  None = None
SPECIFICATION Spec
SYMMETRY Symmetric
INVARIANTS TypeOK CacheIsSound
PROPERTIES CancellationComesFromOwner RefinesCoalescedCalls
