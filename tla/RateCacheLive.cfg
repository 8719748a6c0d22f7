CONSTANTS
  Threads = {t1, t2, t3}
  Pairs = {p1}
  Ttl = 1
  MaxSize = 1
  StaleIfError = 1
  DerivedPairs = {}
  MaxTime = 2
  None = None
SPECIFICATION Spec
PROPERTIES CallsReturn RefinesCoalescedCalls
