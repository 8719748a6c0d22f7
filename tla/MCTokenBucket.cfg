CONSTANTS
  Callers = {t1, t2, t3}
  Burst = 2
  Cost = 2
  MaxCalls = 2
  MaxSpan = 5
SPECIFICATION Spec
INVARIANTS TypeOK WindowBound NoOversleep
PROPERTY EveryoneIsServed
