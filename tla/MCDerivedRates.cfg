CONSTANTS
  MaxSkew = 1
  None = None
  Pivots = 2
  Ages <- MCAges
  MaxClock = 4
  Policies <- MCPolicies
SPECIFICATION Spec
INVARIANTS
  TypeOK
  DerivationsAreAllowed
  EveryLegIsFresh
PROPERTIES
  ConcurrentLegsAgree
