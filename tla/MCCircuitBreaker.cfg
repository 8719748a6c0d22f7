CONSTANTS
  Callers = {t1, t2, t3, t4}
  Threshold = 3
  Recovery = 2
  PairScoped = FALSE
  Unclassified = TRUE
  None = None
SPECIFICATION Spec
INVARIANTS TypeOK FieldsAgree OneProbeUnlessDisturbed ProbeIsRunning
PROPERTIES ProbesAreSpaced EarlyCloseIsDisturbed RecoversUnlessProbeLost
