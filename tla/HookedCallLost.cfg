CONSTANTS
  MaxInterrupts = 1
  None = None
SPECIFICATION Spec
INVARIANT InterruptsPreserved
