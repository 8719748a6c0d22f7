CONSTANTS
  A = A
  B = B
  Codes = {A, B}
  Definitions <- MCDefinitions
  Defaults <- MCDefaults
  Majors <- MCMajors
  Values <- MCValues
  Ratios <- MCRatios
  MaxInterrupts = 2
  None = None
SPECIFICATION Spec
INVARIANTS
  TypeOK
  HooksKeepTheirModes
  ResultsReplay
  RoundedOnce
  SharesConserveUnits
PROPERTIES
  BatchesAreKept
