SPECIFICATION Spec
CONSTANTS
  Requests = {r1, r2}
  MaxRows = 3
  MaxCodes = 3
  Faults = TRUE
INVARIANTS EnabledMeansProved  ToldCodesStored
PROPERTIES DisableSignsOut
CHECK_DEADLOCK FALSE
