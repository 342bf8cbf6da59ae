SPECIFICATION Spec
CONSTANTS
  Configs = {c1, c2}
  MaxKeys = 2
  Requests = {r1}
  None = None
  Scopes = {"tenant"}
  Inputs = {"true", "false"}
  Operations = {"read", "set", "activate"}
  Faults = FALSE
SYMMETRY RowSymmetry
INVARIANT ColdReadFallsBack
CHECK_DEADLOCK FALSE
