SPECIFICATION Spec
CONSTANTS
  Configs = {c1, c2}
  MaxKeys = 2
  Requests = {r1, r2}
  None = None
  Scopes = {"authora", "tenant"}
  Inputs = {"true", "false"}
  Operations = {"read", "set", "activate", "boot", "evict"}
  Faults = TRUE
SYMMETRY RowSymmetry
INVARIANTS CacheAgrees RefreshHeals AuthoraReadsSeeActive
CHECK_DEADLOCK FALSE
