SPECIFICATION Spec
CONSTANTS
  Rows = {p1, p2, p3, p4}
  First = p1
  Secrets = {a, b, c, d}
  Tokens = {t1, t2}
  Requests = {r1}
  None = None
  Operations = {"change", "forgot", "reset", "delete", "deleteValidate", "signIn", "job"}
  MaxAge = 1
  MaxNow = 2
  Faults = TRUE
SYMMETRY ValueSymmetry
INVARIANTS TypeOK OnePassword SecretsDiffer TokensFollowPassword OnlyOldExpire
CHECK_DEADLOCK FALSE
