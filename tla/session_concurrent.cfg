SPECIFICATION Spec
CONSTANTS
  Users = {u1}
  Sessions = {s1}
  Tokens = {t1}
  Requests = {r1, r2}
  None = None
  Operations = {"password", "totp", "exchangeSession", "policy", "mfa"}
  Policies = {"DISABLED", "OPTIONAL"}
  Emails <- AnyEmail
  MaxGrants = 2
  Faults = TRUE
SYMMETRY IdSymmetry
INVARIANTS GrantsMatchProof
