SPECIFICATION Spec
CONSTANTS
  Emails = {e1}
  Tenants = {t1, t2}
  Requests = {r1, r2}
  MaxRegistrations = 2
  MaxTokens = 3
  MaxUsers = 2
  Faults = TRUE
INVARIANTS PasswordAsRegistered OnePlace PasswordlessKeepsRegistration
PROPERTIES VerifiedEndsUsable
CHECK_DEADLOCK FALSE
