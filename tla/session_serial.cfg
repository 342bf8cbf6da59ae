SPECIFICATION Spec
CONSTANTS
  Users = {u1}
  Sessions = {s1, s2}
  Tokens = {t1, t2, t3}
  Requests = {r1}
  None = None
  Operations = {"password", "magicLink", "magicLinkValidate", "exchange", "token", "exchangeSession", "device", "totp"}
  Policies = {"DISABLED", "OPTIONAL", "REQUIRED"}
  Emails <- AnyEmail
  MaxGrants = 2
  Faults = FALSE
SYMMETRY IdSymmetry
INVARIANTS TypeOK OneGrantPerSession ConsumedStaysGone RedeemableMeansExchanged CompleteIsExchangeable
CHECK_DEADLOCK FALSE
