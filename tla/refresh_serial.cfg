SPECIFICATION Spec
CONSTANTS
  Users = {u1, u2}
  Tokens = {t1, t2, t3}
  Requests = {r1}
  None = None
  Operations = {"signIn", "refresh", "revokeToken", "signOut", "revokeAll", "resetPassword", "wrongPassword"}
  ShortLife = 0
  LongLife = 1
  AccessLife = 1
  Window = 1
  MaxFamilies = 1
  UnlockOnReset = TRUE
  MaxNow = 1
  Faults = {"issueRevoke", "issueInsert", "refreshSign", "rotateRevoke", "rotateInsert", "reuseRevoke", "reuseCount", "signOutFind", "revokeFamily", "revokeAll", "resetUnlock", "resetCounter"}
SYMMETRY RowSymmetry
INVARIANTS AtMostOneActive CompromisedStaysDead
