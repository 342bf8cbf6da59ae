SPECIFICATION Spec
CONSTANTS
  Users = {u1}
  Tokens = {t1, t2, t3}
  Requests = {r1, r2}
  None = None
  Operations = {"signIn", "refresh", "wrongPassword"}
  ShortLife = 1
  LongLife = 1
  AccessLife = 1
  Window = 1
  MaxFamilies = 2
  UnlockOnReset = TRUE
  MaxNow = 1
  Faults = {"issueInsert", "rotateInsert", "reuseLock"}
SYMMETRY RowSymmetry
INVARIANTS TypeOK FamilyKeepsOwnerAndExpiry SpentIsRevoked ThresholdLocks CounterHasDeadline
PROPERTY LedgerImplemented
