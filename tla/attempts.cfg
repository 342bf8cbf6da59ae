SPECIFICATION Spec
CONSTANTS
  Requests = {r1, r2}
  MaxAttempts = 2
  Cooldown = 2
  Threshold = 3
  MaxCount = 3
  Factors = {"password", "totp"}
  Faults = TRUE
INVARIANTS EveryFailureCounts BurstBounded ThresholdReachedLocks
PROPERTIES CooldownEnds
CHECK_DEADLOCK FALSE
