SPECIFICATION Spec
CONSTANTS
  N = 3
  W = 4
  MaxSends = 8
  NotifyMayFail = FALSE
INVARIANTS
  CreditsExact
CHECK_DEADLOCK FALSE
