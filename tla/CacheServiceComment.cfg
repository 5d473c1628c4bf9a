CONSTANTS
  Callers = {c1, c2}
  None = None
  MaxData = 1
  MaxRetry = 1
SPECIFICATION Spec
INVARIANTS
  UpdateJoinsUpdate
CHECK_DEADLOCK FALSE
