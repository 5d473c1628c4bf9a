\* Three calls: one that fills the cache and two whose requests overlap after a
\* clear.
CONSTANTS
  Callers = {c1, c2, c3}
  None = None
  MaxData = 1
  MaxRetry = 1
SPECIFICATION Spec
INVARIANTS
  FlightAlive
  ValidatorMatches
  OwnRequestIsCurrent
  IInv
CHECK_DEADLOCK FALSE
SYMMETRY Symmetry
