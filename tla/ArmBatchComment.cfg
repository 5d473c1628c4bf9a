\* The comment of ArmHelper.ts:128 as an invariant.
CONSTANTS
  MaxCalls = 2
  MaxBuffer = 2
  CanRefresh = TRUE
SPECIFICATION FairSpec
INVARIANTS
  CatchNotReached
CHECK_DEADLOCK FALSE
