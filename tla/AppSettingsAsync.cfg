\* Two calls, so that either can overtake the other, and one retry.
CONSTANTS
  MaxFetches = 2
  MaxRetries = 1
SPECIFICATION FairSpec
INVARIANTS
  LoadingHasNoResult
  OneCallShown
PROPERTIES
  LoadingEnds
CHECK_DEADLOCK FALSE
