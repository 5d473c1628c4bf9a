\* Three calls, so that one can be under way, one queued and one in the buffer.
CONSTANTS
  MaxCalls = 3
  MaxBuffer = 2
  CanRefresh = TRUE
SPECIFICATION FairSpec
PROPERTIES
  EveryCallSettles
  ImplementsCalls
CHECK_DEADLOCK FALSE
