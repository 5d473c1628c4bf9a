\* Two calls, so that one can join, abort or overtake the other.
CONSTANTS
  Callers = {c1, c2}
  None = None
  MaxData = 1
  MaxRetry = 1
SPECIFICATION FairSpec
PROPERTIES
  SubscriberAnswered
CHECK_DEADLOCK FALSE
