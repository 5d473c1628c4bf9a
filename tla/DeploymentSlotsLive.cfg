\* Two slots beside production: a swap can be pending without it.
SPECIFICATION FairSpec
CONSTANTS
  Slots = {a, b}
  Production = production
  None = None
  Absent = Absent
  MaxSaves = 1
  PollLimit = 2
  MaxOpens = 1
CHECK_DEADLOCK FALSE
INVARIANTS
  SecondPhaseIsPending
PROPERTIES
  SwapEnds
  PageSettles
