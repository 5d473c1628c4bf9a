\* One slot, so that the pane can be opened twice: an operation left behind by
\* a dismissed pane meets the next one. Two polls: one that goes on, the last.
SPECIFICATION Spec
CONSTANTS
  Slots = {a}
  Production = production
  None = None
  Absent = Absent
  MaxSaves = 1
  PollLimit = 2
  MaxOpens = 2
CHECK_DEADLOCK FALSE
INVARIANTS
  SwappingCoversOperation
  ViewSettles
  CommandsFollowFlags
  PaneHoldsPage
  CleanWhenClosed
  SuccessIsTrue
