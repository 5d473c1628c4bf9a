\* Four calls and batches of two: a batch in the buffer, one in the queue and one
\* under way at the same time, with direct calls beside them.
CONSTANTS
  MaxCalls = 4
  MaxBuffer = 2
  CanRefresh = TRUE
SPECIFICATION Spec
INVARIANTS
  NoOrphan
  OwnAnswer
  InOrder
  IInv
PROPERTIES
  AtMostOnce
  NoPhantomExecution
\* The session ends when the calls of the bound have been issued and settled.
CHECK_DEADLOCK FALSE
