SPECIFICATION FairSpec
CONSTANTS
  None = None
  Host = {h1, h2}
  Client = {u1, u2}
  Request = {1, 2}
  SlotCounts = {1, 2, 3}
  CanFail = TRUE
  CanLose = TRUE
INVARIANTS
  RingSound
  ChainSound
  WaitSound
PROPERTY EventuallyCalledBack
CHECK_DEADLOCK FALSE
