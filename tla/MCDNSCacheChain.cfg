SPECIFICATION Spec
CONSTANTS
  None = None
  Host = {h1, h2}
  Client = {u1, u2}
  Request = {1, 2, 3}
  SlotCounts = {2}
  CanFail = FALSE
  CanLose = FALSE
INVARIANT ToldTheAddress
CHECK_DEADLOCK FALSE
