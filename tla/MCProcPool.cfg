\* One child is forked at the start, two at most serve at once, and three are
\* forked in all.
SPECIFICATION FairSpec
CONSTANTS
  None = None
  MaxPid = 5
  Mortal = {1, 2}
  Conn = {s1, s2, s3, s4}
  MinChildren = 1
  MaxChildren = 2
  CanForkFail = TRUE
INVARIANTS
  OneClientEach
  DescriptorsClosed
  AtMostMaxChildren
PROPERTIES
  LossIsNotOurs
  EventuallyUnloaded
CHECK_DEADLOCK FALSE
