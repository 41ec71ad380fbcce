SPECIFICATION FairSpec
CONSTANTS
  None = None
  MaxPid = 2
  Mortal = {}
  Conn = {s1, s2}
  MinChildren = 1
  MaxChildren = 2
  CanForkFail = FALSE
PROPERTY NoJobsAfterCleanup
CHECK_DEADLOCK FALSE
