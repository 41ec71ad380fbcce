SPECIFICATION FairSpec
CONSTANTS
  MaxForks = 1
  CanCrash = FALSE
PROPERTY KilledIsDead
CHECK_DEADLOCK FALSE
