\* Three children, two of which may die, and three requests; an answer is read
\* in one chunk or in two.
SPECIFICATION FairSpec
CONSTANTS
  None = None
  Child = {c1, c2, c3}
  Mortal = {c1, c2}
  NReq = 3
  Pieces = 2
  MinChildren = 1
INVARIANTS
  TypeOK
  WorkConserving
  NoOvertaking
  PendingIsHeld
  RightAnswer
  LossHasItsDeath
PROPERTIES
  BrokerSpec
  EventuallyResolved
CHECK_DEADLOCK FALSE
