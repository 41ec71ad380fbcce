SPECIFICATION Spec
CONSTANTS
  None = None
  Freed = Freed
  Id = {a}
  Client = {u}
  MaxDownloads = 1
  MaxLength = 2
  MaxSize = 2
  MaxObjectSize = 2
  MaxEvents = 1
SYMMETRY Symmetry
INVARIANT
  ForkFrees
CHECK_DEADLOCK FALSE
