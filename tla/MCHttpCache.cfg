SPECIFICATION Spec
CONSTANTS
  None = None
  Freed = Freed
  Id = {a, b}
  Client = {u, v}
  MaxDownloads = 2
  MaxLength = 2
  MaxSize = 1
  MaxObjectSize = 0
  MaxEvents = 1
SYMMETRY Symmetry
CONSTRAINT OneCaught
INVARIANTS
  SharedSound
  BooksSound
  ServedWhole
CHECK_DEADLOCK FALSE
