SPECIFICATION Spec
CONSTANTS
  Current = f1
  Others = {f2}
  Limits = {1, 2}
  Sizes = {4}
  Rooms = {3, 9}
  Mark = 1
  MaxWrites = 1
  MaxStart = 3
  MaxMoves = 1
CHECK_DEADLOCK FALSE
INVARIANTS TypeOK AllShown
PROPERTIES ContinuesExactly OriginalsFirst CursorAdvances CursorHonoured
