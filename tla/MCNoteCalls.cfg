SPECIFICATION Spec
CONSTANTS
  Notes = {n1, n2}
  Calls = {c1, c2}
  NoNote = NoNote
  MaxChanges = 2
  MaxCrashes = 1
INVARIANTS TypeOK NoFallback AdoptionsSaved
PROPERTIES AppendKeepsPrefix EveryCallEnds
CHECK_DEADLOCK FALSE
