SPECIFICATION Spec
CONSTANTS
  Notes = {n1, n2}
  Calls = {c1, c2}
  NoNote = NoNote
  MaxChanges = 0
  MaxCrashes = 0
INVARIANT ScopeWritable
CHECK_DEADLOCK FALSE
