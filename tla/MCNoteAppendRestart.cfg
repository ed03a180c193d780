SPECIFICATION Spec
CONSTANTS
  Notes = {n1}
  Calls = {c1, c2}
  NoNote = NoNote
  MaxChanges = 0
  MaxCrashes = 1
PROPERTY InheritedPrefixWhole
CHECK_DEADLOCK FALSE
