SPECIFICATION Spec
CONSTANTS
  Notes = {n1}
  Callers = {c1}
  MaxChanges = 2
  MaxCrashes = 1
PROPERTY ResumeRestores
