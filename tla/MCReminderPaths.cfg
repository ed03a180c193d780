SPECIFICATION Spec
CONSTANTS
  s1 = s1
  s2 = s2
  b1 = b1
  b2 = b2
  Off = Off
  Sessions <- TwoSessions
  Budgets <- TwoBudgets
  MaxEntries = 4
  MaxLoads = 2
  MaxQueue = 2
SYMMETRY NameSymmetry
CONSTRAINT LoadsShorten
INVARIANTS TypeOK LookupExact OneReminder
PROPERTY ShownIsCurrent
