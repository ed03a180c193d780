SPECIFICATION Spec
CONSTANTS
  Line = 11
  Margin = 1
  Overhead = 2
  MaxHandoff = 2
  MinRecord = 1
  Costs = {1, 7}
  Records = {2, 4}
  MaxCalls = 2
  MaxEntries = 6
  MaxQueue = 1
  InputCost = 5
  MaxOmitted = 1
CHECK_DEADLOCK FALSE
INVARIANTS TypeOK RequestInOrder
PROPERTIES HalfStaysFree TailIsWhole
