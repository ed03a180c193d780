SPECIFICATION LateSpec
CONSTANTS
  n1 = n1
  n2 = n2
  Notes <- MCNotes
  Calls <- MCCalls
  MaxEntries = 7
  MaxEdits = 1
  MaxCalls = 2
  MaxWritten = 1
  MaxRead = 1
  Fits = {1, 9}
CONSTRAINT Mixed
PROPERTY UnseenResultsTold
CHECK_DEADLOCK FALSE
