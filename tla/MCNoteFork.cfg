SPECIFICATION MCSpec
CONSTANTS
  Notes = {n1, n2}
  Callers = {c1, c2}
  MaxChanges = 1
  MaxCrashes = 1
INVARIANTS TypeOK NeverPartial BoundOnce OwnedNeverFallsBack
PROPERTIES PublishedTakenOver EveryCallerAnswered
