SPECIFICATION Spec
CONSTANTS
  Calls = {c1, c2, c3, c4}
  Handoffs = {h1, h2}
  NoCall = NoCall
  NoHandoff = NoHandoff
  MaxTurns = 2
SYMMETRY NameSymmetry
INVARIANTS TypeOK Bookkeeping LegitimateRequestAdmitted
PROPERTY ImplementsContract
