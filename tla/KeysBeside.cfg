SPECIFICATION MCSpec
CONSTANTS
  Proc = {p, q}
  None = None
  Torn = Torn
  MaxKeys = 3
  MaxInits = 1
  MaxCrashes = 2
  Prose = {x, y}
  Normative = {y}
  Doc = {d}
  MaxWrites = 3
  Budget = 7
SYMMETRY MCSymmetry
INVARIANTS DeskMends RevisionsLead
PROPERTY NothingLost
CHECK_DEADLOCK FALSE
