SPECIFICATION Spec
CONSTANTS
  None = None
  a = a
  b = b
  Slug = {a}
  Order <- OneOrder
  Deps <- OneDeps
  Text = {1, 2, 3}
  Tag = {"t"}
  Time = {0}
  Bound = 30
  MaxEdits = 3
  MaxCrashes = 0
  BuildFirst = FALSE
CHECK_DEADLOCK FALSE
INVARIANTS DraftsStayLocal
