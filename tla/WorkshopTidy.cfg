SPECIFICATION FairSpec
CONSTANTS
  None = None
  a = a
  b = b
  Slug = {a, b}
  Order <- TwoOrder
  Deps <- TwoDeps
  Text = {1, 2, 3}
  Tag = {"t", "u"}
  Time = {0}
  Bound = 30
  MaxEdits = 3
  MaxCrashes = 0
  BuildFirst = TRUE
INVARIANTS DraftsLeaveNothing TagsExported
PROPERTIES ImplementsPublished PublishCompletes
CHECK_DEADLOCK FALSE
