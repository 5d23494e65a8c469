SPECIFICATION Spec
CONSTANTS
  x = x
  y = y
  d = d
  Item = {x, y}
  Blob = {}
  Domain = {d}
  Snapshot <- Members
  Record <- TwoOnly
  Covers <- NoStamps
  Commands = {"add", "declare", "generation", "gc", "serve"}
  Careful = TRUE
  Followed = d
  GivesTo = FALSE
  MaxLosses = 0
INVARIANT DeltaWhole
CHECK_DEADLOCK FALSE
