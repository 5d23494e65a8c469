SPECIFICATION FairSpec
CONSTANTS
  x = x
  y = y
  d = d
  Item = {x, y}
  Blob = {}
  Domain = {d}
  Snapshot <- Members
  Record <- Records
  Covers <- NoStamps
  Commands = {"add", "declare", "generation", "gc", "serve"}
  Careful = FALSE
  Followed = d
  GivesTo = TRUE
  MaxLosses = 2
INVARIANTS ReplicaWhole DeltaCarries
PROPERTY SyncReachesHead
CHECK_DEADLOCK FALSE
