SPECIFICATION StoreSpec
CONSTANTS
  d = d
  e = e
  stamp = stamp
  Item = {stamp}
  Blob = {}
  Domain = {d, e}
  Snapshot <- Members
  Record <- Records
  Covers <- Stamps
  Commands = {"add", "declare", "undeclare", "generation", "archive", "gc", "remove", "tombstone", "corrupt", "serve", "offer"}
  Careful = FALSE
INVARIANTS StoreTypeOK ManifestHeld
PROPERTIES NoSilentLoss ArchivedStays
CHECK_DEADLOCK FALSE
