SPECIFICATION AuditSpec
CONSTANTS
  Width = 3
  Cid = {1, 2, 3, 4, 5}
  Memberships = {{1}, {2, 4}}
  MaxGenerations = 5
INVARIANTS ConsistencyExact AnswersExact CheckpointsEnd
CHECK_DEADLOCK FALSE
