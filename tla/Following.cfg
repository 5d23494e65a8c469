SPECIFICATION Spec
CONSTANTS
  x = x
  y = y
  Member = {x, y}
  Forged <- MCForged
  Reader = {p, q}
  MaxIndex = 2
  MaxWitnesses = 2
INVARIANTS HistoryFollowed AlarmIffSplit
SYMMETRY ReaderSymmetry
CHECK_DEADLOCK FALSE
