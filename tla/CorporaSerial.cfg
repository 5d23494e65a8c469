SPECIFICATION Spec
CONSTANTS
  Slug = {x, y}
  None = None
  MaxParent = 4
  MaxEdits = 3
  MaxIndex = 3
  Beside = FALSE
INVARIANT PinSupplies
PROPERTY RecordedStands
CHECK_DEADLOCK FALSE
