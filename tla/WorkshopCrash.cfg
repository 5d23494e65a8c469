SPECIFICATION Spec
CONSTANTS
  None = None
  a = a
  b = b
  Slug = {a}
  Order <- OneOrder
  Deps <- OneDeps
  Text = {x, y}
  Tag = {"t"}
  Time = {0, 1}
  Bound = 8
  MaxEdits = 3
  MaxCrashes = 2
  BuildFirst = FALSE
SYMMETRY TextSymmetry
CHECK_DEADLOCK FALSE
INVARIANTS TypeOK ExportedHeld RecordedWhole GenerationSound RevisesPublished
PROPERTY ImplementsPublished
