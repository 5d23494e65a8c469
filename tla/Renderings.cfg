SPECIFICATION Spec
CONSTANTS
  Version = {1, 2, 3}
  Shows <- MCShows
  ToolVersion <- MCToolVersion
  Pin <- MCPin
  Requires <- MCRequires
  HostRequires <- MCHost
  HostWhen = "provision"
  Renderer = {r}
  Builder = {w}
  Beside = FALSE
  MaxInstant = 2
  MaxChanges = 2
  MaxCrashes = 1
  MaxPinned = 2
INVARIANTS ProvisionedWhole PinnedTrue ActiveKept
CHECK_DEADLOCK FALSE
