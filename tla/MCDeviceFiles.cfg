SPECIFICATION Spec
CONSTANTS
  Paths <- MCPaths
  Folders = {"f"}
  Slots = {s1, s2}
  MaxUploads = 2
  MaxInodes = 2
  MaxCalls = 2
  MaxFaults = 1
SYMMETRY Symmetry
INVARIANTS
  UploadsAreKept
  IdsAddress
  NothingIsLeft
CHECK_DEADLOCK FALSE
