SPECIFICATION FairSpec
CONSTANTS
  Uids = {u1}
  Members = {u1}
  Texts <- MCTexts
  Blank = "blank"
  Slots = {1, 2}
  Conns = {1}
  QueueSize = 1
  MaxRows = 2
  MaxCalls = 3
  MaxFaults = 1
INVARIANTS
  SearchIsAccounted
  DeletesAreOwed
PROPERTIES
  DeletesReach
CHECK_DEADLOCK FALSE
