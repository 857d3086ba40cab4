SPECIFICATION ChatFairSpec
CONSTANTS
  Tabs = 2
  Pages = {"p", "q"}
  Keyword <- MCKeyword
  Near <- MCNear
  Limit = 1
  Window = 2
  MaxAsks = 2
  MaxTroubles = 1
INVARIANTS
  TurnsAreStored
  PromptIsConversation
  CitesWhatIsThere
PROPERTIES
  AsksEnd
CHECK_DEADLOCK FALSE
