\* The n-gram table itself: a partial match rebuilds a cache without the drafts it accepted.
SPECIFICATION Spec
CONSTANTS
  NCtx = 12
  Token <- MCToken
  Eog = "e"
  Stop = "s"
  Target <- MCConstant
  Drafts <- MCTableDrafts
  Prompts <- MCRepeating
  Caps = {1, 5}
  Configs <- MCSpeculative
  MaxDrafts = 2
  MinDrafts = 3
  MinRecomputes = 2
  MinPrefix = 2
  PrefixSize = 1
  RetiredLimit = 1
  Faults = FALSE
  MaxRequests = 1
INVARIANTS
  RefillIsExact
CHECK_DEADLOCK FALSE
