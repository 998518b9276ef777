\* Every configuration, any drafts, calls into mlx that raise.
SPECIFICATION Spec
CONSTANTS
  NCtx = 6
  Token <- MCToken
  Eog = "e"
  Stop = "s"
  Target <- MCTarget
  Drafts <- MCDrafts
  Prompts <- MCPrompts
  Caps = {1, 5}
  Configs <- MCConfigs
  MaxDrafts = 2
  MinDrafts = 3
  MinRecomputes = 2
  MinPrefix = 2
  PrefixSize = 1
  RetiredLimit = 1
  Faults = TRUE
  MaxRequests = 2
INVARIANTS
  TypeOK
  CachesHoldTheText
  SpeculationIsLossless
  PrefixHoldsPrompts
  OnlyLiveRequestsHoldCaches
CHECK_DEADLOCK FALSE
