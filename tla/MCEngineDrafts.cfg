\* Speculation on top of the prefix cache, against the abstract promise.
SPECIFICATION FairSpec
CONSTANTS
  NSeqMax = 2
  NCtxSeq = 7
  NBatch = 4
  Token <- MCToken
  Eog = 0
  NoToken <- MCNoToken
  Support <- MCSupport
  Prompts <- MCLongPrompts
  Params <- MCSpecParams
  MaxDrafts = 2
  Opportunistic = FALSE
  PinCap = 1
  PinMin = 1
  MinRetained = 2
  Faults = FALSE
  MaxRequests = 2
INVARIANTS
  KvMatchesRequest
  NoBatchRefused
PROPERTIES
  ImplementsGeneration
  EveryRequestEnds
CHECK_DEADLOCK FALSE
