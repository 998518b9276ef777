\* Prefix cache: forks, eviction, pinning, with drafts and with failing rows and
\* admissions.
SPECIFICATION Spec
CONSTANTS
  NSeqMax = 2
  NCtxSeq = 5
  NBatch = 3
  Token <- MCToken
  Eog = 0
  NoToken <- MCNoToken
  Support <- MCSupport
  Prompts <- MCPrompts
  Params <- MCFaultParams
  MaxDrafts = 1
  Opportunistic = FALSE
  PinCap = 2
  PinMin = 1
  MinRetained = 2
  Faults = TRUE
  MaxRequests = 3
INVARIANTS
  TypeOK
  SlotsPartitioned
  PinsHoldTheirKeys
  KvMatchesRequest
  OutputFollowsContext
  NoBatchRefused
PROPERTIES
  PeersUntouched
  FirstComeFirstServed
CHECK_DEADLOCK FALSE
