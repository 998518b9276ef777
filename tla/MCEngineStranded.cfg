\* A raising row leaves a peer in flight that no step advances.
SPECIFICATION Spec
CONSTANTS
  NSeqMax = 2
  NCtxSeq = 5
  NBatch = 3
  Token <- MCToken
  Eog = 0
  NoToken <- MCNoToken
  Support <- MCSupport
  Prompts <- MCPrompts
  Params <- MCParams
  MaxDrafts = 0
  Opportunistic = FALSE
  PinCap = 0
  PinMin = 1
  MinRetained = 2
  Faults = TRUE
  MaxRequests = 2
INVARIANTS
  InFlightRunnable
CHECK_DEADLOCK FALSE
