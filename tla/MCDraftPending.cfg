\* A second request overwrites the pending logits of the first.
SPECIFICATION Spec
CONSTANTS
  Slots = {0, 1}
  NCtxSeq = 8
  NBatch = 4
  Token <- MCToken
  Target <- MCTarget
  Draft <- MCDraft
  Prompts <- MCPrompts
  MaxDrafts = 2
  MaxRequests = 2
INVARIANTS
  PendingLogits
CHECK_DEADLOCK FALSE
