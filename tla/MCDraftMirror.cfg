\* Two requests in flight and drafts that the target mostly accepts.
SPECIFICATION Spec
CONSTANTS
  Slots = {0, 1}
  NCtxSeq = 8
  NBatch = 4
  Token <- MCToken
  Target <- MCTarget
  Draft <- MCDraft
  Prompts <- MCPrompts
  MaxDrafts = 2
  MaxRequests = 2
INVARIANTS
  TypeOK
  StreamsMatchRequests
  SyncsStayInStep
CHECK_DEADLOCK FALSE
