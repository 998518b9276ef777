\* Two clients, one raising step, disconnects and shutdown at every point.
SPECIFICATION Spec
CONSTANTS
  Client = {c1, c2}
  Slots = 2
  MaxTokens = 2
  MaxFaults = 1
  JoinTimesOut = TRUE
INVARIANTS
  TypeOK
  OutputsInOrder
  RetiredIsRetired
  NobodyWaitsForNothing
  SlotsHaveOwners
CHECK_DEADLOCK FALSE
