\* A step raises between the admission of a request and its registration.
SPECIFICATION Spec
CONSTANTS
  Client = {c1, c2}
  Slots = 2
  MaxTokens = 1
  MaxFaults = 1
  JoinTimesOut = FALSE
INVARIANTS
  OpenRequestsAreTold
CHECK_DEADLOCK FALSE
