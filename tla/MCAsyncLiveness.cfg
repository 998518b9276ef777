\* Everybody gets an end: submits, streams and slots.
SPECIFICATION FairSpec
CONSTANTS
  Client = {c1, c2}
  Slots = 2
  MaxTokens = 1
  MaxFaults = 1
  JoinTimesOut = FALSE
PROPERTIES
  SubmitsAreAnswered
  StreamsEnd
  SlotsComeBack
CHECK_DEADLOCK FALSE
