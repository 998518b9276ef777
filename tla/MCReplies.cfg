\* Every text up to MaxText in every split into pieces.
SPECIFICATION Spec
CONSTANTS
  Open <- MCOpen
  Close <- MCClose
  Space = " "
  Calls <- MCCalls
  Characters <- MCCharacters
  Requests <- MCRequests
  MaxPiece = 2
  MaxText = 6
INVARIANTS
  TypeOK
  StopsCutTheText
  ChatIsTheBody
  WireIsTheBody
  BlocksNest
  NothingIsLost
CHECK_DEADLOCK FALSE
