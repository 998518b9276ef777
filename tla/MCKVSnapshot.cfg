\* Saves, restores and restarts around a running engine.
SPECIFICATION Spec
CONSTANTS
  NSeqMax = 3
  NCtxSeq = 4
  NBatch = 2
  Token <- MCToken
  Eog = 0
  NoToken <- MCNoToken
  Support <- MCSupport
  Prompts <- MCPrompts
  Params <- MCParams
  MinRetained = 1
  Faults = FALSE
  MaxRequests = 2
  SnapshotSeq = 1
  Names = {n1, n2}
  IOFaults = TRUE
  MaxSaves = 2
SYMMETRY NameSymmetry
INVARIANTS
  TypeOK
  SlotsConserved
  SnapshotsHoldTheirText
  RestoredKvIsItsText
  RestoredOutputFollows
PROPERTIES
  RestoresAreDecodable
CHECK_DEADLOCK FALSE
