SPECIFICATION Spec
CONSTANTS
  BT_NUMOFPIECES = 2
  Settled = FALSE
  ZeroWindow = TRUE
  OpenMayFail = TRUE
  PeerMayFail = TRUE
  PieceMayFail = TRUE
  MayDisconnect = TRUE
INVARIANTS PeerReferences NextPieceExists
CHECK_DEADLOCK FALSE
