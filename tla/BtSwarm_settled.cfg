SPECIFICATION FairSpec
CONSTANTS
  BT_NUMOFPIECES = 3
  Settled = TRUE
  ZeroWindow = FALSE
  OpenMayFail = FALSE
  PeerMayFail = FALSE
  PieceMayFail = FALSE
  MayDisconnect = FALSE
INVARIANT EachPieceOnce
PROPERTY EveryNodeComplete
CHECK_DEADLOCK FALSE
