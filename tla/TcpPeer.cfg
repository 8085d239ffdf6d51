SPECIFICATION FairSpec
CONSTANTS
  SeqSpace = 16
  TCP_MAX_WINDOW_SIZE = 3
  TCP_PATH_MTU = 2
  WindowUnit = 1
  OurISS = 14
  PeerISS = 13
  OurBytes = 2
  MaxTries = 1
  MaxQueued = 1
  MaxDiscards = 1
  Settings <- MCSettings
INVARIANTS StreamIntegrity NothingForgotten PendingCounted
PROPERTIES WindowKept EverythingDelivered EverythingSent
CHECK_DEADLOCK FALSE
