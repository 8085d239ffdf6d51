SPECIFICATION Spec
CONSTANTS
  MaxMessages = 3
  BT_PIECE_SIZE = 2
INVARIANT MessagesExact
CHECK_DEADLOCK FALSE
