SPECIFICATION Spec
CONSTANTS
  SeqSpace = 16
  TCP_MAX_WINDOW_SIZE = 2
  TCP_PATH_MTU = 2
  WindowUnit = 1
  Clients = {"c1"}
  Servers = {"s1"}
  LISTEN_PORT = 9
  Ports = {1}
  ISS <- MCISS
  AppWindows = {2}
  Enough <- MCEnough
  ClientEnough = 1
  ServerEnough = 9
  MaxWork = 5
  WriteLens = {1}
  MaxTries = 1
  MaxResets = 1
  MaxOpens = 1
  Failures = {"none"}
  MayClose = {"c1", "s1"}
  MayShutdown = {"s1"}
  MayUnlisten = {}
INVARIANTS AckedWasDelivered AssertionsHold
CHECK_DEADLOCK FALSE
