SPECIFICATION Spec
CONSTANTS
  Modes = {"tftp", "tftpsize", "tftm", "mtftp"}
  Lengths = {3, 4}
  TFTP_DEFAULT_BLKSIZE = 2
  Blksizes = {3}
  MTFTP_MAX_TIMEOUTS = 1
  BlockMod = 8
  MaxSessions = 2
INVARIANTS CompleteMeansWhole AckTruthful AlwaysRetrying
CHECK_DEADLOCK FALSE
