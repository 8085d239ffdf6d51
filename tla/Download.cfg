SPECIFICATION Spec
CONSTANTS
  Counted <- MCCounted
  Sites <- MCSites
CHECK_DEADLOCK FALSE
INVARIANTS ReferencesExact SuccessIsWhole ReadExact NeverStranded

PROPERTIES BufferQuiet EveryWaitEnds EverythingFreed
