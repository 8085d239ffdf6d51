SPECIFICATION Spec
CONSTANTS
    Counted <- MCCounted
    Sites <- MCDangling
CHECK_DEADLOCK FALSE
INVARIANT NeverStranded
