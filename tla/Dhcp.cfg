SPECIFICATION FairSpec
CONSTANTS
    Addr <- MCAddr
    Broadcast = 255
    Lans <- MCLans
    DHCP_MIN_TIMEOUT = 4
    DHCP_MAX_TIMEOUT = 40
    DEFAULT_MIN_TIMEOUT = 1
    PROXYDHCP_MAX_TIMEOUT = 8
    PXEBS_MAX_TIMEOUT = 12
    Late = 1
INVARIANTS LeaseIsBest ProxyHonoured TimeoutsJustified
PROPERTY EverySessionEnds
CHECK_DEADLOCK FALSE
