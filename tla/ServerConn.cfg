SPECIFICATION FairSpec
CONSTANTS
    MaxUp = 2
    MaxDown = 2
    SockCap = 1
    SessLimit = 1
    Requests <- MCRequests
INVARIANTS TypeOK RelayFaithful NoStall
PROPERTIES StatusForward NothingStuck
CHECK_DEADLOCK FALSE
