CONSTANTS
    NAddrs <- MCNAddrs
    MaxPackets <- MCMaxPackets
    HandlerMayClose = TRUE
SPECIFICATION Spec
INVARIANT
    ClosedStaysDisarmed
CHECK_DEADLOCK FALSE
