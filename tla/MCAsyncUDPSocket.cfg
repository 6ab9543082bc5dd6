CONSTANTS
    NAddrs <- MCNAddrs
    MaxPackets <- MCMaxPackets
    HandlerMayClose = TRUE
SPECIFICATION Spec
INVARIANTS
    CounterMatches
PROPERTIES
    QueuedEventuallyFlushed
CHECK_DEADLOCK FALSE
