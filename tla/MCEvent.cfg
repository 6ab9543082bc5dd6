CONSTANTS
    w1 = w1
    w2 = w2
    NoThread = NoThread
    Waiters <- MCWaiters
    MaxOps <- MCMaxOps
    Millis <- MCMillis
    Usecs <- MCUsecs
SPECIFICATION Spec
INVARIANTS
    AutoResetHandsOnce
    DeadlineExact
PROPERTIES
    SignaledReleases
