CONSTANTS
    m1 = m1
    m2 = m2
    Capacity <- MCCapacity
    Msgs <- MCMsgs
    Lens <- MCLens
    ReadLens <- MCReadLens
SPECIFICATION Spec
INVARIANTS
    TypeOK
    BufferConservation
    ReaderWaitsOnlyWhenEmpty
PROPERTIES
    HeadEventuallyRead
    FifoRefinement
