CONSTANTS
    MaxWindow <- MCMaxWindow
    Times <- MCTimes
    Counts <- MCCounts
    WindowSizes <- MCWindowSizes
    MaxUpdates <- MCMaxUpdates
SPECIFICATION Spec
INVARIANTS
    TypeOK
    WindowExact
