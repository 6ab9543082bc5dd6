CONSTANTS
    MaxWindow <- MCMaxWindow
    MaxTime <- MCMaxTime
    Counts <- MCCounts
    WindowSizes <- MCVaryingWindow
    MaxLive <- MCMaxLive
SPECIFICATION Spec
INVARIANTS
    RateCallUnobservable
