CONSTANTS
    MaxWindow <- MCMaxWindow
    MaxTime <- MCMaxTime
    Counts <- MCCounts
    WindowSizes <- MCFixedWindow
    MaxLive <- MCMaxLive
SPECIFICATION Spec
INVARIANTS
    RateCallUnobservable
