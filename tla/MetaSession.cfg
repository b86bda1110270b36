SPECIFICATION Spec

CONSTANTS
    MaxAttempts = 3
    MaxPulls = 1
    MaxAds = 4
    PageSize = 2
    MaxInsightsRows = 3

INVARIANTS
    ConnectedIsWhole
    PullSaysCut

PROPERTIES
    WaitingEnds

CHECK_DEADLOCK FALSE
