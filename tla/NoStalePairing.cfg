CONSTANTS
    Null = Null
    MaxDefaults = 2
    MaxLabels = 2
    MaxAdTexts = 3
    MaxTests = 5
    PageSize = 2
    MaxSize = 5
    MaxBlocks = 3
    Visits <- TheVisits
    Samples <- Found
    AdsOf <- Library

SPECIFICATION Spec

INVARIANTS
    NoStalePairing
