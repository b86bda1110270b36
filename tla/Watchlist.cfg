SPECIFICATION WatchSpec

CONSTANTS
    Null = Null
    Blank = Blank
    Texts <- WatchTexts
    MaxListItems = 3
    MaxStored = 4
    Urls <- WatchUrls
    PagesAt <- WatchPages
    Stored <- WatchStored
    MaxWatchlistItems = 2
    MaxBorn = 2
    MaxAsks = 3
    MaxMounts = 2

INVARIANTS
    UndisturbedIsExact
    DiffsAgree

PROPERTIES
    RefreshAllEnds

CHECK_DEADLOCK FALSE
