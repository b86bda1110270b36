SPECIFICATION IntakeSpec

CONSTANTS
    Null = Null
    SpendFloor = 10
    ZeroMultiple = 2
    StageMinJudged = 2
    NameSignalAds = 3
    NameSignalPct = 50
    DefaultKpi = "roas"
    MaxLoads = 2
    MaxPulls = 2
    Files <- IntakeFiles
    Pulled <- PulledFiles
    FileOf <- IntakeFileOf

INVARIANTS
    KpiFollowsTheFile
    CardTellsTheRequest

CHECK_DEADLOCK FALSE
