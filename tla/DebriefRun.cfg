SPECIFICATION Spec

CONSTANTS
    Null = Null
    SpendFloor = 10
    ZeroMultiple = 2
    StageMinJudged = 2
    NameSignalAds = 3
    NameSignalPct = 50
    MinJudged = 3
    SupportedJudged = 4
    GroupMin = 2
    MinOutcomes = 3
    HighMultiple = 2
    AdjustMultiple = 1
    MaxReceivers = 2
    FlatPct = 15
    ScalePct = 30
    CutSharePct = 25
    ConcentrationPct = 50
    TestMultiple = 10
    ShortDays = 7
    SegmentAds = 2
    SpreadPct = 150
    ZeroNamed = 2
    NamingPct = 50
    NamingSpendPct = 30
    NamingGates = 2
    NamingAds = 2
    MaxValues = 12
    MaxKeys = 6
    MinParts = 2
    ContrastMin = 5
    BriefMin = 7
    LossMultiple = 2
    RebuildMultiple = 5
    MaxDeltaRows = 2
    UnchangedBandPct = 1
    LengthMismatchPct = 25
    MinGroupRepetition = 2
    MaxRows = 5
    Cases <- DebriefCases
    RequestOf <- DebriefRequest

INVARIANTS
    RegistersAgree
    TestsFollowTheMove
    SetAsideAccounted
    HighConfidenceEarned
    ProxyMovesNoMoney
    ExtremesSpeakForAll
    MatchingNeverGuesses

CHECK_DEADLOCK FALSE
