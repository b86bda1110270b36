SPECIFICATION Spec
CONSTANTS
    full = full
    part = part
    c1 = c1
    r1 = r1
    r2 = r2
    Pages = {full, part}
    FullPages = {full}
    NoPage = NoPage
    Never = Never
    NoOutcome = NoOutcome
    Threshold = 2
    Interval = 1
    Jitters = {0, 1}
    Cooldown = 1
    BlockedCooldown = 2
    Competitors = {c1}
    NoCompetitor = NoCompetitor
    Runners = {r1, r2}
    PageFetches <- MCPageFetches
    KeepEvents = 1
    MaxTime = 2
    MaxChecks = 3
SYMMETRY MCSymmetry
INVARIANTS
    PauseNeedsFailures
PROPERTIES
    LastGoodSurvives
    PromiseKept
CHECK_DEADLOCK FALSE
