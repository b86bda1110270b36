SPECIFICATION Spec
CONSTANTS
    roas = roas
    ctr = ctr
    sample = sample
    pulled = pulled
    Files = {sample, pulled}
    None = None
    SampleFile = sample
    Kpis = {roas, ctr}
    DefaultKpi = roas
    OutcomeKpis = {roas}
    Accepted <- MCAccepted
    Usable <- MCUsable
    Preferred <- MCPreferred
    Ads = {a1}
    Urls = {u1, u2}
    Sample = Sample
    Typed = Typed
    MaxRuns = 2
    MaxPulls = 1
    MaxEntries = 2
INVARIANTS
    OwnInputs
    ImagesLive
    ReportIsOneAnswer
PROPERTY
    QueueOnlyEdited
SYMMETRY UrlSymmetry
