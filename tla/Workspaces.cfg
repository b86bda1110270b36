SPECIFICATION Spec
CONSTANTS
    s1 = s1
    s2 = s2
    b1 = b1
    u1 = u1
    u2 = u2
    u3 = u3
    bad = bad
    Slots = {s1, s2}
    Browsers = {b1}
    Jar <- MCJar
    Clearers = {b1}
    Mortal = {s1, s2}
    Tokens = {1, 2}
    NoToken = NoToken
    NoUrl = NoUrl
    Network = Network
    Urls = {u1, u2, u3, bad}
    Refused = {bad}
    MaxPages = 2
    MintMax = 1
    MintWindow = 1
    RetryMax = 1
    RetryWindow = 1
    PruneAfter = 1
    MaxTime = 2
    MaxRequests = 4
SYMMETRY MCSymmetry
INVARIANTS
    PagesCapped
    AdmissionsBounded
    AckedReachable
CHECK_DEADLOCK FALSE
