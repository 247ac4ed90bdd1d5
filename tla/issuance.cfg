\* Init requests from two addresses, behind the rate limiter and the outstanding-challenge caps.
CONSTANTS
    None = None
    InitReq = {i1, i2, i3, i4}
    CompReq = {}
    Principal = {p1}
    Ip = {a1, a2}
    Event <- NoEvents
    Backend = "memory"
    ChallengeTtl = 1
    SessionTtl = 1
    ResultCacheTtl = 1
    RefreshTtl = 0
    MaxFailures = 2
    MaxPerNpub = 1
    MaxPerIp = 2
    MaxClockSkew = 3
    LowerGrace = 1
    UpperGrace = 1
    DecisionBound = {None}
    Suspendable = {}
    Junk = junk
    Window = 2
    MaxPerWindow = 2
    Other = {o1}
    MaxInFlight = 2
    MaxTime = 2
SPECIFICATION IssuanceSpec
CHECK_DEADLOCK FALSE
SYMMETRY IssuanceSymmetry
INVARIANT RateBounded
INVARIANT NoLockout
INVARIANT OutstandingBounded
