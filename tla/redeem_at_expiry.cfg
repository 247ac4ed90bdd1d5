\* A first completion at expires_at over Postgres.
CONSTANTS
    c1 = c1
    c2 = c2
    p1 = p1
    p2 = p2
    None = None
    InitReq = {c1}
    CompReq = {r1}
    Principal = {p1, p2}
    Ip = {}
    Event <- SoleEvent
    Backend = "postgres"
    ChallengeTtl = 1
    SessionTtl = 1
    ResultCacheTtl = 1
    RefreshTtl = 0
    MaxFailures = 2
    MaxPerNpub = 0
    MaxPerIp = 0
    MaxClockSkew = 3
    LowerGrace = 1
    UpperGrace = 1
    DecisionBound = {None}
    Suspendable = {}
    MaxInFlight = 1
    MaxTime = 2
SPECIFICATION Spec
INVARIANT RedeemedMeansRedeemed
