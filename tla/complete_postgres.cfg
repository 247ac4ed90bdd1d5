\* The same over Postgres, where createForChallenge and redeem are two queries each, with an operator suspending the principal.
CONSTANTS
    c1 = c1
    c2 = c2
    p1 = p1
    p2 = p2
    None = None
    InitReq = {c1}
    CompReq = {r1, r2}
    Principal = {p1, p2}
    Ip = {}
    Event <- LateEvents
    Backend = "postgres"
    ChallengeTtl = 1
    SessionTtl = 1
    ResultCacheTtl = 1
    RefreshTtl = 0
    MaxFailures = 2
    MaxPerNpub = 0
    MaxPerIp = 0
    MaxClockSkew = 3
    LowerGrace = 1
    UpperGrace = 0
    DecisionBound = {None}
    Suspendable = {p1}
    MaxInFlight = 1
    MaxTime = 3
SPECIFICATION Spec
SYMMETRY RequestSymmetry
INVARIANT OneProofPerChallenge
INVARIANT OneSessionPerChallenge
