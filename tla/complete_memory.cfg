\* Racing, retried and failing completions over the in-memory stores, where issuing the second challenge sweeps the first's row between their steps.
CONSTANTS
    c1 = c1
    c2 = c2
    p1 = p1
    p2 = p2
    None = None
    InitReq = {c1, c2}
    CompReq = {r1, r2}
    Principal = {p1, p2}
    Ip = {}
    Event <- CrossEvents
    Backend = "memory"
    ChallengeTtl = 1
    SessionTtl = 1
    ResultCacheTtl = 1
    RefreshTtl = 0
    MaxFailures = 2
    MaxPerNpub = 0
    MaxPerIp = 0
    MaxClockSkew = 3
    LowerGrace = 1
    UpperGrace = 1
    DecisionBound = {None}
    Suspendable = {}
    MaxInFlight = 1
    MaxTime = 2
SPECIFICATION Spec
SYMMETRY RequestSymmetry
INVARIANT BudgetCountsOwnFailures
PROPERTY TerminalStatesAreFinal
PROPERTY RefinesLogin
