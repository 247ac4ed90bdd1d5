\* Three refreshes and a logout of one session over the in-memory store, which sweeps between their steps.
CONSTANTS
    Session = {s1}
    RefreshReq = {r1, r2, r3}
    LogoutReq = {l1}
    Principal = {p1}
    Backend = "memory"
    SessionTtl = 1
    RefreshTtl = 1
    MaxLifetime = None
    DecisionBound = {None}
    MaxTime = 2
    None = None
SPECIFICATION Spec
SYMMETRY RefreshSymmetry
INVARIANT ReuseMeansTwoUses
INVARIANT RetiredTokenIsCaught
INVARIANT ReplayEndsLineage
INVARIANT SuspensionSurvivesRefresh
