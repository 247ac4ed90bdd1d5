\* Three refreshes and a logout of one session over Postgres, with a ceiling.
CONSTANTS
    Session = {s1}
    RefreshReq = {r1, r2, r3}
    LogoutReq = {l1}
    Principal = {p1}
    Backend = "postgres"
    SessionTtl = 2
    RefreshTtl = 3
    MaxLifetime = 2
    DecisionBound = {None}
    MaxTime = 2
    None = None
SPECIFICATION Spec
SYMMETRY RefreshSymmetry
INVARIANT OneRotationPerToken
INVARIANT CeilingHolds
