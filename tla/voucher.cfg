\* Two logins, one voucher, a thief, a keyset rotation, two ticks of the clock.
CONSTANTS
    Login = {l1, l2}
    Wiring <- MCWiring
    Owner = owner
    Thief = thief
    Expiry = {None, 2}
    VoucherId = {v1}
    Keyset = {k1, k2}
    FirstKeyset = k1
    KeysetTtl = 1
    FetchTimeout = 1
    SessionTtl = 2
    RefreshTtl = 1
    MaxLifetime = 2
    MaxTime = 2
    None = None
SYMMETRY LoginSymmetry
CHECK_DEADLOCK FALSE
SPECIFICATION Spec
INVARIANT TypeOK
INVARIANT FullGrantIsEarned
INVARIANT OutageGrantsLess
PROPERTY KeysAreRecent
