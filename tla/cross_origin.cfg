\* One relying page and its popup, three scopes it may ask for, two signatures in a grant.
CONSTANTS
    a1 = a1
    a2 = a2
    i1 = i1
    i2 = i2
    i3 = i3
    Account = {a1, a2}
    Item = {i1, i2, i3}
    Policy = {i1, i2}
    Asks <- MCAsks
    Template <- MCTemplate
    Wired <- MCWired
    MaxReq = 2
    MaxMoves = 3
    None = None
CHECK_DEADLOCK FALSE
SPECIFICATION FairSpec
INVARIANT TypeOK
INVARIANT OneCompletionPerConsent
INVARIANT NothingBeyondConsent
INVARIANT NoSignatureAfterRevocation
INVARIANT GrantDiesWithTheKey
PROPERTY EveryRequestSettles
PROPERTY RevocationReachesClient
