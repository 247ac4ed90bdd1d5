\* Two overlapping calls of connect and disconnect, a request, up to five connections.
CONSTANTS
    Call = {c1, c2}
    Req = {r1}
    MaxConn = 5
    MaxMoves = 5
    None = None
CHECK_DEADLOCK FALSE
SPECIFICATION FairSpec
INVARIANT TypeOK
INVARIANT OnlyAcknowledgedPairings
INVARIANT NothingLeaks
INVARIANT StoreAgrees
PROPERTY EverythingSettles
