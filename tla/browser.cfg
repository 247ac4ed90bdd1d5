\* Two tabs, two overlapping calls, and what users, signers and the server do meanwhile.
CONSTANTS
    Tab = {t1, t2}
    Call = {c1, c2}
    Account = {a1, a2}
    MaxMoves = 3
    None = None
CHECK_DEADLOCK FALSE
SPECIFICATION FairSpec
INVARIANT TypeOK
INVARIANT LockMeansNoKey
INVARIANT LockedHasSession
PROPERTY NoSilentSwap
PROPERTY UnattendedSessionLocks
