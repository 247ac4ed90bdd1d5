\* Two logins and a guarded request of one principal while an operator makes two calls.
CONSTANTS
    Principal = {p1}
    Session = {s1, s2}
    GuardReq = {g1}
    Op = {o1, o2}
    RolePerms <- Perms
    DefaultRole = "clerk"
    AutoProvision = TRUE
    StepUpPerms = {"pay"}
    AclRecord <- Rows
    FirstRow <- First
    Shape <- Installed
    SessionTtl = 1
    StepUpTtl = 1
    MaxTime = 1
    None = None
SPECIFICATION Spec
SYMMETRY GuardSymmetry
INVARIANT TypeOK
PROPERTY SuspendedIsOut
PROPERTY LiveAuthority
INVARIANT NoPunishmentWithoutCause
INVARIANT RoleChangeEndsSessions
