------------------------------- MODULE Guards -------------------------------
(***************************************************************************)
(* Authorization after login: the ACL rows and the operator who edits them *)
(* (nap-server/src/acl.ts over the ACL stores), the registry resolver with *)
(* auto-provisioning that reads them, the sessions a login snapshots them  *)
(* into, and the guards of the two adapters that judge every request.      *)
(*                                                                         *)
(* An action is a segment between two awaits. The adapters' guards are the *)
(* same code twice; each definition is mapped to one of the two.           *)
(***************************************************************************)
EXTENDS Integers, FiniteSets

CONSTANTS
    Principal,
    Session,        \* logins; the session a login mints is named by it
    GuardReq,       \* guarded requests
    Op,             \* calls of the operator on createRevokingAclStore
    RolePerms,      \* the registry's roles, and the permissions of each
    DefaultRole,    \* registry.defaultRole
    AutoProvision,  \* the resolver's autoProvision option
    StepUpPerms,    \* the permissions declared stepUp: true
    AclRecord,      \* the rows an operator may write: [role, overrides, suspended]
    FirstRow,       \* the rows, or None, a principal may start with
    Shape,          \* the guards installed: [kind, want, resolver]
    SessionTtl, StepUpTtl,
    MaxTime,        \* bound: last clock value
    None

Opt(S) == S \cup {None}
RoleName == DOMAIN RolePerms
Perm == UNION {RolePerms[x] : x \in DOMAIN RolePerms}

\* A row as the stores type it. Nothing holds its role and the permissions of its overrides
\* against the registry.
AclRow == [role : STRING,
           overrides : SUBSET [action : {"grant", "deny"}, permission : STRING],
           suspended : BOOLEAN]

\* What validatePermissionRegistry and validatePermissions insist on at startup
ASSUME RegistryAssumption ==
    /\ RolePerms \in [RoleName -> SUBSET STRING] /\ RoleName \subseteq STRING
    /\ DefaultRole \in RoleName
    /\ StepUpPerms \subseteq Perm
    /\ Shape \subseteq [kind : {"permission", "role", "session", "stepUp"}, want : STRING, resolver : BOOLEAN]
    /\ \A x \in Shape : /\ x.kind = "permission" => x.want \in Perm
                        /\ x.kind = "role" => x.want \in RoleName
ASSUME GuardAssumption ==
    /\ Session \cap GuardReq = {} /\ AutoProvision \in BOOLEAN
    /\ SessionTtl \in Nat \ {0} /\ StepUpTtl \in Nat \ {0} /\ MaxTime \in Nat
    /\ AclRecord \subseteq AclRow /\ FirstRow \subseteq Opt(AclRow)

\* "No row", "no role", "no owner", "no session" and "no step-up" are told from every value
\* they stand beside.
ASSUME NoneAssumption ==
    None \notin AclRow /\ None \notin STRING /\ None \notin Principal /\ None \notin Session /\ None \notin Int

VARIABLES
    clock,
    backend,     \* "memory" hands out references to sessions, "postgres" copies
    declared,    \* the roles the running release's registry declares
    row,         \* nap_acl
    sess,        \* the session store
    task,        \* the logins and the guarded requests
    op,          \* the operator's calls
    banned,      \* ghost: whom the operator's latest word suspends
    unheard,     \* ghost: a suspension of theirs never reached their row, or was overwritten
    touched,     \* ghost: who was ever suspended, or given another role
    mingled      \* ghost: whose rows two writers edited at once

vars == <<clock, backend, declared, row, sess, task, op, banned, unheard, touched, mingled>>
config == <<backend, declared>>
ghosts == <<banned, unheard, touched, mingled>>

-----------------------------------------------------------------------------
(* Records. *)

\* buildAutoProvisionRecord
FreshRow == [role |-> DefaultRole, overrides |-> {}, suspended |-> FALSE]

Decision == [allowed : BOOLEAN, revoke : BOOLEAN, role : Opt(STRING), perms : SUBSET STRING]

SessionRecord ==
    [owner : Opt(Principal), role : Opt(STRING), perms : SUBSET STRING, exp : Int,
     stepExp : Opt(Int), revoked : BOOLEAN, stale : BOOLEAN]

NoSession == [owner |-> None, role |-> None, perms |-> {}, exp |-> 0, stepExp |-> None,
              revoked |-> FALSE, stale |-> FALSE]

NoDecision == [allowed |-> FALSE, revoke |-> FALSE, role |-> None, perms |-> {}]

Code == {"none", "thrown", "admitted", "NAP_COMPLETE_ACL_DENIED", "NAP_COMPLETE_SUCCESS",
         "NAP_GUARD_NO_SESSION", "NAP_GUARD_ACL_DENIED", "NAP_GUARD_PERMISSION_DENIED",
         "NAP_GUARD_ROLE_DENIED", "NAP_GUARD_STEP_UP_REQUIRED"}

\* The awaits of a login and of a guard. The last two fields are ghosts of a guarded
\* request: its principal has been banned, and its row has granted what the guard wants,
\* at some time since the request began.
TaskRecord ==
    [pc : {"idle", "check", "get", "provision", "reget", "insert", "decide", "revoke", "done"},
     p : Opt(Principal), stepUp : BOOLEAN, shape : Opt(Shape), sid : Opt(Session),
     token : Opt(Session), dec : Decision, code : Code, barred : BOOLEAN, granted : BOOLEAN]

NoTask == [pc |-> "idle", p |-> None, stepUp |-> FALSE, shape |-> None, sid |-> None,
           token |-> None, dec |-> NoDecision, code |-> "none", barred |-> FALSE,
           granted |-> FALSE]

OpRecord == [pc : {"idle", "write", "revoke", "done"}, p : Opt(Principal),
             new : Opt(AclRecord), prev : Opt(STRING)]

NoOp == [pc |-> "idle", p |-> None, new |-> None, prev |-> None]

Init ==
    /\ clock = 0
    /\ backend \in {"memory", "postgres"}
    /\ declared = RoleName
    /\ row \in [Principal -> FirstRow]
    /\ sess = [s \in Session |-> NoSession]
    /\ task = [t \in Session \cup GuardReq |-> NoTask]
    /\ op = [o \in Op |-> NoOp]
    /\ banned = {p \in Principal : row[p] # None /\ row[p].suspended}
    /\ unheard = {} /\ touched = banned /\ mingled = {}

-----------------------------------------------------------------------------
(* The registry resolver. *)

\* Mutant of ApplyOverrides: a grant wins over a deny.
ApplyOverrides_GrantWins(perms, overrides) ==
    LET named(a) == {x.permission : x \in {y \in overrides : y.action = a}}
    IN  (perms \ named("deny")) \cup named("grant")

\* Denies win, wherever they stand in the list.
ApplyOverrides(perms, overrides) ==
    LET named(a) == {x.permission : x \in {y \in overrides : y.action = a}}
    IN  (perms \cup named("grant")) \ named("deny")

\* Mutant of Denied: every denial ends the principal's sessions.
Denied_Always(revoke) == [NoDecision EXCEPT !.revoke = TRUE]

Denied(revoke) == [NoDecision EXCEPT !.revoke = revoke]

\* createRegistryAclResolver's verdict on a row: only a suspension is certain enough to
\* end sessions, a missing row or an undeclared role is not.
Resolve(r) ==
    IF r = None THEN Denied(FALSE)
    ELSE IF r.suspended THEN Denied(TRUE)
    ELSE IF r.role \notin declared THEN Denied(FALSE)
    ELSE [allowed |-> TRUE, revoke |-> FALSE, role |-> r.role,
          perms |-> ApplyOverrides(RolePerms[r.role], r.overrides)]

\* Whether this row by itself entitles its principal to what a guard of this shape wants,
\* step-up aside
Grants(r, shape) ==
    LET overridden(a) == \E x \in r.overrides : x.action = a /\ x.permission = shape.want IN
    /\ r # None /\ ~r.suspended /\ r.role \in declared
    /\ shape.kind = "permission" =>
         /\ shape.want \in RolePerms[r.role] \/ overridden("grant")
         /\ ~overridden("deny")
    /\ shape.kind = "role" => shape.want = r.role

\* The ghosts of the guarded requests under way, when p's row becomes r and those the
\* operator has banned become b
Witness(t, p, r, b) ==
    IF t \in GuardReq /\ task[t].p = p /\ task[t].pc \notin {"idle", "done"}
    THEN [task[t] EXCEPT !.barred = @ /\ p \in b,
                         !.granted = @ \/ Grants(r, task[t].shape)]
    ELSE task[t]

Become(t, q) == task' = [task EXCEPT ![t] = q]

\* The resolver answers t from row r: a login is refused or goes on to store its session,
\* a guard goes on to its verdict.
Resolved(t, r) ==
    LET d == Resolve(r) IN
    IF t \in GuardReq THEN [task[t] EXCEPT !.pc = "decide", !.dec = d]
    ELSE IF d.allowed THEN [task[t] EXCEPT !.pc = "insert", !.dec = d]
    ELSE [NoTask EXCEPT !.pc = "done", !.code = "NAP_COMPLETE_ACL_DENIED"]

\* resolveAclRecord's first read
AclGet(t) ==
    /\ task[t].pc = "get"
    /\ LET r == row[task[t].p] IN
       \/ /\ r # None \/ ~AutoProvision
          /\ Become(t, Resolved(t, r))
       \/ /\ r = None /\ AutoProvision
          /\ Become(t, [task[t] EXCEPT !.pc = "provision"])
    /\ UNCHANGED <<clock, config, row, sess, op, ghosts>>

\* The record is upserted over whatever the row has become meanwhile.
AclProvision(t) ==
    /\ task[t].pc = "provision"
    /\ LET p == task[t].p IN
       /\ row' = [row EXCEPT ![p] = FreshRow]
       /\ task' = [u \in DOMAIN task |->
                     IF u = t THEN [Witness(u, p, FreshRow, banned) EXCEPT !.pc = "reget"]
                     ELSE Witness(u, p, FreshRow, banned)]
       /\ unheard' = IF p \in banned THEN unheard \cup {p} ELSE unheard
       /\ touched' = IF row[p] # None /\ row[p].role # DefaultRole THEN touched \cup {p} ELSE touched
       /\ mingled' = IF row[p] # None \/ \E o \in Op : op[o].p = p /\ op[o].pc = "write"
                     THEN mingled \cup {p} ELSE mingled
    /\ UNCHANGED <<clock, config, sess, op, banned>>

AclReget(t) ==
    /\ task[t].pc = "reget"
    /\ Become(t, Resolved(t, row[task[t].p]))
    /\ UNCHANGED <<clock, config, row, sess, op, ghosts>>

-----------------------------------------------------------------------------
(* Login, as far as authorization is concerned. A step-up is a login of its own. *)

LoginStart(s) ==
    /\ task[s].pc = "idle"
    /\ \E p \in Principal, su \in BOOLEAN :
          Become(s, [NoTask EXCEPT !.pc = "get", !.p = p, !.stepUp = su])
    /\ UNCHANGED <<clock, config, row, sess, op, ghosts>>

\* createSessionRecord and createForChallenge. `stale' is a ghost: the row has changed
\* since it was read.
LoginInsert(s) ==
    /\ task[s].pc = "insert"
    /\ LET d == task[s].dec
           r == row[task[s].p] IN
       sess' = [sess EXCEPT ![s] =
                 [owner |-> task[s].p, role |-> d.role, perms |-> d.perms,
                  exp |-> clock + SessionTtl,
                  stepExp |-> IF task[s].stepUp THEN clock + StepUpTtl ELSE None,
                  revoked |-> FALSE,
                  stale |-> r.suspended \/ r.role # d.role]]
    /\ Become(s, [NoTask EXCEPT !.pc = "done", !.code = "NAP_COMPLETE_SUCCESS"])
    /\ UNCHANGED <<clock, config, row, op, ghosts>>

\* revokeByPrincipal
RevokeSessionsOf(p) ==
    sess' = [s \in Session |-> IF sess[s].owner = p THEN [sess[s] EXCEPT !.revoked = TRUE]
                               ELSE sess[s]]

-----------------------------------------------------------------------------
(* The guards. *)

\* The guard answers and its locals go.
Answer(g, code) == Become(g, [NoTask EXCEPT !.pc = "done", !.code = code])

\* No token, or one the store does not know (a revoked row, to Postgres)
GuardNoSession(g) ==
    /\ task[g].pc = "idle"
    /\ Answer(g, "NAP_GUARD_NO_SESSION")
    /\ UNCHANGED <<clock, config, row, sess, op, ghosts>>

\* requiresStepUp, and requireStepUp()
NeedsStepUp(shape) ==
    shape.kind = "stepUp" \/ (shape.kind = "permission" /\ shape.want \in StepUpPerms)

\* loadSession's lookup. Where one is looked at, the request may carry a step-up token, of
\* this session or another.
GuardLookup(g) ==
    /\ task[g].pc = "idle"
    /\ \E x \in Shape, s \in Session, su \in Opt(Session) :
          /\ sess[s].owner # None
          /\ backend = "postgres" => ~sess[s].revoked
          /\ su # None => sess[su].stepExp # None /\ NeedsStepUp(x)
          /\ Become(g, [NoTask EXCEPT !.pc = "check", !.shape = x, !.sid = s, !.token = su,
                                      !.p = sess[s].owner,
                                      !.barred = sess[s].owner \in banned,
                                      !.granted = Grants(row[sess[s].owner], x)])
    /\ UNCHANGED <<clock, config, row, sess, op, ghosts>>

\* loadSession's check on the record it was handed
SessionIsLive(s) == (backend = "memory" => ~sess[s].revoked) /\ sess[s].exp > clock

\* The token must be this session's own, and still good now.
HasValidStepUpToken(q) ==
    q.token = q.sid /\ sess[q.sid].stepExp # None /\ sess[q.sid].stepExp > clock

\* What a guard concludes from the roles and permissions it judges by: a decision of the
\* resolver, or the session's snapshot
Verdict(q, allowed, role, perms) ==
    IF ~allowed THEN "NAP_GUARD_ACL_DENIED"
    ELSE CASE q.shape.kind = "permission" ->
                IF q.shape.want \notin perms THEN "NAP_GUARD_PERMISSION_DENIED"
                ELSE IF NeedsStepUp(q.shape) /\ ~HasValidStepUpToken(q)
                     THEN "NAP_GUARD_STEP_UP_REQUIRED"
                ELSE "admitted"
           [] q.shape.kind = "role" ->
                IF q.shape.want # role THEN "NAP_GUARD_ROLE_DENIED" ELSE "admitted"
           [] q.shape.kind = "session" -> "admitted"

\* Mutant of GuardCheck: the snapshot answers where a resolver is installed.
GuardCheck_Snapshot(g) ==
    LET q == task[g] IN
    /\ q.pc = "check"
    /\ Answer(g, IF ~SessionIsLive(q.sid) THEN "NAP_GUARD_NO_SESSION"
                 ELSE IF q.shape.kind = "stepUp"
                      THEN IF HasValidStepUpToken(q) THEN "admitted" ELSE "NAP_GUARD_STEP_UP_REQUIRED"
                 ELSE Verdict(q, TRUE, sess[q.sid].role, sess[q.sid].perms))
    /\ UNCHANGED <<clock, config, row, sess, op, ghosts>>

\* The rest of loadSession. requireStepUp() ends here; a guard with no aclResolver judges
\* by the snapshot; the others read the ACL.
GuardCheck(g) ==
    LET q == task[g] IN
    /\ q.pc = "check"
    /\ \/ /\ ~SessionIsLive(q.sid)
          /\ Answer(g, "NAP_GUARD_NO_SESSION")
       \/ /\ SessionIsLive(q.sid) /\ q.shape.kind = "stepUp"
          /\ Answer(g, IF HasValidStepUpToken(q) THEN "admitted" ELSE "NAP_GUARD_STEP_UP_REQUIRED")
       \/ /\ SessionIsLive(q.sid) /\ q.shape.kind # "stepUp" /\ ~q.shape.resolver
          /\ Answer(g, Verdict(q, TRUE, sess[q.sid].role, sess[q.sid].perms))
       \/ /\ SessionIsLive(q.sid) /\ q.shape.kind # "stepUp" /\ q.shape.resolver
          /\ Become(g, [q EXCEPT !.pc = "get"])
    /\ UNCHANGED <<clock, config, row, sess, op, ghosts>>

\* resolveEffectiveAcl: a certain denial ends the principal's sessions before the answer.
GuardDecide(g) ==
    LET q == task[g] IN
    /\ q.pc = "decide"
    /\ \/ /\ q.dec.allowed \/ ~q.dec.revoke
          /\ Answer(g, Verdict(q, q.dec.allowed, q.dec.role, q.dec.perms))
       \/ /\ ~q.dec.allowed /\ q.dec.revoke
          /\ Become(g, [q EXCEPT !.pc = "revoke"])
    /\ UNCHANGED <<clock, config, row, sess, op, ghosts>>

GuardRevoke(g) ==
    /\ task[g].pc = "revoke"
    /\ RevokeSessionsOf(task[g].p)
    /\ Answer(g, "NAP_GUARD_ACL_DENIED")
    /\ UNCHANGED <<clock, config, row, op, ghosts>>

\* A store or the resolver rejects: the adapter answers 500, and nothing is admitted.
GuardThrow(g) ==
    /\ task[g].pc \notin {"idle", "done"}
    /\ Answer(g, "thrown")
    /\ UNCHANGED <<clock, config, row, sess, op, ghosts>>

-----------------------------------------------------------------------------
(* The operator, through createRevokingAclStore. *)

\* Another call on the same principal is under way.
Overlapping(o, p) == \E x \in Op \ {o} : op[x].p = p /\ op[x].pc \in {"write", "revoke"}

Mingle(o, p) == mingled' = IF Overlapping(o, p) THEN mingled \cup {p} ELSE mingled

\* The row of p becomes r; `bans' says whether the operator means it as a suspension.
Write(p, r, bans) ==
    /\ row' = [row EXCEPT ![p] = r]
    /\ banned' = IF bans THEN banned \cup {p} ELSE banned \ {p}
    /\ unheard' = IF bans /\ r = None THEN unheard \cup {p} ELSE unheard
    /\ touched' = IF bans \/ (r # None /\ row[p] # None /\ r.role # row[p].role)
                  THEN touched \cup {p} ELSE touched
    /\ task' = [t \in DOMAIN task |-> Witness(t, p, r, banned')]

\* Mutant of Marked: the missing row is spread into a new one.
Marked_SpreadsNothing(r, b) ==
    IF r = None THEN [suspended |-> b] ELSE [r EXCEPT !.suspended = b]

\* The stores' suspend and unsuspend touch only a row that exists.
Marked(r, b) == IF r = None THEN None ELSE [r EXCEPT !.suspended = b]

\* suspend() writes at once, and then ends the sessions.
OpSuspend(o) ==
    /\ op[o].pc = "idle"
    /\ \E p \in Principal :
          /\ Write(p, Marked(row[p], TRUE), TRUE)
          /\ op' = [op EXCEPT ![o] = [NoOp EXCEPT !.pc = "revoke", !.p = p]]
          /\ Mingle(o, p)
    /\ UNCHANGED <<clock, config, sess>>

OpUnsuspend(o) ==
    /\ op[o].pc = "idle"
    /\ \E p \in Principal :
          /\ Write(p, Marked(row[p], FALSE), FALSE)
          /\ Mingle(o, p)
    /\ op' = [op EXCEPT ![o] = [NoOp EXCEPT !.pc = "done"]]
    /\ UNCHANGED <<clock, config, sess>>

\* upsert() reads the role that stands before it writes.
OpUpsert(o) ==
    /\ op[o].pc = "idle"
    /\ \E p \in Principal, r \in AclRecord :
          /\ op' = [op EXCEPT ![o] = [pc |-> "write", p |-> p, new |-> r,
                                      prev |-> IF row[p] = None THEN None ELSE row[p].role]]
          /\ Mingle(o, p)
    /\ UNCHANGED <<clock, config, row, sess, task, banned, unheard, touched>>

\* Mutant of MustRevoke: only a suspension ends sessions.
MustRevoke_SuspendOnly(q) == q.new.suspended

\* When upsert() goes on to revoke the principal's sessions
MustRevoke(q) == q.new.suspended \/ (q.prev # None /\ q.prev # q.new.role)

OpWrite(o) ==
    /\ op[o].pc = "write"
    /\ Write(op[o].p, op[o].new, op[o].new.suspended)
    /\ op' = [op EXCEPT ![o] = IF MustRevoke(@) THEN [NoOp EXCEPT !.pc = "revoke", !.p = op[o].p]
                               ELSE [NoOp EXCEPT !.pc = "done"]]
    /\ UNCHANGED <<clock, config, sess, mingled>>

OpRevoke(o) ==
    /\ op[o].pc = "revoke"
    /\ RevokeSessionsOf(op[o].p)
    /\ op' = [op EXCEPT ![o] = [NoOp EXCEPT !.pc = "done"]]
    /\ UNCHANGED <<clock, config, row, task, ghosts>>

\* A release whose registry has lost a role, rolled out while sessions live on in Postgres.
\* validatePermissions refuses to start one that drops a role some guard names.
Deploy ==
    /\ backend = "postgres"
    /\ \E x \in declared \ {DefaultRole} :
          /\ \A y \in Shape : y.kind = "role" => y.want # x
          /\ declared' = declared \ {x}
    /\ UNCHANGED <<clock, backend, row, sess, task, op, ghosts>>

Tick ==
    /\ clock < MaxTime
    /\ clock' = clock + 1
    /\ UNCHANGED <<config, row, sess, task, op, ghosts>>

\* Every request and every call has been answered.
Quiet ==
    /\ \A t \in DOMAIN task : task[t].pc = "done"
    /\ \A o \in Op : op[o].pc = "done"
    /\ clock = MaxTime
    /\ UNCHANGED vars

Next ==
    \/ \E s \in Session : LoginStart(s) \/ LoginInsert(s)
    \/ \E t \in Session \cup GuardReq : AclGet(t) \/ AclProvision(t) \/ AclReget(t)
    \/ \E g \in GuardReq : \/ GuardNoSession(g) \/ GuardLookup(g) \/ GuardCheck(g)
                           \/ GuardDecide(g) \/ GuardRevoke(g) \/ GuardThrow(g)
    \/ \E o \in Op : \/ OpSuspend(o) \/ OpUnsuspend(o)
                      \/ OpUpsert(o) \/ OpWrite(o) \/ OpRevoke(o)
    \/ Deploy \/ Tick \/ Quiet

Spec == Init /\ [][Next]_vars

-----------------------------------------------------------------------------
(* Properties. *)

\* The type invariant.
TypeOK ==
    /\ clock \in 0..MaxTime
    /\ backend \in {"memory", "postgres"} /\ declared \subseteq RoleName
    /\ row \in [Principal -> Opt(AclRow)]
    /\ sess \in [Session -> SessionRecord]
    /\ task \in [Session \cup GuardReq -> TaskRecord]
    /\ op \in [Op -> OpRecord]
    /\ banned \subseteq Principal /\ unheard \subseteq Principal
    /\ touched \subseteq Principal /\ mingled \subseteq Principal

\* The step lets g through.
Admits(g) == task[g].code # "admitted" /\ task'[g].code = "admitted"

\* g's guard reads the ACL on every request.
ReadsAcl(g) == task[g].shape.kind # "stepUp" /\ task[g].shape.resolver

\* README.md:97: a guard with an aclResolver never admits a request whose principal was
\* suspended when it began and stayed so -- whatever session it presents, and whoever is
\* logging in or editing rows meanwhile. The one hole is a suspension that never stood in
\* the table: suspend() of a principal with no row, or a row that auto-provisioning
\* overwrote.
SuspendedIsOut ==
    [][\A g \in GuardReq :
          Admits(g) /\ ReadsAcl(g) /\ task[g].barred => task[g].p \in unheard]_vars

\* What a request was admitted on stood while it was judged, although its session was
\* loaded awaits earlier: with an aclResolver the permission is one the ACL itself granted
\* at some moment of the request, not what the session remembers from login; and where
\* step-up is asked for, the presented session's own step-up is still fresh.
LiveAuthority ==
    [][\A g \in GuardReq :
          Admits(g) =>
             LET q == task[g] IN
             /\ ReadsAcl(g) => q.granted
             /\ NeedsStepUp(q.shape)
                  => q.token = q.sid /\ sess[q.sid].stepExp # None /\ clock < sess[q.sid].stepExp]_vars

\* A row that cannot be read, does not exist or names an undeclared role denies a request
\* and no more: a principal the operator never suspended nor gave another role loses no
\* session.
NoPunishmentWithoutCause ==
    \A s \in Session : sess[s].revoked => sess[s].owner \in touched

\* createRevokingAclStore: when the operator's calls are through, a session that still
\* works carries the role its owner's row has, and its owner is not suspended. Excepted
\* are sessions whose login read the row before it changed, and rows two writers edited
\* at once (upsert compares with a role it read before it wrote).
RoleChangeEndsSessions ==
    \A s \in Session :
        LET p == sess[s].owner IN
        /\ p # None /\ ~sess[s].revoked /\ ~sess[s].stale /\ p \notin mingled
        /\ \A o \in Op : op[o].p # p
        => ~row[p].suspended /\ row[p].role = sess[s].role

-----------------------------------------------------------------------------
(* Why they hold: an inductive invariant. *)

\* What a guard is satisfied by, step-up aside, in a decision of the resolver
Satisfies(d, shape) ==
    /\ d.allowed
    /\ shape.kind = "permission" => shape.want \in d.perms
    /\ shape.kind = "role" => shape.want = d.role

\* A guarded request under way: past its check it is one that reads the ACL. What its row
\* would grant now, or granted when it was read, it has seen granted. If it was barred all
\* along, its principal is banned, and what was read of the row denies it, unless the
\* suspension was unheard of. Sessions are ended only of a principal who was touched.
GuardInOrder(q) ==
    q.pc \notin {"idle", "done"} =>
        /\ q.pc # "insert" /\ q.p \in Principal /\ q.shape \in Shape
        /\ q.pc # "check" => q.shape.kind # "stepUp" /\ q.shape.resolver
        /\ q.barred => q.p \in banned
        /\ Grants(row[q.p], q.shape) => q.granted
        /\ q.pc = "decide" =>
              /\ Satisfies(q.dec, q.shape) => q.granted
              /\ q.barred /\ q.dec.allowed => q.p \in unheard
              /\ q.dec.revoke => q.p \in touched
        /\ q.pc = "revoke" => q.p \in touched

\* A login under way; one that was let through has a row.
LoginInOrder(q) ==
    q.pc \notin {"idle", "done"} =>
        /\ q.pc \notin {"check", "decide", "revoke"} /\ q.p \in Principal
        /\ q.pc = "insert" => row[q.p] # None

TasksInOrder ==
    /\ \A g \in GuardReq : GuardInOrder(task[g])
    /\ \A s \in Session : LoginInOrder(task[s])

\* A row that stands behind a session is there for good; a suspension was somebody's
\* doing, and stands in the row if it was heard.
RowsStand ==
    /\ \A s \in Session : sess[s].owner # None => row[sess[s].owner] # None
    /\ \A p \in Principal : row[p] # None /\ row[p].suspended => p \in touched
    /\ \A p \in banned \ unheard : row[p] # None /\ row[p].suspended

\* The operator's calls: two on one principal have mingled; an upsert compares with the
\* role that stands, unless it has mingled, or with one that was taken away since.
OpsInOrder ==
    /\ \A o \in Op : op[o].pc = "revoke" => op[o].p \in touched
    /\ \A o \in Op : op[o].pc = "write" =>
          /\ op[o].p \in Principal /\ op[o].new \in AclRecord
          /\ op[o].prev # None =>
                op[o].p \in touched \/ (row[op[o].p] # None /\ row[op[o].p].role = op[o].prev)
          /\ op[o].p \notin mingled =>
                op[o].prev = IF row[op[o].p] = None THEN None ELSE row[op[o].p].role
    /\ \A o, x \in Op : /\ o # x /\ op[o].p = op[x].p
                        /\ op[o].pc \in {"write", "revoke"} /\ op[x].pc \in {"write", "revoke"}
                        => op[o].p \in mingled

\* A live session that was right when it was made is still right, or about to be revoked.
RoleKept ==
    \A s \in Session :
        LET p == sess[s].owner IN
        p # None /\ ~sess[s].revoked /\ ~sess[s].stale /\ p \notin mingled =>
           \/ ~row[p].suspended /\ row[p].role = sess[s].role
           \/ \E o \in Op : op[o].p = p /\ op[o].pc = "revoke"

GuardInv ==
    TypeOK /\ TasksInOrder /\ RowsStand /\ OpsInOrder /\ RoleKept /\ NoPunishmentWithoutCause
=============================================================================
