------------------------------ MODULE Refresh ------------------------------
(***************************************************************************)
(* Sessions after login: POST /auth/refresh rotates a session's tokens     *)
(* (refreshSession of nap-server/src/server.ts), POST /auth/logout revokes *)
(* it (nap-adapter-express/src/adapter.ts), an operator suspends its       *)
(* owner, and the in-memory store evicts it.                               *)
(*                                                                         *)
(* The in-memory store hands out references: a handler that awaits sees    *)
(* what others did to its record meanwhile, even after the store forgot    *)
(* it. Postgres hands out copies. As in Completion, an action is a segment *)
(* between two awaits.                                                     *)
(***************************************************************************)
EXTENDS Integers, FiniteSets

CONSTANTS
    Session,         \* sessions; the tokens a login mints are named by its session
    RefreshReq,      \* POST /auth/refresh requests; the tokens one mints are named by it
    LogoutReq,       \* POST /auth/logout requests
    Principal,
    None,            \* the unset value of an optional field
    Backend,         \* "memory" or "postgres"
    SessionTtl, RefreshTtl,
    MaxLifetime,     \* maxSessionLifetimeSeconds, or None
    DecisionBound,   \* the expires_at values a resolver may answer with; None is "no bound"
    MaxTime          \* bound: last clock value

\* An optional field of type S
Opt(S) == S \cup {None}

\* An access token and a refresh token are minted together and named alike.
Token == Session \cup RefreshReq

ASSUME RefreshNameAssumption ==
    /\ Session \cap RefreshReq = {}
    /\ None \notin Token /\ None \notin Principal /\ None \notin Int
ASSUME RefreshBackendAssumption == Backend \in {"memory", "postgres"}
ASSUME RefreshTtlAssumption ==
    /\ SessionTtl \in Nat \ {0} /\ RefreshTtl \in Nat \ {0}
    /\ MaxLifetime \in Opt(Nat \ {0}) /\ MaxTime \in Nat
    /\ DecisionBound \subseteq Opt(Int)

VARIABLES
    clock,
    sess,        \* the session records: rows, or the objects the index maps point to
    byId,        \* sessionsById: the sessions the store still holds
    byAccess,    \* sessionsByAccessToken (in memory)
    byRefresh,   \* sessionsByRefreshToken (in memory)
    swept,       \* InMemorySessionStore.lastSweptAt, -1 before the first sweep
    known,       \* the tokens some answer carried
    req,         \* the refresh requests
    lreq,        \* the logout requests
    acl,         \* whether each principal's ACL row admits it
    admin,       \* principals whose suspension has yet to revoke their sessions
    login,       \* completions between reading the ACL and storing their session
    straddled    \* history: sessions stored while the suspension of their owner stood

vars == <<clock, sess, byId, byAccess, byRefresh, swept, known, req, lreq, acl, admin,
          login, straddled>>
store == <<sess, byId, byAccess, byRefresh, swept>>
rest == <<clock, acl, admin, login, straddled>>

-----------------------------------------------------------------------------
(* The records. *)

SessionRecord ==
    [revoked : BOOLEAN, owner : Opt(Principal), issued : Int, exp : Int, refreshExp : Int,
     access : Opt(Token), refresh : Opt(Token), prev : Opt(Token)]

NoSession ==
    [revoked |-> FALSE, owner |-> None, issued |-> 0, exp |-> 0, refreshExp |-> 0,
     access |-> None, refresh |-> None, prev |-> None]

\* The awaits of refreshSessionUnpadded, in order, and "done".
RefreshPc == {"idle", "check", "revoke", "resolve", "revoke_all", "rotate", "answer", "done"}

\* What a refresh concluded. "refused" found no session to look at; "thrown" is a rejected
\* promise and "lost" one that had rotated. Whether the caller hears of the others makes no
\* difference to the state.
RefreshCode == {"none", "refused", "thrown", "lost", "NAP_REFRESH_SUCCESS",
                "NAP_REFRESH_UNKNOWN_TOKEN", "NAP_REFRESH_REUSED", "NAP_REFRESH_REVOKED", "NAP_REFRESH_EXPIRED",
                "NAP_REFRESH_ACL_DENIED", "NAP_REFRESH_INTERNAL"}

RefreshRequest ==
    [pc : RefreshPc, token : Opt(Token), sid : Opt(Session), snap : SessionRecord,
     now : Int, bound : Opt(Int), code : RefreshCode]

NoRequest ==
    [pc |-> "idle", token |-> None, sid |-> None, snap |-> NoSession, now |-> 0,
     bound |-> None, code |-> "none"]

LogoutRequest ==
    [pc : {"idle", "check", "revoke", "done"}, token : Opt(Token), sid : Opt(Session),
     exp : Int]

\* What a completion carries from its ACL decision to createForChallenge
LoginRecord == [owner : Opt(Principal), now : Int, bound : Opt(Int)]

NoLogin == [owner |-> None, now |-> 0, bound |-> None]

Init ==
    /\ clock = 0
    /\ sess = [s \in Session |-> NoSession]
    /\ byId = {}
    /\ byAccess = [t \in Token |-> None]
    /\ byRefresh = [t \in Token |-> None]
    /\ swept = -1
    /\ known = {}
    /\ req = [r \in RefreshReq |-> NoRequest]
    /\ lreq = [l \in LogoutReq |-> [pc |-> "idle", token |-> None, sid |-> None, exp |-> 0]]
    /\ acl = [p \in Principal |-> "active"]
    /\ admin = {}
    /\ login = [s \in Session |-> NoLogin]
    /\ straddled = {}

-----------------------------------------------------------------------------
(* The stores. *)

RetainUntil(s) ==
    IF sess[s].refreshExp > sess[s].exp THEN sess[s].refreshExp ELSE sess[s].exp

\* InMemorySessionStore.sweep: what it evicts, at most once per clock tick
Evicted ==
    IF Backend = "memory" /\ clock > swept THEN {s \in byId : RetainUntil(s) < clock} ELSE {}

\* The index maps lose a session together.
IndexesWithout(gone) ==
    /\ byId' = byId \ gone
    /\ byAccess' = [t \in Token |-> IF \E s \in gone : sess[s].access = t
                                    THEN None ELSE byAccess[t]]
    /\ byRefresh' = [t \in Token |-> IF \E s \in gone : t \in {sess[s].refresh, sess[s].prev}
                                     THEN None ELSE byRefresh[t]]

MarkSwept == swept' = IF Backend = "memory" /\ clock > swept THEN clock ELSE swept

\* getByAccessToken: Postgres does not see a revoked row.
FindByAccess(t) ==
    IF Backend = "memory" THEN {s \in byId \ Evicted : byAccess[t] = s}
    ELSE {s \in byId : sess[s].access = t /\ ~sess[s].revoked}

\* getByRefreshToken matches the current or the previous token, revoked or not.
FindByRefresh(t) ==
    IF Backend = "memory" THEN {s \in Session : byRefresh[t] = s}
    ELSE {s \in byId : t \in {sess[s].refresh, sess[s].prev}}

\* revokeBySessionId and revokeByPrincipal
Revoked(S) == [s \in Session |-> IF s \in S \cap byId THEN [sess[s] EXCEPT !.revoked = TRUE]
                                 ELSE sess[s]]

SessionsOf(p) == {s \in byId : sess[s].owner = p}

-----------------------------------------------------------------------------
(* Login, as far as the session store is concerned. *)

\* clampTtlToDecision
ClampTtl(ttl, bound, now) ==
    IF bound = None \/ bound - now >= ttl THEN ttl
    ELSE IF bound - now > 1 THEN bound - now ELSE 1

\* createSessionRecord, with the access TTL clamped to the ACL decision
NewSession(s, p, bound, now) ==
    [revoked |-> FALSE, owner |-> p, issued |-> now,
     exp |-> now + ClampTtl(SessionTtl, bound, now), refreshExp |-> now + RefreshTtl,
     access |-> s, refresh |-> s, prev |-> None]

\* The suspension of p is complete and has not been lifted.
Suspended(p) == acl[p] = "suspended" /\ p \notin admin

\* The ACL admits the principal. The completion read its `now' before, and awaits the store
\* after; what came before is in Completion.
LoginResolve(s) ==
    /\ sess[s] = NoSession /\ login[s] = NoLogin
    /\ \E p \in Principal, bound \in DecisionBound, now \in 0..clock :
          /\ acl[p] = "active"
          /\ login' = [login EXCEPT ![s] = [owner |-> p, now |-> now, bound |-> bound]]
    /\ UNCHANGED <<store, known, req, lreq, clock, acl, admin, straddled>>

\* createForChallenge sweeps, then enters the record in every index, under a fresh id.
LoginStore(s) ==
    /\ login[s] # NoLogin /\ sess[s] = NoSession
    /\ sess' = [sess EXCEPT ![s] =
                    NewSession(s, login[s].owner, login[s].bound, login[s].now)]
    /\ byId' = (byId \ Evicted) \cup {s}
    /\ \/ /\ Backend = "memory"
          /\ byAccess' = [t \in Token |-> IF t = s THEN s
                            ELSE IF \E x \in Evicted : sess[x].access = t THEN None
                            ELSE byAccess[t]]
          /\ byRefresh' = [t \in Token |-> IF t = s THEN s
                            ELSE IF \E x \in Evicted : t \in {sess[x].refresh, sess[x].prev}
                            THEN None ELSE byRefresh[t]]
       \/ Backend = "postgres" /\ UNCHANGED <<byAccess, byRefresh>>
    /\ MarkSwept
    /\ known' = known \cup {s}
    /\ login' = [login EXCEPT ![s] = NoLogin]
    /\ straddled' = IF Suspended(login[s].owner) THEN straddled \cup {s} ELSE straddled
    /\ UNCHANGED <<req, lreq, clock, acl, admin>>

\* createForChallenge rejects, or the process dies.
LoginThrow(s) ==
    /\ login[s] # NoLogin
    /\ login' = [login EXCEPT ![s] = NoLogin]
    /\ UNCHANGED <<store, known, req, lreq, clock, acl, admin, straddled>>

\* A retry of the completion is answered from the stored record: with the tokens the
\* session has by now, however long ago the retry passed the checks Completion models.
RetryLogin(s) ==
    /\ s \in byId
    /\ Backend = "postgres" => ~sess[s].revoked
    /\ known' = known \cup {sess[s].refresh}
    /\ UNCHANGED <<store, req, lreq, rest>>

-----------------------------------------------------------------------------
(* POST /auth/refresh *)

\* The handler runs to its next await, or to its end.
Become(r, q) == req' = [req EXCEPT ![r] = q]

\* The handler returns and its locals go with it; what it presented and found stays, for
\* the properties.
Finished(q, code) ==
    [NoRequest EXCEPT !.pc = "done", !.code = code, !.token = q.token, !.sid = q.sid]

Finish(r, code) == Become(r, Finished(req[r], code))

\* Missing or made-up token, rate limited: answered before any session is found.
RefreshRefuse(r) ==
    /\ req[r].pc = "idle"
    /\ Finish(r, "refused")
    /\ UNCHANGED <<store, known, lreq, rest>>

\* getByRefreshToken, of a token some answer carried
RefreshLookup(r) ==
    /\ req[r].pc = "idle"
    /\ \E t \in known :
         \/ /\ FindByRefresh(t) = {}
            /\ Become(r, Finished([NoRequest EXCEPT !.token = t], "NAP_REFRESH_UNKNOWN_TOKEN"))
         \/ \E s \in FindByRefresh(t) :
            Become(r, [NoRequest EXCEPT
                        !.pc = "check", !.token = t, !.sid = s,
                        !.snap = IF Backend = "memory" THEN NoSession ELSE sess[s]])
    /\ UNCHANGED <<store, known, lreq, rest>>

\* The record a handler holds: a reference, or the copy the query returned
Held(r) == IF Backend = "memory" THEN sess[req[r].sid] ELSE req[r].snap

\* The absolute ceiling, as an instant
Ceiling(rec) == rec.issued + MaxLifetime

\* Mutant of TokenCheck: a retired token is treated like any other wrong one.
TokenCheck_NoReplay(rec, t, now) ==
    IF rec.refresh # t THEN "NAP_REFRESH_UNKNOWN_TOKEN"
    ELSE IF rec.revoked THEN "NAP_REFRESH_REVOKED"
    ELSE IF rec.refreshExp < now THEN "NAP_REFRESH_EXPIRED"
    ELSE IF MaxLifetime # None /\ now >= Ceiling(rec) THEN "NAP_REFRESH_EXPIRED"
    ELSE "none"

\* The checks on the held record, in the order they are made; "none" passes them all.
TokenCheck(rec, t, now) ==
    IF rec.prev = t THEN "NAP_REFRESH_REUSED"
    ELSE IF rec.refresh # t THEN "NAP_REFRESH_UNKNOWN_TOKEN"
    ELSE IF rec.revoked THEN "NAP_REFRESH_REVOKED"
    ELSE IF rec.refreshExp < now THEN "NAP_REFRESH_EXPIRED"
    ELSE IF MaxLifetime # None /\ now >= Ceiling(rec) THEN "NAP_REFRESH_EXPIRED"
    ELSE "none"

\* `now' is read here, after the lookup, and used to the end of the request. A replay
\* revokes the session: in the same segment in memory, by a query of its own in Postgres.
RefreshCheck(r) ==
    /\ req[r].pc = "check"
    /\ LET code == TokenCheck(Held(r), req[r].token, clock) IN
       \/ /\ code = "none"
          /\ Become(r, [req[r] EXCEPT !.pc = "resolve", !.now = clock, !.snap = NoSession])
          /\ UNCHANGED sess
       \/ /\ code = "NAP_REFRESH_REUSED" /\ Backend = "postgres"
          /\ Become(r, [req[r] EXCEPT !.pc = "revoke", !.snap = NoSession])
          /\ UNCHANGED sess
       \/ /\ code = "NAP_REFRESH_REUSED" /\ Backend = "memory"
          /\ sess' = Revoked({req[r].sid})
          /\ Finish(r, code)
       \/ /\ code \notin {"none", "NAP_REFRESH_REUSED"}
          /\ Finish(r, code)
          /\ UNCHANGED sess
    /\ UNCHANGED <<byId, byAccess, byRefresh, swept, known, lreq, rest>>

RevokeReused(r) ==
    /\ req[r].pc = "revoke"
    /\ sess' = Revoked({req[r].sid})
    /\ Finish(r, "NAP_REFRESH_REUSED")
    /\ UNCHANGED <<byId, byAccess, byRefresh, swept, known, lreq, rest>>

\* The ACL is read again: allowed, denied for certain (suspended, which ends every session
\* of the principal), or denied because it could not be read.
ResolveAcl(r) ==
    /\ req[r].pc = "resolve"
    /\ \/ /\ acl[sess[req[r].sid].owner] = "active"
          /\ \E bound \in DecisionBound :
                Become(r, [req[r] EXCEPT !.pc = "rotate", !.bound = bound])
       \/ /\ acl[sess[req[r].sid].owner] = "suspended"
          /\ Become(r, [req[r] EXCEPT !.pc = "revoke_all"])
       \/ Finish(r, "NAP_REFRESH_ACL_DENIED")
    /\ UNCHANGED <<store, known, lreq, rest>>

RevokeAll(r) ==
    /\ req[r].pc = "revoke_all"
    /\ sess' = Revoked(SessionsOf(sess[req[r].sid].owner))
    /\ Finish(r, "NAP_REFRESH_ACL_DENIED")
    /\ UNCHANGED <<byId, byAccess, byRefresh, swept, known, lreq, rest>>

Lesser(a, b) == IF a = None THEN b ELSE IF b = None \/ a < b THEN a ELSE b

\* Mutant of Rotation: only the decision bounds the new access token.
Rotation_NoCeiling(rec, r) ==
    [rec EXCEPT !.access = r, !.refresh = r, !.prev = rec.refresh,
                !.exp = req[r].now + ClampTtl(SessionTtl, req[r].bound, req[r].now),
                !.refreshExp = req[r].now + RefreshTtl]

\* Mutant of Rotation: the row is rewritten as a new session's would be.
Rotation_Revives(rec, r) ==
    [rec EXCEPT !.access = r, !.refresh = r, !.prev = rec.refresh, !.revoked = FALSE]

\* Mutant of Rotation: the outgoing token is saved after it was overwritten.
Rotation_SavedTooLate(rec, r) ==
    [rec EXCEPT !.access = r, !.refresh = r, !.prev = r,
                !.exp = req[r].now + SessionTtl, !.refreshExp = req[r].now + RefreshTtl]

\* What rotateRefreshToken writes: both windows are clamped to the ceiling.
Rotation(rec, r) ==
    LET ceiling == IF MaxLifetime = None THEN None ELSE Ceiling(rec)
        bound   == Lesser(ceiling, req[r].bound)
    IN  [rec EXCEPT !.access = r, !.refresh = r, !.prev = rec.refresh,
                    !.exp = req[r].now + ClampTtl(SessionTtl, bound, req[r].now),
                    !.refreshExp = Lesser(ceiling, req[r].now + RefreshTtl)]

\* Mutant of MayRotate: the row is found by id only.
MayRotate_ById(r) == req[r].sid \in byId

\* The compare-and-swap. Postgres also requires that the row is not revoked; in memory a
\* revoked session is rotated, and stays revoked.
MayRotate(r) ==
    LET s == req[r].sid
    IN  /\ s \in byId /\ sess[s].refresh = req[r].token
        /\ Backend = "postgres" => ~sess[s].revoked

RefreshRotate(r) ==
    /\ req[r].pc = "rotate"
    /\ LET s == req[r].sid IN
       \/ /\ MayRotate(r)
          /\ sess' = [sess EXCEPT ![s] = Rotation(@, r)]
          /\ Become(r, [req[r] EXCEPT !.pc = "answer", !.now = 0, !.bound = None])
          /\ \/ /\ Backend = "memory"
                /\ byAccess' = [byAccess EXCEPT ![r] = s, ![sess[s].access] = None]
                /\ byRefresh' = [t \in Token |->
                      IF t = r THEN s ELSE IF t = sess[s].prev THEN None ELSE byRefresh[t]]
             \/ Backend = "postgres" /\ UNCHANGED <<byAccess, byRefresh>>
       \/ /\ ~MayRotate(r)
          /\ Finish(r, "NAP_REFRESH_INTERNAL")
          /\ UNCHANGED <<sess, byAccess, byRefresh>>
    /\ UNCHANGED <<byId, swept, known, lreq, rest>>

\* The answer is written after the audit log and the response padding, from the record
\* the handler holds.
RefreshAnswer(r) ==
    /\ req[r].pc = "answer"
    /\ known' = known \cup {IF Backend = "memory" THEN sess[req[r].sid].refresh ELSE r}
    /\ Finish(r, "NAP_REFRESH_SUCCESS")
    /\ UNCHANGED <<store, lreq, rest>>

\* A store, the resolver or the audit logger throws, or the process dies (over Postgres).
RefreshThrow(r) ==
    /\ req[r].pc \notin {"idle", "done"}
    /\ Finish(r, IF req[r].pc = "answer" THEN "lost" ELSE "thrown")
    /\ UNCHANGED <<store, known, lreq, rest>>

-----------------------------------------------------------------------------
(* POST /auth/logout *)

\* loadSession: getByAccessToken sweeps the in-memory store first.
LogoutLookup(l) ==
    /\ lreq[l].pc = "idle"
    /\ \E t \in known :
         \/ /\ FindByAccess(t) = {}
            /\ lreq' = [lreq EXCEPT ![l].pc = "done", ![l].token = t]
         \/ \E s \in FindByAccess(t) :
            lreq' = [lreq EXCEPT ![l] = [pc |-> "check", token |-> t, sid |-> s,
                                         exp |-> sess[s].exp]]
    /\ IndexesWithout(Evicted) /\ MarkSwept
    /\ UNCHANGED <<sess, known, req, rest>>

\* Whether loadSession returns the record it found
StillValid(l) ==
    IF Backend = "memory"
    THEN ~sess[lreq[l].sid].revoked /\ sess[lreq[l].sid].exp > clock
    ELSE lreq[l].exp > clock

\* ... and, if it does, revokeBySessionId; the answer is 204 either way.
LogoutCheck(l) ==
    /\ lreq[l].pc = "check"
    /\ \/ /\ StillValid(l) /\ Backend = "memory"
          /\ sess' = Revoked({lreq[l].sid})
          /\ lreq' = [lreq EXCEPT ![l].pc = "done"]
       \/ /\ StillValid(l) /\ Backend = "postgres"
          /\ lreq' = [lreq EXCEPT ![l].pc = "revoke"]
          /\ UNCHANGED sess
       \/ /\ ~StillValid(l)
          /\ lreq' = [lreq EXCEPT ![l].pc = "done"]
          /\ UNCHANGED sess
    /\ UNCHANGED <<byId, byAccess, byRefresh, swept, known, req, rest>>

LogoutRevoke(l) ==
    /\ lreq[l].pc = "revoke"
    /\ sess' = Revoked({lreq[l].sid})
    /\ lreq' = [lreq EXCEPT ![l].pc = "done"]
    /\ UNCHANGED <<byId, byAccess, byRefresh, swept, known, req, rest>>

-----------------------------------------------------------------------------
(* The rest of the deployment. *)

Tick ==
    /\ clock < MaxTime
    /\ clock' = clock + 1
    /\ UNCHANGED <<store, known, req, lreq, acl, admin, login, straddled>>

\* Any guarded request: getByAccessToken sweeps the in-memory sessions.
GuardedRead ==
    /\ Backend = "memory" /\ clock > swept
    /\ IndexesWithout(Evicted) /\ MarkSwept
    /\ UNCHANGED <<sess, known, req, lreq, rest>>

\* createRevokingAclStore().suspend: the row first, then the sessions.
Suspend(p) ==
    /\ p \notin admin
    /\ acl' = [acl EXCEPT ![p] = "suspended"]
    /\ admin' = admin \cup {p}
    /\ UNCHANGED <<clock, store, known, req, lreq, login, straddled>>

RevokeByPrincipal(p) ==
    /\ p \in admin
    /\ admin' = admin \ {p}
    /\ sess' = Revoked(SessionsOf(p))
    /\ UNCHANGED <<clock, byId, byAccess, byRefresh, swept, known, req, lreq, acl, login,
                   straddled>>

Unsuspend(p) ==
    /\ acl[p] = "suspended"
    /\ acl' = [acl EXCEPT ![p] = "active"]
    /\ UNCHANGED <<clock, store, known, req, lreq, admin, login, straddled>>

-----------------------------------------------------------------------------
RefreshStep(r) ==
    \/ RefreshRefuse(r) \/ RefreshLookup(r) \/ RefreshCheck(r) \/ RevokeReused(r)
    \/ ResolveAcl(r) \/ RevokeAll(r) \/ RefreshRotate(r) \/ RefreshAnswer(r)
    \/ RefreshThrow(r)

LogoutStep(l) == LogoutLookup(l) \/ LogoutCheck(l) \/ LogoutRevoke(l)

Operator(p) == Suspend(p) \/ RevokeByPrincipal(p) \/ Unsuspend(p)

LoginStep(s) == LoginResolve(s) \/ LoginStore(s) \/ LoginThrow(s) \/ RetryLogin(s)

Next ==
    \/ \E s \in Session : LoginStep(s)
    \/ \E r \in RefreshReq : RefreshStep(r)
    \/ \E l \in LogoutReq : LogoutStep(l)
    \/ \E p \in Principal : Operator(p)
    \/ Tick \/ GuardedRead

Spec == Init /\ [][Next]_vars

-----------------------------------------------------------------------------
(* Properties. *)

\* Every variable keeps the shape the records of nap-core/src/types.ts give it.
TypeOK ==
    /\ clock \in Nat
    /\ sess \in [Session -> SessionRecord]
    /\ byId \subseteq Session
    /\ byAccess \in [Token -> Opt(Session)]
    /\ byRefresh \in [Token -> Opt(Session)]
    /\ swept \in Int
    /\ known \subseteq Token
    /\ req \in [RefreshReq -> RefreshRequest]
    /\ lreq \in [LogoutReq -> LogoutRequest]
    /\ acl \in [Principal -> {"active", "suspended"}]
    /\ admin \subseteq Principal
    /\ login \in [Session -> LoginRecord]
    /\ straddled \subseteq Session

\* r's compare-and-swap went through, whether or not its caller heard of it.
HasRotated(r) == req[r].pc = "answer" \/ req[r].code \in {"lost", "NAP_REFRESH_SUCCESS"}

\* Rotation is single use: however many refreshes present one token at once, at most one
\* of them rotates the session off it.
OneRotationPerToken ==
    \A r1, r2 \in RefreshReq :
        HasRotated(r1) /\ HasRotated(r2) /\ req[r1].token = req[r2].token => r1 = r2

\* NAP_REFRESH_REUSED, the code operators alert on, is raised only if another request had
\* already spent the same token: a holder who uses each token once never triggers it.
ReuseMeansTwoUses ==
    \A r \in RefreshReq : req[r].code = "NAP_REFRESH_REUSED" =>
        \E r2 \in RefreshReq \ {r} : HasRotated(r2) /\ req[r2].token = req[r].token

\* A refresh token is called unknown only once no held session answers to it: the token a
\* session was last rotated off is always recognised as a replay.
RetiredTokenIsCaught ==
    \A r \in RefreshReq :
        req[r].code = "NAP_REFRESH_UNKNOWN_TOKEN" /\ req[r].token # None =>
            \A s \in byId : req[r].token \notin {sess[s].refresh, sess[s].prev}

\* A session that still works, for a guard or for a refresh
Usable(s) ==
    s \in byId /\ ~sess[s].revoked /\ (sess[s].exp > clock \/ sess[s].refreshExp >= clock)

\* A replay ends the lineage: once it is answered NAP_REFRESH_REUSED no token of the
\* session works, also if a rotation was in flight when the session was revoked.
ReplayEndsLineage ==
    \A r \in RefreshReq : req[r].code = "NAP_REFRESH_REUSED" => ~Usable(req[r].sid)

\* The in-memory index maps are views of the same records: a token resolves exactly while
\* its session is held and it is the current one (or, to refresh, the one before).
IndexesAgree ==
    Backend = "memory" => \A t \in Token, s \in Session :
        /\ byAccess[t] = s <=> s \in byId /\ sess[s].access = t
        /\ byRefresh[t] = s <=> s \in byId /\ t \in {sess[s].refresh, sess[s].prev}

\* The ceiling is a wall: no access token outlives the original login by more than
\* maxSessionLifetimeSeconds, however often it was refreshed.
CeilingHolds ==
    MaxLifetime # None =>
        \A s \in Session : sess[s] # NoSession => sess[s].exp <= Ceiling(sess[s])

\* Once suspend() has returned, and until it is lifted, a refresh carries no session of the
\* principal across it: what still works is a session whose login read the ACL before the
\* suspension and stored it after, on the tokens it was born with. createForChallenge does
\* not look again, so such a session lives out its first windows unless it is refreshed.
SuspensionSurvivesRefresh ==
    \A p \in Principal : Suspended(p) =>
        \A s \in Session : sess[s].owner = p /\ Usable(s) =>
            s \in straddled /\ sess[s].refresh = s

-----------------------------------------------------------------------------
(* The inductive invariant behind rotation. *)

Exists(s) == sess[s].refresh # None

Minted(t) == IF t \in Session THEN Exists(t) ELSE HasRotated(t)

MintedFor(t, s) == t = s \/ (t \in RefreshReq /\ HasRotated(t) /\ req[t].sid = s)

Ended(s) == s \in byId => sess[s].revoked

Spent(t) == \E x \in RefreshReq : HasRotated(x) /\ req[x].token = t

\* A session's tokens were minted for it, and the one before the current was spent.
OwnTokens(s) ==
    /\ s \in byId => Exists(s)
    /\ sess[s].access = sess[s].refresh
    /\ Exists(s) => MintedFor(sess[s].refresh, s) /\ ~Spent(sess[s].refresh)
    /\ sess[s].prev # None => MintedFor(sess[s].prev, s) /\ Spent(sess[s].prev)

\* A request presents a minted token, and holds what the awaits behind it produced. A copy
\* it holds may be old: what was spent then still is.
OwnLocals(r) ==
    /\ req[r].token # None => Minted(req[r].token)
    /\ req[r].sid # None => Exists(req[r].sid)
    /\ req[r].snap.prev # None => Spent(req[r].snap.prev)
    /\ req[r].pc # "done" => req[r].code = "none"
    /\ req[r].pc \notin {"idle", "done"} => req[r].token # None /\ req[r].sid # None
    /\ HasRotated(r) => req[r].token # None
    /\ req[r].pc = "revoke" \/ req[r].code = "NAP_REFRESH_REUSED" =>
          req[r].sid # None /\ Spent(req[r].token)

\* A replay revokes the session, if the store still holds it: the expiry of its windows
\* would not do, a rotation in flight extends them.
ReplayRevokes ==
    \A r \in RefreshReq : req[r].code = "NAP_REFRESH_REUSED" => Ended(req[r].sid)

\* Inductive; implies OneRotationPerToken, ReuseMeansTwoUses, ReplayEndsLineage and
\* IndexesAgree.
LineageInv ==
    /\ TypeOK
    /\ \A s \in Session : OwnTokens(s)
    /\ \A t \in known : Minted(t)
    /\ \A r \in RefreshReq : OwnLocals(r)
    /\ OneRotationPerToken
    /\ ReplayRevokes
    /\ IndexesAgree

\* A request presents a token of the session it found; a copy it holds answers to the token
\* it was found by.
PresentsOwn(r) ==
    /\ req[r].sid # None => MintedFor(req[r].token, req[r].sid)
    /\ req[r].pc = "check" /\ Backend = "postgres" =>
          req[r].token \in {req[r].snap.refresh, req[r].snap.prev}

\* Inductive relative to LineageInv: a token no held session answers to is never taken up
\* again, since a session only takes up fresh ones and keeps the one before.
CaughtInv == RetiredTokenIsCaught /\ \A r \in RefreshReq : PresentsOwn(r)
=============================================================================
