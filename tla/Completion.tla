---------------------------- MODULE Completion ----------------------------
(***************************************************************************)
(* Login: POST /auth/init issues a challenge, POST /auth/complete redeems  *)
(* it for a session (nap-server/src/server.ts), over the in-memory stores  *)
(* (nap-server/src/memory.ts) or the Postgres ones                         *)
(* (nap-store-postgres/src/index.ts), while an operator suspends           *)
(* principals through createRevokingAclStore and holders log out.          *)
(*                                                                         *)
(* A handler is a coroutine: it runs without interruption from one await   *)
(* to the next, so each action below is one such segment and `pc' names    *)
(* the await a request is suspended in.                                    *)
(***************************************************************************)
EXTENDS Integers, FiniteSets

CONSTANTS
    InitReq,         \* POST /auth/init requests; a request's challenge_id is the request
    CompReq,         \* POST /auth/complete requests; the session_id one draws is the request
    Principal,       \* npub and pubkey are two encodings of one principal
    Ip,              \* caller addresses
    Event,           \* signed NIP-98 events, identified by their contents
    None,            \* the unset value of an optional field
    Backend,         \* "memory" or "postgres"
    ChallengeTtl, SessionTtl, ResultCacheTtl,
    RefreshTtl,      \* 0: refreshTtlSeconds is not configured
    MaxFailures,     \* maxFailuresPerChallenge; 0 disables the budget
    MaxPerNpub, MaxPerIp,        \* outstanding-challenge caps; 0 disables one
    MaxClockSkew, LowerGrace, UpperGrace,
    DecisionBound,   \* the expires_at values a resolver may answer with; None is "no bound"
    Suspendable,     \* bound: the principals the operator acts on
    MaxInFlight,     \* bound: init requests in progress at once
    MaxTime          \* bound: last clock value

\* An optional field of type S
Opt(S) == S \cup {None}

\* What verifyCompletion reads of a signed event and the body it covers: who signed it,
\* the challenge it names, whether it carries that challenge's value, and its created_at.
EventRecord == [id : Nat, signer : Principal, cid : InitReq, matches : BOOLEAN, created : Int]

ASSUME EventAssumption == Event \subseteq EventRecord
ASSUME NoneAssumption ==
    /\ None \notin Principal /\ None \notin Event /\ None \notin CompReq
    /\ None \notin InitReq /\ None \notin Ip /\ None \notin Int
ASSUME BackendAssumption == Backend \in {"memory", "postgres"}
ASSUME TtlAssumption ==
    /\ ChallengeTtl \in Nat \ {0} /\ SessionTtl \in Nat \ {0}
    /\ ResultCacheTtl \in Nat /\ RefreshTtl \in Nat
    /\ MaxClockSkew \in Nat /\ LowerGrace \in Nat /\ UpperGrace \in Nat
ASSUME LimitAssumption ==
    /\ MaxFailures \in Nat /\ MaxPerNpub \in Nat /\ MaxPerIp \in Nat
    /\ MaxInFlight \in Nat \ {0} /\ MaxTime \in Nat
    /\ DecisionBound \subseteq Opt(Int) /\ Suspendable \subseteq Principal

VARIABLES
    clock,       \* options.clock, shared by the server and its stores
    chal,        \* the challenge table
    chalSwept,   \* InMemoryChallengeStore.lastSweptAt, -1 before the first sweep
    sess,        \* the session table
    sessSwept,   \* InMemorySessionStore.lastSweptAt
    ireq,        \* the init requests
    creq,        \* the completion requests
    acl,         \* whether each principal's ACL row admits it
    admin        \* principals whose suspension has yet to revoke their sessions

vars == <<clock, chal, chalSwept, sess, sessSwept, ireq, creq, acl, admin>>

-----------------------------------------------------------------------------
(* The records. *)

ChallengeState == {"absent", "issued", "redeemed", "expired", "failed_terminal"}

ChallengeRecord ==
    [state : ChallengeState, npub : Opt(Principal), ip : Opt(Ip),
     issued : Int, exp : Int,
     event : Opt(Event), sid : Opt(CompReq), cacheUntil : Opt(Int),
     failures : Nat]

NoChallenge ==
    [state |-> "absent", npub |-> None, ip |-> None, issued |-> 0, exp |-> 0,
     event |-> None, sid |-> None, cacheUntil |-> None, failures |-> 0]

SessionRecord ==
    [state : {"absent", "live", "revoked"}, cid : Opt(InitReq),
     npub : Opt(Principal), issued : Int, exp : Int, refreshExp : Int]

NoSession ==
    [state |-> "absent", cid |-> None, npub |-> None, issued |-> 0, exp |-> 0,
     refreshExp |-> 0]

\* The awaits of issueChallengeUnpadded and its outcomes; "lost" is a row that was inserted
\* by a query that then failed, so that nobody was told of it.
InitPc == {"idle", "count", "count_npub", "count_ip", "create", "issued", "lost", "refused"}

InitRequest == [pc : InitPc, npub : Opt(Principal), ip : Opt(Ip), now : Int]

\* The awaits of verifyCompletionUnpadded, in order, and "done".
CompPc == {"idle", "load", "spend", "resolve", "create", "reuse", "redeem", "recheck",
           "log", "reload", "fetch", "done"}

\* How a request ended; "thrown" is a rejected promise, the adapter's 500.
Code == {"none", "thrown", "NAP_COMPLETE_SUCCESS", "NAP_COMPLETE_REJECTED",
         "NAP_COMPLETE_RATE_LIMITED", "NAP_COMPLETE_CREATED_AT_OUT_OF_RANGE",
         "NAP_COMPLETE_UNKNOWN_CHALLENGE", "NAP_COMPLETE_EXPIRED_CHALLENGE",
         "NAP_COMPLETE_FAILED_TERMINAL", "NAP_COMPLETE_PRINCIPAL_MISMATCH",
         "NAP_COMPLETE_CHALLENGE_MISMATCH", "NAP_COMPLETE_ACL_DENIED",
         "NAP_COMPLETE_REDEEMED_CHALLENGE", "NAP_COMPLETE_INTERNAL"}

CompRequest ==
    [pc : CompPc, event : Opt(Event), now : Int,
     npub : Opt(Principal),       \* of the challenge it loaded
     bound : Opt(Int),            \* of the ACL decision it got
     sid : Opt(CompReq), code : Code]

NoCompRequest ==
    [pc |-> "idle", event |-> None, now |-> 0, npub |-> None, bound |-> None,
     sid |-> None, code |-> "none"]

Init ==
    /\ clock = 0
    /\ chal = [c \in InitReq |-> NoChallenge]
    /\ chalSwept = -1
    /\ sess = [s \in CompReq |-> NoSession]
    /\ sessSwept = -1
    /\ ireq = [i \in InitReq |-> [pc |-> "idle", npub |-> None, ip |-> None, now |-> 0]]
    /\ creq = [r \in CompReq |-> NoCompRequest]
    /\ acl = [p \in Principal |-> "active"]
    /\ admin = {}

-----------------------------------------------------------------------------
(* The stores. *)

Present(c) == chal[c].state # "absent"

\* result_cache_until ?? expires_at
ChallengeRetainUntil(rec) == IF rec.cacheUntil # None THEN rec.cacheUntil ELSE rec.exp

\* InMemoryChallengeStore.sweep: at most once per clock tick; Postgres keeps its rows.
SweptChallenges ==
    IF Backend = "memory" /\ clock > chalSwept
    THEN [c \in InitReq |->
            IF ChallengeRetainUntil(chal[c]) < clock THEN NoChallenge ELSE chal[c]]
    ELSE chal

SessionRetainUntil(rec) == IF rec.refreshExp > rec.exp THEN rec.refreshExp ELSE rec.exp

\* InMemorySessionStore.sweep
SweptSessions ==
    IF Backend = "memory" /\ clock > sessSwept
    THEN [s \in CompReq |->
            IF SessionRetainUntil(sess[s]) < clock THEN NoSession ELSE sess[s]]
    ELSE sess

MarkSwept(swept) == IF Backend = "memory" /\ clock > swept THEN clock ELSE swept

\* countOutstanding: what it counts, before its filters
Outstanding(now) == {c \in InitReq : chal[c].state = "issued" /\ chal[c].exp >= now}

\* The npub count is scoped to the caller's address when there is one.
OutstandingForNpub(p, ip, now) ==
    {c \in Outstanding(now) : chal[c].npub = p /\ (ip # None => chal[c].ip = ip)}

OutstandingForIp(ip, now) == {c \in Outstanding(now) : chal[c].ip = ip}

\* The rows of challenge c; revoked ones included.
SessionsOf(table, c) == {s \in CompReq : table[s].state # "absent" /\ table[s].cid = c}

-----------------------------------------------------------------------------
(* POST /auth/init *)

InFlight == {i \in InitReq : ireq[i].pc \in {"count", "count_npub", "count_ip", "create"}}

\* Rate limited, or the npub does not decode: nothing is written.
InitRefuse(i) ==
    /\ ireq[i].pc = "idle"
    /\ ireq' = [ireq EXCEPT ![i].pc = "refused"]
    /\ UNCHANGED <<clock, chal, chalSwept, sess, sessSwept, creq, acl, admin>>

\* The limiter let it through and the npub decoded; `now' is read once, here.
InitBegin(i) ==
    /\ ireq[i].pc = "idle"
    /\ Cardinality(InFlight) < MaxInFlight
    /\ \E p \in Principal, ip \in Opt(Ip) :
          ireq' = [ireq EXCEPT ![i] = [pc |-> "count", npub |-> p, ip |-> ip, now |-> clock]]
    /\ UNCHANGED <<clock, chal, chalSwept, sess, sessSwept, creq, acl, admin>>

\* Mutant of ExceedsNpubCap: an off-by-one in the comparison.
ExceedsNpubCap_OffByOne(q) ==
    MaxPerNpub > 0 /\ Cardinality(OutstandingForNpub(q.npub, q.ip, q.now)) > MaxPerNpub

\* findExceededOutstandingCap
ExceedsNpubCap(q) ==
    MaxPerNpub > 0 /\ Cardinality(OutstandingForNpub(q.npub, q.ip, q.now)) >= MaxPerNpub

ExceedsIpCap(q) ==
    q.ip # None /\ MaxPerIp > 0 /\ Cardinality(OutstandingForIp(q.ip, q.now)) >= MaxPerIp

\* The two counts are in flight together: one segment in memory, two queries in Postgres,
\* answered in either order.
InitCount(i) ==
    /\ ireq[i].pc = "count"
    /\ LET q == ireq[i] IN
       \/ /\ Backend = "memory"
          /\ ireq' = [ireq EXCEPT ![i].pc =
                         IF ExceedsNpubCap(q) \/ ExceedsIpCap(q) THEN "refused" ELSE "create"]
       \/ /\ Backend = "postgres"
          /\ ireq' = [ireq EXCEPT ![i].pc = IF ExceedsNpubCap(q) THEN "refused" ELSE "count_ip"]
       \/ /\ Backend = "postgres"
          /\ ireq' = [ireq EXCEPT ![i].pc = IF ExceedsIpCap(q) THEN "refused" ELSE "count_npub"]
    /\ UNCHANGED <<clock, chal, chalSwept, sess, sessSwept, creq, acl, admin>>

InitCountRest(i) ==
    /\ \/ /\ ireq[i].pc = "count_ip"
          /\ ireq' = [ireq EXCEPT ![i].pc =
                         IF ExceedsIpCap(ireq[i]) THEN "refused" ELSE "create"]
       \/ /\ ireq[i].pc = "count_npub"
          /\ ireq' = [ireq EXCEPT ![i].pc =
                         IF ExceedsNpubCap(ireq[i]) THEN "refused" ELSE "create"]
    /\ UNCHANGED <<clock, chal, chalSwept, sess, sessSwept, creq, acl, admin>>

NewChallenge(q) ==
    [NoChallenge EXCEPT !.state = "issued", !.npub = q.npub, !.ip = q.ip,
                        !.issued = q.now, !.exp = q.now + ChallengeTtl]

\* challengeStore.create: the in-memory store sweeps first.
InitCreate(i) ==
    /\ ireq[i].pc = "create"
    /\ ireq' = [ireq EXCEPT ![i].pc = "issued"]
    /\ chal' = [SweptChallenges EXCEPT ![i] = NewChallenge(ireq[i])]
    /\ chalSwept' = MarkSwept(chalSwept)
    /\ UNCHANGED <<clock, sess, sessSwept, creq, acl, admin>>

\* The query failed, before or after the insert took effect: NAP_INIT_INTERNAL.
InitFail(i) ==
    /\ ireq[i].pc = "create"
    /\ Backend = "postgres"
    /\ \/ ireq' = [ireq EXCEPT ![i].pc = "refused"] /\ UNCHANGED chal
       \/ /\ ireq' = [ireq EXCEPT ![i].pc = "lost"]
          /\ chal' = [chal EXCEPT ![i] = NewChallenge(ireq[i])]
    /\ UNCHANGED <<clock, chalSwept, sess, sessSwept, creq, acl, admin>>

-----------------------------------------------------------------------------
(* POST /auth/complete *)

\* The handler runs to its next await, or to its end.
Become(r, q) == creq' = [creq EXCEPT ![r] = q]

\* On to `pc', with s in hand as the session to answer with
WithSession(q, pc, s) == [q EXCEPT !.pc = pc, !.sid = s]

\* The handler returns and its locals go with it; what it answered stays, and for the
\* properties the event it answered and the `now' it answered at.
Answered(q, code) ==
    [NoCompRequest EXCEPT !.pc = "done", !.code = code, !.event = q.event, !.now = q.now,
                          !.sid = IF code = "NAP_COMPLETE_SUCCESS" THEN q.sid ELSE None]

Finish(r, code) == Become(r, Answered(creq[r], code))

\* ... or ends in a way that says nothing of the challenge.
GiveUp(r, code) == Become(r, [NoCompRequest EXCEPT !.pc = "done", !.code = code])

\* Malformed body, rate limited by address, or a proof that does not verify: refused
\* before any challenge is read.
CompleteReject(r) ==
    /\ creq[r].pc = "idle"
    /\ GiveUp(r, "NAP_COMPLETE_REJECTED")
    /\ UNCHANGED <<clock, chal, chalSwept, sess, sessSwept, ireq, acl, admin>>

\* validateCreatedAtWindow
InClockSkew(created, now) == now - created <= MaxClockSkew /\ created - now <= MaxClockSkew

\* `now' is read once, before the proof is checked, and used to the end of the request.
\* Only someone who saw the init response can carry the challenge's value.
CompleteBegin(r) ==
    /\ creq[r].pc = "idle"
    /\ \E e \in Event :
          /\ e.matches => ireq[e.cid].pc = "issued"
          /\ \/ /\ InClockSkew(e.created, clock)
                /\ Become(r, [creq[r] EXCEPT !.event = e, !.now = clock, !.pc = "load"])
             \/ /\ ~InClockSkew(e.created, clock)
                /\ GiveUp(r, "NAP_COMPLETE_CREATED_AT_OUT_OF_RANGE")
    /\ UNCHANGED <<clock, chal, chalSwept, sess, sessSwept, ireq, acl, admin>>

\* The second limiter check, on the proved pubkey.
CompleteRateLimited(r) ==
    /\ creq[r].pc = "load"
    /\ GiveUp(r, "NAP_COMPLETE_RATE_LIMITED")
    /\ UNCHANGED <<clock, chal, chalSwept, sess, sessSwept, ireq, acl, admin>>

\* validateChallengeBoundCreatedAt
InChallengeWindow(created, rec) ==
    created >= rec.issued - LowerGrace /\ created <= rec.exp + UpperGrace

\* The checks on the loaded record, in the order they are made; "none" passes them all.
ChallengeCheck(e, now, rec) ==
    IF rec.state = "absent" THEN "NAP_COMPLETE_UNKNOWN_CHALLENGE"
    ELSE IF rec.exp < now \/ rec.state = "expired" THEN "NAP_COMPLETE_EXPIRED_CHALLENGE"
    ELSE IF rec.state = "failed_terminal" THEN "NAP_COMPLETE_FAILED_TERMINAL"
    ELSE IF rec.npub # e.signer THEN "NAP_COMPLETE_PRINCIPAL_MISMATCH"
    ELSE IF ~e.matches THEN "NAP_COMPLETE_CHALLENGE_MISMATCH"
    ELSE IF ~InChallengeWindow(e.created, rec) THEN "NAP_COMPLETE_CREATED_AT_OUT_OF_RANGE"
    ELSE "none"

\* The failures that count against the challenge's budget.
SpendingCode == {"NAP_COMPLETE_CHALLENGE_MISMATCH", "NAP_COMPLETE_CREATED_AT_OUT_OF_RANGE"}

LoadChallenge(r) ==
    /\ creq[r].pc = "load"
    /\ LET rec == chal[creq[r].event.cid]
           code == ChallengeCheck(creq[r].event, creq[r].now, rec)
       IN  \/ /\ code = "none"
              /\ Become(r, [creq[r] EXCEPT !.pc = "resolve", !.npub = rec.npub])
           \/ /\ code \in SpendingCode
              /\ Become(r, [creq[r] EXCEPT !.pc = "spend", !.code = code])
           \/ /\ code \notin SpendingCode \cup {"none"}
              /\ Finish(r, code)
    /\ UNCHANGED <<clock, chal, chalSwept, sess, sessSwept, ireq, acl, admin>>

\* Mutant of Spent: one failure too many before the challenge is closed.
Spent_OffByOne(rec) ==
    [rec EXCEPT !.failures = @ + 1,
                !.state = IF rec.failures + 1 > MaxFailures THEN "failed_terminal" ELSE @]

\* ChallengeStore.recordFailure on an issued challenge
Spent(rec) ==
    [rec EXCEPT !.failures = @ + 1,
                !.state = IF rec.failures + 1 >= MaxFailures THEN "failed_terminal" ELSE @]

\* The audit logger, or the reply to the query, may still fail once the row is written.
RecordFailure(r) ==
    /\ creq[r].pc = "spend"
    /\ Finish(r, creq[r].code) \/ Finish(r, "thrown")
    /\ LET c == creq[r].event.cid
       IN  chal' = IF MaxFailures > 0 /\ chal[c].state = "issued"
                   THEN [chal EXCEPT ![c] = Spent(@)] ELSE chal
    /\ UNCHANGED <<clock, chalSwept, sess, sessSwept, ireq, acl, admin>>

\* aclResolver.resolve. A suspended principal is denied, and so is one whose ACL cannot be
\* read; an admitting decision may carry an expiry of its own.
ResolveAcl(r) ==
    /\ creq[r].pc = "resolve"
    /\ \/ Finish(r, "NAP_COMPLETE_ACL_DENIED")
       \/ /\ acl[creq[r].npub] = "active"
          /\ \E b \in DecisionBound :
                Become(r, [creq[r] EXCEPT !.pc = "create", !.bound = b])
    /\ UNCHANGED <<clock, chal, chalSwept, sess, sessSwept, ireq, acl, admin>>

\* clampTtlToDecision: never lengthens, and is at least one second.
ClampTtl(ttl, bound, now) ==
    IF bound = None \/ bound - now >= ttl THEN ttl
    ELSE IF bound - now > 1 THEN bound - now ELSE 1

\* createSessionRecord
NewSession(q) ==
    [state |-> "live", cid |-> q.event.cid, npub |-> q.npub, issued |-> q.now,
     exp |-> q.now + ClampTtl(SessionTtl, q.bound, q.now),
     refreshExp |-> IF RefreshTtl > 0 THEN q.now + RefreshTtl ELSE 0]

\* Mutant of ExistingSessions: createForChallenge inserts without looking.
ExistingSessions_None(r) == {}

\* The row createForChallenge finds in the way, if any; revoked ones count.
ExistingSessions(r) == SessionsOf(SweptSessions, creq[r].event.cid)

\* createForChallenge inserts the drawn record when the challenge has no row yet.
CreateSession(r) ==
    /\ creq[r].pc = "create"
    /\ ExistingSessions(r) = {}
    /\ sess' = [SweptSessions EXCEPT ![r] = NewSession(creq[r])]
    /\ Become(r, WithSession(creq[r], "redeem", r))
    /\ sessSwept' = MarkSwept(sessSwept)
    /\ UNCHANGED <<clock, chal, chalSwept, ireq, acl, admin>>

\* ... and otherwise answers with the row that is there: at once in memory, with a
\* second query in Postgres.
LoseCreate(r) ==
    /\ creq[r].pc = "create"
    /\ \E s \in ExistingSessions(r) :
          Become(r, IF Backend = "memory"
                    THEN WithSession(creq[r], "redeem", s)
                    ELSE [creq[r] EXCEPT !.pc = "reuse"])
    /\ sess' = SweptSessions
    /\ sessSwept' = MarkSwept(sessSwept)
    /\ UNCHANGED <<clock, chal, chalSwept, ireq, acl, admin>>

\* Postgres reloads through findBy, which does not see a revoked row, and throws then.
ReuseSession(r) ==
    /\ creq[r].pc = "reuse"
    /\ LET live == {s \in SessionsOf(sess, creq[r].event.cid) : sess[s].state = "live"}
       IN  \/ live = {} /\ GiveUp(r, "thrown")
           \/ \E s \in live : Become(r, WithSession(creq[r], "redeem", s))
    /\ UNCHANGED <<clock, chal, chalSwept, sess, sessSwept, ireq, acl, admin>>

Redeemed(rec, q) ==
    [rec EXCEPT !.state = "redeemed", !.event = q.event, !.sid = q.sid,
                !.cacheUntil = q.now + ResultCacheTtl]

\* What a redemption answers when it did not happen: the code, or "none" to reload.
RefusedRedeem(rec, now) ==
    IF rec.state = "absent" THEN "NAP_COMPLETE_UNKNOWN_CHALLENGE"
    ELSE IF rec.exp < now \/ rec.state = "expired" THEN "NAP_COMPLETE_EXPIRED_CHALLENGE"
    ELSE "none"

RefuseOrReload(r, rec) ==
    LET code == RefusedRedeem(rec, creq[r].now)
    IN  \/ code = "none" /\ Become(r, [creq[r] EXCEPT !.pc = "reload"])
        \/ code # "none" /\ Finish(r, code)

\* Mutant of MayRedeem: only redeemed rows are refused.
MayRedeem_NotRedeemed(rec, now) == rec.state \notin {"absent", "redeemed"} /\ rec.exp >= now

\* InMemoryChallengeStore.redeem accepts at expires_at itself ...
MayRedeem(rec, now) == rec.state = "issued" /\ rec.exp >= now

\* ... and its checks and its write are one segment. It writes `expired' on refusing a
\* row as late, whatever the row's state was.
RedeemMemory(r) ==
    /\ creq[r].pc = "redeem"
    /\ Backend = "memory"
    /\ LET c == creq[r].event.cid
       IN  \/ /\ MayRedeem(chal[c], creq[r].now)
              /\ chal' = [chal EXCEPT ![c] = Redeemed(@, creq[r])]
              /\ Become(r, [creq[r] EXCEPT !.pc = "log"])
           \/ /\ ~MayRedeem(chal[c], creq[r].now)
              /\ chal' = IF Present(c) /\ chal[c].exp < creq[r].now
                         THEN [chal EXCEPT ![c].state = "expired"] ELSE chal
              /\ RefuseOrReload(r, chal[c])
    /\ UNCHANGED <<clock, chalSwept, sess, sessSwept, ireq, acl, admin>>

\* Mutant of MatchesUpdate: the WHERE clause lost its state.
MatchesUpdate_AnyState(rec, now) == rec.state # "absent" /\ rec.exp > now

\* PostgresChallengeStore.redeem: one UPDATE, WHERE state = 'issued' AND expires_at > now
MatchesUpdate(rec, now) == rec.state = "issued" /\ rec.exp > now

RedeemPostgres(r) ==
    /\ creq[r].pc = "redeem"
    /\ Backend = "postgres"
    /\ LET c == creq[r].event.cid
       IN  \/ /\ MatchesUpdate(chal[c], creq[r].now)
              /\ chal' = [chal EXCEPT ![c] = Redeemed(@, creq[r])]
              /\ Become(r, [creq[r] EXCEPT !.pc = "log"])
           \/ /\ ~MatchesUpdate(chal[c], creq[r].now)
              /\ Become(r, [creq[r] EXCEPT !.pc = "recheck"])
              /\ UNCHANGED chal
    /\ UNCHANGED <<clock, chalSwept, sess, sessSwept, ireq, acl, admin>>

\* ... and, when it matched no row, a second query that says why.
RedeemRecheck(r) ==
    /\ creq[r].pc = "recheck"
    /\ RefuseOrReload(r, chal[creq[r].event.cid])
    /\ UNCHANGED <<clock, chal, chalSwept, sess, sessSwept, ireq, acl, admin>>

\* logSuccess, and the answer: what a client loses if either fails is the answer only.
LogSuccess(r) ==
    /\ creq[r].pc = "log"
    /\ Finish(r, "NAP_COMPLETE_SUCCESS")
    /\ UNCHANGED <<clock, chal, chalSwept, sess, sessSwept, ireq, acl, admin>>

\* Mutant of IsRetry: any event counts as the winner's.
IsRetry_AnyEvent(rec, q) ==
    /\ rec.sid # None
    /\ rec.cacheUntil # None => rec.cacheUntil >= q.now

\* A retry of the proof that won, inside its result-cache window
IsRetry(rec, q) ==
    /\ rec.event = q.event /\ rec.sid # None
    /\ rec.cacheUntil # None => rec.cacheUntil >= q.now

\* "already_redeemed": such a retry gets the winner's session; anything else is refused.
ReloadChallenge(r) ==
    /\ creq[r].pc = "reload"
    /\ LET rec == chal[creq[r].event.cid]
       IN  \/ /\ IsRetry(rec, creq[r])
              /\ Become(r, WithSession(creq[r], "fetch", rec.sid))
           \/ /\ ~IsRetry(rec, creq[r])
              /\ Finish(r, "NAP_COMPLETE_REDEEMED_CHALLENGE")
    /\ UNCHANGED <<clock, chal, chalSwept, sess, sessSwept, ireq, acl, admin>>

\* sessionStore.getBySessionId: Postgres does not see a revoked row.
FetchSession(r) ==
    /\ creq[r].pc = "fetch"
    /\ LET seen == IF Backend = "memory" THEN {"live", "revoked"} ELSE {"live"}
       IN  Finish(r, IF sess[creq[r].sid].state \in seen
                     THEN "NAP_COMPLETE_SUCCESS" ELSE "NAP_COMPLETE_INTERNAL")
    /\ UNCHANGED <<clock, chal, chalSwept, sess, sessSwept, ireq, acl, admin>>

\* A store, the resolver or the audit logger throws while the request is suspended, or
\* (over Postgres) the process dies: what it wrote so far stays written.
CompleteThrow(r) ==
    /\ creq[r].pc \notin {"idle", "done"}
    /\ GiveUp(r, "thrown")
    /\ UNCHANGED <<clock, chal, chalSwept, sess, sessSwept, ireq, acl, admin>>

-----------------------------------------------------------------------------
(* The rest of the deployment. *)

Tick ==
    /\ clock < MaxTime
    /\ clock' = clock + 1
    /\ UNCHANGED <<chal, chalSwept, sess, sessSwept, ireq, creq, acl, admin>>

\* ChallengeStore.markExpired, called by the embedding application's housekeeping
MarkExpired ==
    /\ chal' = [c \in InitReq |->
                  IF chal[c].state = "issued" /\ chal[c].exp < clock
                  THEN [chal[c] EXCEPT !.state = "expired"] ELSE chal[c]]
    /\ chal' # chal
    /\ UNCHANGED <<clock, chalSwept, sess, sessSwept, ireq, creq, acl, admin>>

\* Any guarded request: getByAccessToken sweeps the in-memory sessions.
GuardedRead ==
    /\ sess' = SweptSessions
    /\ sessSwept' = MarkSwept(sessSwept)
    /\ UNCHANGED <<clock, chal, chalSwept, ireq, creq, acl, admin>>

HandedOut(s) == \E r \in CompReq : creq[r].code = "NAP_COMPLETE_SUCCESS" /\ creq[r].sid = s

\* POST /auth/logout with a session's token: loadSession, then revokeBySessionId
Logout(s) ==
    /\ HandedOut(s)
    /\ sess[s].state = "live" /\ sess[s].exp > clock
    /\ sess' = [SweptSessions EXCEPT ![s].state = "revoked"]
    /\ sessSwept' = MarkSwept(sessSwept)
    /\ UNCHANGED <<clock, chal, chalSwept, ireq, creq, acl, admin>>

\* createRevokingAclStore().suspend: the row first, then the sessions.
Suspend(p) ==
    /\ p \notin admin
    /\ acl' = [acl EXCEPT ![p] = "suspended"]
    /\ admin' = admin \cup {p}
    /\ UNCHANGED <<clock, chal, chalSwept, sess, sessSwept, ireq, creq>>

RevokeByPrincipal(p) ==
    /\ p \in admin
    /\ admin' = admin \ {p}
    /\ sess' = [s \in CompReq |->
                  IF sess[s].state = "live" /\ sess[s].npub = p
                  THEN [sess[s] EXCEPT !.state = "revoked"] ELSE sess[s]]
    /\ UNCHANGED <<clock, chal, chalSwept, sessSwept, ireq, creq, acl>>

Unsuspend(p) ==
    /\ acl[p] = "suspended"
    /\ acl' = [acl EXCEPT ![p] = "active"]
    /\ UNCHANGED <<clock, chal, chalSwept, sess, sessSwept, ireq, creq, admin>>

-----------------------------------------------------------------------------
InitStep(i) ==
    InitRefuse(i) \/ InitBegin(i) \/ InitCount(i) \/ InitCountRest(i) \/ InitCreate(i)
    \/ InitFail(i)

CompleteStep(r) ==
    \/ CompleteReject(r) \/ CompleteBegin(r) \/ CompleteRateLimited(r)
    \/ LoadChallenge(r) \/ RecordFailure(r) \/ ResolveAcl(r)
    \/ CreateSession(r) \/ LoseCreate(r) \/ ReuseSession(r)
    \/ RedeemMemory(r) \/ RedeemPostgres(r) \/ RedeemRecheck(r)
    \/ LogSuccess(r) \/ ReloadChallenge(r) \/ FetchSession(r) \/ CompleteThrow(r)

Operator(p) == Suspend(p) \/ RevokeByPrincipal(p) \/ Unsuspend(p)

Next ==
    \/ \E i \in InitReq : InitStep(i)
    \/ \E r \in CompReq : CompleteStep(r)
    \/ \E s \in CompReq : Logout(s)
    \/ \E p \in Suspendable : Operator(p)
    \/ Tick \/ MarkExpired \/ GuardedRead

Spec == Init /\ [][Next]_vars
-----------------------------------------------------------------------------
(* Properties. *)

\* Every variable keeps the shape the records of nap-core/src/types.ts give it.
TypeOK ==
    /\ clock \in Nat
    /\ chal \in [InitReq -> ChallengeRecord]
    /\ chalSwept \in Int
    /\ sess \in [CompReq -> SessionRecord]
    /\ sessSwept \in Int
    /\ ireq \in [InitReq -> InitRequest]
    /\ creq \in [CompReq -> CompRequest]
    /\ acl \in [Principal -> {"active", "suspended"}]
    /\ admin \subseteq Principal

Succeeded(r) == creq[r].code = "NAP_COMPLETE_SUCCESS"

\* Single use: whatever completions race, are retried or die half way, all that succeed
\* on one challenge carried the same signed event and were handed the same session.
OneProofPerChallenge ==
    \A r1, r2 \in CompReq :
        Succeeded(r1) /\ Succeeded(r2) /\ creq[r1].event.cid = creq[r2].event.cid
        => creq[r1].event = creq[r2].event /\ creq[r1].sid = creq[r2].sid

\* createForChallenge is idempotent: racing completions, a retry after a crash and a
\* sweep in between never leave two session rows for one challenge.
OneSessionPerChallenge ==
    \A c \in InitReq : Cardinality(SessionsOf(sess, c)) <= 1

\* The requests that failed on c with c's own key. One refused for its clock skew has not
\* named a challenge yet, and one that threw keeps its event only if it had failed first.
OwnFailures(c) ==
    {r \in CompReq : /\ creq[r].pc = "done" /\ creq[r].code \in SpendingCode \cup {"thrown"}
                     /\ creq[r].event # None
                     /\ creq[r].event.cid = c /\ creq[r].event.signer = chal[c].npub}

\* The failure budget: a challenge still open has counted every failure of its own
\* principal and no one else's, and has room for another; concurrent failures are not
\* lost and a stranger's proofs spend nothing.
BudgetCountsOwnFailures ==
    MaxFailures > 0 =>
        \A c \in InitReq : chal[c].state = "issued" =>
            /\ chal[c].failures = Cardinality(OwnFailures(c))
            /\ chal[c].failures < MaxFailures

\* redeemed, expired and failed_terminal are final: no late request reopens or rewrites
\* such a challenge. (In memory redeem may write `expired' over any state.)
TerminalRowKept(c) ==
    chal[c].state \in {"redeemed", "expired", "failed_terminal"} =>
        chal'[c] = chal[c] \/ chal'[c] = NoChallenge

TerminalStatesAreFinal == [][\A c \in InitReq : TerminalRowKept(c)]_chal

\* The cap is checked before the insert, so it may be overshot, but only by the other
\* init requests in progress at the same time.
OutstandingBounded ==
    \A ip \in Ip :
        /\ MaxPerIp > 0 =>
              Cardinality(OutstandingForIp(ip, clock)) <= MaxPerIp + MaxInFlight - 1
        /\ MaxPerNpub > 0 => \A p \in Principal :
              Cardinality(OutstandingForNpub(p, ip, clock)) <= MaxPerNpub + MaxInFlight - 1

-----------------------------------------------------------------------------
(* The inductive invariant behind single use. *)

\* A challenge_id is written once: before its init request reaches the store it has no
\* row, so a row that was swept never comes back.
Written(c) == ireq[c].pc \in {"issued", "lost"}

FreshIds == \A c \in InitReq : ~Written(c) => chal[c] = NoChallenge

\* The redemption columns are set together, by redeem, and belong to redeemed rows.
RedeemedRows ==
    \A c \in InitReq :
        /\ chal[c].state = "redeemed" => chal[c].event # None /\ chal[c].sid # None
        /\ chal[c].event # None => chal[c].state = "redeemed" /\ chal[c].event.cid = c

\* A request in progress holds what the awaits behind it produced: an event once the
\* proof is checked, a session id once the session is stored.
HasLocals(r) ==
    /\ creq[r].pc \notin {"idle", "done"} => creq[r].event # None
    /\ creq[r].pc \in {"redeem", "recheck", "log", "reload", "fetch"} => creq[r].sid # None

LocalsHeld == \A r \in CompReq : HasLocals(r)

PastLoad == {"resolve", "create", "reuse", "redeem", "recheck", "reload", "fetch"}

\* A request past the load saw a row that was not late at the `now' it still uses, and
\* that row, if it is still there, is not late at that `now' either.
InTime(r) ==
    creq[r].pc \in PastLoad =>
        /\ Written(creq[r].event.cid)
        /\ Present(creq[r].event.cid) => creq[r].now <= chal[creq[r].event.cid].exp

LoadedInTime == \A r \in CompReq : InTime(r)

\* The requests that succeeded, or are about to, agree with the row and with each other.
Winner(r) == Succeeded(r) \/ creq[r].pc \in {"fetch", "log"}

Backed(r) ==
    Winner(r) =>
        /\ creq[r].pc \in {"fetch", "log", "done"} /\ creq[r].event # None
        /\ Written(creq[r].event.cid)
        /\ Present(creq[r].event.cid) =>
              /\ chal[creq[r].event.cid].state = "redeemed"
              /\ chal[creq[r].event.cid].event = creq[r].event
              /\ chal[creq[r].event.cid].sid = creq[r].sid

Agree(r1, r2) ==
    Winner(r1) /\ Winner(r2) /\ creq[r1].event.cid = creq[r2].event.cid
    => creq[r1].event = creq[r2].event /\ creq[r1].sid = creq[r2].sid

WinnersAgree ==
    /\ \A r \in CompReq : Backed(r)
    /\ \A r1, r2 \in CompReq : Agree(r1, r2)

\* Inductive, and implies OneProofPerChallenge.
SingleUseInv ==
    TypeOK /\ LocalsHeld /\ FreshIds /\ RedeemedRows /\ LoadedInTime /\ WinnersAgree

-----------------------------------------------------------------------------
(* What the documents say and the code does not do. *)

\* docs/NAP-v2-RFC.md, error table: NAP_COMPLETE_REDEEMED_CHALLENGE means the challenge
\* was redeemed.
RedeemedMeansRedeemed ==
    \A r \in CompReq : creq[r].code = "NAP_COMPLETE_REDEEMED_CHALLENGE" =>
        chal[creq[r].event.cid].state = "redeemed"

\* nap-server test/memoryEviction.test.ts: "The challenge itself has expired, but RFC [section] 13.3
\* retry safety says the cached result must still answer a client repeating its completion."
\* The proof that won passes the checks again for as long as its result is kept.
RetryIsRecovered ==
    \A r \in CompReq : creq[r].pc = "load" =>
        LET rec == chal[creq[r].event.cid] IN
        IsRetry(rec, creq[r]) /\ creq[rec.sid].code = "NAP_COMPLETE_SUCCESS" =>
            ChallengeCheck(creq[r].event, creq[r].now, rec) = "none"
=============================================================================
