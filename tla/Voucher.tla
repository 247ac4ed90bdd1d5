------------------------------ MODULE Voucher -------------------------------
(***************************************************************************)
(* Voucher-bound authorization (nap-voucher): a login that presents an     *)
(* ecash voucher locked to its own key. The resolver checks the credential *)
(* locally, then asks the mint that signed it for its keys (cached) and    *)
(* for the voucher's state. Mint and network may fail at each call, the    *)
(* mint rotates its keysets and vouchers are spent meanwhile, several      *)
(* logins share the cache. The session a login ends with is re-resolved    *)
(* by guards and refreshes, which no longer have the credential.           *)
(*                                                                         *)
(* Signatures and DLEQ proofs hold or do not: a credential is a voucher    *)
(* presented as it was issued, or with one flaw. The mint is external.     *)
(***************************************************************************)
EXTENDS Integers, FiniteSets

CONSTANTS
    Login,                              \* logins, one session each
    Wiring,                             \* configurations an operator may try
    Owner, Thief,                       \* whom the vouchers are locked to, and another key
    VoucherId, Keyset,
    FirstKeyset,                        \* the one published at first
    Expiry,                             \* the expiries vouchers carry
    KeysetTtl, SessionTtl, RefreshTtl,
    FetchTimeout,                       \* of a request to the mint
    MaxLifetime,                        \* maxSessionLifetimeSeconds
    MaxTime,                            \* bound: the clock
    None

VARIABLES
    config,     \* the operator's wiring
    voucher,    \* what each voucher says: its expiry and keyset
    state,      \* the mint's state of each voucher
    published,  \* the keysets the mint publishes
    pubAt,      \* ghost: when a keyset was last published
    cache,      \* the mint client's copy of them
    login, session,
    now

vars == <<config, voucher, state, published, pubAt, cache, login, session, now>>

Time == 0..MaxTime
Opt(S) == S \cup {None}
Min2(a, b) == IF a <= b THEN a ELSE b
Max2(a, b) == IF a <= b THEN b ELSE a

\* "typo" is what the permission registry does not declare
Perm == {"view", "redeem", "stored", "typo"}
Declared == Perm \ {"typo"}
Destructive == {"redeem"}

\* What can be wrong with a presented credential besides the voucher's own lock and expiry
Flaw == {"mint", "shape", "secret", "unlocked", "signature", "issuer", "keyset", "amount", "dleq"}

Reason == {"unavailable", "malformed_response", "unknown_keyset"}

\* The degraded grant, if one is given, and what it may not have are the operator's options;
\* roles are checked as the permissions are, and stand for those they expand into.
Config == [degrade : BOOLEAN, missing : {"deny", "trust-session", "fallback"},
           worth : SUBSET Perm, listed : SUBSET Destructive, given : BOOLEAN, reduced : SUBSET Perm]

ASSUME VoucherAssumption ==
    /\ {KeysetTtl, SessionTtl, RefreshTtl, MaxLifetime} \subseteq Nat \ {0}
    /\ FetchTimeout \in Nat
    /\ Wiring \subseteq Config
    /\ FirstKeyset \in Keyset /\ MaxTime \in Nat /\ Expiry \subseteq Nat \cup {None}
    /\ None \notin Nat /\ None \notin VoucherId \cup {Owner, Thief}

\* createMintAvailabilityPolicy: throws unless degrading, and it alone, has an explicit grant
\* that is free of what the operator listed as destructive (nothing, if the list is left out)
WiringOk(c) == (c.degrade <=> c.given) /\ (c.given => c.reduced \cap c.listed = {})

\* keys: what the mint answered to the request of `asked`, {} while it has not
LoginRecord == [pc : {"idle", "keys", "rekeys", "state", "done"}, who : {Owner, Thief, None},
                v : Opt(VoucherId), flaw : Opt(Flaw), at : Time, live : BOOLEAN,
                keys : SUBSET Keyset, asked : Time, failed : Opt(Reason)]

Nobody == [pc |-> "done", who |-> None, v |-> None, flaw |-> None, at |-> 0, live |-> FALSE,
           keys |-> {}, asked |-> 0, failed |-> None]

SessionRecord == [by : {"voucher", "outage", "fallback"}, perms : SUBSET Perm,
                  issued : Time, exp : Int, rexp : Int, rotated : BOOLEAN]

Init ==
    /\ config \in {c \in Wiring : WiringOk(c)}
    /\ voucher \in [VoucherId -> [exp : Expiry, keyset : Keyset]]
    /\ state = [v \in VoucherId |-> "UNSPENT"]
    /\ published = {FirstKeyset}
    /\ pubAt = [k \in Keyset |-> IF k = FirstKeyset THEN 0 ELSE None]
    /\ cache = None
    /\ login = [l \in Login |-> [Nobody EXCEPT !.pc = "idle"]]
    /\ session = [l \in Login |-> None]
    /\ now = 0

-----------------------------------------------------------------------------
(* What the resolver decides without asking anybody. *)

\* parseVoucherSecret: only a P2PK_VOUCHER has a lock key.
LockKey(c) == IF c.flaw = "unlocked" THEN None ELSE Owner

\* lockKeyMatchesPubkey
BoundTo(c) == LockKey(c) = c.who

Unexpired(c) == IF voucher[c.v].exp = None THEN TRUE ELSE voucher[c.v].exp > c.at

\* createMintAllowlist: the canonical form of an allowed URL, or nothing
MintAllowed(c) == c.flaw # "mint"

\* The credential's fields have their types (parseVoucherCredential refuses the request
\* before, the resolver again).
WellFormed(c) == c.flaw # "shape"

\* parseVoucherSecret gives a voucher.
Parsed(c) == c.flaw # "secret"

\* verifyIssuerSignature, over the voucher's canonical bytes
IssuerSigned(c) == c.flaw # "signature"

\* createIssuerAllowlist: the issuer is honoured at this mint.
IssuerAllowed(c) == c.flaw # "issuer"

\* Every local check, before the mint is asked anything
Admissible(c) ==
    /\ MintAllowed(c) /\ WellFormed(c) /\ Parsed(c)
    /\ BoundTo(c) /\ Unexpired(c)
    /\ IssuerSigned(c) /\ IssuerAllowed(c)

-----------------------------------------------------------------------------
(* What a login c is worth. *)

ClampTtl(ttl, bound, t) == IF bound = None THEN ttl ELSE Min2(ttl, Max2(1, bound - t))

\* createSessionRecord
NewSession(c, by, perms) ==
    LET bound == IF c.v = None THEN None ELSE voucher[c.v].exp IN
    [by |-> by, perms |-> perms, issued |-> c.at, rotated |-> FALSE,
     exp |-> c.at + ClampTtl(SessionTtl, bound, c.at), rexp |-> c.at + RefreshTtl]

Deny(l) == login' = [login EXCEPT ![l] = Nobody] /\ UNCHANGED session

\* A grant is given whole, if the registry declares all of it, or not at all.
Allow(l, c, by, perms) ==
    IF perms \subseteq Declared
    THEN /\ login' = [login EXCEPT ![l] = [c EXCEPT !.pc = "done", !.keys = {}, !.asked = 0]]
         /\ session' = [session EXCEPT ![l] = NewSession(c, by, perms)]
    ELSE Deny(l)

\* Mutant of Decide: whatever went wrong with the mint counts as an outage.
Decide_AnyReason(reason) == config.degrade

\* availability.decide: only a mint that did not answer at all is an outage.
Decide(reason) == config.degrade /\ reason = "unavailable"

\* The resolver's catch: the mint client gave up for this reason.
Failed(l, c, reason) ==
    IF Decide(reason) THEN Allow(l, [c EXCEPT !.failed = reason], "outage", config.reduced) ELSE Deny(l)

-----------------------------------------------------------------------------
(* The mint's keys, and a login from its first check to its session. *)

CacheLive == IF cache = None THEN FALSE ELSE cache.exp > now

\* Until the mint answers or the request fails
Await(l, c, pc) ==
    /\ login' = [login EXCEPT ![l] = [c EXCEPT
          !.pc = pc, !.keys = {}, !.asked = IF pc = "state" THEN 0 ELSE now]]
    /\ UNCHANGED session

\* verifyProofDleq: the mint's key signed this secret
MintSigned(c) == c.flaw # "dleq"

\* The keyset has a key for the amount or not; the DLEQ proof is verified with it, and the
\* mint asked for the voucher's state.
HaveKey(l, c) ==
    \/ c.flaw = "amount" /\ Failed(l, c, "unknown_keyset")
    \/ c.flaw # "amount" /\ ~MintSigned(c) /\ Deny(l)
    \/ c.flaw # "amount" /\ MintSigned(c) /\ Await(l, c, "state")

\* One miss per copy may mean a rotation; a second one is answered from the refetched copy.
Refetches(copy) == ~copy.refreshed

Lists(copy, c) == c.flaw # "keyset" /\ voucher[c.v].keyset \in copy.keysets

\* getKey, on a copy of the mint's keysets
GetKey(l, c, copy) ==
    \/ Lists(copy, c) /\ HaveKey(l, c) /\ cache' = copy
    \/ ~Lists(copy, c) /\ Refetches(copy) /\ Await(l, c, "rekeys") /\ cache' = None
    \/ ~Lists(copy, c) /\ ~Refetches(copy) /\ Failed(l, c, "unknown_keyset") /\ cache' = copy

\* The resolver up to its first await
Resolve(l, c) ==
    IF ~Admissible(c) THEN Deny(l) /\ UNCHANGED cache
    ELSE IF CacheLive THEN GetKey(l, c, cache)
    ELSE Await(l, c, "keys") /\ UNCHANGED cache

\* A completion whose proof is verified presents a voucher.
Complete(l, p, v, flaw) ==
    /\ login[l].pc = "idle"
    /\ Resolve(l, [pc |-> "idle", who |-> p, v |-> v, flaw |-> flaw, at |-> now,
                   live |-> state[v] = "UNSPENT", keys |-> {}, asked |-> 0, failed |-> None])
    /\ UNCHANGED <<config, voucher, state, published, pubAt, now>>

\* Without one it is denied, unless stored ACLs are wired as the fallback: they allow it or
\* not. There is no session to trust yet.
CompleteWithout(l, p) ==
    /\ login[l].pc = "idle"
    /\ \/ /\ config.missing = "fallback"
          /\ Allow(l, [Nobody EXCEPT !.who = p, !.at = now], "fallback", {"stored"})
       \/ Deny(l)
    /\ UNCHANGED <<config, voucher, state, published, pubAt, cache, now>>

\* The mint answers GET /v1/keys with what it publishes then. The answer is under way until
\* its body is read, and the mint may rotate meanwhile.
MintAnswers(l) ==
    /\ login[l].pc \in {"keys", "rekeys"} /\ login[l].keys = {}
    /\ login' = [login EXCEPT ![l].keys = published]
    /\ UNCHANGED <<config, voucher, state, published, pubAt, cache, session, now>>

\* The request has not been aborted.
InTime(c) == now <= c.asked + FetchTimeout

\* Mutant of KeysAnswer: a request is never aborted.
KeysAnswer_NoTimeout(l) ==
    /\ login[l].pc \in {"keys", "rekeys"} /\ login[l].keys # {}
    /\ GetKey(l, login[l], [keysets |-> login[l].keys, exp |-> now + KeysetTtl,
                            refreshed |-> login[l].pc = "rekeys"])
    /\ UNCHANGED <<config, voucher, state, published, pubAt, now>>

\* The answer arrives, and is cached from now on: an older answer may overwrite a newer one.
KeysAnswer(l) ==
    /\ login[l].pc \in {"keys", "rekeys"} /\ login[l].keys # {} /\ InTime(login[l])
    /\ GetKey(l, login[l], [keysets |-> login[l].keys, exp |-> now + KeysetTtl,
                            refreshed |-> login[l].pc = "rekeys"])
    /\ UNCHANGED <<config, voucher, state, published, pubAt, now>>

\* Mutant of Spendable: a voucher that is being spent is not spent.
Spendable_Pending(st) == st # "SPENT"

Spendable(st) == st = "UNSPENT"

\* POST /v1/checkstate is answered. The way of this answer is no step of its own: nothing is
\* claimed of it but that the voucher was unspent at some moment of the login.
StateAnswer(l) ==
    /\ login[l].pc = "state"
    /\ IF Spendable(state[login[l].v]) THEN Allow(l, login[l], "voucher", config.worth) ELSE Deny(l)
    /\ UNCHANGED <<config, voucher, state, published, pubAt, cache, now>>

\* A network error, a timeout, a 5xx or no JSON; or a 4xx or an answer of another shape
MintFails(l, reason) ==
    /\ login[l].pc \in {"keys", "rekeys", "state"}
    /\ Failed(l, login[l], reason)
    /\ UNCHANGED <<config, voucher, state, published, pubAt, cache, now>>

ClearCache ==
    /\ cache # None
    /\ cache' = None
    /\ UNCHANGED <<config, voucher, state, published, pubAt, login, session, now>>

-----------------------------------------------------------------------------
(* The session afterwards: its credential is gone. *)

\* The resolver's answers when it is given a session and no credential
Reresolved(s) ==
    CASE config.missing = "deny" -> {None}
      [] config.missing = "trust-session" -> {s.perms}
      [] config.missing = "fallback" -> {None, {"stored"}}

\* resolveEffectiveAcl: what guarded requests of a login's session may be allowed
GuardAllows(l) == IF session[l].exp > now THEN UNION (Reresolved(session[l]) \ {None}) ELSE {}

\* Mutant of Refresh: the ceiling binds the decision to refresh and not the new token.
Refresh_Overhang(l) ==
    /\ session[l] # None /\ session[l].rexp >= now /\ now < session[l].issued + MaxLifetime
    /\ \E answer \in Reresolved(session[l]) \ {None} :
          session' = [session EXCEPT ![l] = [@ EXCEPT
             !.perms = answer, !.rotated = TRUE, !.exp = now + SessionTtl, !.rexp = now + RefreshTtl]]
    /\ UNCHANGED <<config, voucher, state, published, pubAt, cache, login, now>>

\* refreshSession: the token and the session are in their time, the answer carries no expiry.
Refresh(l) ==
    /\ session[l] # None /\ session[l].rexp >= now /\ now < session[l].issued + MaxLifetime
    /\ LET ceiling == session[l].issued + MaxLifetime IN
       \E answer \in Reresolved(session[l]) \ {None} :
          session' = [session EXCEPT ![l] = [@ EXCEPT
             !.perms = answer, !.rotated = TRUE,
             !.exp = now + ClampTtl(SessionTtl, ceiling, now), !.rexp = Min2(now + RefreshTtl, ceiling)]]
    /\ UNCHANGED <<config, voucher, state, published, pubAt, cache, login, now>>

-----------------------------------------------------------------------------
(* The mint and the clock. *)

\* Spending a voucher, which may still fail while it is pending
Spend(v, to) ==
    /\ <<state[v], to>> \in {<<"UNSPENT", "PENDING">>, <<"PENDING", "UNSPENT">>, <<"PENDING", "SPENT">>}
    /\ state' = [state EXCEPT ![v] = to]
    /\ login' = [l \in Login |-> [login[l] EXCEPT !.live = @ \/ (login[l].v = v /\ to = "UNSPENT"
                                                                  /\ login[l].pc # "done")]]
    /\ UNCHANGED <<config, voucher, published, pubAt, cache, session, now>>

\* A keyset with a new id takes the old one's place.
Rotate(k) ==
    /\ pubAt[k] = None
    /\ published' = {k}
    /\ pubAt' = [j \in Keyset |-> IF j \in published \cup {k} THEN now ELSE pubAt[j]]
    /\ UNCHANGED <<config, voucher, state, cache, login, session, now>>

Tick ==
    /\ now < MaxTime
    /\ now' = now + 1
    /\ UNCHANGED <<config, voucher, state, published, pubAt, cache, login, session>>

-----------------------------------------------------------------------------
Step(l) ==
    \/ MintAnswers(l) \/ KeysAnswer(l) \/ StateAnswer(l)
    \/ \E reason \in {"unavailable", "malformed_response"} : MintFails(l, reason)

Next ==
    \/ \E l \in Login : Step(l) \/ Refresh(l)
                     \/ \E p \in {Owner, Thief} :
                           \/ CompleteWithout(l, p)
                           \/ \E v \in VoucherId, flaw \in Opt(Flaw) : Complete(l, p, v, flaw)
    \/ \E v \in VoucherId, to \in {"UNSPENT", "PENDING", "SPENT"} : Spend(v, to)
    \/ \E k \in Keyset : Rotate(k)
    \/ ClearCache \/ Tick

Spec == Init /\ [][Next]_vars

-----------------------------------------------------------------------------
(* Properties. *)

\* The type invariant.
TypeOK ==
    /\ config \in Config /\ WiringOk(config)
    /\ voucher \in [VoucherId -> [exp : Expiry, keyset : Keyset]]
    /\ state \in [VoucherId -> {"UNSPENT", "PENDING", "SPENT"}]
    /\ published \in (SUBSET Keyset) \ {{}} /\ pubAt \in [Keyset -> Opt(Time)]
    /\ cache \in Opt([keysets : (SUBSET Keyset) \ {{}}, exp : 0..(MaxTime + KeysetTtl), refreshed : BOOLEAN])
    /\ login \in [Login -> LoginRecord] /\ session \in [Login -> Opt(SessionRecord)]
    /\ now \in Time
    /\ \A l \in Login : session[l] # None =>
          /\ login[l].pc = "done"
          /\ session[l].exp \in (session[l].issued + 1)..(MaxTime + SessionTtl)
          /\ session[l].exp <= session[l].issued + Max2(SessionTtl, MaxLifetime)

\* What only a voucher may earn: all that destroys, less what an operator who degrades did
\* not list
Protected == IF config.degrade THEN config.listed ELSE Destructive

\* resolver.ts: the policy's grant is given only for a voucher that the mint itself signed,
\* of an issuer honoured there, locked to the key that logged in, unexpired, and unspent at
\* some moment of the login, whatever was rotated, spent or cached meanwhile; and until it
\* is refreshed the session ends no later than the voucher.
FullGrantIsEarned ==
    \A l \in Login :
        LET c == login[l] IN
        session[l] # None /\ (session[l].perms \cup GuardAllows(l)) \cap Protected # {} =>
            /\ c.v # None /\ c.flaw = None /\ c.live
            /\ c.who = Owner /\ Unexpired(c)
            /\ pubAt[voucher[c.v].keyset] # None
            /\ session[l].rotated \/ voucher[c.v].exp = None \/ session[l].exp <= voucher[c.v].exp

\* availability.ts:76: only a mint that did not answer is an outage, and a session of an
\* outage has nothing the operator listed as destructive, neither when it begins nor after
\* guards and refreshes.
OutageGrantsLess ==
    \A l \in Login :
        session[l] # None /\ session[l].by = "outage" =>
            /\ config.degrade /\ login[l].failed = "unavailable"
            /\ (session[l].perms \cup GuardAllows(l)) \cap config.listed = {}

\* mintClient.ts:62: a key the mint has withdrawn is honoured no longer than the cache's TTL
\* and the time an answer may be under way.
KeysAreRecent ==
    [][\A l \in Login : login[l].pc # "state" /\ login'[l].pc = "state" =>
          LET k == voucher[login'[l].v].keyset IN
          k \in published \/ (pubAt[k] # None /\ now < pubAt[k] + FetchTimeout + KeysetTtl)]_vars

-----------------------------------------------------------------------------
(* What the safety properties rest on (proved in VoucherProofs). *)

\* What the local checks have established of a login that waits for the mint
Presented(c) ==
    /\ c.v \in VoucherId /\ c.who = Owner /\ Unexpired(c)
    /\ c.flaw \notin {"mint", "shape", "secret", "unlocked", "signature", "issuer"}

\* Each stage of a login knows what the stages before it checked.
StagesPassed ==
    \A l \in Login :
        LET c == login[l] IN
        /\ c.at <= now /\ c.asked <= now
        /\ c.pc \in {"keys", "rekeys", "state"} =>
              Presented(c) /\ (state[c.v] = "UNSPENT" => c.live)
        /\ c.pc = "state" => c.flaw = None /\ pubAt[voucher[c.v].keyset] # None

\* Keys that are under way or cached were published when the mint answered, which was after
\* it was asked; a copy ends a TTL after it arrived, and no answer is under way for longer
\* than the timeout.
CopyIsRecent ==
    /\ \A k \in published : pubAt[k] # None
    /\ \A l \in Login : \A k \in login[l].keys :
          pubAt[k] # None /\ (k \in published \/ login[l].asked <= pubAt[k])
    /\ cache # None =>
          /\ cache.exp <= now + KeysetTtl
          /\ \A k \in cache.keysets :
                pubAt[k] # None /\ (k \in published \/ cache.exp <= pubAt[k] + FetchTimeout + KeysetTtl)

\* A session is what its login earned: only a voucher's ever holds what is protected.
SessionEarned ==
    \A l \in Login : session[l] # None =>
        LET c == login[l]
            s == session[l] IN
        /\ s.issued <= now
        /\ s.by = "voucher" =>
              /\ Presented(c) /\ c.flaw = None /\ c.live /\ pubAt[voucher[c.v].keyset] # None
              /\ s.rotated \/ voucher[c.v].exp = None \/ s.exp <= voucher[c.v].exp
        /\ s.by # "voucher" => s.perms \cap Protected = {}
        /\ s.by = "outage" => config.degrade /\ c.failed = "unavailable"

VoucherInv == TypeOK /\ StagesPassed /\ CopyIsRecent /\ SessionEarned
=============================================================================
