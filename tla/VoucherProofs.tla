--------------------------- MODULE VoucherProofs ---------------------------
(***************************************************************************)
(* Why only a voucher that the mint signed, its own holder presented and   *)
(* nobody had spent earns a session that may destroy something, whatever   *)
(* the mint rotated or failed to answer meanwhile, for any number of       *)
(* logins, vouchers and keysets.                                           *)
(***************************************************************************)
EXTENDS Voucher, TLAPS

-----------------------------------------------------------------------------
(* What a session is worth. *)

\* The parts of the type invariant and of SessionEarned that are about one session
Dated(s) ==
    /\ s.exp \in (s.issued + 1)..(MaxTime + SessionTtl)
    /\ s.exp <= s.issued + Max2(SessionTtl, MaxLifetime)

Earned(s, c) ==
    /\ s.issued <= now
    /\ s.by = "voucher" =>
          /\ Presented(c) /\ c.flaw = None /\ c.live /\ pubAt[voucher[c.v].keyset] # None
          /\ s.rotated \/ voucher[c.v].exp = None \/ s.exp <= voucher[c.v].exp
    /\ s.by # "voucher" => s.perms \cap Protected = {}
    /\ s.by = "outage" => config.degrade /\ c.failed = "unavailable"

\* The part of StagesPassed that is about one login
Stage(c) ==
    /\ c.at <= now /\ c.asked <= now
    /\ c.pc \in {"keys", "rekeys", "state"} => Presented(c) /\ (state[c.v] = "UNSPENT" => c.live)
    /\ c.pc = "state" => c.flaw = None /\ pubAt[voucher[c.v].keyset] # None

\* The parts of CopyIsRecent that are about one copy of the mint's keys, and about one login's
Recent(copy) ==
    /\ copy.exp <= now + KeysetTtl
    /\ \A k \in copy.keysets :
          pubAt[k] # None /\ (k \in published \/ copy.exp <= pubAt[k] + FetchTimeout + KeysetTtl)

Answered(c) == \A k \in c.keys : pubAt[k] # None /\ (k \in published \/ c.asked <= pubAt[k])

Copy == [keysets : (SUBSET Keyset) \ {{}}, exp : 0..(MaxTime + KeysetTtl), refreshed : BOOLEAN]

\* A lifetime that is clamped ends no sooner than a second from now, no later than it would
\* have, and no later than what it is clamped to, if that is still to come.
LEMMA ClampBounds ==
    ASSUME NEW ttl \in Nat \ {0}, NEW bound \in Nat \cup {None}, NEW t \in Nat
    PROVE  /\ ClampTtl(ttl, bound, t) \in 1..ttl
           /\ bound # None /\ bound > t => t + ClampTtl(ttl, bound, t) <= bound
<1>1. CASE bound = None
  BY <1>1 DEF ClampTtl
<1>2. CASE bound # None
  <2>1. bound \in Nat
    BY <1>2
  <2>2. ClampTtl(ttl, bound, t) = Min2(ttl, Max2(1, bound - t))
    BY <1>2 DEF ClampTtl
  <2> QED
    BY <2>1, <2>2 DEF Min2, Max2
<1> QED
  BY <1>1, <1>2

\* The constants' types
LEMMA Consts ==
    /\ KeysetTtl \in Nat \ {0} /\ SessionTtl \in Nat \ {0} /\ RefreshTtl \in Nat \ {0}
    /\ MaxLifetime \in Nat \ {0} /\ MaxTime \in Nat /\ FetchTimeout \in Nat
    /\ None \notin Nat /\ None \notin VoucherId /\ None # Owner /\ None # Thief
  BY VoucherAssumption

\* A login that is denied is nobody's.
LEMMA NobodyTyped ==
    ASSUME TypeOK
    PROVE  Nobody \in LoginRecord /\ Nobody.pc = "done" /\ Stage(Nobody) /\ Answered(Nobody)
<1>1. Nobody \in LoginRecord /\ Nobody.pc = "done" /\ Nobody.at = 0 /\ Nobody.asked = 0 /\ Nobody.keys = {}
  BY Consts DEF Nobody, LoginRecord, Time, Opt
<1>2. now \in Nat
  BY Consts DEF TypeOK, Time
<1> QED
  BY <1>1, <1>2 DEF Stage, Answered

\* A session has its login's time, and ends within the voucher's.
LEMMA NewSessionDated ==
    ASSUME TypeOK, NEW c \in LoginRecord, c.at <= now, NEW by \in {"voucher", "outage", "fallback"},
           NEW perms \in SUBSET Perm
    PROVE  LET s == NewSession(c, by, perms) IN
           /\ s \in SessionRecord /\ Dated(s) /\ s.by = by /\ s.perms = perms /\ s.issued = c.at
           /\ c.v # None /\ Unexpired(c) =>
                 voucher[c.v].exp = None \/ s.exp <= voucher[c.v].exp
<1>1. PICK bound : bound = IF c.v = None THEN None ELSE voucher[c.v].exp
  OBVIOUS
<1>2. bound \in Nat \cup {None}
  <2>1. c.v \in VoucherId => voucher[c.v].exp \in Expiry
    BY DEF TypeOK
  <2> QED
    BY <1>1, <2>1, VoucherAssumption DEF LoginRecord, Opt
<1>3. c.at \in Nat /\ c.at <= MaxTime
  BY Consts DEF LoginRecord, Time
<1>4. PICK d : d = ClampTtl(SessionTtl, bound, c.at)
  OBVIOUS
<1>5. d \in 1..SessionTtl /\ (bound # None /\ bound > c.at => c.at + d <= bound)
  BY <1>2, <1>3, <1>4, ClampBounds, Consts
<1>6. PICK s : s = NewSession(c, by, perms)
  OBVIOUS
<1>7. s = [by |-> by, perms |-> perms, issued |-> c.at, rotated |-> FALSE,
           exp |-> c.at + d, rexp |-> c.at + RefreshTtl]
  BY <1>1, <1>4, <1>6 DEF NewSession
<1>8. c.at + d \in Int /\ c.at + RefreshTtl \in Int
  BY <1>3, <1>5, Consts
<1>9. c.at \in Time
  BY DEF LoginRecord
<1>10. /\ s \in SessionRecord /\ s.by = by /\ s.perms = perms /\ s.issued = c.at /\ s.exp = c.at + d
  BY <1>7, <1>8, <1>9 DEF SessionRecord
<1>11. Dated(s)
  BY <1>3, <1>5, <1>10, Consts DEF Dated, Max2
<1>12. c.v # None /\ Unexpired(c) => voucher[c.v].exp = None \/ s.exp <= voucher[c.v].exp
  <2>1. c.v # None => bound = voucher[c.v].exp
    BY <1>1
  <2>2. c.v # None /\ Unexpired(c) /\ bound # None => bound > c.at
    BY <2>1 DEF Unexpired
  <2> QED
    BY <1>5, <1>10, <2>1, <2>2
<1> QED
  BY <1>6, <1>10, <1>11, <1>12

-----------------------------------------------------------------------------
(* What a step does to a login and to the copy of the keys. *)

\* The mint, the clock and the wiring are left alone.
MintAlone == UNCHANGED <<config, voucher, state, published, pubAt, now>>

CopyKept == cache' \in Opt(Copy) /\ (cache' # None => Recent(cache'))

\* The invariant, login by login
LEMMA InvParts ==
    ASSUME VoucherInv, NEW l \in Login
    PROVE  /\ login[l] \in LoginRecord /\ Stage(login[l]) /\ Answered(login[l])
           /\ session[l] # None => /\ session[l] \in SessionRecord /\ login[l].pc = "done"
                                   /\ Dated(session[l]) /\ Earned(session[l], login[l])
<1>1. login[l] \in LoginRecord /\ session[l] \in Opt(SessionRecord) /\ TypeOK
  BY DEF VoucherInv, TypeOK
<1>2. Stage(login[l]) /\ Answered(login[l])
  BY DEF VoucherInv, StagesPassed, Stage, CopyIsRecent, Answered
<1>3. session[l] # None => login[l].pc = "done" /\ Dated(session[l])
  BY DEF VoucherInv, TypeOK, Dated
<1>4. session[l] # None => Earned(session[l], login[l])
  BY DEF VoucherInv, SessionEarned, Earned
<1> QED
  BY <1>1, <1>2, <1>3, <1>4 DEF Opt

\* The copy that is kept is a recent one.
LEMMA CopyNow ==
    ASSUME VoucherInv
    PROVE  cache \in Opt(Copy) /\ (cache # None => Recent(cache))
  BY DEF VoucherInv, TypeOK, CopyIsRecent, Recent, Copy

\* A step of one login, to a stage it has earned and with a session it has earned, if any
LEMMA LoginStep ==
    ASSUME VoucherInv, MintAlone, CopyKept, NEW l \in Login, login[l].pc # "done",
           NEW c \in LoginRecord, Stage(c), Answered(c), login' = [login EXCEPT ![l] = c],
           \/ session' = session
           \/ \E s \in SessionRecord :
                 /\ c.pc = "done" /\ Dated(s) /\ Earned(s, c)
                 /\ session' = [session EXCEPT ![l] = s]
    PROVE  VoucherInv'
<1>0. login \in [Login -> LoginRecord] /\ session \in [Login -> Opt(SessionRecord)]
  BY DEF VoucherInv, TypeOK
<1>1. /\ login' \in [Login -> LoginRecord] /\ login'[l] = c
      /\ \A m \in Login : m # l => login'[m] = login[m]
  BY <1>0
<1>2. session[l] = None
  BY InvParts
<1>3. /\ session' \in [Login -> Opt(SessionRecord)]
      /\ \A m \in Login : m # l => session'[m] = session[m]
      /\ session'[l] # None => c.pc = "done" /\ Dated(session'[l]) /\ Earned(session'[l], c)
  <2>1. CASE session' = session
    BY <1>0, <1>2, <2>1
  <2>2. ASSUME NEW s \in SessionRecord, c.pc = "done", Dated(s), Earned(s, c),
               session' = [session EXCEPT ![l] = s]
        PROVE  /\ session' \in [Login -> Opt(SessionRecord)]
               /\ \A m \in Login : m # l => session'[m] = session[m]
               /\ Dated(session'[l]) /\ Earned(session'[l], c)
    BY <1>0, <2>2 DEF Opt
  <2> QED
    BY <2>1, <2>2
<1>4. \A m \in Login : Stage(login'[m]) /\ Answered(login'[m])
  BY <1>1, InvParts
<1>5. \A m \in Login : session'[m] # None =>
         login'[m].pc = "done" /\ Dated(session'[m]) /\ Earned(session'[m], login'[m])
  BY <1>1, <1>3, InvParts
<1>6. TypeOK'
  BY <1>1, <1>3, <1>5 DEF VoucherInv, TypeOK, WiringOk, MintAlone, CopyKept, Copy, Dated
<1>7. StagesPassed'
  BY <1>4 DEF StagesPassed, Stage, Presented, Unexpired, MintAlone
<1>8. CopyIsRecent'
  BY <1>4 DEF VoucherInv, CopyIsRecent, Answered, CopyKept, Recent, MintAlone
<1>9. SessionEarned'
  BY <1>5 DEF SessionEarned, Earned, Protected, Presented, Unexpired, MintAlone
<1> QED
  BY <1>6, <1>7, <1>8, <1>9 DEF VoucherInv

\* A login that is denied leaves no session.
LEMMA DenyStep ==
    ASSUME VoucherInv, MintAlone, CopyKept, NEW l \in Login, login[l].pc # "done", Deny(l)
    PROVE  VoucherInv'
<1>1. Nobody \in LoginRecord /\ Stage(Nobody) /\ Answered(Nobody)
  BY NobodyTyped DEF VoucherInv
<1> QED
  BY <1>1, LoginStep DEF Deny

\* A login that waits for the mint has passed the local checks.
LEMMA AwaitStep ==
    ASSUME VoucherInv, MintAlone, CopyKept, NEW l \in Login, login[l].pc # "done",
           NEW c \in LoginRecord, c.at <= now, Presented(c), state[c.v] = "UNSPENT" => c.live,
           NEW pc \in {"keys", "rekeys", "state"}, Await(l, c, pc),
           pc = "state" => c.flaw = None /\ pubAt[voucher[c.v].keyset] # None
    PROVE  VoucherInv'
<1>0. PICK t : t = IF pc = "state" THEN 0 ELSE now
  OBVIOUS
<1>1. PICK q : q = [c EXCEPT !.pc = pc, !.keys = {}, !.asked = t]
  OBVIOUS
<1>2. t \in Time /\ t <= now
  BY <1>0, Consts DEF VoucherInv, TypeOK, Time
<1>3. /\ q \in LoginRecord /\ q.pc = pc /\ q.who = c.who /\ q.v = c.v /\ q.flaw = c.flaw
      /\ q.at = c.at /\ q.live = c.live /\ q.keys = {} /\ q.asked = t
  BY <1>1, <1>2 DEF LoginRecord
<1>4. Presented(q)
  BY <1>3 DEF Presented, Unexpired
<1>5. Stage(q) /\ Answered(q)
  BY <1>2, <1>3, <1>4 DEF Stage, Answered
<1>6. login' = [login EXCEPT ![l] = q] /\ session' = session
  BY <1>0, <1>1 DEF Await
<1> QED
  BY <1>3, <1>5, <1>6, LoginStep

\* A login that is allowed has earned what it is given.
LEMMA AllowStep ==
    ASSUME VoucherInv, MintAlone, CopyKept, NEW l \in Login, login[l].pc # "done",
           NEW c \in LoginRecord, c.at <= now,
           NEW by \in {"voucher", "outage", "fallback"}, NEW perms \in SUBSET Perm,
           Allow(l, c, by, perms),
           by = "voucher" => /\ Presented(c) /\ c.flaw = None /\ c.live
                             /\ pubAt[voucher[c.v].keyset] # None,
           by # "voucher" => perms \cap Protected = {},
           by = "outage" => config.degrade /\ c.failed = "unavailable"
    PROVE  VoucherInv'
<1>1. CASE Deny(l)
  BY <1>1, DenyStep
<1>2. CASE /\ login' = [login EXCEPT ![l] = [c EXCEPT !.pc = "done", !.keys = {}, !.asked = 0]]
           /\ session' = [session EXCEPT ![l] = NewSession(c, by, perms)]
  <2>1. PICK q : q = [c EXCEPT !.pc = "done", !.keys = {}, !.asked = 0]
    OBVIOUS
  <2>0. 0 \in Time /\ 0 <= now
    BY Consts DEF VoucherInv, TypeOK, Time
  <2>2. /\ q \in LoginRecord /\ q.pc = "done" /\ q.who = c.who /\ q.v = c.v /\ q.flaw = c.flaw
        /\ q.at = c.at /\ q.live = c.live /\ q.failed = c.failed /\ q.keys = {} /\ q.asked = 0
    BY <2>0, <2>1 DEF LoginRecord
  <2>3. Stage(q) /\ Answered(q)
    BY <2>0, <2>2 DEF Stage, Answered
  <2>4. PICK s : s = NewSession(c, by, perms)
    OBVIOUS
  <2>5. /\ s \in SessionRecord /\ Dated(s) /\ s.by = by /\ s.perms = perms /\ s.issued = c.at
        /\ c.v # None /\ Unexpired(c) => voucher[c.v].exp = None \/ s.exp <= voucher[c.v].exp
    BY <2>4, NewSessionDated DEF VoucherInv
  <2>6. Presented(c) => Presented(q) /\ c.v # None /\ Unexpired(c)
    BY <2>2, Consts DEF Presented, Unexpired
  <2>7. Earned(s, q)
    BY <2>2, <2>5, <2>6 DEF Earned
  <2> QED
    BY <1>2, <2>1, <2>2, <2>3, <2>4, <2>5, <2>7, LoginStep
<1> QED
  BY <1>1, <1>2 DEF Allow

\* A mint that fails a login earns it the degraded grant, if it did not answer at all.
LEMMA FailedStep ==
    ASSUME VoucherInv, MintAlone, CopyKept, NEW l \in Login, login[l].pc # "done",
           NEW c \in LoginRecord, c.at <= now, NEW reason \in Reason, Failed(l, c, reason)
    PROVE  VoucherInv'
<1>1. CASE Deny(l)
  BY <1>1, DenyStep
<1>2. CASE Decide(reason) /\ Allow(l, [c EXCEPT !.failed = reason], "outage", config.reduced)
  <2>1. PICK q : q = [c EXCEPT !.failed = reason]
    OBVIOUS
  <2>2. q \in LoginRecord /\ q.at = c.at /\ q.failed = reason
    BY <2>1 DEF LoginRecord, Opt
  <2>4. config.degrade /\ reason = "unavailable"
    BY <1>2 DEF Decide
  <2>3. config.reduced \in SUBSET Perm /\ config.reduced \cap Protected = {}
    BY <2>4 DEF VoucherInv, TypeOK, Config, WiringOk, Protected
  <2> QED
    BY <1>2, <2>1, <2>2, <2>3, <2>4, AllowStep
<1> QED
  BY <1>1, <1>2 DEF Failed

\* The keyset's key is looked up in a copy that was made when it was published.
LEMMA GetKeyStep ==
    ASSUME VoucherInv, MintAlone, NEW l \in Login, login[l].pc # "done",
           NEW c \in LoginRecord, c.at <= now, Presented(c), state[c.v] = "UNSPENT" => c.live,
           NEW copy \in Copy, Recent(copy), GetKey(l, c, copy)
    PROVE  VoucherInv'
<1>1. copy' = copy
  OBVIOUS
<1>2. ASSUME cache' = copy PROVE CopyKept
  BY <1>2 DEF CopyKept, Opt, Recent, MintAlone
<1>3. ASSUME cache' = None PROVE CopyKept
  BY <1>3 DEF CopyKept, Opt
<1>4. CASE Lists(copy, c) /\ HaveKey(l, c) /\ cache' = copy
  <2>1. CopyKept
    BY <1>2, <1>4
  <2>2. CASE Failed(l, c, "unknown_keyset")
    BY <2>1, <2>2, FailedStep DEF Reason
  <2>3. CASE Deny(l)
    BY <2>1, <2>3, DenyStep
  <2>4. CASE c.flaw # "amount" /\ MintSigned(c) /\ Await(l, c, "state")
    <3>1. c.flaw \in Opt(Flaw)
      BY DEF LoginRecord
    <3>2. c.flaw = None
      BY <1>4, <2>4, <3>1 DEF Lists, MintSigned, Presented, Flaw, Opt
    <3>3. pubAt[voucher[c.v].keyset] # None
      BY <1>4 DEF Lists, Recent
    <3> QED
      BY <2>1, <2>4, <3>2, <3>3, AwaitStep
  <2> QED
    BY <1>4, <2>2, <2>3, <2>4 DEF HaveKey
<1>5. CASE Await(l, c, "rekeys") /\ cache' = None
  BY <1>3, <1>5, AwaitStep
<1>6. CASE Failed(l, c, "unknown_keyset") /\ cache' = copy
  BY <1>2, <1>6, FailedStep DEF Reason
<1> QED
  BY <1>4, <1>5, <1>6 DEF GetKey

-----------------------------------------------------------------------------
(* Every step keeps the invariant. *)

\* A login begins, with a voucher or without one.
LEMMA CompleteKeeps ==
    ASSUME VoucherInv, NEW l \in Login, NEW p \in {Owner, Thief},
           \/ CompleteWithout(l, p)
           \/ \E v \in VoucherId, flaw \in Opt(Flaw) : Complete(l, p, v, flaw)
    PROVE  VoucherInv'
<1>0. MintAlone /\ login[l].pc # "done" /\ now \in Time /\ now <= now /\ TypeOK
  <2>1. MintAlone /\ login[l].pc = "idle"
    BY DEF CompleteWithout, Complete, MintAlone
  <2>2. TypeOK /\ now \in Time
    BY DEF VoucherInv, TypeOK
  <2>3. now \in Nat
    BY <2>2, Consts DEF Time
  <2> QED
    BY <2>1, <2>2, <2>3
<1>1. ASSUME cache' = cache PROVE CopyKept
  BY <1>0, <1>1, CopyNow DEF CopyKept, Recent, MintAlone
<1>2. CASE CompleteWithout(l, p)
  <2>0. CopyKept
    BY <1>1, <1>2 DEF CompleteWithout
  <2>1. CASE Deny(l)
    BY <1>0, <2>0, <2>1, DenyStep
  <2>2. CASE Allow(l, [Nobody EXCEPT !.who = p, !.at = now], "fallback", {"stored"})
    <3>1. PICK c : c = [Nobody EXCEPT !.who = p, !.at = now]
      OBVIOUS
    <3>2. c \in LoginRecord /\ c.at = now
      BY <1>0, <3>1, NobodyTyped DEF LoginRecord, Opt
    <3>3. {"stored"} \in SUBSET Perm /\ {"stored"} \cap Protected = {}
      BY <1>0 DEF Perm, Destructive, Protected, TypeOK, Config
    <3> QED
      BY <1>0, <2>0, <2>2, <3>1, <3>2, <3>3, AllowStep
  <2> QED
    BY <1>2, <2>1, <2>2 DEF CompleteWithout
<1>3. ASSUME NEW v \in VoucherId, NEW flaw \in Opt(Flaw), Complete(l, p, v, flaw)
      PROVE  VoucherInv'
  <2>1. PICK b \in BOOLEAN : b <=> state[v] = "UNSPENT"
    OBVIOUS
  <2>2. b = (state[v] = "UNSPENT")
    BY <2>1
  <2>3. PICK c : c = [pc |-> "idle", who |-> p, v |-> v, flaw |-> flaw, at |-> now, live |-> b,
                      keys |-> {}, asked |-> 0, failed |-> None]
    OBVIOUS
  <2>4. /\ c \in LoginRecord /\ c.at = now /\ c.who = p /\ c.v = v /\ c.flaw = flaw /\ c.live = b
    <3>1. 0 \in Time
      BY Consts DEF Time
    <3> QED
      BY <1>0, <2>3, <3>1 DEF LoginRecord, Opt
  <2>5. Resolve(l, c)
    BY <1>3, <2>2, <2>3 DEF Complete
  <2>6. CASE Deny(l) /\ cache' = cache
    BY <1>0, <1>1, <2>6, DenyStep
  <2>7. ASSUME Admissible(c) PROVE Presented(c)
    <3>1. c.who # None
      BY <2>4, Consts
    <3> QED
      BY <2>4, <2>7, <3>1
         DEF Admissible, MintAllowed, WellFormed, Parsed, BoundTo, LockKey, IssuerSigned, IssuerAllowed,
             Presented
  <2>8. CASE Admissible(c) /\ CacheLive /\ GetKey(l, c, cache)
    <3>1. cache \in Copy /\ Recent(cache)
      BY <2>8, CopyNow DEF CacheLive, Opt
    <3> QED
      BY <1>0, <2>1, <2>4, <2>7, <2>8, <3>1, GetKeyStep
  <2>9. CASE Admissible(c) /\ Await(l, c, "keys") /\ cache' = cache
    BY <1>0, <1>1, <2>1, <2>4, <2>7, <2>9, AwaitStep
  <2> QED
    BY <2>5, <2>6, <2>8, <2>9 DEF Resolve
<1> QED
  BY <1>2, <1>3

\* An answer that arrives in time makes a copy that is recent and has not ended.
LEMMA Arrival ==
    ASSUME VoucherInv, NEW l \in Login, KeysAnswer(l)
    PROVE  \E copy \in Copy : Recent(copy) /\ now < copy.exp /\ GetKey(l, login[l], copy)
<1> DEFINE c == login[l]
<1>0. /\ TypeOK /\ c \in LoginRecord /\ Answered(c)
      /\ c.keys # {} /\ now <= c.asked + FetchTimeout
  BY InvParts DEF VoucherInv, KeysAnswer, InTime
<1>1. PICK b \in BOOLEAN : b <=> c.pc = "rekeys"
  OBVIOUS
<1>2. b = (c.pc = "rekeys")
  BY <1>1
<1>3. PICK copy : copy = [keysets |-> c.keys, exp |-> now + KeysetTtl, refreshed |-> b]
  OBVIOUS
<1>4. now \in Nat /\ now <= MaxTime /\ c.asked \in Nat
  BY <1>0, Consts DEF TypeOK, LoginRecord, Time
<1>5. now + KeysetTtl \in 0..(MaxTime + KeysetTtl) /\ now < now + KeysetTtl
  BY <1>4, Consts
<1>6. c.keys \in (SUBSET Keyset) \ {{}}
  BY <1>0 DEF LoginRecord
<1>7. copy \in Copy /\ copy.exp = now + KeysetTtl /\ copy.keysets = c.keys
  BY <1>3, <1>5, <1>6 DEF Copy
<1>8. ASSUME NEW k \in c.keys
      PROVE  pubAt[k] # None /\ (k \in published \/ copy.exp <= pubAt[k] + FetchTimeout + KeysetTtl)
  <2>1. pubAt[k] # None /\ (k \in published \/ c.asked <= pubAt[k])
    BY <1>0, <1>8 DEF Answered
  <2>2. k \in Keyset
    BY <1>6, <1>8
  <2>3. pubAt[k] \in Nat
    BY <1>0, <2>1, <2>2, Consts DEF TypeOK, Opt, Time
  <2>4. c.asked <= pubAt[k] => now + KeysetTtl <= pubAt[k] + FetchTimeout + KeysetTtl
    BY <1>0, <1>4, <2>3, Consts
  <2> QED
    BY <1>7, <2>1, <2>4
<1>9. Recent(copy) /\ now < copy.exp
  BY <1>4, <1>5, <1>7, <1>8, Consts DEF Recent
<1>10. GetKey(l, c, copy)
  BY <1>2, <1>3 DEF KeysAnswer
<1> QED
  BY <1>7, <1>9, <1>10

\* The mint answers or fails.
LEMMA StepKeeps == ASSUME VoucherInv, NEW l \in Login, Step(l) PROVE VoucherInv'
<1> DEFINE c == login[l]
<1>0. /\ MintAlone /\ c.pc \in {"keys", "rekeys", "state"} /\ c \in LoginRecord /\ Stage(c) /\ TypeOK
  BY InvParts DEF Step, MintAnswers, KeysAnswer, StateAnswer, MintFails, MintAlone, VoucherInv
<1>1. c.at <= now /\ Presented(c) /\ (state[c.v] = "UNSPENT" => c.live)
  BY <1>0 DEF Stage
<1>2. ASSUME cache' = cache PROVE CopyKept
  BY <1>0, <1>2, CopyNow DEF CopyKept, Recent, MintAlone
<1>3. CASE KeysAnswer(l)
  <2>1. PICK copy \in Copy : Recent(copy) /\ GetKey(l, c, copy)
    BY <1>3, Arrival
  <2> QED
    BY <1>0, <1>1, <2>1, GetKeyStep
<1>6. CASE MintAnswers(l)
  <2>1. PICK q : q = [c EXCEPT !.keys = published]
    OBVIOUS
  <2>2. published \in SUBSET Keyset
    BY <1>0 DEF TypeOK
  <2>3. /\ q \in LoginRecord /\ q.pc = c.pc /\ q.who = c.who /\ q.v = c.v /\ q.flaw = c.flaw
        /\ q.at = c.at /\ q.live = c.live /\ q.asked = c.asked /\ q.keys = published
    BY <1>0, <2>1, <2>2 DEF LoginRecord
  <2>4. Stage(q)
    BY <1>0, <2>3 DEF Stage, Presented, Unexpired
  <2>5. Answered(q)
    BY <2>3 DEF Answered, VoucherInv, CopyIsRecent
  <2>6. login' = [login EXCEPT ![l] = q] /\ session' = session /\ CopyKept
    BY <1>2, <1>6, <2>1 DEF MintAnswers
  <2>7. c.pc # "done"
    BY <1>0
  <2> QED
    BY <1>0, <2>3, <2>4, <2>5, <2>6, <2>7, LoginStep
<1>4. CASE StateAnswer(l)
  <2>1. CopyKept /\ c.pc = "state"
    BY <1>2, <1>4 DEF StateAnswer
  <2>2. CASE Deny(l)
    BY <1>0, <2>1, <2>2, DenyStep
  <2>3. CASE Spendable(state[c.v]) /\ Allow(l, c, "voucher", config.worth)
    <3>1. c.flaw = None /\ pubAt[voucher[c.v].keyset] # None /\ c.live
      BY <1>0, <1>1, <2>1, <2>3 DEF Stage, Spendable
    <3>2. config.worth \in SUBSET Perm
      BY <1>0 DEF TypeOK, Config
    <3> QED
      BY <1>0, <1>1, <2>1, <2>3, <3>1, <3>2, AllowStep
  <2> QED
    BY <1>4, <2>2, <2>3 DEF StateAnswer
<1>5. ASSUME NEW reason \in {"unavailable", "malformed_response"}, MintFails(l, reason)
      PROVE  VoucherInv'
  <2>1. CopyKept /\ Failed(l, c, reason) /\ reason \in Reason
    BY <1>2, <1>5 DEF MintFails, Reason
  <2> QED
    BY <1>0, <1>1, <2>1, FailedStep
<1> QED
  BY <1>3, <1>4, <1>5, <1>6 DEF Step

\* A refresh gives a session that ends no later than its absolute lifetime, and what the
\* resolver answers without a credential.
LEMMA RefreshKeeps == ASSUME VoucherInv, NEW l \in Login, Refresh(l) PROVE VoucherInv'
<1>0. TypeOK /\ session[l] # None
  BY DEF Refresh, VoucherInv
<1>1. /\ session[l] \in SessionRecord /\ login[l].pc = "done"
      /\ Dated(session[l]) /\ Earned(session[l], login[l])
  BY <1>0, InvParts
<1>2. UNCHANGED <<config, voucher, state, published, pubAt, cache, login, now>>
  BY DEF Refresh
<1>3. PICK issued : issued = session[l].issued
  OBVIOUS
<1>4. issued \in Nat /\ now \in Nat /\ now <= MaxTime /\ issued <= now /\ now < issued + MaxLifetime
  <2>1. issued \in Time /\ now \in Time
    BY <1>0, <1>1, <1>3 DEF SessionRecord, TypeOK
  <2>2. issued <= now
    BY <1>1, <1>3 DEF Earned
  <2>3. now < issued + MaxLifetime
    BY <1>3 DEF Refresh
  <2> QED
    BY <2>1, <2>2, <2>3, Consts DEF Time
<1>5. PICK ceiling : ceiling = issued + MaxLifetime
  OBVIOUS
<1>6. ceiling \in Nat /\ now < ceiling
  BY <1>4, <1>5, Consts
<1>7. PICK d : d = ClampTtl(SessionTtl, ceiling, now)
  OBVIOUS
<1>8. d \in 1..SessionTtl /\ now + d <= ceiling
  <2>1. ceiling # None
    BY <1>6, Consts
  <2> QED
    BY <1>4, <1>6, <1>7, <2>1, ClampBounds, Consts
<1>9. PICK rexp : rexp = Min2(now + RefreshTtl, ceiling)
  OBVIOUS
<1>10. rexp \in Int
  BY <1>4, <1>6, <1>9, Consts DEF Min2
<1>11. PICK answer \in Reresolved(session[l]) \ {None} :
          session' = [session EXCEPT ![l] = [@ EXCEPT
             !.perms = answer, !.rotated = TRUE, !.exp = now + d, !.rexp = rexp]]
  BY <1>3, <1>5, <1>7, <1>9 DEF Refresh
<1>12. answer \in SUBSET Perm /\ (session[l].perms \cap Protected = {} => answer \cap Protected = {})
  <2>1. config.missing \in {"deny", "trust-session", "fallback"}
    BY <1>0 DEF TypeOK, Config
  <2>2. answer = session[l].perms \/ answer = {"stored"}
    BY <1>11, <2>1 DEF Reresolved
  <2> QED
    BY <1>0, <1>1, <2>2 DEF SessionRecord, Perm, Destructive, Protected, TypeOK, Config
<1>13. PICK s : s = [session[l] EXCEPT !.perms = answer, !.rotated = TRUE, !.exp = now + d, !.rexp = rexp]
  OBVIOUS
<1>14. /\ s.perms = answer /\ s.rotated = TRUE /\ s.exp = now + d
       /\ s.by = session[l].by /\ s.issued = issued
  BY <1>1, <1>3, <1>13 DEF SessionRecord
<1>15. s \in SessionRecord
  <2>1. now + d \in Int
    BY <1>4, <1>8
  <2> QED
    BY <1>1, <1>10, <1>12, <1>13, <2>1 DEF SessionRecord
<1>16. Dated(s)
  <2>1. s.exp >= s.issued + 1 /\ s.exp <= MaxTime + SessionTtl /\ s.exp \in Int
    BY <1>4, <1>8, <1>14, Consts
  <2>2. s.exp <= s.issued + MaxLifetime
    BY <1>5, <1>8, <1>14
  <2> QED
    BY <1>4, <1>14, <2>1, <2>2, Consts DEF Dated, Max2
<1>17. Earned(s, login[l])
  BY <1>1, <1>3, <1>12, <1>14 DEF Earned
<1>18. session \in [Login -> Opt(SessionRecord)] /\ session' = [session EXCEPT ![l] = s]
  BY <1>0, <1>11, <1>13 DEF TypeOK
<1>19. /\ session' \in [Login -> Opt(SessionRecord)] /\ session'[l] = s
       /\ \A m \in Login : m # l => session'[m] = session[m]
  BY <1>15, <1>18 DEF Opt
<1>20. \A m \in Login : session'[m] # None =>
          login'[m].pc = "done" /\ Dated(session'[m]) /\ Earned(session'[m], login'[m])
  BY <1>1, <1>2, <1>16, <1>17, <1>19, InvParts
<1>21. TypeOK'
  BY <1>0, <1>2, <1>19, <1>20 DEF TypeOK, WiringOk, Dated
<1>22. StagesPassed' /\ CopyIsRecent'
  BY <1>2 DEF VoucherInv, StagesPassed, CopyIsRecent, Presented, Unexpired
<1>23. SessionEarned'
  BY <1>2, <1>20 DEF SessionEarned, Earned, Protected, Presented, Unexpired
<1> QED
  BY <1>21, <1>22, <1>23 DEF VoucherInv

\* A voucher that becomes unspent again was unspent during every login that waits.
LEMMA SpendKeeps ==
    ASSUME VoucherInv, NEW v \in VoucherId, NEW to \in {"UNSPENT", "PENDING", "SPENT"}, Spend(v, to)
    PROVE  VoucherInv'
<1>0. /\ TypeOK /\ UNCHANGED <<config, voucher, published, pubAt, cache, session, now>>
      /\ state' = [state EXCEPT ![v] = to]
  BY DEF VoucherInv, Spend
<1>1. ASSUME NEW l \in Login
      PROVE  /\ login'[l] \in LoginRecord /\ login'[l].pc = login[l].pc
             /\ login'[l].who = login[l].who /\ login'[l].v = login[l].v
             /\ login'[l].flaw = login[l].flaw /\ login'[l].at = login[l].at
             /\ login'[l].failed = login[l].failed
             /\ login'[l].keys = login[l].keys /\ login'[l].asked = login[l].asked
             /\ login'[l].live <=> login[l].live \/ (login[l].v = v /\ to = "UNSPENT" /\ login[l].pc # "done")
  <2>1. login[l] \in LoginRecord
    BY <1>0 DEF TypeOK
  <2>2. PICK b \in BOOLEAN :
           b <=> login[l].live \/ (login[l].v = v /\ to = "UNSPENT" /\ login[l].pc # "done")
    OBVIOUS
  <2>3. b = (login[l].live \/ (login[l].v = v /\ to = "UNSPENT" /\ login[l].pc # "done"))
    <3>1. login[l].live \in BOOLEAN
      BY <2>1 DEF LoginRecord
    <3> QED
      BY <2>2, <3>1
  <2>4. login'[l] = [login[l] EXCEPT !.live = b]
    BY <2>3 DEF Spend
  <2> QED
    BY <2>1, <2>2, <2>4 DEF LoginRecord
<1>2. login' \in [Login -> LoginRecord]
  <2>1. PICK f : f = login'
    OBVIOUS
  <2>2. f = [l \in Login |-> f[l]]
    BY <2>1 DEF Spend
  <2>3. \A l \in Login : f[l] \in LoginRecord
    BY <1>1, <2>1
  <2> QED
    BY <2>1, <2>2, <2>3
<1>3. state' \in [VoucherId -> {"UNSPENT", "PENDING", "SPENT"}]
  BY <1>0 DEF TypeOK
<1>4. TypeOK'
  BY <1>0, <1>1, <1>2, <1>3 DEF TypeOK, WiringOk
<1>5. StagesPassed'
  <2> SUFFICES ASSUME NEW l \in Login
               PROVE  /\ login'[l].at <= now /\ login'[l].asked <= now
                      /\ login'[l].pc \in {"keys", "rekeys", "state"} =>
                            Presented(login[l])' /\ (state'[login'[l].v] = "UNSPENT" => login'[l].live)
                      /\ login'[l].pc = "state" =>
                            login'[l].flaw = None /\ pubAt[voucher[login'[l].v].keyset] # None
    BY <1>0 DEF StagesPassed
  <2>1. Stage(login[l])
    BY InvParts
  <2>2. ASSUME login[l].pc \in {"keys", "rekeys", "state"}
        PROVE  Presented(login[l])' /\ (state'[login'[l].v] = "UNSPENT" => login'[l].live)
    <3>1. Presented(login[l]) /\ (state[login[l].v] = "UNSPENT" => login[l].live)
      BY <2>1, <2>2 DEF Stage
    <3>2. Presented(login[l])'
      BY <1>0, <1>1, <3>1 DEF Presented, Unexpired
    <3>3. state' = [state EXCEPT ![v] = to] /\ state \in [VoucherId -> {"UNSPENT", "PENDING", "SPENT"}]
          /\ login[l].v \in VoucherId
      BY <1>0, <3>1 DEF TypeOK, Presented
    <3>4. CASE login[l].v = v
      BY <1>1, <2>2, <3>2, <3>3, <3>4
    <3>5. CASE login[l].v # v
      BY <1>1, <3>1, <3>2, <3>3, <3>5
    <3> QED
      BY <3>2, <3>4, <3>5
  <2> QED
    BY <1>1, <2>1, <2>2 DEF Stage
<1>6. CopyIsRecent'
  BY <1>0, <1>1 DEF VoucherInv, CopyIsRecent
<1>7. SessionEarned'
  <2> SUFFICES ASSUME NEW l \in Login, session[l] # None PROVE Earned(session[l], login[l])'
    BY <1>0 DEF SessionEarned, Earned, Protected
  <2>1. Earned(session[l], login[l])
    BY InvParts
  <2>2. Presented(login[l]) => Presented(login[l])'
    BY <1>0, <1>1 DEF Presented, Unexpired
  <2> QED
    BY <1>0, <1>1, <2>1, <2>2 DEF Earned, Protected
<1> QED
  BY <1>4, <1>5, <1>6, <1>7 DEF VoucherInv

\* A withdrawn keyset was published until now, and every copy ends within a TTL of now.
LEMMA RotateKeeps == ASSUME VoucherInv, NEW k \in Keyset, Rotate(k) PROVE VoucherInv'
<1>0. /\ TypeOK /\ UNCHANGED <<config, voucher, state, cache, login, session, now>>
      /\ published' = {k} /\ pubAt' = [j \in Keyset |-> IF j \in published \cup {k} THEN now ELSE pubAt[j]]
  BY DEF VoucherInv, Rotate
<1>1. now \in Nat /\ now \in Time
  BY <1>0, Consts DEF TypeOK, Time
<1>2. now # None
  BY <1>1, Consts
<1>3. pubAt' \in [Keyset -> Opt(Time)] /\ published' \in (SUBSET Keyset) \ {{}}
  <2>1. pubAt \in [Keyset -> Opt(Time)] /\ now \in Opt(Time)
    BY <1>0, <1>1 DEF TypeOK, Opt
  <2>2. {k} \in (SUBSET Keyset) \ {{}}
    BY Zenon
  <2>3. pubAt' \in [Keyset -> Opt(Time)]
    BY <1>0, <2>1
  <2> QED
    BY <1>0, <2>2, <2>3
<1>4. \A j \in Keyset : pubAt[j] # None => pubAt'[j] # None
  BY <1>0, <1>2
<1>5. TypeOK'
  BY <1>0, <1>3 DEF TypeOK, WiringOk
<1>6. \A w \in VoucherId : voucher[w].keyset \in Keyset
  BY <1>0 DEF TypeOK
<1>7. StagesPassed'
  BY <1>0, <1>4, <1>6 DEF VoucherInv, StagesPassed, Presented, Unexpired
<1>8. CopyIsRecent'
  <2>1. \A j \in published' : pubAt'[j] # None
    BY <1>0, <1>2
  <2>2. ASSUME cache # None, NEW j \in cache.keysets
        PROVE  pubAt'[j] # None /\ (j \in published' \/ cache.exp <= pubAt'[j] + FetchTimeout + KeysetTtl)
    <3>1. j \in Keyset /\ cache.exp \in Int
      BY <1>0, <2>2 DEF TypeOK, Opt
    <3>2. /\ cache.exp <= now + KeysetTtl
          /\ pubAt[j] # None /\ (j \in published \/ cache.exp <= pubAt[j] + FetchTimeout + KeysetTtl)
      BY <2>2 DEF VoucherInv, CopyIsRecent
    <3>3. cache.exp <= now + FetchTimeout + KeysetTtl
      BY <1>1, <3>1, <3>2, Consts
    <3> QED
      BY <1>0, <1>2, <3>1, <3>2, <3>3
  <2>4. ASSUME NEW l \in Login, NEW j \in login[l].keys
        PROVE  pubAt'[j] # None /\ (j \in published' \/ login[l].asked <= pubAt'[j])
    <3>1. j \in Keyset
      BY <1>0, <2>4 DEF TypeOK, LoginRecord
    <3>2. login[l].asked <= now /\ pubAt[j] # None /\ (j \in published \/ login[l].asked <= pubAt[j])
      BY <2>4, InvParts DEF Stage, Answered
    <3> QED
      BY <1>0, <1>2, <3>1, <3>2
  <2>3. cache # None => cache.exp <= now + KeysetTtl
    BY DEF VoucherInv, CopyIsRecent
  <2> QED
    BY <1>0, <2>1, <2>2, <2>3, <2>4 DEF CopyIsRecent
<1>9. SessionEarned'
  BY <1>0, <1>4, <1>6 DEF VoucherInv, SessionEarned, Protected, Presented, Unexpired
<1> QED
  BY <1>5, <1>7, <1>8, <1>9 DEF VoucherInv

\* Forgetting the copy, or the passing of time, takes nothing from what is known.
LEMMA RestKeeps == ASSUME VoucherInv, ClearCache \/ Tick \/ UNCHANGED vars PROVE VoucherInv'
<1>0. TypeOK
  BY DEF VoucherInv
<1>1. CASE ClearCache
  BY <1>1 DEF ClearCache, VoucherInv, TypeOK, WiringOk, Opt, StagesPassed, CopyIsRecent, SessionEarned,
              Protected, Presented, Unexpired
<1>2. CASE Tick
  <2>1. /\ now \in Nat /\ now' = now + 1 /\ now' \in Time
        /\ UNCHANGED <<config, voucher, state, published, pubAt, cache, login, session>>
    BY <1>0, <1>2, Consts DEF Tick, TypeOK, Time
  <2>2. TypeOK'
    BY <1>0, <2>1 DEF TypeOK, WiringOk
  <2>3. StagesPassed'
    <3>1. ASSUME NEW l \in Login PROVE login[l].at <= now + 1 /\ login[l].asked <= now + 1
      <4>1. /\ login[l].at \in Nat /\ login[l].at <= now
            /\ login[l].asked \in Nat /\ login[l].asked <= now
        BY <1>0, InvParts, Consts DEF Stage, LoginRecord, Time
      <4> QED
        BY <2>1, <4>1
    <3> QED
      BY <2>1, <3>1 DEF VoucherInv, StagesPassed, Presented, Unexpired
  <2>4. CopyIsRecent'
    <3>1. cache # None => cache.exp <= now + 1 + KeysetTtl
      <4>1. cache # None => cache.exp \in Int /\ cache.exp <= now + KeysetTtl
        BY <1>0, Consts DEF VoucherInv, TypeOK, CopyIsRecent, Opt
      <4> QED
        BY <2>1, <4>1, Consts
    <3> QED
      BY <2>1, <3>1 DEF VoucherInv, CopyIsRecent
  <2>5. SessionEarned'
    <3>1. ASSUME NEW l \in Login, session[l] # None PROVE session[l].issued <= now + 1
      <4>1. session[l].issued \in Nat /\ session[l].issued <= now
        BY <1>0, <3>1, InvParts, Consts DEF Earned, SessionRecord, Time
      <4> QED
        BY <2>1, <4>1
    <3> QED
      BY <2>1, <3>1 DEF VoucherInv, SessionEarned, Protected, Presented, Unexpired
  <2> QED
    BY <2>2, <2>3, <2>4, <2>5 DEF VoucherInv
<1>3. CASE UNCHANGED vars
  BY <1>3 DEF vars, VoucherInv, TypeOK, WiringOk, StagesPassed, CopyIsRecent, SessionEarned,
              Protected, Presented, Unexpired
<1> QED
  BY <1>1, <1>2, <1>3

\* Nobody has logged in, the mint publishes one keyset and nothing is cached.
LEMMA InitVoucher == Init => VoucherInv
<1> SUFFICES ASSUME Init PROVE VoucherInv
  OBVIOUS
<1>0. 0 \in Time /\ 0 \in Nat /\ FirstKeyset \in Keyset
  BY VoucherAssumption DEF Time
<1>1. PICK first : first = [Nobody EXCEPT !.pc = "idle"]
  OBVIOUS
<1>2. first \in LoginRecord /\ first.pc = "idle" /\ first.at = 0 /\ first.asked = 0 /\ first.keys = {}
  BY <1>0, <1>1 DEF Nobody, LoginRecord, Opt
<1>3. login = [l \in Login |-> first] /\ session = [l \in Login |-> None] /\ cache = None /\ now = 0
  BY <1>1 DEF Init
<1>4. config \in Config /\ WiringOk(config)
  BY VoucherAssumption DEF Init
<1>5. pubAt \in [Keyset -> Opt(Time)] /\ published \in (SUBSET Keyset) \ {{}} /\ pubAt[FirstKeyset] = 0
  <2>1. 0 \in Opt(Time) /\ None \in Opt(Time)
    BY <1>0 DEF Opt
  <2>2. pubAt = [k \in Keyset |-> IF k = FirstKeyset THEN 0 ELSE None]
    BY DEF Init
  <2>3. pubAt \in [Keyset -> Opt(Time)] /\ pubAt[FirstKeyset] = 0
    BY <1>0, <2>1, <2>2
  <2>4. {FirstKeyset} \in (SUBSET Keyset) \ {{}}
    BY <1>0, Zenon
  <2> QED
    BY <2>3, <2>4 DEF Init
<1>6. TypeOK
  BY <1>0, <1>2, <1>3, <1>4, <1>5 DEF Init, TypeOK, Opt
<1>7. StagesPassed
  BY <1>0, <1>2, <1>3 DEF StagesPassed
<1>8. CopyIsRecent
  BY <1>0, <1>2, <1>3, <1>5, Consts DEF Init, CopyIsRecent
<1>9. SessionEarned
  BY <1>3 DEF SessionEarned
<1> QED
  BY <1>6, <1>7, <1>8, <1>9 DEF VoucherInv

-----------------------------------------------------------------------------
(* The theorems. *)

\* Every state of the resolver, its mint and its sessions satisfies the invariant.
THEOREM VoucherInductive == Spec => []VoucherInv
<1>1. Init => VoucherInv
  BY InitVoucher
<1>2. VoucherInv /\ [Next]_vars => VoucherInv'
  <2> SUFFICES ASSUME VoucherInv, [Next]_vars PROVE VoucherInv'
    OBVIOUS
  <2>1. ASSUME NEW l \in Login, NEW p \in {Owner, Thief},
               \/ CompleteWithout(l, p)
               \/ \E v \in VoucherId, flaw \in Opt(Flaw) : Complete(l, p, v, flaw)
        PROVE  VoucherInv'
    BY <2>1, CompleteKeeps
  <2>2. ASSUME NEW l \in Login, Step(l) PROVE VoucherInv'
    BY <2>2, StepKeeps
  <2>3. ASSUME NEW l \in Login, Refresh(l) PROVE VoucherInv'
    BY <2>3, RefreshKeeps
  <2>4. ASSUME NEW v \in VoucherId, NEW to \in {"UNSPENT", "PENDING", "SPENT"}, Spend(v, to)
        PROVE  VoucherInv'
    BY <2>4, SpendKeeps
  <2>5. ASSUME NEW k \in Keyset, Rotate(k) PROVE VoucherInv'
    BY <2>5, RotateKeeps
  <2>6. CASE ClearCache \/ Tick \/ UNCHANGED vars
    BY <2>6, RestKeeps
  <2> QED
    BY <2>1, <2>2, <2>3, <2>4, <2>5, <2>6 DEF Next
<1> QED
  BY <1>1, <1>2, PTL DEF Spec

\* The variables have their types: every session ends after it begins, within its lifetime.
THEOREM VoucherTypes == Spec => []TypeOK
<1>1. VoucherInv => TypeOK
  BY DEF VoucherInv
<1> QED
  BY <1>1, VoucherInductive, PTL

\* What a guard allows is what the session holds, or what stored ACLs give, and these are
\* harmless.
LEMMA GuardAdds ==
    ASSUME VoucherInv, NEW l \in Login, session[l] # None
    PROVE  GuardAllows(l) \cap Destructive \subseteq session[l].perms \cap Destructive
<1>1. config.missing \in {"deny", "trust-session", "fallback"}
  BY DEF VoucherInv, TypeOK, Config
<1>2. \A answer \in Reresolved(session[l]) \ {None} : answer = session[l].perms \/ answer = {"stored"}
  BY <1>1 DEF Reresolved
<1>3. GuardAllows(l) \subseteq session[l].perms \cup {"stored"}
  BY <1>2 DEF GuardAllows
<1> QED
  BY <1>3 DEF Destructive

\* What is protected destroys.
LEMMA ProtectedDestroys == ASSUME TypeOK PROVE Protected \subseteq Destructive
  BY DEF TypeOK, Config, Protected

\* What is protected is earned by a voucher the mint signed, that its holder
\* presented unexpired and that was unspent at some moment of the login.
THEOREM FullGrant == Spec => []FullGrantIsEarned
<1>1. VoucherInv => FullGrantIsEarned
  <2> SUFFICES ASSUME VoucherInv, NEW l \in Login, session[l] # None,
                      (session[l].perms \cup GuardAllows(l)) \cap Protected # {}
               PROVE  /\ login[l].v # None /\ login[l].flaw = None /\ login[l].live
                      /\ login[l].who = Owner /\ Unexpired(login[l])
                      /\ pubAt[voucher[login[l].v].keyset] # None
                      /\ \/ session[l].rotated \/ voucher[login[l].v].exp = None
                         \/ session[l].exp <= voucher[login[l].v].exp
    BY DEF FullGrantIsEarned
  <2>0. Protected \subseteq Destructive
    BY ProtectedDestroys DEF VoucherInv
  <2>1. session[l].perms \cap Protected # {}
    BY <2>0, GuardAdds
  <2>2. Earned(session[l], login[l])
    BY InvParts
  <2>3. session[l].by = "voucher"
    BY <2>1, <2>2 DEF Earned
  <2> QED
    BY <2>2, <2>3, Consts DEF Earned, Presented
<1> QED
  BY <1>1, VoucherInductive, PTL

\* A session of an outage has nothing that is listed as destructive, then or later, and only
\* an operator who chose to degrade has one, after a mint that did not answer.
THEOREM Outage == Spec => []OutageGrantsLess
<1>1. VoucherInv => OutageGrantsLess
  <2> SUFFICES ASSUME VoucherInv, NEW l \in Login, session[l] # None, session[l].by = "outage"
               PROVE  /\ config.degrade /\ login[l].failed = "unavailable"
                      /\ (session[l].perms \cup GuardAllows(l)) \cap config.listed = {}
    BY DEF OutageGrantsLess
  <2>1. Earned(session[l], login[l])
    BY InvParts
  <2>2. config.degrade /\ login[l].failed = "unavailable" /\ session[l].perms \cap config.listed = {}
    BY <2>1 DEF Earned, Protected
  <2>4. config.listed \subseteq Destructive
    BY DEF VoucherInv, TypeOK, Config
  <2>3. GuardAllows(l) \cap Destructive \subseteq session[l].perms \cap Destructive
    BY GuardAdds
  <2> QED
    BY <2>2, <2>3, <2>4
<1> QED
  BY <1>1, VoucherInductive, PTL

-----------------------------------------------------------------------------
(* Whose keys are honoured. *)

\* A login that is denied, allowed or made to wait for the keys does not come to be asked about.
LEMMA NotAsked ==
    ASSUME TypeOK, NEW l \in Login, NEW c \in LoginRecord,
           \/ Deny(l)
           \/ \E by \in {"voucher", "outage", "fallback"}, perms \in SUBSET Perm : Allow(l, c, by, perms)
           \/ \E reason \in Reason : Failed(l, c, reason)
           \/ \E pc \in {"keys", "rekeys"} : Await(l, c, pc),
           NEW m \in Login, login'[m].pc = "state"
    PROVE  login[m].pc = "state"
<1>0. login \in [Login -> LoginRecord] /\ Nobody.pc = "done"
  BY NobodyTyped DEF TypeOK
<1>1. CASE Deny(l)
  BY <1>0, <1>1 DEF Deny
<1>2. ASSUME NEW q \in LoginRecord, NEW by, NEW perms, Allow(l, q, by, perms)
      PROVE  login[m].pc = "state"
  <2>1. CASE Deny(l)
    BY <1>1, <2>1
  <2>2. CASE login' = [login EXCEPT ![l] = [q EXCEPT !.pc = "done", !.keys = {}, !.asked = 0]]
    <3>1. PICK d : d = [q EXCEPT !.pc = "done", !.keys = {}, !.asked = 0]
      OBVIOUS
    <3>2. d.pc = "done"
      BY <3>1 DEF LoginRecord
    <3> QED
      BY <1>0, <2>2, <3>1, <3>2
  <2> QED
    BY <1>2, <2>1, <2>2 DEF Allow
<1>3. ASSUME NEW reason \in Reason, Failed(l, c, reason) PROVE login[m].pc = "state"
  <2>1. PICK q : q = [c EXCEPT !.failed = reason]
    OBVIOUS
  <2>2. q \in LoginRecord
    BY <2>1 DEF LoginRecord, Opt
  <2> QED
    BY <1>1, <1>2, <1>3, <2>1, <2>2 DEF Failed
<1>4. ASSUME NEW pc \in {"keys", "rekeys"}, Await(l, c, pc) PROVE login[m].pc = "state"
  <2>1. PICK d : d = [c EXCEPT !.pc = pc, !.keys = {}, !.asked = now]
    OBVIOUS
  <2>2. d.pc = pc
    BY <2>1 DEF LoginRecord
  <2> QED
    BY <1>0, <1>4, <2>1, <2>2 DEF Await
<1> QED
  BY <1>1, <1>2, <1>3, <1>4

\* The keyset of a login that came to be asked about: published now, or not long ago
Honoured(k) == k \in published \/ (pubAt[k] # None /\ now < pubAt[k] + FetchTimeout + KeysetTtl)

\* A copy that has not ended honours no key longer than an answer's way and its TTL.
LEMMA KeyHonoured ==
    ASSUME TypeOK, NEW l \in Login, NEW c \in LoginRecord, c.v \in VoucherId,
           NEW copy \in Copy, Recent(copy), now < copy.exp, GetKey(l, c, copy),
           NEW m \in Login, login[m].pc # "state", login'[m].pc = "state"
    PROVE  Honoured(voucher[login'[m].v].keyset)
<1>1. CASE Lists(copy, c) /\ Await(l, c, "state")
  <2>0. login \in [Login -> LoginRecord]
    BY DEF TypeOK
  <2>1. PICK d : d = [c EXCEPT !.pc = "state", !.keys = {}, !.asked = 0]
    OBVIOUS
  <2>2. d.v = c.v
    BY <2>1 DEF LoginRecord
  <2>3. login' = [login EXCEPT ![l] = d]
    BY <1>1, <2>1 DEF Await
  <2>4. m = l /\ login'[m].v = c.v
    BY <2>0, <2>2, <2>3
  <2>5. PICK k : k = voucher[c.v].keyset
    OBVIOUS
  <2>6. k \in copy.keysets /\ k \in Keyset
    BY <1>1, <2>5 DEF Lists, TypeOK
  <2>7. pubAt[k] # None /\ (k \in published \/ copy.exp <= pubAt[k] + FetchTimeout + KeysetTtl)
    BY <2>6 DEF Recent
  <2>8. pubAt[k] \in Nat /\ now \in Nat /\ copy.exp \in Int
    BY <2>6, <2>7, Consts DEF TypeOK, Opt, Time, Copy
  <2>9. Honoured(k)
    BY <2>7, <2>8, Consts DEF Honoured
  <2> QED
    BY <2>4, <2>5, <2>9
<1>2. CASE \/ Deny(l) \/ Failed(l, c, "unknown_keyset") \/ Await(l, c, "rekeys")
  BY <1>2, NotAsked DEF Reason
<1> QED
  BY <1>1, <1>2 DEF GetKey, HaveKey

\* A key the mint has withdrawn is honoured no longer than the cache's TTL and the time an
\* answer may be under way.
THEOREM RecentKeys == Spec => KeysAreRecent
<1>1. VoucherInv /\ [Next]_vars =>
         [\A l \in Login : login[l].pc # "state" /\ login'[l].pc = "state" =>
             LET k == voucher[login'[l].v].keyset IN
             k \in published \/ (pubAt[k] # None /\ now < pubAt[k] + FetchTimeout + KeysetTtl)]_vars
  <2> SUFFICES ASSUME VoucherInv, Next, NEW m \in Login, login[m].pc # "state", login'[m].pc = "state"
               PROVE  Honoured(voucher[login'[m].v].keyset)
    BY DEF Honoured
  <2>0. TypeOK /\ login \in [Login -> LoginRecord] /\ now \in Nat
    BY Consts DEF VoucherInv, TypeOK, Time
  <2>1. ASSUME NEW l \in Login, NEW p \in {Owner, Thief}, CompleteWithout(l, p)
        PROVE  Honoured(voucher[login'[m].v].keyset)
    <3>1. CASE Deny(l)
      BY <2>0, <3>1, NotAsked
    <3>2. CASE Allow(l, [Nobody EXCEPT !.who = p, !.at = now], "fallback", {"stored"})
      <4>1. PICK c : c = [Nobody EXCEPT !.who = p, !.at = now]
        OBVIOUS
      <4>2. now \in Time
        BY <2>0 DEF TypeOK
      <4>3. c \in LoginRecord
        BY <2>0, <4>1, <4>2, NobodyTyped DEF LoginRecord, Opt
      <4>4. {"stored"} \in SUBSET Perm
        BY DEF Perm
      <4> QED
        BY <2>0, <3>2, <4>1, <4>3, <4>4, NotAsked
    <3> QED
      BY <2>1, <3>1, <3>2 DEF CompleteWithout
  <2>2. ASSUME NEW l \in Login, NEW p \in {Owner, Thief}, NEW v \in VoucherId, NEW flaw \in Opt(Flaw),
               Complete(l, p, v, flaw)
        PROVE  Honoured(voucher[login'[m].v].keyset)
    <3>1. PICK b \in BOOLEAN : b <=> state[v] = "UNSPENT"
      OBVIOUS
    <3>2. b = (state[v] = "UNSPENT")
      BY <3>1
    <3>3. PICK c : c = [pc |-> "idle", who |-> p, v |-> v, flaw |-> flaw, at |-> now, live |-> b,
                        keys |-> {}, asked |-> 0, failed |-> None]
      OBVIOUS
    <3>4. now \in Time /\ 0 \in Time
      BY <2>0, Consts DEF TypeOK, Time
    <3>5. c \in LoginRecord /\ c.v \in VoucherId
      BY <3>3, <3>4 DEF LoginRecord, Opt
    <3>6. Resolve(l, c)
      BY <2>2, <3>2, <3>3 DEF Complete
    <3>7. CASE Deny(l) \/ Await(l, c, "keys")
      BY <2>0, <3>5, <3>7, NotAsked
    <3>8. CASE CacheLive /\ GetKey(l, c, cache)
      <4>1. cache \in Copy /\ Recent(cache) /\ cache.exp > now
        BY <3>8, CopyNow DEF CacheLive, Opt
      <4>2. now < cache.exp
        BY <2>0, <4>1, Consts DEF Copy
      <4> QED
        BY <2>0, <3>5, <3>8, <4>1, <4>2, KeyHonoured
    <3> QED
      BY <3>6, <3>7, <3>8 DEF Resolve
  <2>3. ASSUME NEW l \in Login, KeysAnswer(l) PROVE Honoured(voucher[login'[m].v].keyset)
    <3>1. PICK copy \in Copy : Recent(copy) /\ now < copy.exp /\ GetKey(l, login[l], copy)
      BY <2>3, Arrival
    <3>2. login[l] \in LoginRecord /\ login[l].v \in VoucherId
      BY <2>3, InvParts DEF KeysAnswer, Stage, Presented
    <3> QED
      BY <2>0, <3>1, <3>2, KeyHonoured
  <2>8. ASSUME NEW l \in Login, MintAnswers(l) PROVE FALSE
    <3>1. login[l] \in LoginRecord /\ login' = [login EXCEPT ![l].keys = published]
      BY <2>0, <2>8 DEF MintAnswers
    <3>2. PICK q : q = [login[l] EXCEPT !.keys = published]
      OBVIOUS
    <3>3. q.pc = login[l].pc /\ login' = [login EXCEPT ![l] = q]
      BY <3>1, <3>2 DEF LoginRecord
    <3> QED
      BY <2>0, <3>3
  <2>4. ASSUME NEW l \in Login, StateAnswer(l) PROVE Honoured(voucher[login'[m].v].keyset)
    <3>1. config.worth \in SUBSET Perm /\ login[l] \in LoginRecord
      BY <2>0 DEF TypeOK, Config
    <3> QED
      BY <2>0, <2>4, <3>1, NotAsked DEF StateAnswer
  <2>5. ASSUME NEW l \in Login, NEW reason \in {"unavailable", "malformed_response"}, MintFails(l, reason)
        PROVE  Honoured(voucher[login'[m].v].keyset)
    <3>1. login[l] \in LoginRecord /\ reason \in Reason
      BY <2>0 DEF Reason
    <3> QED
      BY <2>0, <2>5, <3>1, NotAsked DEF MintFails
  <2>6. ASSUME NEW v \in VoucherId, NEW to \in {"UNSPENT", "PENDING", "SPENT"}, Spend(v, to) PROVE FALSE
    <3>1. PICK b : b = (login[m].live \/ (login[m].v = v /\ to = "UNSPENT" /\ login[m].pc # "done"))
      OBVIOUS
    <3>2. login'[m] = [login[m] EXCEPT !.live = b] /\ login[m] \in LoginRecord
      BY <2>0, <2>6, <3>1 DEF Spend
    <3>3. login'[m].pc = login[m].pc
      BY <3>2 DEF LoginRecord
    <3> QED
      BY <3>3
  <2>7. ASSUME login' = login PROVE FALSE
    BY <2>7
  <2> QED
    BY <2>1, <2>2, <2>3, <2>4, <2>5, <2>6, <2>7, <2>8 DEF Next, Step, Refresh, Rotate, ClearCache, Tick
<1> QED
  BY <1>1, VoucherInductive, PTL DEF Spec, KeysAreRecent
=============================================================================
