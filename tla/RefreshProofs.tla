--------------------------- MODULE RefreshProofs ---------------------------
(***************************************************************************)
(* Proofs about Refresh, for every number of sessions, requests and        *)
(* principals, every setting and both stores: type correctness, that a     *)
(* refresh token is rotated once, that a replay is what it is called and   *)
(* ends the session, and that the in-memory index maps agree.              *)
(***************************************************************************)
EXTENDS Refresh, TLAPS

-----------------------------------------------------------------------------
(* The operators keep the types of what they build. *)

\* A value is an optional value, ...
LEMMA OptIn == ASSUME NEW S, NEW x \in S PROVE x \in Opt(S)
BY DEF Opt

\* ... so is the unset one, ...
LEMMA OptNone == ASSUME NEW S PROVE None \in Opt(S)
BY DEF Opt

\* ... and an optional value that is set is a value.
LEMMA OptSome == ASSUME NEW S, NEW x \in Opt(S), x # None PROVE x \in S
BY DEF Opt

\* A session, a request and a token are set values, and the two kinds of token differ.
LEMMA Names ==
    /\ \A s \in Session : s # None /\ s \in Token /\ s \notin RefreshReq
    /\ \A r \in RefreshReq : r # None /\ r \in Token /\ r \notin Session
    /\ \A t \in Token : t # None /\ (t \in Session \/ t \in RefreshReq)
BY RefreshNameAssumption DEF Token

\* The absent login is a record like the others.
LEMMA NoLoginType == NoLogin \in LoginRecord
BY OptNone DEF NoLogin, LoginRecord

\* So are the absent session and the request not yet made.
LEMMA EmptyTypes == NoSession \in SessionRecord /\ NoRequest \in RefreshRequest
<1>1. NoSession \in SessionRecord
  BY DEF NoSession, SessionRecord, Opt
<1>2. NoRequest \in RefreshRequest
  BY <1>1 DEF NoRequest, RefreshRequest, RefreshPc, RefreshCode, Opt
<1> QED BY <1>1, <1>2

\* clampTtlToDecision answers with a number of seconds, ...
LEMMA ClampTtlType ==
    ASSUME NEW ttl \in Int, NEW b \in Opt(Int), NEW now \in Int
    PROVE  ClampTtl(ttl, b, now) \in Int
BY DEF ClampTtl, Opt

\* ... and the lesser of two bounds is a bound, an instant if one of them is.
LEMMA LesserType ==
    ASSUME NEW a \in Opt(Int), NEW b \in Opt(Int)
    PROVE  /\ Lesser(a, b) \in Opt(Int)
           /\ b \in Int => Lesser(a, b) \in Int
BY DEF Lesser, Opt

\* createSessionRecord builds a session record.
LEMMA NewSessionType ==
    ASSUME NEW s \in Session, NEW p \in Opt(Principal), NEW bound \in Opt(Int), NEW now \in Int
    PROVE  NewSession(s, p, bound, now) \in SessionRecord
<1>1. SessionTtl \in Int /\ RefreshTtl \in Int
  BY RefreshTtlAssumption
<1>2. ClampTtl(SessionTtl, bound, now) \in Int
  BY <1>1, ClampTtlType, Zenon
<1>3. now + ClampTtl(SessionTtl, bound, now) \in Int /\ now + RefreshTtl \in Int
  BY <1>1, <1>2
<1>4. s \in Opt(Token) /\ None \in Opt(Token)
  BY Names, OptIn, OptNone
<1> QED BY <1>3, <1>4 DEF NewSession, SessionRecord

\* What createForChallenge stores is a session record, made of what the login carried.
LEMMA StoredType ==
    ASSUME TypeOK, NEW s \in Session, LoginStore(s)
    PROVE  \E n \in SessionRecord :
              /\ sess' = [sess EXCEPT ![s] = n] /\ sess'[s] = n
              /\ n = NewSession(s, login[s].owner, login[s].bound, login[s].now)
<1>1. login[s] \in LoginRecord
  BY DEF TypeOK
<1>2. login[s].owner \in Opt(Principal) /\ login[s].bound \in Opt(Int) /\ login[s].now \in Int
  BY <1>1 DEF LoginRecord
<1>3. NewSession(s, login[s].owner, login[s].bound, login[s].now) \in SessionRecord
  BY <1>2, NewSessionType
<1> QED BY <1>3 DEF LoginStore, TypeOK

\* A rotated session is a session record, with the fresh tokens and the outgoing one.
LEMMA RotationType ==
    ASSUME NEW rec \in SessionRecord, NEW r \in RefreshReq, req[r] \in RefreshRequest
    PROVE  /\ Rotation(rec, r) \in SessionRecord
           /\ Rotation(rec, r).access = r /\ Rotation(rec, r).refresh = r
           /\ Rotation(rec, r).prev = rec.refresh
           /\ Rotation(rec, r).revoked = rec.revoked
<1> DEFINE ceiling == IF MaxLifetime = None THEN None ELSE Ceiling(rec)
           bound == Lesser(ceiling, req[r].bound)
           exp == req[r].now + ClampTtl(SessionTtl, bound, req[r].now)
           rexp == Lesser(ceiling, req[r].now + RefreshTtl)
<1>1. /\ req[r].now \in Int /\ req[r].bound \in Opt(Int) /\ rec.issued \in Int
      /\ rec.refresh \in Opt(Token)
  BY DEF RefreshRequest, SessionRecord
<1>2. SessionTtl \in Int /\ RefreshTtl \in Int
  BY RefreshTtlAssumption
<1>3. ceiling \in Opt(Int)
  BY <1>1, RefreshTtlAssumption DEF Ceiling, Opt
<1> HIDE DEF ceiling
<1>4. bound \in Opt(Int)
  BY <1>1, <1>3, LesserType
<1> HIDE DEF bound
<1>5. ClampTtl(SessionTtl, bound, req[r].now) \in Int
  BY <1>1, <1>2, <1>4, ClampTtlType, Zenon
<1>6. exp \in Int
  BY <1>1, <1>5
<1>7. req[r].now + RefreshTtl \in Int
  BY <1>1, <1>2
<1>8. req[r].now + RefreshTtl \in Opt(Int)
  BY <1>7, OptIn
<1>9. rexp \in Int
  BY <1>3, <1>7, <1>8, LesserType
<1>10. r \in Opt(Token)
  BY Names, OptIn
<1>11. Rotation(rec, r) = [rec EXCEPT !.access = r, !.refresh = r, !.prev = rec.refresh,
                                      !.exp = exp, !.refreshExp = rexp]
  BY DEF Rotation, ceiling, bound
<1> HIDE DEF exp, rexp
<1> QED BY <1>1, <1>6, <1>9, <1>10, <1>11 DEF SessionRecord

\* Revocation leaves a table of records, changes nothing but the flag, and sets it on the
\* sessions the store holds.
LEMMA RevokedFacts ==
    ASSUME TypeOK, NEW S
    PROVE  /\ Revoked(S) \in [Session -> SessionRecord]
           /\ \A s \in Session :
                 /\ Revoked(S)[s].access = sess[s].access
                 /\ Revoked(S)[s].refresh = sess[s].refresh
                 /\ Revoked(S)[s].prev = sess[s].prev
                 /\ sess[s].revoked => Revoked(S)[s].revoked
                 /\ s \in S \cap byId => Revoked(S)[s].revoked
<1>1. \A s \in Session : sess[s] \in SessionRecord
  BY DEF TypeOK
<1>2. \A s \in Session :
         /\ [sess[s] EXCEPT !.revoked = TRUE] \in SessionRecord
         /\ [sess[s] EXCEPT !.revoked = TRUE].access = sess[s].access
         /\ [sess[s] EXCEPT !.revoked = TRUE].refresh = sess[s].refresh
         /\ [sess[s] EXCEPT !.revoked = TRUE].prev = sess[s].prev
         /\ [sess[s] EXCEPT !.revoked = TRUE].revoked = TRUE
  BY <1>1 DEF SessionRecord
<1> QED BY <1>1, <1>2 DEF Revoked

-----------------------------------------------------------------------------
(* What a handler's segment does to the table of requests. *)

\* A segment changes its own request.
LEMMA BecomeFacts ==
    ASSUME TypeOK, NEW r \in RefreshReq, NEW q \in RefreshRequest, Become(r, q)
    PROVE  /\ req' \in [RefreshReq -> RefreshRequest] /\ req'[r] = q
           /\ \A x \in RefreshReq : x # r => req'[x] = req[x]
BY DEF Become, TypeOK

\* A request that ends is done, and keeps what it presented and found.
LEMMA FinishedType ==
    ASSUME NEW q \in RefreshRequest, NEW code \in RefreshCode
    PROVE  /\ Finished(q, code) \in RefreshRequest
           /\ Finished(q, code).pc = "done" /\ Finished(q, code).code = code
           /\ Finished(q, code).token = q.token /\ Finished(q, code).sid = q.sid
           /\ Finished(q, code).snap.prev = None
<1>1. "done" \in RefreshPc
  BY DEF RefreshPc
<1>2. q.token \in Opt(Token) /\ q.sid \in Opt(Session)
  BY DEF RefreshRequest
<1>3. Finished(q, code) \in RefreshRequest
  BY <1>1, <1>2, EmptyTypes DEF Finished, RefreshRequest
<1>4. NoRequest.snap.prev = None
  BY DEF NoRequest, NoSession
<1> QED BY <1>3, <1>4, EmptyTypes DEF Finished, RefreshRequest

\* The same of a step that ends a request.
LEMMA FinishFacts ==
    ASSUME TypeOK, NEW r \in RefreshReq, NEW code \in RefreshCode, Finish(r, code)
    PROVE  /\ req' \in [RefreshReq -> RefreshRequest]
           /\ req'[r].pc = "done" /\ req'[r].code = code
           /\ req'[r].token = req[r].token /\ req'[r].sid = req[r].sid
           /\ req'[r].snap.prev = None
           /\ \A x \in RefreshReq : x # r => req'[x] = req[x]
<1>1. req[r] \in RefreshRequest
  BY DEF TypeOK
<1>2. Finished(req[r], code) \in RefreshRequest
  BY <1>1, FinishedType
<1>3. Become(r, Finished(req[r], code))
  BY DEF Finish
<1>4. /\ req' \in [RefreshReq -> RefreshRequest] /\ req'[r] = Finished(req[r], code)
      /\ \A x \in RefreshReq : x # r => req'[x] = req[x]
  BY <1>2, <1>3, BecomeFacts
<1> QED BY <1>1, <1>4, FinishedType

-----------------------------------------------------------------------------
(* Every step but a login and a rotation is quiet: it mints no token. *)

\* Sessions keep their tokens, and stay revoked once they are.
SameTokens ==
    \A s \in Session :
        /\ sess'[s].access = sess[s].access /\ sess'[s].refresh = sess[s].refresh
        /\ sess'[s].prev = sess[s].prev
        /\ sess[s].revoked => sess'[s].revoked

\* The requests that rotated are the same, and rotated the same sessions.
SameRotations ==
    \A r \in RefreshReq :
        /\ HasRotated(r)' <=> HasRotated(r)
        /\ HasRotated(r) => req'[r].token = req[r].token /\ req'[r].sid = req[r].sid

Quiet == SameTokens /\ SameRotations /\ byId' \subseteq byId

\* A quiet step leaves alone what was minted and what was spent, and revives no session.
LEMMA QuietFacts ==
    ASSUME TypeOK, TypeOK', Quiet
    PROVE  /\ \A s \in Session : Exists(s)' <=> Exists(s)
           /\ \A t \in Token : Minted(t)' <=> Minted(t)
           /\ \A t, s : MintedFor(t, s)' <=> MintedFor(t, s)
           /\ \A t : Spent(t)' <=> Spent(t)
           /\ \A s \in Session : Ended(s) => Ended(s)'
<1>1. \A s \in Session : Exists(s)' <=> Exists(s)
  BY DEF Exists, Quiet, SameTokens
<1>2. \A t \in Token : Minted(t)' <=> Minted(t)
  BY <1>1, Names DEF Minted, Quiet, SameRotations
<1>3. \A t, s : MintedFor(t, s)' <=> MintedFor(t, s)
  BY DEF MintedFor, Quiet, SameRotations
<1>4. \A t : Spent(t)' <=> Spent(t)
  BY DEF Spent, Quiet, SameRotations
<1>5. \A s \in Session : Ended(s) => Ended(s)'
  BY DEF Ended, Quiet, SameTokens
<1> QED BY <1>1, <1>2, <1>3, <1>4, <1>5

\* A request that did not move in a quiet step has its locals.
LEMMA QuietLocals ==
    ASSUME LineageInv, TypeOK', Quiet, NEW r \in RefreshReq, req'[r] = req[r]
    PROVE  OwnLocals(r)'
<1>1. TypeOK /\ OwnLocals(r)
  BY DEF LineageInv
<1>2. req[r].token \in Opt(Token) /\ req[r].sid \in Opt(Session)
  BY <1>1 DEF TypeOK, RefreshRequest
<1>3. req[r].token # None => (Minted(req[r].token)' <=> Minted(req[r].token))
  BY <1>1, <1>2, OptSome, QuietFacts
<1>4. req[r].sid # None => (Exists(req[r].sid)' <=> Exists(req[r].sid))
  BY <1>1, <1>2, OptSome, QuietFacts
<1>5. \A t : Spent(t)' <=> Spent(t)
  BY <1>1, QuietFacts
<1>6. HasRotated(r)' <=> HasRotated(r)
  BY DEF Quiet, SameRotations
<1> QED BY <1>1, <1>3, <1>4, <1>5, <1>6 DEF OwnLocals

\* Nor does a request lose them that moves on or ends in a quiet step.
LEMMA MovedLocals ==
    ASSUME LineageInv, TypeOK', Quiet, NEW r \in RefreshReq,
           req'[r].token = req[r].token, req'[r].sid = req[r].sid,
           req'[r].snap.prev \in {None, req[r].snap.prev},
           req'[r].pc # "done" => req'[r].code = "none" /\ req[r].pc \notin {"idle", "done"},
           req'[r].pc = "revoke" \/ req'[r].code = "NAP_REFRESH_REUSED" =>
              req[r].sid # None /\ Spent(req[r].token)
    PROVE  OwnLocals(r)'
<1>1. TypeOK /\ OwnLocals(r)
  BY DEF LineageInv
<1>2. req[r].token \in Opt(Token) /\ req[r].sid \in Opt(Session)
  BY <1>1 DEF TypeOK, RefreshRequest
<1>3. req[r].token # None => (Minted(req[r].token)' <=> Minted(req[r].token))
  BY <1>1, <1>2, OptSome, QuietFacts
<1>4. req[r].sid # None => (Exists(req[r].sid)' <=> Exists(req[r].sid))
  BY <1>1, <1>2, OptSome, QuietFacts
<1>5. \A t : Spent(t)' <=> Spent(t)
  BY <1>1, QuietFacts
<1>6. HasRotated(r)' <=> HasRotated(r)
  BY DEF Quiet, SameRotations
<1>7. /\ req[r].token # None => Minted(req[r].token)
      /\ req[r].sid # None => Exists(req[r].sid)
      /\ req[r].pc \notin {"idle", "done"} => req[r].token # None /\ req[r].sid # None
      /\ HasRotated(r) => req[r].token # None
      /\ req[r].snap.prev # None => Spent(req[r].snap.prev)
  BY <1>1 DEF OwnLocals
<1> QED BY <1>3, <1>4, <1>5, <1>6, <1>7 DEF OwnLocals

\* The invariant survives a quiet step whose own request keeps its locals, whose answer
\* carries only minted tokens, and which leaves the index maps in agreement.
LEMMA QuietStep ==
    ASSUME LineageInv, TypeOK', Quiet, IndexesAgree',
           \A t \in known' \ known : Minted(t)',
           \A x \in RefreshReq :
              \/ req'[x] = req[x]
              \/ /\ OwnLocals(x)'
                 /\ req'[x].code = "NAP_REFRESH_REUSED" => Ended(req[x].sid)'
    PROVE  LineageInv'
<1>0. TypeOK
  BY DEF LineageInv
<1>1. \A s \in Session : OwnTokens(s)'
  <2> SUFFICES ASSUME NEW s \in Session PROVE OwnTokens(s)'
    OBVIOUS
  <2>1. OwnTokens(s)
    BY DEF LineageInv
  <2>2. /\ sess'[s].access = sess[s].access /\ sess'[s].refresh = sess[s].refresh
        /\ sess'[s].prev = sess[s].prev /\ byId' \subseteq byId
    BY DEF Quiet, SameTokens
  <2>3. Exists(s)' <=> Exists(s)
    BY <1>0, QuietFacts
  <2>4. \A t : (MintedFor(t, s)' <=> MintedFor(t, s)) /\ (Spent(t)' <=> Spent(t))
    BY <1>0, QuietFacts
  <2> QED BY <2>1, <2>2, <2>3, <2>4 DEF OwnTokens
<1>2. \A t \in known' : Minted(t)'
  <2>1. \A t \in known : t \in Token /\ Minted(t)
    BY <1>0 DEF LineageInv, TypeOK
  <2> QED BY <1>0, <2>1, QuietFacts
<1>3. \A x \in RefreshReq : OwnLocals(x)'
  BY QuietLocals
<1>4. OneRotationPerToken'
  <2>1. OneRotationPerToken
    BY DEF LineageInv
  <2> QED BY <2>1 DEF OneRotationPerToken, Quiet, SameRotations
<1>5. ReplayRevokes'
  <2> SUFFICES ASSUME NEW x \in RefreshReq, req'[x].code = "NAP_REFRESH_REUSED"
               PROVE  Ended(req[x].sid)'
    BY DEF ReplayRevokes
  <2>1. CASE req'[x] = req[x]
    <3>1. Ended(req[x].sid) /\ OwnLocals(x)
      BY <2>1 DEF LineageInv, ReplayRevokes
    <3>2. req[x].sid \in Session
      BY <1>0, <2>1, <3>1, OptSome DEF OwnLocals, TypeOK, RefreshRequest
    <3> DEFINE s == req[x].sid
    <3>3. Ended(s)'
      BY <1>0, <2>1, <3>1, <3>2, QuietFacts
    <3> QED BY <2>1, <3>3
  <2> QED BY <2>1
<1> QED BY <1>1, <1>2, <1>3, <1>4, <1>5 DEF LineageInv

-----------------------------------------------------------------------------
(* The index maps. *)

\* They agree after a step that touches neither them nor a token, ...
LEMMA IndexesKept ==
    ASSUME IndexesAgree, SameTokens, byId' = byId, byAccess' = byAccess, byRefresh' = byRefresh
    PROVE  IndexesAgree'
BY DEF IndexesAgree, SameTokens

\* ... and after a sweep, which takes a session out of all of them.
LEMMA IndexesSwept ==
    ASSUME TypeOK, IndexesAgree, UNCHANGED sess, IndexesWithout(Evicted)
    PROVE  IndexesAgree'
<1> SUFFICES ASSUME Backend = "memory", NEW t \in Token, NEW s \in Session
             PROVE  /\ byAccess'[t] = s <=> s \in byId' /\ sess'[s].access = t
                    /\ byRefresh'[t] = s <=> s \in byId' /\ t \in {sess'[s].refresh, sess'[s].prev}
  BY DEF IndexesAgree
<1>1. \A x \in Session : /\ byAccess[t] = x <=> x \in byId /\ sess[x].access = t
                         /\ byRefresh[t] = x <=> x \in byId /\ t \in {sess[x].refresh, sess[x].prev}
  BY DEF IndexesAgree
<1>2. Evicted \subseteq byId /\ byId \subseteq Session /\ s # None
  BY Names DEF Evicted, TypeOK
<1>3. byId' = byId \ Evicted
  BY DEF IndexesWithout
<1>4. byAccess'[t] = IF \E x \in Evicted : sess[x].access = t THEN None ELSE byAccess[t]
  BY DEF IndexesWithout
<1>5. byRefresh'[t] = IF \E x \in Evicted : t \in {sess[x].refresh, sess[x].prev}
                      THEN None ELSE byRefresh[t]
  BY DEF IndexesWithout
<1>6. byAccess'[t] = s <=> s \in byId' /\ sess[s].access = t
  BY <1>1, <1>2, <1>3, <1>4
<1>7. byRefresh'[t] = s <=> s \in byId' /\ t \in {sess[s].refresh, sess[s].prev}
  BY <1>1, <1>2, <1>3, <1>5
<1> QED BY <1>6, <1>7

-----------------------------------------------------------------------------
(* The quiet steps of a refresh. *)

\* A segment that mints nothing keeps the invariant if its request goes on presenting what
\* it presented, mints an answer only if it rotated, and concludes a replay only of a
\* spent token and in the segment that revokes the session.
LEMMA OwnStep ==
    ASSUME LineageInv, NEW r \in RefreshReq, NEW q \in RefreshRequest, Become(r, q),
           req[r].pc # "done",
           q.token = req[r].token, q.sid = req[r].sid,
           q.snap.prev \in {None, req[r].snap.prev},
           q.pc # "done" => q.code = "none" /\ req[r].pc # "idle",
           q.pc = "answer" \/ q.code \in {"lost", "NAP_REFRESH_SUCCESS"} <=> req[r].pc = "answer",
           q.pc = "revoke" \/ q.code = "NAP_REFRESH_REUSED" =>
              req[r].sid # None /\ Spent(req[r].token),
           q.code = "NAP_REFRESH_REUSED" => sess' = Revoked({req[r].sid}),
           sess' = sess \/ \E S : sess' = Revoked(S),
           known' \subseteq Token, \A t \in known' \ known : Minted(t),
           UNCHANGED <<byId, byAccess, byRefresh, swept, lreq, clock, acl, admin, login, straddled>>
    PROVE  LineageInv'
<1>0. TypeOK /\ OwnLocals(r) /\ IndexesAgree
  BY DEF LineageInv
<1>1. /\ req' \in [RefreshReq -> RefreshRequest] /\ req'[r] = q
      /\ \A x \in RefreshReq : x # r => req'[x] = req[x]
  BY <1>0, BecomeFacts
<1>2. sess' \in [Session -> SessionRecord] /\ SameTokens
  <2>1. CASE sess' = sess
    BY <1>0, <2>1 DEF TypeOK, SameTokens
  <2>2. CASE \E S : sess' = Revoked(S)
    BY <1>0, <2>2, RevokedFacts DEF SameTokens
  <2> QED BY <2>1, <2>2
<1>3. TypeOK'
  BY <1>0, <1>1, <1>2 DEF TypeOK
<1>4. SameRotations
  <2>1. req[r].code = "none"
    BY <1>0 DEF OwnLocals
  <2> QED BY <1>1, <2>1 DEF SameRotations, HasRotated
<1>5. Quiet
  BY <1>2, <1>4 DEF Quiet
<1>6. IndexesAgree'
  BY <1>0, <1>2, IndexesKept
<1>7. \A t \in known' \ known : Minted(t)'
  BY <1>0, <1>3, <1>5, QuietFacts
<1>8. OwnLocals(r)'
  <2>1. req[r].pc # "idle" => req[r].pc \notin {"idle", "done"}
    OBVIOUS
  <2> QED BY <1>1, <1>3, <1>5, <2>1, MovedLocals
<1>9. req'[r].code = "NAP_REFRESH_REUSED" => Ended(req[r].sid)'
  <2> SUFFICES ASSUME q.code = "NAP_REFRESH_REUSED" PROVE Ended(req[r].sid)'
    BY <1>1
  <2>1. req[r].sid \in Session
    BY <1>0, OptSome DEF TypeOK, RefreshRequest
  <2>2. req[r].sid \in byId => sess'[req[r].sid].revoked
    BY <1>0, <2>1, RevokedFacts
  <2> QED BY <1>1, <2>2 DEF Ended
<1> QED BY <1>1, <1>3, <1>5, <1>6, <1>7, <1>8, <1>9, QuietStep

\* A request that has looked its session up holds a token and a session that exists.
LEMMA Holds ==
    ASSUME LineageInv, NEW r \in RefreshReq, req[r].pc \notin {"idle", "done"}
    PROVE  /\ req[r] \in RefreshRequest /\ req[r].code = "none"
           /\ req[r].token \in Token /\ req[r].sid \in Session
           /\ Exists(req[r].sid) /\ sess[req[r].sid] \in SessionRecord
<1>1. TypeOK /\ OwnLocals(r)
  BY DEF LineageInv
<1>2. req[r] \in RefreshRequest /\ req[r].token \in Opt(Token) /\ req[r].sid \in Opt(Session)
  BY <1>1 DEF TypeOK, RefreshRequest
<1>3. req[r].code = "none" /\ req[r].token # None /\ req[r].sid # None
  BY <1>1 DEF OwnLocals
<1>4. req[r].token \in Token /\ req[r].sid \in Session
  BY <1>2, <1>3, OptSome
<1> QED BY <1>1, <1>2, <1>3, <1>4 DEF OwnLocals, TypeOK

\* A request that ends without having rotated, and concludes no replay, keeps the invariant.
LEMMA EndStep ==
    ASSUME LineageInv, NEW r \in RefreshReq, req[r].pc \notin {"answer", "done"},
           NEW code \in RefreshCode \ {"lost", "NAP_REFRESH_SUCCESS", "NAP_REFRESH_REUSED"},
           Finish(r, code), sess' = sess \/ \E S : sess' = Revoked(S), known' = known,
           UNCHANGED <<byId, byAccess, byRefresh, swept, lreq, clock, acl, admin, login, straddled>>
    PROVE  LineageInv'
<1> DEFINE q == Finished(req[r], code)
<1>1. TypeOK /\ req[r] \in RefreshRequest /\ known \subseteq Token
  BY DEF LineageInv, TypeOK
<1>2. /\ q \in RefreshRequest /\ q.pc = "done" /\ q.code = code
      /\ q.token = req[r].token /\ q.sid = req[r].sid /\ q.snap.prev = None
  BY <1>1, FinishedType
<1>3. Become(r, q)
  BY DEF Finish
<1> HIDE DEF q
<1> QED BY <1>1, <1>2, <1>3, OwnStep

\* getByRefreshToken finds a session that exists and has the token, now or just before.
LEMMA FoundByRefresh ==
    ASSUME LineageInv, NEW t \in known, NEW s \in FindByRefresh(t)
    PROVE  s \in byId /\ s \in Session /\ t \in {sess[s].refresh, sess[s].prev}
<1>1. TypeOK /\ IndexesAgree /\ t \in Token
  BY DEF LineageInv, TypeOK
<1> QED BY <1>1, RefreshBackendAssumption DEF FindByRefresh, IndexesAgree, TypeOK

\* The lookup gives an idle request its token and its session.
LEMMA LookupStep ==
    ASSUME LineageInv, NEW r \in RefreshReq, RefreshLookup(r)
    PROVE  LineageInv'
<1>0. TypeOK /\ OwnLocals(r) /\ IndexesAgree
  BY DEF LineageInv
<1>1. PICK t \in known :
         \/ Become(r, Finished([NoRequest EXCEPT !.token = t], "NAP_REFRESH_UNKNOWN_TOKEN"))
         \/ \E s \in FindByRefresh(t) :
              Become(r, [NoRequest EXCEPT
                          !.pc = "check", !.token = t, !.sid = s,
                          !.snap = IF Backend = "memory" THEN NoSession ELSE sess[s]])
  BY DEF RefreshLookup
<1>2. t \in Token /\ t # None /\ Minted(t) /\ t \in Opt(Token)
  BY <1>0, Names, OptIn DEF LineageInv, TypeOK
<1>3. PICK q \in RefreshRequest :
         /\ Become(r, q) /\ q.token = t
         /\ q.pc \in {"check", "done"} /\ q.code \in {"none", "NAP_REFRESH_UNKNOWN_TOKEN"}
         /\ q.pc # "done" => q.code = "none" /\ q.sid # None
         /\ q.sid # None => q.sid \in Session /\ Exists(q.sid)
         /\ q.snap.prev # None => Spent(q.snap.prev)
  <2>1. CASE Become(r, Finished([NoRequest EXCEPT !.token = t], "NAP_REFRESH_UNKNOWN_TOKEN"))
    <3> DEFINE q0 == [NoRequest EXCEPT !.token = t]
               q  == Finished(q0, "NAP_REFRESH_UNKNOWN_TOKEN")
    <3>1. q0 \in RefreshRequest
      BY <1>2, EmptyTypes DEF RefreshRequest
    <3>2. q0.token = t /\ q0.sid = None
      BY DEF NoRequest
    <3>3. "NAP_REFRESH_UNKNOWN_TOKEN" \in RefreshCode
      BY DEF RefreshCode
    <3> HIDE DEF q0
    <3>4. /\ q \in RefreshRequest /\ q.pc = "done" /\ q.code = "NAP_REFRESH_UNKNOWN_TOKEN"
          /\ q.token = t /\ q.sid = None /\ q.snap.prev = None
      BY <3>1, <3>2, <3>3, FinishedType
    <3>5. Become(r, q)
      BY <2>1 DEF q0
    <3> HIDE DEF q
    <3> QED BY <3>4, <3>5
  <2>2. ASSUME NEW s \in FindByRefresh(t),
               Become(r, [NoRequest EXCEPT
                          !.pc = "check", !.token = t, !.sid = s,
                          !.snap = IF Backend = "memory" THEN NoSession ELSE sess[s]])
        PROVE  \E q \in RefreshRequest :
                 /\ Become(r, q) /\ q.token = t
                 /\ q.pc \in {"check", "done"} /\ q.code \in {"none", "NAP_REFRESH_UNKNOWN_TOKEN"}
                 /\ q.pc # "done" => q.code = "none" /\ q.sid # None
                 /\ q.sid # None => q.sid \in Session /\ Exists(q.sid)
                 /\ q.snap.prev # None => Spent(q.snap.prev)
    <3> DEFINE snap == IF Backend = "memory" THEN NoSession ELSE sess[s]
               q == [NoRequest EXCEPT !.pc = "check", !.token = t, !.sid = s, !.snap = snap]
    <3>1. s \in byId /\ s \in Session /\ s # None /\ s \in Opt(Session) /\ OwnTokens(s)
      BY FoundByRefresh, Names, OptIn DEF LineageInv
    <3>2. Exists(s) /\ (sess[s].prev # None => Spent(sess[s].prev))
      BY <3>1 DEF OwnTokens
    <3>3. snap \in SessionRecord
      BY <1>0, <3>1, EmptyTypes DEF TypeOK
    <3>4. snap.prev # None => Spent(snap.prev)
      BY <3>2 DEF NoSession
    <3> HIDE DEF snap
    <3>5. "check" \in RefreshPc
      BY DEF RefreshPc
    <3>6. q \in RefreshRequest
      BY <1>2, <3>1, <3>3, <3>5, EmptyTypes DEF RefreshRequest
    <3>7. q.pc = "check" /\ q.code = "none" /\ q.token = t /\ q.sid = s /\ q.snap = snap
      BY DEF NoRequest
    <3>8. Become(r, q)
      BY <2>2 DEF snap
    <3> HIDE DEF q
    <3> QED BY <3>1, <3>2, <3>4, <3>6, <3>7, <3>8
  <2> QED BY <1>1, <2>1, <2>2
<1>4. /\ req' \in [RefreshReq -> RefreshRequest] /\ req'[r] = q
      /\ \A x \in RefreshReq : x # r => req'[x] = req[x]
  BY <1>0, <1>3, BecomeFacts
<1>5. UNCHANGED <<sess, byId, byAccess, byRefresh, swept, known, lreq, clock, acl, admin,
                  login, straddled>>
  BY DEF RefreshLookup, store, rest
<1>6. TypeOK'
  BY <1>0, <1>4, <1>5 DEF TypeOK
<1>7. ~HasRotated(r) /\ ~HasRotated(r)'
  BY <1>0, <1>3, <1>4 DEF RefreshLookup, OwnLocals, HasRotated
<1>8. SameTokens /\ SameRotations
  BY <1>4, <1>5, <1>7 DEF SameTokens, SameRotations, HasRotated
<1>9. Quiet
  BY <1>5, <1>8 DEF Quiet
<1>10. OwnLocals(r)'
  <2>1. Minted(t)'
    BY <1>0, <1>2, <1>6, <1>9, QuietFacts
  <2>2. q.sid # None => Exists(q.sid)'
    BY <1>3, <1>5 DEF Exists
  <2>3. q.snap.prev # None => Spent(q.snap.prev)'
    BY <1>0, <1>3, <1>6, <1>9, QuietFacts
  <2>4. Minted(req[r].token)'
    BY <1>3, <1>4, <2>1 DEF Minted
  <2>5. req'[r].sid # None => Exists(req[r].sid)'
    BY <1>4, <2>2 DEF Exists
  <2>6. req'[r].snap.prev # None => Spent(req[r].snap.prev)'
    BY <1>4, <2>3 DEF Spent
  <2> QED BY <1>2, <1>3, <1>4, <1>7, <2>4, <2>5, <2>6 DEF OwnLocals
<1>11. IndexesAgree'
  BY <1>0, <1>5, <1>8, IndexesKept
<1> QED BY <1>3, <1>4, <1>5, <1>6, <1>9, <1>10, <1>11, QuietStep

\* Every code the checks answer with is a code of a request that did not rotate.
LEMMA TokenCheckType ==
    ASSUME NEW rec, NEW t, NEW now
    PROVE  /\ TokenCheck(rec, t, now) \in RefreshCode \ {"lost", "NAP_REFRESH_SUCCESS"}
           /\ TokenCheck(rec, t, now) = "NAP_REFRESH_REUSED" => rec.prev = t
BY DEF TokenCheck, RefreshCode

\* The checks conclude a replay only of a token that was spent, also from an old copy.
LEMMA CheckStep ==
    ASSUME LineageInv, NEW r \in RefreshReq, RefreshCheck(r)
    PROVE  LineageInv'
<1> DEFINE code == TokenCheck(Held(r), req[r].token, clock)
<1>0. TypeOK /\ OwnLocals(r) /\ known \subseteq Token /\ clock \in Int
  BY DEF LineageInv, TypeOK
<1>1. req[r].pc = "check"
  BY DEF RefreshCheck
<1>2. /\ req[r] \in RefreshRequest /\ req[r].code = "none"
      /\ req[r].token \in Token /\ req[r].token # None /\ req[r].sid \in Session
      /\ req[r].sid # None
  BY <1>1, Holds, Names
<1>3. code \in RefreshCode /\ code \notin {"lost", "NAP_REFRESH_SUCCESS"}
  BY TokenCheckType
<1>4. code = "NAP_REFRESH_REUSED" => Spent(req[r].token)
  <2> SUFFICES ASSUME code = "NAP_REFRESH_REUSED" PROVE Spent(req[r].token)
    OBVIOUS
  <2>1. Held(r).prev = req[r].token
    BY TokenCheckType
  <2>2. OwnTokens(req[r].sid)
    BY <1>2 DEF LineageInv
  <2> QED BY <1>0, <1>2, <2>1, <2>2 DEF Held, OwnTokens, OwnLocals
<1>5. UNCHANGED <<byId, byAccess, byRefresh, swept, known, lreq, clock, acl, admin,
                  login, straddled>>
  BY DEF RefreshCheck, rest
<1>6. "resolve" \in RefreshPc /\ "revoke" \in RefreshPc /\ "NAP_REFRESH_REUSED" \in RefreshCode
  BY DEF RefreshPc, RefreshCode
<1>7. NoSession.prev = None
  BY DEF NoSession
<1>8. CASE sess' = sess
           /\ Become(r, [req[r] EXCEPT !.pc = "resolve", !.now = clock, !.snap = NoSession])
  <2> DEFINE q == [req[r] EXCEPT !.pc = "resolve", !.now = clock, !.snap = NoSession]
  <2>1. q \in RefreshRequest
    BY <1>0, <1>2, <1>6, EmptyTypes DEF RefreshRequest
  <2>2. /\ q.pc = "resolve" /\ q.code = "none" /\ q.token = req[r].token
        /\ q.sid = req[r].sid /\ q.snap.prev = None
    BY <1>2, <1>7 DEF RefreshRequest
  <2> HIDE DEF q
  <2>3. Become(r, q)
    BY <1>8 DEF q
  <2> QED BY <1>0, <1>1, <1>5, <1>8, <2>1, <2>2, <2>3, OwnStep
<1>9. CASE code = "NAP_REFRESH_REUSED" /\ sess' = sess
           /\ Become(r, [req[r] EXCEPT !.pc = "revoke", !.snap = NoSession])
  <2> DEFINE q == [req[r] EXCEPT !.pc = "revoke", !.snap = NoSession]
  <2>1. q \in RefreshRequest
    BY <1>2, <1>6, EmptyTypes DEF RefreshRequest
  <2>2. /\ q.pc = "revoke" /\ q.code = "none" /\ q.token = req[r].token
        /\ q.sid = req[r].sid /\ q.snap.prev = None
    BY <1>2, <1>7 DEF RefreshRequest
  <2> HIDE DEF q
  <2>3. Become(r, q)
    BY <1>9 DEF q
  <2> HIDE DEF code
  <2> QED BY <1>0, <1>1, <1>2, <1>4, <1>5, <1>9, <2>1, <2>2, <2>3, OwnStep
<1>10. CASE code = "NAP_REFRESH_REUSED" /\ sess' = Revoked({req[r].sid}) /\ Finish(r, code)
  <2> DEFINE q == Finished(req[r], "NAP_REFRESH_REUSED")
  <2>1. /\ q \in RefreshRequest /\ q.pc = "done" /\ q.code = "NAP_REFRESH_REUSED"
        /\ q.token = req[r].token /\ q.sid = req[r].sid /\ q.snap.prev = None
    BY <1>2, <1>6, FinishedType
  <2>2. Become(r, q)
    BY <1>10 DEF Finish
  <2> HIDE DEF q, code
  <2> QED BY <1>0, <1>1, <1>2, <1>4, <1>5, <1>10, <2>1, <2>2, OwnStep
<1>11. CASE code \notin {"none", "NAP_REFRESH_REUSED"} /\ sess' = sess /\ Finish(r, code)
  <2> HIDE DEF code
  <2> QED BY <1>1, <1>3, <1>5, <1>11, EndStep
<1> QED BY <1>8, <1>9, <1>10, <1>11 DEF RefreshCheck

\* Revoking for a replay, Postgres's segment of its own, ends the session.
LEMMA RevokeReusedStep ==
    ASSUME LineageInv, NEW r \in RefreshReq, RevokeReused(r)
    PROVE  LineageInv'
<1> DEFINE q == Finished(req[r], "NAP_REFRESH_REUSED")
<1>1. TypeOK /\ OwnLocals(r) /\ known \subseteq Token /\ req[r].pc = "revoke"
  BY DEF LineageInv, TypeOK, RevokeReused
<1>2. req[r] \in RefreshRequest /\ req[r].sid # None /\ Spent(req[r].token)
  BY <1>1 DEF TypeOK, OwnLocals
<1>3. "NAP_REFRESH_REUSED" \in RefreshCode
  BY DEF RefreshCode
<1>4. /\ q \in RefreshRequest /\ q.pc = "done" /\ q.code = "NAP_REFRESH_REUSED"
      /\ q.token = req[r].token /\ q.sid = req[r].sid /\ q.snap.prev = None
  BY <1>2, <1>3, FinishedType
<1>5. /\ Become(r, q) /\ sess' = Revoked({req[r].sid})
      /\ UNCHANGED <<byId, byAccess, byRefresh, swept, known, lreq, clock, acl, admin,
                     login, straddled>>
  BY DEF RevokeReused, Finish, rest
<1> HIDE DEF q
<1> QED BY <1>1, <1>2, <1>4, <1>5, OwnStep

\* Reading the ACL again moves the request on, or ends it.
LEMMA ResolveStep ==
    ASSUME LineageInv, NEW r \in RefreshReq, ResolveAcl(r)
    PROVE  LineageInv'
<1>1. req[r].pc = "resolve" /\ TypeOK /\ known \subseteq Token
  BY DEF ResolveAcl, LineageInv, TypeOK
<1>2. UNCHANGED <<sess, byId, byAccess, byRefresh, swept, known, lreq, clock, acl, admin,
                  login, straddled>>
  BY DEF ResolveAcl, store, rest
<1>3. req[r] \in RefreshRequest /\ req[r].code = "none"
  BY <1>1, Holds
<1>4. /\ "rotate" \in RefreshPc /\ "revoke_all" \in RefreshPc
      /\ "NAP_REFRESH_ACL_DENIED" \in RefreshCode
  BY DEF RefreshPc, RefreshCode
<1>5. ASSUME NEW bound \in DecisionBound,
             Become(r, [req[r] EXCEPT !.pc = "rotate", !.bound = bound])
      PROVE  LineageInv'
  <2> DEFINE q == [req[r] EXCEPT !.pc = "rotate", !.bound = bound]
  <2>1. bound \in Opt(Int)
    BY RefreshTtlAssumption
  <2>2. q \in RefreshRequest
    BY <1>3, <1>4, <2>1 DEF RefreshRequest
  <2>3. /\ q.pc = "rotate" /\ q.code = "none" /\ q.token = req[r].token
        /\ q.sid = req[r].sid /\ q.snap = req[r].snap
    BY <1>3 DEF RefreshRequest
  <2>4. Become(r, q)
    BY <1>5
  <2> HIDE DEF q
  <2> QED BY <1>1, <1>2, <2>2, <2>3, <2>4, OwnStep
<1>6. CASE Become(r, [req[r] EXCEPT !.pc = "revoke_all"])
  <2> DEFINE q == [req[r] EXCEPT !.pc = "revoke_all"]
  <2>1. q \in RefreshRequest
    BY <1>3, <1>4 DEF RefreshRequest
  <2>2. /\ q.pc = "revoke_all" /\ q.code = "none" /\ q.token = req[r].token
        /\ q.sid = req[r].sid /\ q.snap = req[r].snap
    BY <1>3 DEF RefreshRequest
  <2>3. Become(r, q)
    BY <1>6
  <2> HIDE DEF q
  <2> QED BY <1>1, <1>2, <2>1, <2>2, <2>3, OwnStep
<1>7. CASE Finish(r, "NAP_REFRESH_ACL_DENIED")
  BY <1>1, <1>2, <1>4, <1>7, EndStep
<1> QED BY <1>5, <1>6, <1>7 DEF ResolveAcl

\* Revoking every session of a suspended principal ends the request.
LEMMA RevokeAllStep ==
    ASSUME LineageInv, NEW r \in RefreshReq, RevokeAll(r)
    PROVE  LineageInv'
<1>1. /\ req[r].pc = "revoke_all" /\ Finish(r, "NAP_REFRESH_ACL_DENIED")
      /\ sess' = Revoked(SessionsOf(sess[req[r].sid].owner))
      /\ UNCHANGED <<byId, byAccess, byRefresh, swept, known, lreq, clock, acl, admin,
                     login, straddled>>
  BY DEF RevokeAll, rest
<1>2. "NAP_REFRESH_ACL_DENIED" \in RefreshCode
  BY DEF RefreshCode
<1> QED BY <1>1, <1>2, EndStep

\* A session's current token is a token, and was minted.
LEMMA CurrentMinted ==
    ASSUME LineageInv, NEW s \in Session, Exists(s)
    PROVE  /\ sess[s].refresh \in Token /\ Minted(sess[s].refresh)
           /\ MintedFor(sess[s].refresh, s) /\ ~Spent(sess[s].refresh)
<1>1. TypeOK /\ OwnTokens(s)
  BY DEF LineageInv
<1>2. sess[s].refresh \in Opt(Token) /\ sess[s].refresh # None
  BY <1>1 DEF TypeOK, SessionRecord, Exists
<1>3. sess[s].refresh \in Token
  BY <1>2, OptSome
<1>4. MintedFor(sess[s].refresh, s) /\ ~Spent(sess[s].refresh)
  BY <1>1 DEF OwnTokens
<1> QED BY <1>3, <1>4, Names DEF MintedFor, Minted

\* The answer carries the token this request minted, or in memory a later one.
LEMMA AnswerStep ==
    ASSUME LineageInv, NEW r \in RefreshReq, RefreshAnswer(r)
    PROVE  LineageInv'
<1> DEFINE q == Finished(req[r], "NAP_REFRESH_SUCCESS")
           t == IF Backend = "memory" THEN sess[req[r].sid].refresh ELSE r
<1>1. TypeOK /\ known \subseteq Token /\ req[r].pc = "answer"
  BY DEF LineageInv, TypeOK, RefreshAnswer
<1>2. req[r] \in RefreshRequest /\ req[r].sid \in Session /\ Exists(req[r].sid)
  BY <1>1, Holds
<1>3. "NAP_REFRESH_SUCCESS" \in RefreshCode
  BY DEF RefreshCode
<1>4. /\ q \in RefreshRequest /\ q.pc = "done" /\ q.code = "NAP_REFRESH_SUCCESS"
      /\ q.token = req[r].token /\ q.sid = req[r].sid /\ q.snap.prev = None
  BY <1>2, <1>3, FinishedType
<1>5. HasRotated(r)
  BY <1>1 DEF HasRotated
<1>6. t \in Token /\ Minted(t)
  BY <1>2, <1>5, CurrentMinted, Names DEF Minted
<1>7. /\ Become(r, q) /\ known' = known \cup {t}
      /\ UNCHANGED <<sess, byId, byAccess, byRefresh, swept, lreq, clock, acl, admin,
                     login, straddled>>
  BY DEF RefreshAnswer, Finish, store, rest
<1> HIDE DEF q, t
<1> QED BY <1>1, <1>4, <1>6, <1>7, OwnStep

\* A request that throws is lost to its caller, whether it had rotated or not.
LEMMA ThrowStep ==
    ASSUME LineageInv, NEW r \in RefreshReq, RefreshThrow(r)
    PROVE  LineageInv'
<1> DEFINE code == IF req[r].pc = "answer" THEN "lost" ELSE "thrown"
           q == Finished(req[r], code)
<1>1. TypeOK /\ known \subseteq Token /\ req[r].pc \notin {"idle", "done"}
  BY DEF LineageInv, TypeOK, RefreshThrow
<1>2. req[r] \in RefreshRequest
  BY <1>1, Holds
<1>3. code \in RefreshCode
  BY DEF RefreshCode
<1>4. /\ q \in RefreshRequest /\ q.pc = "done" /\ q.code = code
      /\ q.token = req[r].token /\ q.sid = req[r].sid /\ q.snap.prev = None
  <2> HIDE DEF code
  <2> QED BY <1>2, <1>3, FinishedType
<1>5. /\ Become(r, q)
      /\ UNCHANGED <<sess, byId, byAccess, byRefresh, swept, known, lreq, clock, acl, admin,
                     login, straddled>>
  BY DEF RefreshThrow, Finish, store, rest
<1> HIDE DEF q
<1>6. /\ q.code \in {"lost", "thrown"} /\ (q.code = "lost" <=> req[r].pc = "answer")
      /\ q.code \notin {"NAP_REFRESH_SUCCESS", "NAP_REFRESH_REUSED"}
  BY <1>4
<1> HIDE DEF code
<1> QED BY <1>1, <1>4, <1>5, <1>6, OwnStep

-----------------------------------------------------------------------------
(* The rotation. *)

\* A token was minted for one session.
LEMMA MintedForOne ==
    ASSUME NEW t, NEW s \in Session, NEW x \in Session, MintedFor(t, s), MintedFor(t, x)
    PROVE  s = x
BY Names DEF MintedFor

\* The token a rotation mints is fresh: no session has it, and no request presented it.
LEMMA FreshToken ==
    ASSUME LineageInv, NEW r \in RefreshReq, ~HasRotated(r)
    PROVE  /\ ~Minted(r) /\ ~Spent(r)
           /\ \A s \in Session : ~MintedFor(r, s)
           /\ \A s \in Session : r \notin {sess[s].access, sess[s].refresh, sess[s].prev}
<1>1. ~Minted(r) /\ \A s \in Session : ~MintedFor(r, s)
  BY Names DEF Minted, MintedFor
<1>2. ~Spent(r)
  <2> SUFFICES ASSUME NEW x \in RefreshReq, HasRotated(x), req[x].token = r PROVE FALSE
    BY DEF Spent
  <2>1. OwnLocals(x)
    BY DEF LineageInv
  <2> QED BY <1>1, <2>1, Names DEF OwnLocals
<1>3. ASSUME NEW s \in Session
      PROVE  r \notin {sess[s].access, sess[s].refresh, sess[s].prev}
  <2>1. OwnTokens(s)
    BY DEF LineageInv
  <2> QED BY <1>1, <2>1, Names DEF OwnTokens, Exists
<1> QED BY <1>1, <1>2, <1>3

\* The compare-and-swap spends the token it found current and mints the next.
LEMMA RotateStep ==
    ASSUME LineageInv, NEW r \in RefreshReq, RefreshRotate(r)
    PROVE  LineageInv'
<1> DEFINE s == req[r].sid
           tk == req[r].token
           q == [req[r] EXCEPT !.pc = "answer", !.now = 0, !.bound = None]
<1>0. /\ TypeOK /\ OwnLocals(r) /\ OneRotationPerToken /\ IndexesAgree
      /\ req[r].pc = "rotate" /\ known \subseteq Token
  BY DEF LineageInv, TypeOK, RefreshRotate
<1>1. /\ req[r] \in RefreshRequest /\ req[r].code = "none" /\ tk \in Token /\ s \in Session
      /\ Exists(s) /\ sess[s] \in SessionRecord
  BY <1>0, Holds
<1>2. CASE ~MayRotate(r)
  <2>1. /\ Finish(r, "NAP_REFRESH_INTERNAL") /\ sess' = sess
        /\ UNCHANGED <<byId, byAccess, byRefresh, swept, known, lreq, clock, acl, admin,
                       login, straddled>>
    BY <1>2 DEF RefreshRotate, rest
  <2>2. "NAP_REFRESH_INTERNAL" \in RefreshCode
    BY DEF RefreshCode
  <2> QED BY <1>0, <2>1, <2>2, EndStep
<1>3. ASSUME MayRotate(r) PROVE LineageInv'
  <2>1. s \in byId /\ sess[s].refresh = tk
    BY <1>3 DEF MayRotate
  <2>2. /\ sess' = [sess EXCEPT ![s] = Rotation(sess[s], r)] /\ Become(r, q)
        /\ \/ /\ Backend = "memory"
              /\ byAccess' = [byAccess EXCEPT ![r] = s, ![sess[s].access] = None]
              /\ byRefresh' = [t \in Token |->
                    IF t = r THEN s ELSE IF t = sess[s].prev THEN None ELSE byRefresh[t]]
           \/ Backend = "postgres" /\ byAccess' = byAccess /\ byRefresh' = byRefresh
        /\ UNCHANGED <<byId, swept, known, lreq, clock, acl, admin, login, straddled>>
    BY <1>3 DEF RefreshRotate, rest
  <2>3. q \in RefreshRequest
    <3>1. "answer" \in RefreshPc /\ 0 \in Int /\ None \in Opt(Int)
      BY OptNone DEF RefreshPc
    <3> QED BY <1>1, <3>1 DEF RefreshRequest
  <2>4. q.pc = "answer" /\ q.code = "none" /\ q.token = tk /\ q.sid = s /\ q.snap = req[r].snap
    BY <1>1 DEF RefreshRequest
  <2> HIDE DEF q
  <2>5. /\ req' \in [RefreshReq -> RefreshRequest] /\ req'[r] = q
        /\ \A x \in RefreshReq : x # r => req'[x] = req[x]
    BY <1>0, <2>2, <2>3, BecomeFacts
  <2> DEFINE n == Rotation(sess[s], r)
  <2>6. /\ n \in SessionRecord /\ n.access = r /\ n.refresh = r
        /\ n.prev = tk /\ n.revoked = sess[s].revoked
    BY <1>1, <2>1, RotationType
  <2> HIDE DEF n
  <2>7. /\ sess' \in [Session -> SessionRecord] /\ sess'[s] = n
        /\ \A x \in Session : x # s => sess'[x] = sess[x]
    BY <1>0, <1>1, <2>2, <2>6 DEF TypeOK, n
  <2>8. TypeOK'
    <3>1. s \in Opt(Session) /\ None \in Opt(Session) /\ r \in Token
      BY <1>1, OptIn, OptNone, Names
    <3>2. byAccess' \in [Token -> Opt(Session)] /\ byRefresh' \in [Token -> Opt(Session)]
      BY <1>0, <2>2, <3>1 DEF TypeOK
    <3> QED BY <1>0, <2>2, <2>5, <2>7, <3>2 DEF TypeOK
  <2>9. /\ ~HasRotated(r) /\ HasRotated(r)'
        /\ \A x \in RefreshReq : x # r => (HasRotated(x)' <=> HasRotated(x))
    BY <1>0, <1>1, <2>4, <2>5 DEF HasRotated
  <2>10. /\ ~Spent(r) /\ ~Minted(r)
         /\ \A x \in Session : ~MintedFor(r, x)
         /\ \A x \in Session : r \notin {sess[x].access, sess[x].refresh, sess[x].prev}
    BY <2>9, FreshToken
  <2>11. MintedFor(tk, s) /\ ~Spent(tk) /\ Minted(tk) /\ tk # r /\ tk # None /\ r # None
    BY <1>1, <2>1, <2>10, CurrentMinted, Names
  <2>12. \A x \in Session : Exists(x)' <=> Exists(x)
    BY <1>1, <2>6, <2>7, <2>11 DEF Exists
  <2>13. \A t \in Token : Minted(t) => Minted(t)'
    BY <2>9, <2>12, Names DEF Minted
  <2>14. /\ \A t, x : MintedFor(t, x) => MintedFor(t, x)'
         /\ \A x : x = s => MintedFor(r, x)'
    BY <2>4, <2>5, <2>9 DEF MintedFor
  <2>15. \A t : Spent(t)' <=> Spent(t) \/ t = tk
    BY <2>4, <2>5, <2>9 DEF Spent
  <2>16. \A x \in Session : OwnTokens(x)'
    <3> SUFFICES ASSUME NEW x \in Session PROVE OwnTokens(x)'
      OBVIOUS
    <3>1. OwnTokens(x) /\ byId' = byId
      BY <2>2 DEF LineageInv
    <3>2. CASE x = s
      <4>1. /\ sess'[x].access = r /\ sess'[x].refresh = r /\ sess'[x].prev = tk
            /\ Exists(x)'
        BY <1>1, <2>6, <2>7, <2>12, <3>2
      <4>2. /\ MintedFor(r, x)' /\ ~Spent(r)'
            /\ \A t : t = tk => MintedFor(t, x)' /\ Spent(t)'
        BY <2>10, <2>11, <2>14, <2>15, <3>2
      <4> QED BY <4>1, <4>2 DEF OwnTokens
    <3>3. CASE x # s
      <4>1. sess'[x] = sess[x] /\ (Exists(x)' <=> Exists(x))
        BY <2>7, <2>12, <3>3
      <4>2. Exists(x) => sess[x].refresh # tk
        BY <1>1, <2>11, <3>1, <3>3, MintedForOne DEF OwnTokens
      <4> QED BY <2>14, <2>15, <3>1, <4>1, <4>2 DEF OwnTokens
    <3> QED BY <3>2, <3>3
  <2>17. \A t \in known' : Minted(t)'
    BY <1>0, <2>2, <2>13 DEF LineageInv
  <2>18. \A x \in RefreshReq : OwnLocals(x)'
    <3> SUFFICES ASSUME NEW x \in RefreshReq PROVE OwnLocals(x)'
      OBVIOUS
    <3>1. OwnLocals(x) /\ req[x].token \in Opt(Token) /\ req[x].sid \in Opt(Session)
      BY <1>0 DEF LineageInv, TypeOK, RefreshRequest
    <3>2. /\ req[x].token # None => Minted(req[x].token) /\ req[x].token \in Token
          /\ req[x].sid # None => Exists(req[x].sid) /\ req[x].sid \in Session
          /\ req[x].snap.prev # None => Spent(req[x].snap.prev)
      BY <3>1, OptSome DEF OwnLocals
    <3>3. /\ req'[x].token = req[x].token /\ req'[x].sid = req[x].sid
          /\ req'[x].snap = req[x].snap
      BY <2>4, <2>5
    <3>4. /\ req[x].token # None => Minted(req[x].token)'
          /\ req[x].sid # None => Exists(req[x].sid)'
          /\ \A t : Spent(t) => Spent(t)'
      <4>1. \A t \in Token : t = req[x].token => Minted(t)'
        BY <2>13, <3>2, Names
      <4>2. \A y \in Session : y = req[x].sid => Exists(y)'
        BY <2>12, <3>2, Names
      <4>3. req[x].token # None => Minted(req[x].token)'
        BY <3>2, <3>3, <4>1 DEF Minted
      <4>4. req[x].sid # None => Exists(req[x].sid)'
        BY <3>2, <3>3, <4>2 DEF Exists
      <4> QED BY <2>15, <4>3, <4>4
    <3>5. CASE x = r
      <4>1. req'[r].pc = "answer" /\ req'[r].code = "none"
        BY <2>4, <2>5
      <4>2. tk # None /\ s # None
        BY <1>1, Names
      <4> QED BY <3>2, <3>3, <3>4, <3>5, <4>1, <4>2 DEF OwnLocals
    <3>6. CASE x # r
      <4>1. req'[x] = req[x] /\ (HasRotated(x)' <=> HasRotated(x))
        BY <2>5, <2>9, <3>6
      <4> QED BY <3>1, <3>4, <4>1 DEF OwnLocals
    <3> QED BY <3>5, <3>6
  <2>19. OneRotationPerToken'
    <3>1. \A x \in RefreshReq : HasRotated(x) => req[x].token # tk
      BY <2>11 DEF Spent
    <3> QED BY <1>0, <2>4, <2>5, <2>9, <3>1 DEF OneRotationPerToken
  <2>20. ReplayRevokes'
    <3> SUFFICES ASSUME NEW x \in RefreshReq, req'[x].code = "NAP_REFRESH_REUSED"
                 PROVE  Ended(req[x].sid)'
      BY DEF ReplayRevokes
    <3>1. x # r /\ req'[x] = req[x]
      BY <2>4, <2>5
    <3>2. Ended(req[x].sid) /\ OwnLocals(x) /\ req[x].sid \in Opt(Session)
      BY <1>0, <3>1 DEF LineageInv, ReplayRevokes, TypeOK, RefreshRequest
    <3>3. req[x].sid \in Session
      BY <3>1, <3>2, OptSome DEF OwnLocals
    <3> QED BY <2>2, <2>6, <2>7, <3>1, <3>2, <3>3 DEF Ended
  <2>21. IndexesAgree'
    <3> SUFFICES ASSUME Backend = "memory", NEW t \in Token, NEW y \in Session
                 PROVE  /\ byAccess'[t] = y <=> y \in byId' /\ sess'[y].access = t
                        /\ byRefresh'[t] = y <=>
                              y \in byId' /\ t \in {sess'[y].refresh, sess'[y].prev}
      BY DEF IndexesAgree
    <3>1. /\ byAccess' = [byAccess EXCEPT ![r] = s, ![sess[s].access] = None]
          /\ byRefresh' = [u \in Token |->
                IF u = r THEN s ELSE IF u = sess[s].prev THEN None ELSE byRefresh[u]]
          /\ byId' = byId
      BY <2>2
    <3>2. \A x \in Session :
             /\ byAccess[t] = x <=> x \in byId /\ sess[x].access = t
             /\ byRefresh[t] = x <=> x \in byId /\ t \in {sess[x].refresh, sess[x].prev}
      BY <1>0 DEF IndexesAgree
    <3>3. OwnTokens(s) /\ OwnTokens(y) /\ y # None /\ s # None /\ t # None /\ r \in Token
      BY <1>1, Names DEF LineageInv
    <3>4. sess[s].access = tk /\ sess[s].prev # tk
      BY <2>1, <2>11, <3>3 DEF OwnTokens
    <3>5. byAccess'[t] = IF t = tk THEN None ELSE IF t = r THEN s ELSE byAccess[t]
      BY <1>0, <1>1, <2>11, <3>1, <3>3, <3>4 DEF TypeOK
    <3>6. byRefresh'[t] = IF t = r THEN s ELSE IF t = sess[s].prev THEN None ELSE byRefresh[t]
      BY <3>1
    <3>7. byAccess'[t] = y <=> y \in byId' /\ sess'[y].access = t
      BY <1>1, <2>1, <2>6, <2>7, <2>10, <2>11, <3>1, <3>2, <3>3, <3>4, <3>5
    <3>8. byRefresh'[t] = y <=> y \in byId' /\ t \in {sess'[y].refresh, sess'[y].prev}
      BY <1>1, <2>1, <2>6, <2>7, <2>10, <2>11, <3>1, <3>2, <3>3, <3>4, <3>6
    <3> QED BY <3>7, <3>8
  <2> QED BY <2>8, <2>16, <2>17, <2>18, <2>19, <2>20, <2>21 DEF LineageInv
<1> QED BY <1>2, <1>3

-----------------------------------------------------------------------------
(* Logins, logouts and the rest of the deployment. *)

\* A step that no refresh takes is quiet if no session gets new tokens.
LEMMA RestStep ==
    ASSUME LineageInv, TypeOK', SameTokens, UNCHANGED req, byId' \subseteq byId,
           IndexesAgree', \A t \in known' \ known : Minted(t)
    PROVE  LineageInv'
<1>1. TypeOK
  BY DEF LineageInv
<1>2. SameRotations
  BY DEF SameRotations, HasRotated
<1>3. Quiet
  BY <1>2 DEF Quiet
<1>4. \A t \in known' \ known : Minted(t)'
  BY <1>1, <1>3, QuietFacts DEF TypeOK
<1> QED BY <1>3, <1>4, QuietStep

\* A step that only revokes is such a step, ...
LEMMA RevokingStep ==
    ASSUME LineageInv, NEW S, sess' = Revoked(S),
           UNCHANGED <<byId, byAccess, byRefresh, swept, known, req, clock, acl, login, straddled>>,
           lreq' \in [LogoutReq -> LogoutRequest], admin' \subseteq Principal
    PROVE  LineageInv'
<1>1. TypeOK /\ IndexesAgree
  BY DEF LineageInv
<1>2. sess' \in [Session -> SessionRecord] /\ SameTokens
  BY <1>1, RevokedFacts DEF SameTokens
<1>3. TypeOK'
  BY <1>1, <1>2 DEF TypeOK
<1>4. IndexesAgree'
  BY <1>1, <1>2, IndexesKept
<1> QED BY <1>2, <1>3, <1>4, RestStep

\* ... so is one that leaves the sessions and the requests alone, ...
LEMMA IdleStep ==
    ASSUME LineageInv, TypeOK', UNCHANGED <<sess, byId, byAccess, byRefresh, req>>,
           \A t \in known' \ known : Minted(t)
    PROVE  LineageInv'
<1>1. IndexesAgree
  BY DEF LineageInv
<1>2. SameTokens
  BY DEF SameTokens
<1>3. IndexesAgree'
  BY <1>1, <1>2, IndexesKept
<1> QED BY <1>2, <1>3, RestStep

\* ... and one that sweeps.
LEMMA SweepingStep ==
    ASSUME LineageInv, IndexesWithout(Evicted), MarkSwept,
           UNCHANGED <<sess, known, req, clock, acl, admin, login, straddled>>,
           lreq' \in [LogoutReq -> LogoutRequest]
    PROVE  LineageInv'
<1>1. TypeOK /\ IndexesAgree
  BY DEF LineageInv
<1>2. SameTokens
  BY DEF SameTokens
<1>3. byId' \subseteq byId
  BY DEF IndexesWithout
<1>4. byAccess' \in [Token -> Opt(Session)] /\ byRefresh' \in [Token -> Opt(Session)]
  BY <1>1, OptNone DEF IndexesWithout, TypeOK
<1>5. swept' \in Int
  BY <1>1 DEF MarkSwept, TypeOK
<1>6. TypeOK'
  BY <1>1, <1>3, <1>4, <1>5 DEF TypeOK
<1>7. IndexesAgree'
  BY <1>1, IndexesSwept
<1> QED BY <1>2, <1>3, <1>6, <1>7, RestStep

\* A login mints its tokens for a session that had none.
LEMMA StoreStep ==
    ASSUME LineageInv, NEW s \in Session, LoginStore(s)
    PROVE  LineageInv'
<1>0. TypeOK /\ IndexesAgree /\ OneRotationPerToken /\ known \subseteq Token
  BY DEF LineageInv, TypeOK
<1>1. PICK n \in SessionRecord : /\ sess' = [sess EXCEPT ![s] = n]
                                 /\ n.access = s /\ n.refresh = s /\ n.prev = None
  <2> QED BY <1>0, StoredType DEF NewSession
<1>2. /\ sess' \in [Session -> SessionRecord] /\ sess'[s] = n
      /\ \A x \in Session : x # s => sess'[x] = sess[x]
  BY <1>0, <1>1 DEF TypeOK
<1>3. s # None /\ s \in Token /\ ~Exists(s) /\ s \notin byId /\ OwnTokens(s)
  <2>1. sess[s].refresh = None /\ OwnTokens(s)
    BY DEF LoginStore, NoSession, LineageInv
  <2> QED BY <2>1, Names DEF Exists, OwnTokens
<1>4. /\ byId' = (byId \ Evicted) \cup {s} /\ known' = known \cup {s}
      /\ UNCHANGED <<req, lreq, clock, acl, admin>>
      /\ login' \in [Session -> LoginRecord] /\ straddled' \subseteq Session
  BY <1>0, NoLoginType DEF LoginStore, TypeOK
<1>5. /\ byAccess' \in [Token -> Opt(Session)] /\ byRefresh' \in [Token -> Opt(Session)]
      /\ swept' \in Int
  <2>1. s \in Opt(Session) /\ None \in Opt(Session)
    BY OptIn, OptNone
  <2> QED BY <1>0, <2>1 DEF LoginStore, MarkSwept, TypeOK
<1>6. TypeOK'
  BY <1>0, <1>2, <1>3, <1>4, <1>5 DEF TypeOK
<1>7. /\ \A x \in RefreshReq : HasRotated(x)' <=> HasRotated(x)
      /\ \A t, x : MintedFor(t, x)' <=> MintedFor(t, x)
      /\ \A t : Spent(t)' <=> Spent(t)
  BY <1>4 DEF HasRotated, MintedFor, Spent
<1>8. Exists(s)' /\ \A x \in Session : Exists(x) => Exists(x)'
  BY <1>1, <1>2, <1>3 DEF Exists
<1>9. \A t \in Token : Minted(t) => Minted(t)'
  BY <1>7, <1>8, Names DEF Minted
<1>10. ~Spent(s)
  <2> SUFFICES ASSUME NEW x \in RefreshReq, HasRotated(x), req[x].token = s PROVE FALSE
    BY DEF Spent
  <2>1. OwnLocals(x)
    BY DEF LineageInv
  <2> QED BY <1>3, <2>1 DEF OwnLocals, Minted
<1>11. \A x \in Session : OwnTokens(x)'
  <2> SUFFICES ASSUME NEW x \in Session PROVE OwnTokens(x)'
    OBVIOUS
  <2>1. CASE x = s
    <3>1. MintedFor(s, s)' /\ ~Spent(s)'
      BY <1>7, <1>10 DEF MintedFor
    <3> QED BY <1>1, <1>2, <1>8, <2>1, <3>1 DEF OwnTokens
  <2>2. CASE x # s
    <3>1. OwnTokens(x) /\ sess'[x] = sess[x] /\ (x \in byId' => x \in byId)
      BY <1>2, <1>4, <2>2 DEF LineageInv
    <3>2. Exists(x)' <=> Exists(x)
      BY <3>1 DEF Exists
    <3> QED BY <1>7, <3>1, <3>2 DEF OwnTokens
  <2> QED BY <2>1, <2>2
<1>12. \A t \in known' : Minted(t)'
  <2>1. Minted(s)'
    BY <1>8 DEF Minted
  <2> QED BY <1>0, <1>4, <1>9, <2>1 DEF LineageInv
<1>13. \A x \in RefreshReq : OwnLocals(x)'
  <2> SUFFICES ASSUME NEW x \in RefreshReq PROVE OwnLocals(x)'
    OBVIOUS
  <2>1. OwnLocals(x) /\ req'[x] = req[x]
    BY <1>4 DEF LineageInv
  <2>2. req[x].token \in Opt(Token) /\ req[x].sid \in Opt(Session)
    BY <1>0 DEF TypeOK, RefreshRequest
  <2>3. req[x].token # None => Minted(req[x].token)'
    <3>1. \A t \in Token : t = req[x].token => Minted(t)'
      BY <1>9, <2>1, Names DEF OwnLocals
    <3> QED BY <2>1, <2>2, <3>1, OptSome DEF Minted
  <2>4. req[x].sid # None => Exists(req[x].sid)'
    <3>1. \A y \in Session : y = req[x].sid => Exists(y)'
      BY <1>8, <2>1, Names DEF OwnLocals
    <3> QED BY <2>1, <2>2, <3>1, OptSome DEF Exists
  <2>5. HasRotated(x)' <=> HasRotated(x)
    BY <1>7
  <2> QED BY <1>7, <2>1, <2>3, <2>4, <2>5 DEF OwnLocals
<1>14. OneRotationPerToken'
  BY <1>0, <1>4, <1>7 DEF OneRotationPerToken
<1>15. ReplayRevokes'
  <2> SUFFICES ASSUME NEW x \in RefreshReq, req[x].code = "NAP_REFRESH_REUSED"
               PROVE  Ended(req[x].sid)'
    BY <1>4 DEF ReplayRevokes
  <2>1. Ended(req[x].sid) /\ OwnLocals(x) /\ req[x].sid \in Opt(Session)
    BY <1>0 DEF LineageInv, ReplayRevokes, TypeOK, RefreshRequest
  <2>2. req[x].sid \in Session /\ req[x].sid # s
    BY <1>3, <2>1, OptSome DEF OwnLocals
  <2> QED BY <1>2, <1>4, <2>1, <2>2 DEF Ended
<1>16. IndexesAgree'
  <2> SUFFICES ASSUME Backend = "memory", NEW t \in Token, NEW y \in Session
               PROVE  /\ byAccess'[t] = y <=> y \in byId' /\ sess'[y].access = t
                      /\ byRefresh'[t] = y <=>
                            y \in byId' /\ t \in {sess'[y].refresh, sess'[y].prev}
    BY DEF IndexesAgree
  <2>1. \A x \in Session :
           /\ byAccess[t] = x <=> x \in byId /\ sess[x].access = t
           /\ byRefresh[t] = x <=> x \in byId /\ t \in {sess[x].refresh, sess[x].prev}
    BY <1>0 DEF IndexesAgree
  <2>2. /\ byAccess'[t] = IF t = s THEN s
                          ELSE IF \E x \in Evicted : sess[x].access = t THEN None
                          ELSE byAccess[t]
        /\ byRefresh'[t] = IF t = s THEN s
                           ELSE IF \E x \in Evicted : t \in {sess[x].refresh, sess[x].prev}
                           THEN None ELSE byRefresh[t]
    BY DEF LoginStore
  <2>3. Evicted \subseteq byId /\ byId \subseteq Session /\ y # None /\ t # None
    BY <1>0, Names DEF Evicted, TypeOK
  <2>4. y # s => sess[y].access # s /\ sess[y].refresh # s /\ sess[y].prev # s
    <3>1. OwnTokens(y) /\ s \notin RefreshReq
      BY Names DEF LineageInv
    <3> QED BY <1>3, <3>1 DEF OwnTokens, MintedFor, Exists
  <2>5. byAccess'[t] = y <=> y \in byId' /\ sess'[y].access = t
    BY <1>1, <1>2, <1>3, <1>4, <2>1, <2>2, <2>3, <2>4
  <2>6. byRefresh'[t] = y <=> y \in byId' /\ t \in {sess'[y].refresh, sess'[y].prev}
    BY <1>1, <1>2, <1>3, <1>4, <2>1, <2>2, <2>3, <2>4
  <2> QED BY <2>5, <2>6
<1> QED BY <1>6, <1>11, <1>12, <1>13, <1>14, <1>15, <1>16 DEF LineageInv

\* A retry of a login, an operator, a logout, the clock and a guarded request.
LEMMA OtherSteps ==
    ASSUME LineageInv,
           \/ \E s \in Session : LoginResolve(s) \/ LoginThrow(s) \/ RetryLogin(s)
           \/ \E l \in LogoutReq : LogoutStep(l)
           \/ \E p \in Principal : Operator(p)
           \/ Tick \/ GuardedRead
    PROVE  LineageInv'
<1>0. TypeOK
  BY DEF LineageInv
<1>1. ASSUME NEW s \in Session, RetryLogin(s) PROVE LineageInv'
  <2>1. /\ s \in byId /\ known' = known \cup {sess[s].refresh}
        /\ UNCHANGED <<sess, byId, byAccess, byRefresh, swept, req, lreq, clock, acl, admin,
                       login, straddled>>
    BY <1>1 DEF RetryLogin, store, rest
  <2>2. OwnTokens(s)
    BY DEF LineageInv
  <2>3. sess[s].refresh \in Token /\ Minted(sess[s].refresh)
    BY <2>1, <2>2, CurrentMinted DEF OwnTokens
  <2>4. TypeOK'
    BY <1>0, <2>1, <2>3 DEF TypeOK
  <2> QED BY <2>1, <2>3, <2>4, IdleStep
<1>2. ASSUME NEW l \in LogoutReq, LogoutLookup(l) PROVE LineageInv'
  <2>1. lreq' \in [LogoutReq -> LogoutRequest]
    <3>1. PICK t \in known :
            \/ lreq' = [lreq EXCEPT ![l].pc = "done", ![l].token = t]
            \/ \E s \in FindByAccess(t) :
                 lreq' = [lreq EXCEPT ![l] = [pc |-> "check", token |-> t, sid |-> s,
                                              exp |-> sess[s].exp]]
      BY <1>2 DEF LogoutLookup
    <3>2. t \in Opt(Token)
      BY <1>0, OptIn DEF TypeOK
    <3>3. CASE lreq' = [lreq EXCEPT ![l].pc = "done", ![l].token = t]
      <4>1. PICK q : q = [lreq[l] EXCEPT !.pc = "done", !.token = t]
        OBVIOUS
      <4>2. lreq \in [LogoutReq -> LogoutRequest] /\ lreq[l] \in LogoutRequest
        BY <1>0 DEF TypeOK
      <4>3. q \in LogoutRequest
        BY <3>2, <4>1, <4>2 DEF LogoutRequest
      <4>4. lreq' = [lreq EXCEPT ![l] = q]
        BY <3>3, <4>1, <4>2
      <4> QED BY <4>2, <4>3, <4>4
    <3>4. ASSUME NEW s \in FindByAccess(t),
                 lreq' = [lreq EXCEPT ![l] = [pc |-> "check", token |-> t, sid |-> s,
                                              exp |-> sess[s].exp]]
          PROVE  lreq' \in [LogoutReq -> LogoutRequest]
      <4>1. s \in Session
        BY <1>0 DEF FindByAccess, TypeOK
      <4>2. s \in Opt(Session) /\ sess[s].exp \in Int
        BY <1>0, <4>1, OptIn DEF TypeOK, SessionRecord
      <4>3. [pc |-> "check", token |-> t, sid |-> s, exp |-> sess[s].exp] \in LogoutRequest
        BY <3>2, <4>2 DEF LogoutRequest
      <4> QED BY <1>0, <3>4, <4>3 DEF TypeOK
    <3> QED BY <3>1, <3>3, <3>4
  <2> QED BY <1>2, <2>1, SweepingStep DEF LogoutLookup, rest
<1>3. ASSUME NEW l \in LogoutReq, LogoutCheck(l) \/ LogoutRevoke(l) PROVE LineageInv'
  <2>1. lreq' \in [LogoutReq -> LogoutRequest]
    BY <1>0, <1>3 DEF LogoutCheck, LogoutRevoke, TypeOK, LogoutRequest
  <2>2. UNCHANGED <<byId, byAccess, byRefresh, swept, known, req, clock, acl, admin,
                    login, straddled>>
    BY <1>3 DEF LogoutCheck, LogoutRevoke, rest
  <2>3. sess' = sess \/ sess' = Revoked({lreq[l].sid})
    BY <1>3 DEF LogoutCheck, LogoutRevoke
  <2>4. CASE sess' = sess
    <3>1. TypeOK'
      BY <1>0, <2>1, <2>2, <2>4 DEF TypeOK
    <3> QED BY <2>2, <2>4, <3>1, IdleStep
  <2>5. CASE sess' = Revoked({lreq[l].sid})
    BY <1>0, <2>1, <2>2, <2>5, RevokingStep DEF TypeOK
  <2> QED BY <2>3, <2>4, <2>5
<1>4. ASSUME NEW p \in Principal, Suspend(p) \/ Unsuspend(p) PROVE LineageInv'
  <2>1. UNCHANGED <<sess, byId, byAccess, byRefresh, swept, known, req, lreq, clock>>
    BY <1>4 DEF Suspend, Unsuspend, store
  <2>2. TypeOK'
    BY <1>0, <1>4, <2>1 DEF TypeOK, Suspend, Unsuspend
  <2> QED BY <2>1, <2>2, IdleStep
<1>5. ASSUME NEW p \in Principal, RevokeByPrincipal(p) PROVE LineageInv'
  <2>1. lreq' \in [LogoutReq -> LogoutRequest] /\ admin' \subseteq Principal
    BY <1>0, <1>5 DEF RevokeByPrincipal, TypeOK
  <2> QED BY <1>5, <2>1, RevokingStep DEF RevokeByPrincipal
<1>6. CASE Tick
  <2>1. /\ UNCHANGED <<sess, byId, byAccess, byRefresh, swept, known, req, lreq, acl, admin, login,
                      straddled>>
        /\ clock' = clock + 1
    BY <1>6 DEF Tick, store
  <2>2. TypeOK'
    BY <1>0, <2>1 DEF TypeOK
  <2> QED BY <2>1, <2>2, IdleStep
<1>8. ASSUME NEW s \in Session, LoginResolve(s) \/ LoginThrow(s) PROVE LineageInv'
  <2>1. UNCHANGED <<sess, byId, byAccess, byRefresh, swept, known, req, lreq, clock, acl, admin,
                    straddled>>
    BY <1>8 DEF LoginResolve, LoginThrow, store
  <2>2. login' \in [Session -> LoginRecord]
    <3>1. ASSUME NEW p \in Principal, NEW bound \in DecisionBound, NEW now \in 0..clock
          PROVE  [owner |-> p, now |-> now, bound |-> bound] \in LoginRecord
      <4>1. p \in Opt(Principal) /\ bound \in Opt(Int) /\ now \in Int
        BY <1>0, OptIn, RefreshTtlAssumption DEF TypeOK
      <4> QED BY <4>1 DEF LoginRecord
    <3> QED BY <1>0, <1>8, <3>1, NoLoginType DEF LoginResolve, LoginThrow, TypeOK
  <2>3. TypeOK'
    BY <1>0, <2>1, <2>2 DEF TypeOK
  <2> QED BY <2>1, <2>3, IdleStep
<1>7. CASE GuardedRead
  <2>1. lreq' \in [LogoutReq -> LogoutRequest]
    BY <1>0, <1>7 DEF GuardedRead, TypeOK
  <2> QED BY <1>7, <2>1, SweepingStep DEF GuardedRead, rest
<1> QED BY <1>1, <1>2, <1>3, <1>4, <1>5, <1>6, <1>7, <1>8 DEF LogoutStep, Operator

-----------------------------------------------------------------------------
(* The theorems. *)

\* The invariant of rotation holds at the start and is kept by every step.
THEOREM LineageInductive == Spec => []LineageInv
<1>1. Init => LineageInv
  <2> SUFFICES ASSUME Init PROVE LineageInv
    OBVIOUS
  <2>1. TypeOK
    <3>1. req \in [RefreshReq -> RefreshRequest] /\ sess \in [Session -> SessionRecord]
      BY EmptyTypes DEF Init
    <3>2. [pc |-> "idle", token |-> None, sid |-> None, exp |-> 0] \in LogoutRequest
      BY OptNone DEF LogoutRequest
    <3> QED BY <3>1, <3>2, OptNone, NoLoginType DEF Init, TypeOK
  <2>2. /\ \A r \in RefreshReq : /\ req[r].pc = "idle" /\ req[r].code = "none"
                                 /\ req[r].token = None /\ req[r].sid = None
                                 /\ req[r].snap.prev = None /\ ~HasRotated(r)
        /\ \A s \in Session : sess[s].refresh = None /\ sess[s].access = None
                              /\ sess[s].prev = None
    BY DEF Init, NoRequest, NoSession, HasRotated
  <2>3. \A s \in Session : OwnTokens(s)
    BY <2>2 DEF OwnTokens, Exists, Init
  <2>4. \A r \in RefreshReq : OwnLocals(r)
    BY <2>2 DEF OwnLocals
  <2>5. OneRotationPerToken /\ ReplayRevokes
    BY <2>2 DEF OneRotationPerToken, ReplayRevokes
  <2>6. IndexesAgree
    BY Names DEF IndexesAgree, Init
  <2>7. \A t \in known : Minted(t)
    BY DEF Init
  <2> QED BY <2>1, <2>3, <2>4, <2>5, <2>6, <2>7 DEF LineageInv
<1>2. LineageInv /\ [Next]_vars => LineageInv'
  <2> SUFFICES ASSUME LineageInv, [Next]_vars PROVE LineageInv'
    OBVIOUS
  <2>1. CASE UNCHANGED vars
    <3>1. TypeOK'
      BY <2>1 DEF LineageInv, TypeOK, vars
    <3> QED BY <2>1, <3>1, IdleStep DEF vars
  <2>2. ASSUME NEW s \in Session, LoginStore(s) PROVE LineageInv'
    BY <2>2, StoreStep
  <2>3. ASSUME NEW r \in RefreshReq, RefreshStep(r) PROVE LineageInv'
    <3>1. CASE RefreshRefuse(r)
      <4>1. /\ req[r].pc = "idle" /\ Finish(r, "refused") /\ sess' = sess /\ known' = known
            /\ UNCHANGED <<byId, byAccess, byRefresh, swept, lreq, clock, acl, admin,
                           login, straddled>>
        BY <3>1 DEF RefreshRefuse, store, rest
      <4>2. "refused" \in RefreshCode
        BY DEF RefreshCode
      <4> QED BY <4>1, <4>2, EndStep
    <3> QED BY <2>3, <3>1, LookupStep, CheckStep, RevokeReusedStep, ResolveStep, RevokeAllStep,
               RotateStep, AnswerStep, ThrowStep DEF RefreshStep
  <2>4. CASE \/ \E s \in Session : LoginResolve(s) \/ LoginThrow(s) \/ RetryLogin(s)
             \/ \E l \in LogoutReq : LogoutStep(l)
             \/ \E p \in Principal : Operator(p)
             \/ Tick \/ GuardedRead
    BY <2>4, OtherSteps
  <2> QED BY <2>1, <2>2, <2>3, <2>4 DEF Next, LoginStep
<1> QED BY <1>1, <1>2, PTL DEF Spec

\* Every variable of the session store, the refreshes and the logouts keeps its shape.
THEOREM RefreshTypeCorrect == Spec => []TypeOK
<1>1. LineageInv => TypeOK
  BY DEF LineageInv
<1> QED BY <1>1, LineageInductive, PTL

\* rotateRefreshToken is single use: however many refreshes present a token at once, one
\* rotates the session off it.
THEOREM RotatesOnce == Spec => []OneRotationPerToken
<1>1. LineageInv => OneRotationPerToken
  BY DEF LineageInv
<1> QED BY <1>1, LineageInductive, PTL

\* A refresh answered NAP_REFRESH_REUSED presented a token another request had spent.
THEOREM ReuseIsReuse == Spec => []ReuseMeansTwoUses
<1>1. LineageInv => ReuseMeansTwoUses
  <2> SUFFICES ASSUME LineageInv, NEW r \in RefreshReq, req[r].code = "NAP_REFRESH_REUSED"
               PROVE  \E x \in RefreshReq \ {r} : HasRotated(x) /\ req[x].token = req[r].token
    BY DEF ReuseMeansTwoUses
  <2>1. OwnLocals(r)
    BY DEF LineageInv
  <2>2. Spent(req[r].token) /\ ~HasRotated(r)
    BY <2>1 DEF OwnLocals, HasRotated
  <2> QED BY <2>2 DEF Spent
<1> QED BY <1>1, LineageInductive, PTL

\* Once a refresh was answered NAP_REFRESH_REUSED no token of its session works again.
THEOREM ReplayIsFinal == Spec => []ReplayEndsLineage
<1>1. LineageInv => ReplayEndsLineage
  BY DEF LineageInv, ReplayRevokes, ReplayEndsLineage, Ended, Usable
<1> QED BY <1>1, LineageInductive, PTL

\* The index maps of InMemorySessionStore are views of the same records.
THEOREM IndexesConsistent == Spec => []IndexesAgree
<1>1. LineageInv => IndexesAgree
  BY DEF LineageInv
<1> QED BY <1>1, LineageInductive, PTL

-----------------------------------------------------------------------------
(* Suspension and the ceiling. *)

\* A step that rotates session s for request r
Rotates(r, s) ==
    /\ req[r].pc = "rotate" /\ req[r].sid = s /\ RefreshRotate(r)
    /\ sess'[s] = Rotation(sess[s], r)

\* A step that does nothing else to session s than revoke it
AtMostRevokes(s) ==
    /\ sess'[s].owner = sess[s].owner /\ sess'[s].issued = sess[s].issued
    /\ sess'[s].exp = sess[s].exp /\ (sess[s].revoked => sess'[s].revoked)
    /\ sess'[s].refresh = sess[s].refresh /\ sess'[s].prev = sess[s].prev

\* Revocation is such a step.
LEMMA RevokedAtMost ==
    ASSUME TypeOK, NEW S, sess' = Revoked(S), NEW s \in Session
    PROVE  AtMostRevokes(s)
<1>1. sess[s] \in SessionRecord
  BY DEF TypeOK
<1> DEFINE n == [sess[s] EXCEPT !.revoked = TRUE]
<1>2. /\ n.owner = sess[s].owner /\ n.issued = sess[s].issued /\ n.exp = sess[s].exp /\ n.revoked
      /\ n.refresh = sess[s].refresh /\ n.prev = sess[s].prev
  BY <1>1 DEF SessionRecord
<1>3. sess'[s] = sess[s] \/ sess'[s] = n
  BY DEF Revoked
<1> HIDE DEF n
<1> QED BY <1>2, <1>3 DEF AtMostRevokes

\* Whatever a step does to a session, it is a login, a rotation or at most a revocation,
\* and only a login enters it in the store.
LEMMA SessionSteps ==
    ASSUME LineageInv, [Next]_vars, NEW s \in Session
    PROVE  /\ LoginStore(s) \/ AtMostRevokes(s) \/ \E r \in RefreshReq : Rotates(r, s)
           /\ LoginStore(s) \/ (s \in byId' => s \in byId)
<1>0. TypeOK
  BY DEF LineageInv
<1>1. sess' = sess => AtMostRevokes(s)
  BY DEF AtMostRevokes
<1>2. (\E S : sess' = Revoked(S)) => AtMostRevokes(s)
  BY <1>0, RevokedAtMost
<1>3. CASE UNCHANGED vars
  BY <1>1, <1>3 DEF vars
<1>4. ASSUME NEW x \in Session, LoginStore(x), x # s PROVE AtMostRevokes(s) /\ (s \in byId' => s \in byId)
  <2>1. sess'[s] = sess[s]
    BY <1>0, <1>4 DEF LoginStore, TypeOK
  <2> QED BY <1>4, <2>1 DEF LoginStore, AtMostRevokes
<1>5. ASSUME NEW x \in Session, LoginResolve(x) \/ LoginThrow(x) \/ RetryLogin(x)
      PROVE  AtMostRevokes(s) /\ byId' = byId
  BY <1>1, <1>5 DEF LoginResolve, LoginThrow, RetryLogin, store
<1>6. ASSUME NEW r \in RefreshReq, RefreshStep(r)
      PROVE  (AtMostRevokes(s) \/ Rotates(r, s)) /\ byId' = byId
  <2>1. CASE RefreshRefuse(r) \/ RefreshLookup(r) \/ ResolveAcl(r) \/ RefreshAnswer(r)
             \/ RefreshThrow(r)
    BY <1>1, <2>1 DEF RefreshRefuse, RefreshLookup, ResolveAcl, RefreshAnswer, RefreshThrow, store
  <2>2. CASE RefreshCheck(r) \/ RevokeReused(r) \/ RevokeAll(r)
    <3>1. (sess' = sess \/ \E S : sess' = Revoked(S)) /\ byId' = byId
      BY <2>2 DEF RefreshCheck, RevokeReused, RevokeAll
    <3> QED BY <1>1, <1>2, <3>1
  <2>3. CASE RefreshRotate(r)
    <3>1. req[r].pc = "rotate" /\ byId' = byId
          /\ (sess' = sess \/ sess' = [sess EXCEPT ![req[r].sid] = Rotation(sess[req[r].sid], r)])
      BY <2>3 DEF RefreshRotate
    <3>2. CASE sess' = sess
      BY <1>1, <3>1, <3>2
    <3>3. CASE sess' = [sess EXCEPT ![req[r].sid] = Rotation(sess[req[r].sid], r)]
      <4>1. CASE req[r].sid = s
        BY <1>0, <2>3, <3>1, <3>3, <4>1 DEF Rotates, TypeOK
      <4>2. CASE req[r].sid # s
        <5>1. sess'[s] = sess[s]
          BY <1>0, <3>3, <4>2 DEF TypeOK
        <5> QED BY <3>1, <5>1 DEF AtMostRevokes
      <4> QED BY <4>1, <4>2
    <3> QED BY <3>1, <3>2, <3>3
  <2> QED BY <1>6, <2>1, <2>2, <2>3 DEF RefreshStep
<1>7. ASSUME NEW l \in LogoutReq, LogoutStep(l)
      PROVE  AtMostRevokes(s) /\ (s \in byId' => s \in byId)
  <2>1. sess' = sess \/ \E S : sess' = Revoked(S)
    BY <1>7 DEF LogoutStep, LogoutLookup, LogoutCheck, LogoutRevoke
  <2>2. s \in byId' => s \in byId
    BY <1>7 DEF LogoutStep, LogoutLookup, LogoutCheck, LogoutRevoke, IndexesWithout
  <2> QED BY <1>1, <1>2, <2>1, <2>2
<1>8. ASSUME NEW p \in Principal, Operator(p) PROVE AtMostRevokes(s) /\ byId' = byId
  <2>1. (sess' = sess \/ \E S : sess' = Revoked(S)) /\ byId' = byId
    BY <1>8 DEF Operator, Suspend, RevokeByPrincipal, Unsuspend, store
  <2> QED BY <1>1, <1>2, <2>1
<1>9. CASE Tick \/ GuardedRead
  BY <1>1, <1>9 DEF Tick, GuardedRead, store, IndexesWithout
<1> QED BY <1>3, <1>4, <1>5, <1>6, <1>7, <1>8, <1>9 DEF Next, LoginStep

\* What a step does to a request: it looks its session up, checks the record it holds,
\* reads the ACL, leaves it alone, or takes it past the rotation.
LEMMA RequestSteps ==
    ASSUME LineageInv, [Next]_vars, NEW r \in RefreshReq
    PROVE  \/ req'[r] = req[r] \/ req'[r].pc \notin {"check", "resolve", "rotate"}
           \/ RefreshLookup(r) /\ sess' = sess
           \/ RefreshCheck(r) /\ req'[r].pc = "resolve" /\ sess' = sess
           \/ req[r].pc = "resolve" /\ sess' = sess /\ req'[r].pc = "rotate"
              /\ req'[r].now = req[r].now /\ req'[r].sid = req[r].sid
<1>0. TypeOK /\ req[r] \in RefreshRequest
  BY DEF LineageInv, TypeOK
<1>1. ASSUME NEW x \in RefreshReq, RefreshStep(x), x # r PROVE req'[r] = req[r]
  <2>1. \A q : Become(x, q) => req'[r] = req[r]
    BY <1>0, <1>1 DEF Become, TypeOK
  <2> QED BY <1>1, <2>1 DEF RefreshStep, Finish, RefreshRefuse, RefreshLookup, RefreshCheck,
             RevokeReused, ResolveAcl, RevokeAll, RefreshRotate, RefreshAnswer, RefreshThrow
<1>2. \A q : Become(r, q) => req'[r] = q
  BY <1>0 DEF Become, TypeOK
<1>3. \A code : Finish(r, code) => req'[r].pc = "done"
  BY <1>2 DEF Finish, Finished, NoRequest
<1>4. CASE RefreshLookup(r)
  BY <1>4 DEF RefreshLookup, store
<1>5. CASE RefreshCheck(r)
  <2>1. \/ Become(r, [req[r] EXCEPT !.pc = "resolve", !.now = clock, !.snap = NoSession])
           /\ sess' = sess
        \/ Become(r, [req[r] EXCEPT !.pc = "revoke", !.snap = NoSession])
        \/ \E code : Finish(r, code)
    BY <1>5 DEF RefreshCheck
  <2>2. Become(r, [req[r] EXCEPT !.pc = "revoke", !.snap = NoSession]) => req'[r].pc = "revoke"
    BY <1>0, <1>2 DEF RefreshRequest
  <2>3. Become(r, [req[r] EXCEPT !.pc = "resolve", !.now = clock, !.snap = NoSession])
           => req'[r].pc = "resolve"
    BY <1>0, <1>2 DEF RefreshRequest
  <2> QED BY <1>3, <1>5, <2>1, <2>2, <2>3
<1>6. CASE ResolveAcl(r)
  <2>1. \/ \E bound \in DecisionBound : Become(r, [req[r] EXCEPT !.pc = "rotate", !.bound = bound])
        \/ Become(r, [req[r] EXCEPT !.pc = "revoke_all"])
        \/ \E code : Finish(r, code)
    BY <1>6 DEF ResolveAcl
  <2>2. req[r].pc = "resolve" /\ sess' = sess
    BY <1>6 DEF ResolveAcl, store
  <2>3. Become(r, [req[r] EXCEPT !.pc = "revoke_all"]) => req'[r].pc = "revoke_all"
    BY <1>0, <1>2 DEF RefreshRequest
  <2>4. ASSUME NEW bound \in DecisionBound,
               Become(r, [req[r] EXCEPT !.pc = "rotate", !.bound = bound])
        PROVE  req'[r].pc = "rotate" /\ req'[r].now = req[r].now /\ req'[r].sid = req[r].sid
    BY <1>0, <1>2, <2>4 DEF RefreshRequest
  <2> QED BY <1>3, <2>1, <2>2, <2>3, <2>4
<1>7. CASE RefreshRotate(r)
  <2>1. \/ Become(r, [req[r] EXCEPT !.pc = "answer", !.now = 0, !.bound = None])
        \/ \E code : Finish(r, code)
    BY <1>7 DEF RefreshRotate
  <2>2. Become(r, [req[r] EXCEPT !.pc = "answer", !.now = 0, !.bound = None])
           => req'[r].pc = "answer"
    BY <1>0, <1>2 DEF RefreshRequest
  <2> QED BY <1>3, <2>1, <2>2
<1>8. CASE RefreshRefuse(r) \/ RevokeReused(r) \/ RevokeAll(r) \/ RefreshAnswer(r) \/ RefreshThrow(r)
  <2>1. \E code : Finish(r, code)
    BY <1>8 DEF RefreshRefuse, RevokeReused, RevokeAll, RefreshAnswer, RefreshThrow
  <2> QED BY <1>3, <2>1
<1>9. (\E x \in RefreshReq : RefreshStep(x)) \/ req' = req
  BY DEF Next, vars, LoginStep, LoginResolve, LoginStore, LoginThrow, RetryLogin,
         LogoutStep, LogoutLookup, LogoutCheck, LogoutRevoke,
         Operator, Suspend, RevokeByPrincipal, Unsuspend, Tick, GuardedRead
<1> QED BY <1>1, <1>4, <1>5, <1>6, <1>7, <1>8, <1>9 DEF RefreshStep

\* A session that its principal's suspension did not end: its login straddled it, and no
\* refresh has rotated it or is past reading the ACL.
Overtook(s) ==
    /\ s \in straddled /\ sess[s].refresh = s
    /\ \A r \in RefreshReq : req[r].pc = "rotate" => req[r].sid # s

\* The sessions of a principal whose suspension is complete are revoked or forgotten, but
\* for those.
SuspensionInv ==
    \A p \in Principal : Suspended(p) =>
        \A s \in Session : sess[s].owner = p => Ended(s) \/ Overtook(s)

\* While the suspension stands a refresh of the principal's session does not come to rotate
\* it: it would have to read an ACL row that admits the principal.
LEMMA NoneComesToRotate ==
    ASSUME LineageInv, [Next]_vars, NEW r \in RefreshReq, req'[r].pc = "rotate"
    PROVE  \/ req[r].pc = "rotate" /\ req'[r].sid = req[r].sid
           \/ req'[r].sid = req[r].sid /\ acl[sess[req[r].sid].owner] = "active"
<1>0. TypeOK /\ req[r] \in RefreshRequest
  BY DEF LineageInv, TypeOK
<1>1. CASE req'[r] = req[r]
  BY <1>1
<1>2. CASE RefreshLookup(r)
  <2>1. \A q : Become(r, q) => req'[r] = q
    BY <1>0 DEF Become, TypeOK
  <2>2. req'[r].pc \in {"check", "done"}
    BY <1>2, <2>1 DEF RefreshLookup, Finished, NoRequest
  <2> QED BY <2>2
<1>3. CASE req[r].pc = "resolve" /\ req'[r].pc = "rotate" /\ req'[r].sid = req[r].sid
  <2>1. req'[r] # req[r]
    BY <1>3
  <2>2. ASSUME NEW x \in RefreshReq, RefreshStep(x) PROVE x = r
    <3>1. \A q : Become(x, q) => \A y \in RefreshReq : y # x => req'[y] = req[y]
      BY <1>0 DEF Become, TypeOK
    <3> QED BY <2>1, <2>2, <3>1 DEF RefreshStep, Finish, RefreshRefuse, RefreshLookup,
               RefreshCheck, RevokeReused, ResolveAcl, RevokeAll, RefreshRotate, RefreshAnswer,
               RefreshThrow
  <2>3. (\E x \in RefreshReq : RefreshStep(x)) \/ req' = req
    BY DEF Next, vars, LoginStep, LoginResolve, LoginStore, LoginThrow, RetryLogin, LogoutStep,
           LogoutLookup, LogoutCheck, LogoutRevoke, Operator, Suspend, RevokeByPrincipal,
           Unsuspend, Tick, GuardedRead
  <2>4. RefreshStep(r)
    BY <2>1, <2>2, <2>3
  <2>5. \A q : Become(r, q) => req'[r] = q
    BY <1>0 DEF Become, TypeOK
  <2>6. \A code : Finish(r, code) => req'[r].pc = "done"
    BY <2>5 DEF Finish, Finished, NoRequest
  <2>7. ResolveAcl(r) \/ RefreshThrow(r)
    BY <1>3, <2>4 DEF RefreshStep, RefreshRefuse, RefreshLookup, RefreshCheck, RevokeReused,
       RevokeAll, RefreshRotate, RefreshAnswer
  <2>8. Become(r, [req[r] EXCEPT !.pc = "revoke_all"]) => req'[r].pc = "revoke_all"
    BY <1>0, <2>5 DEF RefreshRequest
  <2>9. acl[sess[req[r].sid].owner] = "active"
    BY <1>3, <2>6, <2>7, <2>8 DEF ResolveAcl, RefreshThrow
  <2> QED BY <1>3, <2>9
<1> QED BY <1>1, <1>2, <1>3, RequestSteps

\* A refresh cannot carry a session across a completed suspension of its principal: only a
\* session whose login straddled the suspension works, on the tokens it was born with.
THEOREM SuspensionHolds == Spec => []SuspensionSurvivesRefresh
<1>1. Init => SuspensionInv
  BY DEF Init, SuspensionInv, Suspended
<1>2. LineageInv /\ SuspensionInv /\ [Next]_vars => SuspensionInv'
  <2> SUFFICES ASSUME LineageInv, SuspensionInv, [Next]_vars, NEW p \in Principal,
                      Suspended(p)', NEW s \in Session, sess'[s].owner = p
               PROVE  Ended(s)' \/ Overtook(s)'
    BY DEF SuspensionInv
  <2>0. TypeOK
    BY DEF LineageInv
  <2>1. CASE RevokeByPrincipal(p)
    <3>1. sess' = Revoked(SessionsOf(p)) /\ byId' = byId
      BY <2>1 DEF RevokeByPrincipal
    <3>2. sess[s].owner = p
      BY <2>0, <3>1, RevokedAtMost DEF AtMostRevokes
    <3>3. s \in byId => s \in SessionsOf(p) \cap byId
      BY <3>2 DEF SessionsOf
    <3> QED BY <2>0, <3>1, <3>3, RevokedFacts DEF Ended
  <2>2. CASE ~RevokeByPrincipal(p)
    <3>1. Suspended(p)
      <4>1. CASE acl' = acl /\ admin' = admin
        BY <4>1 DEF Suspended
      <4>2. ASSUME NEW x \in Principal, Operator(x) PROVE acl[p] = "suspended" /\ p \notin admin
        BY <2>0, <2>2, <4>2 DEF Operator, Suspend, Unsuspend, RevokeByPrincipal, TypeOK, Suspended
      <4>3. (acl' = acl /\ admin' = admin) \/ \E x \in Principal : Operator(x)
        BY DEF Next, vars, LoginStep, LoginResolve, LoginStore, LoginThrow, RetryLogin, RefreshStep,
               RefreshRefuse, RefreshLookup, RefreshCheck, RevokeReused, ResolveAcl, RevokeAll,
               RefreshRotate, RefreshAnswer, RefreshThrow, LogoutStep, LogoutLookup, LogoutCheck,
               LogoutRevoke, Tick, GuardedRead, rest
      <4> QED BY <4>1, <4>2, <4>3 DEF Suspended
    <3>2. CASE LoginStore(s)
      <4>1. login[s].owner = p /\ sess'[s].refresh = s
        BY <2>0, <3>2, StoredType DEF NewSession
      <4>2. s \in straddled' /\ req' = req
        BY <3>1, <3>2, <4>1 DEF LoginStore
      <4>3. ~Exists(s)
        BY <3>2 DEF LoginStore, Exists, NoSession
      <4>4. ASSUME NEW r \in RefreshReq, req[r].pc = "rotate" PROVE req[r].sid # s
        BY <4>3, <4>4, Holds
      <4> QED BY <4>1, <4>2, <4>4 DEF Overtook
    <3>3. CASE AtMostRevokes(s) /\ ~LoginStore(s)
      <4>1. sess[s].owner = p /\ (s \in byId' => s \in byId)
        BY <3>3, SessionSteps DEF AtMostRevokes
      <4>2. CASE Ended(s)
        BY <3>3, <4>1, <4>2 DEF Ended, AtMostRevokes
      <4>3. CASE Overtook(s)
        <5>1. straddled \subseteq straddled'
          BY DEF Next, vars, LoginStep, LoginResolve, LoginStore, LoginThrow, RetryLogin,
                 RefreshStep, RefreshRefuse, RefreshLookup, RefreshCheck, RevokeReused, ResolveAcl,
                 RevokeAll, RefreshRotate, RefreshAnswer, RefreshThrow, LogoutStep, LogoutLookup,
                 LogoutCheck, LogoutRevoke, Operator, Suspend, RevokeByPrincipal, Unsuspend, Tick,
                 GuardedRead, rest
        <5>2. sess'[s].refresh = s
          BY <3>3, <4>3 DEF Overtook, AtMostRevokes
        <5>3. ASSUME NEW r \in RefreshReq, req'[r].pc = "rotate" PROVE req'[r].sid # s
          BY <3>1, <4>1, <4>3, <5>3, NoneComesToRotate DEF Overtook, Suspended
        <5> QED BY <4>3, <5>1, <5>2, <5>3 DEF Overtook
      <4> QED BY <3>1, <4>1, <4>2, <4>3 DEF SuspensionInv
    <3>4. ASSUME NEW r \in RefreshReq, Rotates(r, s), ~LoginStore(s) PROVE Ended(s)'
      <4>1. sess[s] \in SessionRecord
        BY <2>0 DEF TypeOK
      <4>2. sess'[s].owner = sess[s].owner /\ sess'[s].revoked = sess[s].revoked
        BY <3>4, <4>1 DEF Rotates, Rotation, SessionRecord
      <4>3. ~Overtook(s)
        BY <3>4 DEF Rotates, Overtook
      <4>4. Ended(s)
        BY <3>1, <4>2, <4>3 DEF SuspensionInv
      <4> QED BY <3>4, <4>2, <4>4, SessionSteps DEF Ended
    <3> QED BY <3>2, <3>3, <3>4, SessionSteps
  <2> QED BY <2>1, <2>2
<1>3. SuspensionInv => SuspensionSurvivesRefresh
  BY DEF SuspensionInv, SuspensionSurvivesRefresh, Ended, Overtook, Usable
<1> QED BY <1>1, <1>2, <1>3, LineageInductive, PTL DEF Spec

\* A session's access token ends by its ceiling, and a refresh that passed the check runs
\* with a `now' before it. The copy a handler holds tells the same login instant.
CeilingInv ==
    MaxLifetime # None =>
        /\ \A s \in Session : sess[s].exp <= Ceiling(sess[s])
        /\ \A r \in RefreshReq :
              /\ req[r].pc = "check" /\ Backend = "postgres" =>
                    req[r].snap.issued = sess[req[r].sid].issued
              /\ req[r].pc \in {"resolve", "rotate"} => req[r].now < Ceiling(sess[req[r].sid])

\* A window clamped to a bound ends by it, if the bound is not past; and never outlasts
\* the full window.
LEMMA ClampBound ==
    ASSUME NEW ttl \in Nat \ {0}, NEW b \in Opt(Int), NEW now \in Int
    PROVE  /\ ClampTtl(ttl, b, now) <= ttl
           /\ b # None /\ now < b => now + ClampTtl(ttl, b, now) <= b
<1>1. CASE b = None
  BY <1>1 DEF ClampTtl
<1>2. CASE b # None
  <2>1. b \in Int
    BY <1>2, OptSome
  <2> QED BY <1>2, <2>1 DEF ClampTtl
<1> QED BY <1>1, <1>2

\* A rotation before the ceiling leaves an access token that ends by it.
LEMMA RotationBelowCeiling ==
    ASSUME NEW rec \in SessionRecord, NEW r \in RefreshReq, req[r] \in RefreshRequest,
           MaxLifetime # None, req[r].now < Ceiling(rec)
    PROVE  /\ Rotation(rec, r).exp <= Ceiling(Rotation(rec, r))
           /\ Rotation(rec, r).issued = rec.issued
<1> DEFINE bound == Lesser(Ceiling(rec), req[r].bound)
           exp == req[r].now + ClampTtl(SessionTtl, bound, req[r].now)
<1>1. MaxLifetime \in Int /\ rec.issued \in Int /\ req[r].now \in Int /\ req[r].bound \in Opt(Int)
  BY RefreshTtlAssumption, OptSome DEF SessionRecord, RefreshRequest
<1>2. Ceiling(rec) \in Int /\ Ceiling(rec) = rec.issued + MaxLifetime
  BY <1>1 DEF Ceiling
<1>3. Ceiling(rec) # None
  BY <1>2, RefreshNameAssumption
<1>4. bound \in Int /\ bound <= Ceiling(rec) /\ bound # None
  <2>1. CASE req[r].bound = None
    BY <1>2, <1>3, <2>1 DEF Lesser
  <2>2. CASE req[r].bound # None
    <3>1. req[r].bound \in Int
      BY <1>1, <2>2, OptSome
    <3> QED BY <1>2, <1>3, <2>2, <3>1 DEF Lesser
  <2> QED BY <2>1, <2>2
<1>5. Rotation(rec, r).exp = exp /\ Rotation(rec, r).issued = rec.issued
  BY DEF Rotation, SessionRecord
<1> HIDE DEF bound
<1>6. bound \in Opt(Int) /\ SessionTtl \in Nat \ {0} /\ SessionTtl \in Int
  BY <1>4, OptIn, RefreshTtlAssumption
<1>7. ClampTtl(SessionTtl, bound, req[r].now) \in Int
  BY <1>1, <1>6, ClampTtlType, Zenon
<1>8. exp <= Ceiling(rec)
  <2>1. CASE req[r].now < bound
    <3>1. exp <= bound
      BY <1>1, <1>4, <1>6, <2>1, ClampBound
    <3> QED BY <1>1, <1>2, <1>4, <1>7, <3>1
  <2>2. CASE ~(req[r].now < bound)
    <3>1. ClampTtl(SessionTtl, bound, req[r].now) = 1
      BY <1>1, <1>4, <1>6, <2>2 DEF ClampTtl
    <3> QED BY <1>1, <1>2, <3>1
  <2> QED BY <2>1, <2>2
<1> HIDE DEF exp
<1> QED BY <1>5, <1>8 DEF Ceiling

\* The ceiling is a wall, whatever the resolver's bounds and however often a session is
\* refreshed, if the first access token stays below it: nothing clamps that one.
THEOREM CeilingIsAWall ==
    ASSUME MaxLifetime # None => SessionTtl <= MaxLifetime
    PROVE  Spec => []CeilingHolds
<1>1. Init => CeilingInv
  <2> SUFFICES ASSUME Init, MaxLifetime # None PROVE CeilingInv
    BY DEF CeilingInv
  <2>1. MaxLifetime \in Nat
    BY RefreshTtlAssumption, OptSome
  <2> QED BY <2>1 DEF Init, CeilingInv, Ceiling, NoSession, NoRequest
<1>2. LineageInv /\ CeilingInv /\ [Next]_vars => CeilingInv'
  <2> SUFFICES ASSUME LineageInv, CeilingInv, [Next]_vars, MaxLifetime # None
               PROVE  CeilingInv'
    BY DEF CeilingInv
  <2>0. TypeOK /\ MaxLifetime \in Int
    BY RefreshTtlAssumption, OptSome DEF LineageInv
  <2>1. ASSUME NEW s \in Session
        PROVE  /\ sess'[s].exp <= Ceiling(sess'[s])
               /\ Exists(s) => sess'[s].issued = sess[s].issued
    <3>1. CASE LoginStore(s)
      <4> DEFINE bound == login[s].bound
                 now == login[s].now
      <4>2. sess'[s].exp = now + ClampTtl(SessionTtl, bound, now) /\ sess'[s].issued = now
        BY <2>0, <3>1, StoredType DEF NewSession
      <4>3. bound \in Opt(Int) /\ now \in Int /\ SessionTtl \in Nat \ {0} /\ SessionTtl \in Int
        BY <2>0, RefreshTtlAssumption DEF TypeOK, LoginRecord
      <4> HIDE DEF bound, now
      <4>4. ClampTtl(SessionTtl, bound, now) \in Int
        BY <4>3, ClampTtlType, Zenon
      <4>5. ClampTtl(SessionTtl, bound, now) <= SessionTtl
        BY <4>3, ClampBound
      <4>6. ~Exists(s)
        BY <3>1 DEF LoginStore, Exists, NoSession
      <4>7. SessionTtl <= MaxLifetime
        OBVIOUS
      <4> HIDE DEF ClampTtl
      <4> QED BY <2>0, <4>2, <4>3, <4>4, <4>5, <4>6, <4>7 DEF Ceiling
    <3>2. CASE AtMostRevokes(s)
      BY <3>2 DEF AtMostRevokes, CeilingInv, Ceiling
    <3>3. ASSUME NEW r \in RefreshReq, Rotates(r, s)
          PROVE  sess'[s].exp <= Ceiling(sess'[s]) /\ sess'[s].issued = sess[s].issued
      <4>1. sess[s] \in SessionRecord /\ req[r] \in RefreshRequest
        BY <2>0 DEF TypeOK
      <4>2. req[r].now < Ceiling(sess[s]) /\ sess'[s] = Rotation(sess[s], r)
        BY <3>3 DEF Rotates, CeilingInv
      <4> QED BY <4>1, <4>2, RotationBelowCeiling
    <3> QED BY <3>1, <3>2, <3>3, SessionSteps
  <2>2. ASSUME NEW r \in RefreshReq
        PROVE  /\ req'[r].pc = "check" /\ Backend = "postgres" =>
                     req'[r].snap.issued = sess'[req'[r].sid].issued
               /\ req'[r].pc \in {"resolve", "rotate"} =>
                     req'[r].now < Ceiling(sess'[req'[r].sid])
    <3> DEFINE s == req[r].sid
    <3>1. ASSUME req[r].pc \notin {"idle", "done"}
          PROVE  s \in Session /\ sess'[s].issued = sess[s].issued
      BY <2>1, <3>1, Holds
    <3>2. CASE req'[r] = req[r]
      BY <3>1, <3>2 DEF CeilingInv, Ceiling
    <3>3. CASE RefreshLookup(r) /\ sess' = sess
      <4>1. \A q : Become(r, q) => req'[r] = q
        BY <2>0 DEF Become, TypeOK
      <4>2. PICK t : \/ Become(r, Finished([NoRequest EXCEPT !.token = t],
                                           "NAP_REFRESH_UNKNOWN_TOKEN"))
                     \/ \E x \in FindByRefresh(t) :
                          Become(r, [NoRequest EXCEPT
                            !.pc = "check", !.token = t, !.sid = x,
                            !.snap = IF Backend = "memory" THEN NoSession ELSE sess[x]])
        BY <3>3 DEF RefreshLookup
      <4>3. CASE Become(r, Finished([NoRequest EXCEPT !.token = t], "NAP_REFRESH_UNKNOWN_TOKEN"))
        BY <4>1, <4>3 DEF Finished, NoRequest
      <4>4. ASSUME NEW x, Become(r, [NoRequest EXCEPT
                            !.pc = "check", !.token = t, !.sid = x,
                            !.snap = IF Backend = "memory" THEN NoSession ELSE sess[x]])
            PROVE  req'[r].pc = "check" /\ req'[r].sid = x
                   /\ (Backend = "postgres" => req'[r].snap = sess[x])
        BY <4>1, <4>4 DEF NoRequest
      <4> QED BY <3>3, <4>2, <4>3, <4>4
    <3>4. CASE RefreshCheck(r) /\ req'[r].pc = "resolve" /\ sess' = sess
      <4>1. req[r].pc = "check" /\ req[r] \in RefreshRequest
        BY <2>0, <3>4 DEF RefreshCheck, TypeOK
      <4>2. \A q : Become(r, q) => req'[r] = q
        BY <2>0 DEF Become, TypeOK
      <4>3. \A code : Finish(r, code) => req'[r].pc = "done"
        BY <4>2 DEF Finish, Finished, NoRequest
      <4>4. Become(r, [req[r] EXCEPT !.pc = "revoke", !.snap = NoSession]) => req'[r].pc = "revoke"
        BY <4>1, <4>2 DEF RefreshRequest
      <4>5. /\ TokenCheck(Held(r), req[r].token, clock) = "none"
            /\ Become(r, [req[r] EXCEPT !.pc = "resolve", !.now = clock, !.snap = NoSession])
        BY <3>4, <4>3, <4>4 DEF RefreshCheck
      <4>6. req'[r].now = clock /\ req'[r].sid = s
        BY <4>1, <4>2, <4>5 DEF RefreshRequest
      <4>7. ~(clock >= Ceiling(Held(r)))
        BY <4>5 DEF TokenCheck
      <4>8. Held(r).issued = sess[s].issued
        BY <4>1, RefreshBackendAssumption DEF Held, CeilingInv
      <4>9. clock \in Int /\ sess[s].issued \in Int
        BY <2>0, <4>1, Holds DEF TypeOK, SessionRecord
      <4> QED BY <2>0, <3>4, <4>6, <4>7, <4>8, <4>9 DEF Ceiling
    <3>5. CASE /\ req[r].pc = "resolve" /\ sess' = sess /\ req'[r].pc = "rotate"
               /\ req'[r].now = req[r].now /\ req'[r].sid = req[r].sid
      BY <3>5 DEF CeilingInv
    <3> QED BY <3>2, <3>3, <3>4, <3>5, RequestSteps
  <2> QED BY <2>1, <2>2 DEF CeilingInv, Ceiling
<1>3. CeilingInv => CeilingHolds
  BY DEF CeilingInv, CeilingHolds
<1> QED BY <1>1, <1>2, <1>3, LineageInductive, PTL DEF Spec

-----------------------------------------------------------------------------
(* Retired tokens. *)

\* What a step does to a request: it leaves it alone, looks its session up, or takes it on
\* with its token and session, to "unknown token" only from the check.
LEMMA RequestKept ==
    ASSUME LineageInv, [Next]_vars, NEW r \in RefreshReq
    PROVE  \/ req'[r] = req[r]
           \/ RefreshLookup(r)
           \/ /\ req'[r].pc \notin {"idle", "check"} /\ (HasRotated(r) => HasRotated(r)')
              /\ req'[r].token = req[r].token /\ req'[r].sid = req[r].sid
              /\ req'[r].code = "NAP_REFRESH_UNKNOWN_TOKEN" =>
                    /\ req[r].pc = "check" /\ sess' = sess /\ byId' = byId
                    /\ TokenCheck(Held(r), req[r].token, clock) = "NAP_REFRESH_UNKNOWN_TOKEN"
<1>0. TypeOK /\ req[r] \in RefreshRequest
  BY DEF LineageInv, TypeOK
<1>1. ASSUME NEW x \in RefreshReq, RefreshStep(x), x # r PROVE req'[r] = req[r]
  <2>1. \A q : Become(x, q) => req'[r] = req[r]
    BY <1>0, <1>1 DEF Become, TypeOK
  <2> QED BY <1>1, <2>1 DEF RefreshStep, Finish, RefreshRefuse, RefreshLookup, RefreshCheck,
             RevokeReused, ResolveAcl, RevokeAll, RefreshRotate, RefreshAnswer, RefreshThrow
<1>2. \A q : Become(r, q) => req'[r] = q
  BY <1>0 DEF Become, TypeOK
<1>3. \A code : Finish(r, code) => /\ req'[r].pc = "done" /\ req'[r].code = code
                                   /\ req'[r].token = req[r].token /\ req'[r].sid = req[r].sid
  BY <1>2 DEF Finish, Finished, NoRequest
<1>c. req[r].pc # "done" => req[r].code = "none"
  BY DEF LineageInv, OwnLocals
<1> DEFINE Onward == /\ req'[r].pc \notin {"idle", "check"} /\ (HasRotated(r) => HasRotated(r)')
                     /\ req'[r].token = req[r].token /\ req'[r].sid = req[r].sid
                     /\ req'[r].code # "NAP_REFRESH_UNKNOWN_TOKEN"
<1>4. CASE RefreshRefuse(r) \/ RevokeReused(r) \/ RevokeAll(r)
  <2>1. /\ req[r].pc \notin {"answer", "done"}
        /\ \E code \in {"refused", "NAP_REFRESH_REUSED", "NAP_REFRESH_ACL_DENIED"} : Finish(r, code)
    BY <1>4 DEF RefreshRefuse, RevokeReused, RevokeAll
  <2> QED BY <1>3, <1>c, <2>1 DEF HasRotated
<1>5. CASE RefreshAnswer(r) \/ RefreshThrow(r)
  <2>1. \E code \in {"lost", "thrown", "NAP_REFRESH_SUCCESS"} :
           Finish(r, code) /\ (req[r].pc = "answer" => code # "thrown")
    BY <1>5 DEF RefreshAnswer, RefreshThrow
  <2>2. req[r].pc # "done"
    BY <1>5 DEF RefreshAnswer, RefreshThrow
  <2> QED BY <1>3, <1>c, <2>1, <2>2 DEF HasRotated
<1>6. CASE RefreshCheck(r)
  <2>0. req[r].pc = "check" /\ ~HasRotated(r) /\ byId' = byId
    BY <1>6, <1>c DEF RefreshCheck, HasRotated
  <2>1. CASE Become(r, [req[r] EXCEPT !.pc = "resolve", !.now = clock, !.snap = NoSession])
    BY <1>0, <1>2, <1>c, <2>0, <2>1 DEF RefreshRequest
  <2>2. CASE Become(r, [req[r] EXCEPT !.pc = "revoke", !.snap = NoSession])
    BY <1>0, <1>2, <1>c, <2>0, <2>2 DEF RefreshRequest
  <2>3. CASE Finish(r, "NAP_REFRESH_REUSED")
    BY <1>3, <2>0, <2>3
  <2>4. CASE Finish(r, TokenCheck(Held(r), req[r].token, clock)) /\ sess' = sess
    BY <1>3, <2>0, <2>4
  <2> QED BY <1>6, <2>1, <2>2, <2>3, <2>4 DEF RefreshCheck
<1>7. CASE ResolveAcl(r)
  <2>0. req[r].pc = "resolve" /\ ~HasRotated(r)
    BY <1>7, <1>c DEF ResolveAcl, HasRotated
  <2>1. ASSUME NEW bound \in DecisionBound,
               Become(r, [req[r] EXCEPT !.pc = "rotate", !.bound = bound])
        PROVE  Onward
    BY <1>0, <1>2, <1>c, <2>0, <2>1 DEF RefreshRequest
  <2>2. CASE Become(r, [req[r] EXCEPT !.pc = "revoke_all"])
    BY <1>0, <1>2, <1>c, <2>0, <2>2 DEF RefreshRequest
  <2>3. CASE Finish(r, "NAP_REFRESH_ACL_DENIED")
    BY <1>3, <2>0, <2>3
  <2> QED BY <1>7, <2>1, <2>2, <2>3 DEF ResolveAcl
<1>8. CASE RefreshRotate(r)
  <2>0. req[r].pc = "rotate" /\ ~HasRotated(r)
    BY <1>8, <1>c DEF RefreshRotate, HasRotated
  <2>1. CASE Become(r, [req[r] EXCEPT !.pc = "answer", !.now = 0, !.bound = None])
    BY <1>0, <1>2, <1>c, <2>0, <2>1 DEF RefreshRequest
  <2>2. CASE Finish(r, "NAP_REFRESH_INTERNAL")
    BY <1>3, <2>0, <2>2
  <2> QED BY <1>8, <2>1, <2>2 DEF RefreshRotate
<1>9. (\E x \in RefreshReq : RefreshStep(x)) \/ req' = req
  BY DEF Next, vars, LoginStep, LoginResolve, LoginStore, LoginThrow, RetryLogin,
         LogoutStep, LogoutLookup, LogoutCheck, LogoutRevoke,
         Operator, Suspend, RevokeByPrincipal, Unsuspend, Tick, GuardedRead
<1> QED BY <1>1, <1>4, <1>5, <1>6, <1>7, <1>8, <1>9 DEF RefreshStep

\* A minted token stays the token of its session.
LEMMA MintedForKept ==
    ASSUME LineageInv, [Next]_vars, NEW t, NEW s, MintedFor(t, s)
    PROVE  MintedFor(t, s)'
<1>1. ASSUME t \in RefreshReq, HasRotated(t), req[t].sid = s
      PROVE  HasRotated(t)' /\ req'[t].sid = s
  <2>1. ~RefreshLookup(t)
    BY <1>1 DEF RefreshLookup, HasRotated, LineageInv, OwnLocals
  <2> QED BY <1>1, <2>1, RequestKept DEF HasRotated
<1> QED BY <1>1 DEF MintedFor

\* A session that answers to a minted token after a step answered to it before: what a
\* login or a rotation adds is fresh.
LEMMA TokensFresh ==
    ASSUME LineageInv, [Next]_vars, NEW t \in Token, Minted(t), NEW s \in Session,
           s \in byId', t \in {sess'[s].refresh, sess'[s].prev}
    PROVE  s \in byId /\ t \in {sess[s].refresh, sess[s].prev}
<1>0. TypeOK /\ t # None /\ s # None
  BY Names DEF LineageInv
<1>1. CASE LoginStore(s)
  <2>2. sess'[s].refresh = s /\ sess'[s].prev = None
    BY <1>0, <1>1, StoredType DEF NewSession
  <2>3. ~Exists(s)
    BY <1>1 DEF LoginStore, Exists, NoSession
  <2> QED BY <1>0, <2>2, <2>3 DEF Minted
<1>2. CASE ~LoginStore(s)
  <2>1. s \in byId
    BY <1>2, SessionSteps
  <2>2. CASE AtMostRevokes(s)
    BY <2>1, <2>2 DEF AtMostRevokes
  <2>3. ASSUME NEW r \in RefreshReq, Rotates(r, s) PROVE t \in {sess[s].refresh, sess[s].prev}
    <3>1. sess[s] \in SessionRecord /\ req[r] \in RefreshRequest
      BY <1>0 DEF TypeOK
    <3>2. sess'[s].refresh = r /\ sess'[s].prev = sess[s].refresh
      BY <2>3, <3>1, RotationType DEF Rotates
    <3>3. ~HasRotated(r)
      BY <2>3 DEF Rotates, HasRotated, LineageInv, OwnLocals
    <3>4. ~Minted(r)
      BY <3>3, FreshToken
    <3> QED BY <3>2, <3>4
  <2> QED BY <1>2, <2>1, <2>2, <2>3, SessionSteps
<1> QED BY <1>1, <1>2

\* A token that is looked up and found is one of the session it is found by; one that is
\* not found answers to no held session.
LEMMA LookupFinds ==
    ASSUME LineageInv, NEW r \in RefreshReq, RefreshLookup(r)
    PROVE  /\ UNCHANGED <<sess, byId>> /\ req'[r].token \in Token /\ Minted(req'[r].token)
           /\ \/ /\ req'[r].sid = None /\ req'[r].pc = "done"
                 /\ \A s \in byId : req'[r].token \notin {sess[s].refresh, sess[s].prev}
              \/ /\ req'[r].sid \in byId /\ req'[r].code = "none"
                 /\ req'[r].token \in {sess[req'[r].sid].refresh, sess[req'[r].sid].prev}
                 /\ Backend = "postgres" => req'[r].snap = sess[req'[r].sid]
<1>0. TypeOK /\ known \subseteq Token /\ IndexesAgree /\ byId \subseteq Session
      /\ UNCHANGED <<sess, byId>> /\ \A t \in known : Minted(t)
  BY DEF LineageInv, TypeOK, RefreshLookup, store
<1>1. PICK t \in known :
         \/ /\ FindByRefresh(t) = {}
            /\ Become(r, Finished([NoRequest EXCEPT !.token = t], "NAP_REFRESH_UNKNOWN_TOKEN"))
         \/ \E s \in FindByRefresh(t) :
            Become(r, [NoRequest EXCEPT
                        !.pc = "check", !.token = t, !.sid = s,
                        !.snap = IF Backend = "memory" THEN NoSession ELSE sess[s]])
  BY DEF RefreshLookup
<1>2. FindByRefresh(t) = {s \in byId : t \in {sess[s].refresh, sess[s].prev}}
  <2>1. CASE Backend = "memory"
    BY <1>0, <2>1 DEF FindByRefresh, IndexesAgree
  <2>2. CASE Backend # "memory"
    BY <2>2 DEF FindByRefresh
  <2> QED BY <2>1, <2>2
<1>3. \A q : Become(r, q) => req'[r] = q
  BY <1>0 DEF Become, TypeOK
<1>4. CASE /\ FindByRefresh(t) = {}
           /\ Become(r, Finished([NoRequest EXCEPT !.token = t], "NAP_REFRESH_UNKNOWN_TOKEN"))
  <2>1. req'[r].token = t /\ req'[r].sid = None /\ req'[r].pc = "done"
    BY <1>3, <1>4 DEF Finished, NoRequest
  <2> QED BY <1>0, <1>2, <1>4, <2>1
<1>5. ASSUME NEW s \in FindByRefresh(t),
             Become(r, [NoRequest EXCEPT
                         !.pc = "check", !.token = t, !.sid = s,
                         !.snap = IF Backend = "memory" THEN NoSession ELSE sess[s]])
      PROVE  /\ req'[r].token = t /\ req'[r].sid = s /\ req'[r].code = "none"
             /\ Backend = "postgres" => req'[r].snap = sess[s]
  BY <1>3, <1>5 DEF NoRequest
<1> QED BY <1>0, <1>1, <1>2, <1>4, <1>5

\* The invariant of the retired tokens is kept.
LEMMA CaughtStep ==
    ASSUME LineageInv, LineageInv', CaughtInv, [Next]_vars PROVE CaughtInv'
<1>0. TypeOK /\ byId \subseteq Session /\ byId' \subseteq Session
  BY DEF LineageInv, TypeOK
<1>1. ASSUME NEW r \in RefreshReq, RefreshLookup(r) PROVE PresentsOwn(r)'
  <2>1. CASE req'[r].sid = None /\ req'[r].pc = "done"
    BY <2>1 DEF PresentsOwn
  <2>2. CASE /\ req'[r].sid \in byId
             /\ req'[r].token \in {sess[req'[r].sid].refresh, sess[req'[r].sid].prev}
             /\ Backend = "postgres" => req'[r].snap = sess[req'[r].sid]
    <3>1. PICK s \in Session : s = req'[r].sid
      BY <1>0, <2>2
    <3>2. PICK t \in Token : t = req'[r].token
      BY <1>1, LookupFinds
    <3>3. MintedFor(t, s)
      <4>1. OwnTokens(s) /\ t # None
        BY <3>2, Names DEF LineageInv
      <4> QED BY <2>2, <3>1, <3>2, <4>1 DEF OwnTokens, Exists
    <3>4. MintedFor(t, s)'
      BY <3>3, MintedForKept
    <3> QED BY <2>2, <3>1, <3>2, <3>4 DEF PresentsOwn, MintedFor, HasRotated
  <2> QED BY <1>1, <2>1, <2>2, LookupFinds
<1>2. ASSUME NEW r \in RefreshReq, ~RefreshLookup(r) PROVE PresentsOwn(r)'
  <2>1. /\ req'[r].token = req[r].token /\ req'[r].sid = req[r].sid
        /\ req'[r].pc = "check" => req'[r] = req[r]
    BY <1>2, RequestKept
  <2>2. PICK t, s : t = req[r].token /\ s = req[r].sid
    OBVIOUS
  <2>3. PresentsOwn(r)
    BY DEF CaughtInv
  <2>4. s # None => MintedFor(t, s)'
    BY <2>2, <2>3, MintedForKept DEF PresentsOwn
  <2>5. req'[r].sid # None => MintedFor(req[r].token, req[r].sid)'
    BY <2>1, <2>2, <2>4 DEF MintedFor, HasRotated
  <2> QED BY <2>1, <2>3, <2>5 DEF PresentsOwn
<1>3. ASSUME NEW r \in RefreshReq,
             req'[r].code = "NAP_REFRESH_UNKNOWN_TOKEN", req'[r].token # None, NEW s \in byId'
      PROVE  req'[r].token \notin {sess'[s].refresh, sess'[s].prev}
  <2>0. s \in Session
    BY <1>0
  <2>1. CASE RefreshLookup(r)
    <3>1. /\ UNCHANGED <<sess, byId>>
          /\ \A x \in byId : req'[r].token \notin {sess[x].refresh, sess[x].prev}
      BY <1>3, <2>1, LookupFinds
    <3> QED BY <1>3, <3>1
  <2>2. CASE ~RefreshLookup(r)
    <3>1. PICK t : t = req[r].token /\ t = req'[r].token
      BY <2>2, RequestKept
    <3>2. t \in Token /\ Minted(t)
      <4>1. OwnLocals(r) /\ t \in Opt(Token)
        BY <1>0, <3>1 DEF LineageInv, TypeOK, RefreshRequest
      <4> QED BY <1>3, <3>1, <4>1, OptSome DEF OwnLocals
    <3>3. CASE req'[r] = req[r]
      <4>1. \A x \in byId : t \notin {sess[x].refresh, sess[x].prev}
        BY <1>3, <3>1, <3>3 DEF CaughtInv, RetiredTokenIsCaught
      <4> QED BY <1>3, <2>0, <3>1, <3>2, <4>1, TokensFresh
    <3>4. CASE /\ req[r].pc = "check" /\ sess' = sess /\ byId' = byId
               /\ TokenCheck(Held(r), req[r].token, clock) = "NAP_REFRESH_UNKNOWN_TOKEN"
      <4>1. t \notin {Held(r).refresh, Held(r).prev}
        BY <3>1, <3>4 DEF TokenCheck
      <4>2. PresentsOwn(r) /\ req[r].sid \in Session
        BY <3>4, Holds DEF CaughtInv
      <4>3. Backend = "memory"
        BY <3>1, <3>4, <4>1, <4>2, RefreshBackendAssumption DEF PresentsOwn, Held
      <4>4. CASE s = req[r].sid
        BY <3>1, <3>4, <4>1, <4>3, <4>4 DEF Held
      <4>5. CASE s # req[r].sid
        <5>1. MintedFor(t, req[r].sid) /\ OwnTokens(s) /\ t # None
          BY <2>0, <3>1, <3>2, <4>2, Names DEF PresentsOwn, LineageInv
        <5>2. ~MintedFor(t, s)
          BY <2>0, <4>2, <4>5, <5>1, MintedForOne
        <5> QED BY <1>3, <3>1, <3>4, <5>1, <5>2 DEF OwnTokens, Exists
      <4> QED BY <4>4, <4>5
    <3> QED BY <1>3, <2>2, <3>3, <3>4, RequestKept
  <2> QED BY <2>1, <2>2
<1> QED BY <1>1, <1>2, <1>3 DEF CaughtInv, RetiredTokenIsCaught

\* A refresh is answered "unknown token" only if no held session answers to its token: a
\* replay of the token a session was last rotated off is recognised as one.
THEOREM RetiredCaught == Spec => []RetiredTokenIsCaught
<1>1. Init => CaughtInv
  BY DEF Init, CaughtInv, RetiredTokenIsCaught, PresentsOwn, NoRequest
<1>2. CaughtInv => RetiredTokenIsCaught
  BY DEF CaughtInv
<1> QED BY <1>1, <1>2, CaughtStep, LineageInductive, PTL DEF Spec
=============================================================================
