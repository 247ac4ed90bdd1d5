------------------------- MODULE CompletionProofs -------------------------
(***************************************************************************)
(* Proofs about Completion, for every number of requests, principals and   *)
(* addresses and every setting: type correctness; a challenge is redeemed  *)
(* by one proof, for one session row; its failure budget counts its own    *)
(* principal's failures; and Completion implements OneTimeLogin.           *)
(***************************************************************************)
EXTENDS CompletionRefines, FiniteSetTheorems, TLAPS

-----------------------------------------------------------------------------
(* The operators keep the types of what they build. *)

\* A value is an optional value, ...
LEMMA OptIn == ASSUME NEW S, NEW x \in S PROVE x \in Opt(S)
BY DEF Opt

\* ... so is the unset one, ...
LEMMA OptNone == ASSUME NEW S PROVE None \in Opt(S)
BY DEF Opt

\* ... and an optional value that is set is a value.
LEMMA OptSome == ASSUME NEW S, NEW x \in Opt(S), x # None PROVE x \in S
BY DEF Opt

\* The absent rows and the request not yet made are records like the others.
LEMMA EmptyTypes ==
    NoChallenge \in ChallengeRecord /\ NoSession \in SessionRecord
    /\ NoCompRequest \in CompRequest
<1>1. NoChallenge \in ChallengeRecord
  BY DEF NoChallenge, ChallengeRecord, ChallengeState, Opt
<1>2. NoSession \in SessionRecord
  BY DEF NoSession, SessionRecord, Opt
<1>3. NoCompRequest \in CompRequest
  BY DEF NoCompRequest, CompRequest, CompPc, Code, Opt
<1> QED BY <1>1, <1>2, <1>3

\* Sweeping a store leaves a table of records.
LEMMA SweepTypes ==
    ASSUME TypeOK
    PROVE  /\ SweptChallenges \in [InitReq -> ChallengeRecord]
           /\ SweptSessions \in [CompReq -> SessionRecord]
           /\ MarkSwept(chalSwept) \in Int /\ MarkSwept(sessSwept) \in Int
<1>1. SweptChallenges \in [InitReq -> ChallengeRecord]
  BY EmptyTypes DEF TypeOK, SweptChallenges
<1>2. SweptSessions \in [CompReq -> SessionRecord]
  BY EmptyTypes DEF TypeOK, SweptSessions
<1>3. MarkSwept(chalSwept) \in Int /\ MarkSwept(sessSwept) \in Int
  BY DEF TypeOK, MarkSwept
<1> QED BY <1>1, <1>2, <1>3

\* A challenge is issued as a challenge record, ...
LEMMA NewChallengeType ==
    ASSUME NEW q \in InitRequest
    PROVE  /\ NewChallenge(q) \in ChallengeRecord
           /\ NewChallenge(q).state = "issued" /\ NewChallenge(q).event = None
<1>1. q.npub \in Opt(Principal) /\ q.ip \in Opt(Ip) /\ q.now \in Int
  BY DEF InitRequest
<1>2. q.now + ChallengeTtl \in Int
  BY <1>1, TtlAssumption
<1>3. "issued" \in ChallengeState
  BY DEF ChallengeState
<1>4. NewChallenge(q) \in ChallengeRecord
  BY <1>1, <1>2, <1>3, EmptyTypes DEF ChallengeRecord, NewChallenge
<1>5. NewChallenge(q).state = "issued" /\ NewChallenge(q).event = None
  BY DEF NewChallenge, NoChallenge
<1> QED BY <1>4, <1>5

\* ... a failure counted leaves one, ...
LEMMA SpentType ==
    ASSUME NEW rec \in ChallengeRecord PROVE Spent(rec) \in ChallengeRecord
<1>1. rec.failures + 1 \in Nat
  BY DEF ChallengeRecord
<1>2. (IF rec.failures + 1 >= MaxFailures THEN "failed_terminal" ELSE rec.state)
        \in ChallengeState
  BY DEF ChallengeRecord, ChallengeState
<1> QED BY <1>1, <1>2 DEF Spent, ChallengeRecord

\* ... and so is one redeemed.
LEMMA RedeemedType ==
    ASSUME NEW rec \in ChallengeRecord, NEW q \in CompRequest
    PROVE  Redeemed(rec, q) \in ChallengeRecord
<1>1. q.event \in Opt(Event) /\ q.sid \in Opt(CompReq) /\ q.now \in Int
  BY DEF CompRequest
<1>2. q.now + ResultCacheTtl \in Int
  BY <1>1, TtlAssumption
<1>3. q.now + ResultCacheTtl \in Opt(Int)
  BY <1>2, OptIn
<1>4. "redeemed" \in ChallengeState
  BY DEF ChallengeState
<1> QED BY <1>1, <1>3, <1>4 DEF Redeemed, ChallengeRecord

\* clampTtlToDecision answers with a number of seconds.
LEMMA ClampTtlType ==
    ASSUME NEW ttl \in Int, NEW b \in Opt(Int), NEW now \in Int
    PROVE  ClampTtl(ttl, b, now) \in Int
BY DEF ClampTtl, Opt

\* createSessionRecord builds a session record.
LEMMA NewSessionType ==
    ASSUME NEW q \in CompRequest, q.event \in Event PROVE NewSession(q) \in SessionRecord
<1>1. q.now \in Int /\ q.bound \in Opt(Int) /\ q.npub \in Opt(Principal)
  BY DEF CompRequest
<1>2. SessionTtl \in Int /\ RefreshTtl \in Int
  BY TtlAssumption
<1>3. q.now + ClampTtl(SessionTtl, q.bound, q.now) \in Int
  <2>1. ClampTtl(SessionTtl, q.bound, q.now) \in Int
    BY <1>1, <1>2, ClampTtlType, Zenon
  <2> QED BY <1>1, <2>1
<1>4. (IF RefreshTtl > 0 THEN q.now + RefreshTtl ELSE 0) \in Int
  BY <1>1, <1>2
<1>5. q.event.cid \in InitReq
  BY EventAssumption DEF EventRecord
<1>6. q.event.cid \in Opt(InitReq)
  BY <1>5, OptIn
<1> QED BY <1>1, <1>3, <1>4, <1>6 DEF NewSession, SessionRecord

\* A request's answer is a request record.
LEMMA AnsweredType ==
    ASSUME NEW q \in CompRequest, NEW code \in Code
    PROVE  Answered(q, code) \in CompRequest
<1> DEFINE s == IF code = "NAP_COMPLETE_SUCCESS" THEN q.sid ELSE None
<1>1. s \in Opt(CompReq)
  BY OptNone DEF CompRequest
<1>2. Answered(q, code) = [NoCompRequest EXCEPT !.pc = "done", !.code = code,
                             !.event = q.event, !.now = q.now, !.sid = s]
  BY DEF Answered
<1> HIDE DEF s
<1>3. "done" \in CompPc
  BY DEF CompPc
<1> QED BY <1>1, <1>2, <1>3, EmptyTypes DEF CompRequest

\* So is the record of a request that gave up.
LEMMA GaveUpType ==
    ASSUME NEW code \in Code
    PROVE  [NoCompRequest EXCEPT !.pc = "done", !.code = code] \in CompRequest
<1>1. "done" \in CompPc
  BY DEF CompPc
<1> QED BY <1>1, EmptyTypes DEF CompRequest

\* A request that moves on keeps the other fields.
LEMMA MovedType ==
    ASSUME NEW q \in CompRequest, NEW pc \in CompPc
    PROVE  /\ [q EXCEPT !.pc = pc] \in CompRequest
           /\ \A s \in Opt(CompReq) : [q EXCEPT !.pc = pc, !.sid = s] \in CompRequest
           /\ \A b \in Opt(Int) : [q EXCEPT !.pc = pc, !.bound = b] \in CompRequest
           /\ \A p \in Opt(Principal) : [q EXCEPT !.pc = pc, !.npub = p] \in CompRequest
           /\ \A code \in Code : [q EXCEPT !.pc = pc, !.code = code] \in CompRequest
BY DEF CompRequest

-----------------------------------------------------------------------------
(* Type correctness. *)

\* What a handler's segment does to the table of requests.
LEMMA BecomeFacts ==
    ASSUME TypeOK, NEW r \in CompReq, NEW q \in CompRequest, Become(r, q)
    PROVE  /\ creq' \in [CompReq -> CompRequest] /\ creq'[r] = q
           /\ \A s \in CompReq : s # r => creq'[s] = creq[s]
BY DEF Become, TypeOK

\* A request that gives up is done and was not answered with a success.
LEMMA GiveUpFacts ==
    ASSUME TypeOK, NEW r \in CompReq, NEW code \in Code, GiveUp(r, code)
    PROVE  /\ creq' \in [CompReq -> CompRequest]
           /\ creq'[r].pc = "done" /\ creq'[r].code = code
           /\ \A s \in CompReq : s # r => creq'[s] = creq[s]
<1> DEFINE q == [NoCompRequest EXCEPT !.pc = "done", !.code = code]
<1>1. q \in CompRequest
  BY GaveUpType
<1>2. q.pc = "done" /\ q.code = code
  BY DEF NoCompRequest
<1>3. Become(r, q)
  BY DEF GiveUp
<1> HIDE DEF q
<1> QED BY <1>1, <1>2, <1>3, BecomeFacts

\* A request that is answered is done, keeps its event and its `now', and keeps its
\* session if the answer is a success.
LEMMA FinishFacts ==
    ASSUME TypeOK, NEW r \in CompReq, NEW code \in Code, Finish(r, code)
    PROVE  /\ creq' \in [CompReq -> CompRequest]
           /\ creq'[r].pc = "done" /\ creq'[r].code = code
           /\ creq'[r].event = creq[r].event /\ creq'[r].now = creq[r].now
           /\ code = "NAP_COMPLETE_SUCCESS" => creq'[r].sid = creq[r].sid
           /\ \A s \in CompReq : s # r => creq'[s] = creq[s]
<1>1. creq[r] \in CompRequest
  BY DEF TypeOK
<1>2. Answered(creq[r], code) \in CompRequest
  BY <1>1, AnsweredType
<1>3. creq' \in [CompReq -> CompRequest] /\ creq'[r] = Answered(creq[r], code)
      /\ \A s \in CompReq : s # r => creq'[s] = creq[s]
  BY <1>2, BecomeFacts DEF Finish
<1> QED BY <1>3 DEF Answered, NoCompRequest

\* A request that moves on to its next await keeps everything else, ...
LEMMA MoveFacts ==
    ASSUME TypeOK, NEW r \in CompReq, NEW pc \in CompPc,
           Become(r, [creq[r] EXCEPT !.pc = pc])
    PROVE  /\ creq' \in [CompReq -> CompRequest]
           /\ creq'[r].pc = pc /\ creq'[r].code = creq[r].code
           /\ creq'[r].event = creq[r].event /\ creq'[r].now = creq[r].now
           /\ creq'[r].sid = creq[r].sid
           /\ \A t \in CompReq : t # r => creq'[t] = creq[t]
<1> DEFINE q == [creq[r] EXCEPT !.pc = pc]
<1>1. creq[r] \in CompRequest
  BY DEF TypeOK
<1>2. q \in CompRequest
  BY <1>1, MovedType
<1>3. /\ q.pc = pc /\ q.code = creq[r].code /\ q.event = creq[r].event
      /\ q.now = creq[r].now /\ q.sid = creq[r].sid
  BY <1>1 DEF CompRequest
<1> HIDE DEF q
<1>4. Become(r, q)
  BY DEF q
<1> QED BY <1>2, <1>3, <1>4, BecomeFacts

\* ... or everything but the session id it was given.
LEMMA MoveSidFacts ==
    ASSUME TypeOK, NEW r \in CompReq, NEW pc \in CompPc, NEW s \in Opt(CompReq),
           Become(r, WithSession(creq[r], pc, s))
    PROVE  /\ creq' \in [CompReq -> CompRequest]
           /\ creq'[r].pc = pc /\ creq'[r].code = creq[r].code
           /\ creq'[r].event = creq[r].event /\ creq'[r].now = creq[r].now
           /\ creq'[r].sid = s
           /\ \A t \in CompReq : t # r => creq'[t] = creq[t]
<1> DEFINE q == WithSession(creq[r], pc, s)
<1>1. creq[r] \in CompRequest
  BY DEF TypeOK
<1>2. q \in CompRequest
  BY <1>1, MovedType DEF WithSession
<1>3. /\ q.pc = pc /\ q.code = creq[r].code /\ q.event = creq[r].event
      /\ q.now = creq[r].now /\ q.sid = s
  BY <1>1 DEF CompRequest, WithSession
<1> HIDE DEF q
<1>4. Become(r, q)
  BY DEF q
<1> QED BY <1>2, <1>3, <1>4, BecomeFacts

\* Every code a check or a redemption answers with is a code.
LEMMA CodeTypes ==
    /\ \A e, now, rec : ChallengeCheck(e, now, rec) \in Code
    /\ \A rec, now : RefusedRedeem(rec, now) \in Code \ {"NAP_COMPLETE_SUCCESS"}
<1>1. \A e, now, rec : ChallengeCheck(e, now, rec) \in Code
  BY DEF ChallengeCheck, Code
<1>2. \A rec, now : RefusedRedeem(rec, now) \in Code \ {"NAP_COMPLETE_SUCCESS"}
  BY DEF RefusedRedeem, Code
<1> QED BY <1>1, <1>2

\* A redemption that did not happen is answered as a failure or read again.
LEMMA RefuseOrReloadFacts ==
    ASSUME TypeOK, NEW r \in CompReq, NEW rec, RefuseOrReload(r, rec)
    PROVE  /\ creq' \in [CompReq -> CompRequest]
           /\ \/ creq'[r].pc = "done" /\ creq'[r].code # "NAP_COMPLETE_SUCCESS"
              \/ creq'[r].pc = "reload" /\ creq'[r].code = creq[r].code
           /\ creq'[r].event = creq[r].event /\ creq'[r].now = creq[r].now
           /\ creq'[r].pc = "reload" => creq'[r].sid = creq[r].sid
           /\ \A t \in CompReq : t # r => creq'[t] = creq[t]
<1> DEFINE code == RefusedRedeem(rec, creq[r].now)
<1>0. code \in Code /\ code # "NAP_COMPLETE_SUCCESS"
  BY CodeTypes
<1>1. Finish(r, code) \/ Become(r, [creq[r] EXCEPT !.pc = "reload"])
  BY DEF RefuseOrReload
<1>2. CASE Finish(r, code)
  <2> HIDE DEF code
  <2> QED BY <1>0, <1>2, FinishFacts
<1>3. CASE Become(r, [creq[r] EXCEPT !.pc = "reload"])
  <2>1. "reload" \in CompPc
    BY DEF CompPc
  <2> QED BY <1>3, <2>1, MoveFacts
<1> QED BY <1>1, <1>2, <1>3

\* A segment of /auth/complete keeps the types, leaves the other requests alone, and
\* leaves its own with the locals its next await needs.
LEMMA CompleteTypes ==
    ASSUME TypeOK, LocalsHeld, NEW r \in CompReq, CompleteStep(r)
    PROVE  /\ TypeOK' /\ HasLocals(r)'
           /\ \A t \in CompReq : t # r => creq'[t] = creq[t]
<1> DEFINE c == creq[r].event.cid
           Others == \A t \in CompReq : t # r => creq'[t] = creq[t]
<1>0. /\ creq[r] \in CompRequest /\ HasLocals(r)
      /\ creq[r].event \in Opt(Event) /\ creq[r].sid \in Opt(CompReq) /\ creq[r].code \in Code
  BY DEF TypeOK, LocalsHeld, CompRequest
<1>c. ASSUME creq[r].pc \notin {"idle", "done"}
      PROVE  creq[r].event # None /\ creq[r].event \in Event /\ c \in InitReq
             /\ chal[c] \in ChallengeRecord
  <2>1. creq[r].event # None
    BY <1>0, <1>c DEF HasLocals
  <2>2. creq[r].event \in Event
    BY <1>0, <2>1, OptSome
  <2>3. c \in InitReq
    BY <2>2, EventAssumption DEF EventRecord
  <2> QED BY <2>1, <2>2, <2>3 DEF TypeOK
<1>1. CASE CompleteReject(r)
  <2>1. "NAP_COMPLETE_REJECTED" \in Code
    BY DEF Code
  <2> QED BY <1>1, <2>1, GiveUpFacts DEF CompleteReject, TypeOK, HasLocals
<1>2. CASE CompleteBegin(r)
  <2>1. PICK e \in Event :
          \/ Become(r, [creq[r] EXCEPT !.event = e, !.now = clock, !.pc = "load"])
          \/ GiveUp(r, "NAP_COMPLETE_CREATED_AT_OUT_OF_RANGE")
    BY <1>2 DEF CompleteBegin
  <2>2. CASE GiveUp(r, "NAP_COMPLETE_CREATED_AT_OUT_OF_RANGE")
    <3>1. "NAP_COMPLETE_CREATED_AT_OUT_OF_RANGE" \in Code
      BY DEF Code
    <3> QED BY <1>2, <2>2, <3>1, GiveUpFacts DEF CompleteBegin, TypeOK, HasLocals
  <2>3. CASE Become(r, [creq[r] EXCEPT !.event = e, !.now = clock, !.pc = "load"])
    <3> DEFINE q == [creq[r] EXCEPT !.event = e, !.now = clock, !.pc = "load"]
    <3>1. clock \in Int /\ "load" \in CompPc
      BY DEF TypeOK, CompPc
    <3>2. e \in Opt(Event) /\ e # None
      BY OptIn, NoneAssumption
    <3>3. q \in CompRequest /\ q.pc = "load" /\ q.event = e
      BY <1>0, <3>1, <3>2 DEF CompRequest
    <3> HIDE DEF q
    <3>4. creq' \in [CompReq -> CompRequest] /\ creq'[r] = q /\ Others
      BY <2>3, <3>3, BecomeFacts DEF q
    <3> QED BY <1>2, <3>2, <3>3, <3>4 DEF CompleteBegin, TypeOK, HasLocals
  <2> QED BY <2>1, <2>2, <2>3
<1>3. CASE CompleteRateLimited(r)
  <2>1. "NAP_COMPLETE_RATE_LIMITED" \in Code
    BY DEF Code
  <2> QED BY <1>3, <2>1, GiveUpFacts DEF CompleteRateLimited, TypeOK, HasLocals
<1>4. CASE LoadChallenge(r)
  <2> DEFINE code == ChallengeCheck(creq[r].event, creq[r].now, chal[c])
  <2>1. code \in Code
    BY CodeTypes
  <2>2. creq[r].event # None /\ chal[c].npub \in Opt(Principal)
    BY <1>4, <1>c DEF LoadChallenge, ChallengeRecord
  <2>3. \/ Finish(r, code)
        \/ Become(r, [creq[r] EXCEPT !.pc = "resolve", !.npub = chal[c].npub])
        \/ Become(r, [creq[r] EXCEPT !.pc = "spend", !.code = code])
    BY <1>4 DEF LoadChallenge
  <2>4. CASE Finish(r, code)
    <3> HIDE DEF code
    <3> QED BY <1>4, <2>1, <2>4, FinishFacts DEF LoadChallenge, TypeOK, HasLocals
  <2>5. ASSUME NEW q \in CompRequest, Become(r, q), q.pc \in {"resolve", "spend"},
               q.event = creq[r].event
        PROVE  TypeOK' /\ HasLocals(r)' /\ Others
    BY <1>4, <2>2, <2>5, BecomeFacts DEF LoadChallenge, TypeOK, HasLocals
  <2>6. "resolve" \in CompPc /\ "spend" \in CompPc
    BY DEF CompPc
  <2>7. CASE Become(r, [creq[r] EXCEPT !.pc = "resolve", !.npub = chal[c].npub])
    <3> DEFINE q == [creq[r] EXCEPT !.pc = "resolve", !.npub = chal[c].npub]
    <3>1. q \in CompRequest
      BY <1>0, <2>2, <2>6, MovedType
    <3>2. q.pc = "resolve" /\ q.event = creq[r].event
      BY <1>0 DEF CompRequest
    <3> HIDE DEF q
    <3>3. Become(r, q)
      BY <2>7 DEF q
    <3> QED BY <2>5, <3>1, <3>2, <3>3
  <2>8. CASE Become(r, [creq[r] EXCEPT !.pc = "spend", !.code = code])
    <3> DEFINE q == [creq[r] EXCEPT !.pc = "spend", !.code = code]
    <3> HIDE DEF code
    <3>1. q \in CompRequest
      BY <1>0, <2>1, <2>6, MovedType
    <3>2. q.pc = "spend" /\ q.event = creq[r].event
      BY <1>0 DEF CompRequest
    <3> HIDE DEF q
    <3>3. Become(r, q)
      BY <2>8 DEF q
    <3> QED BY <2>5, <3>1, <3>2, <3>3
  <2> QED BY <2>3, <2>4, <2>7, <2>8
<1>5. CASE RecordFailure(r)
  <2>1. c \in InitReq /\ Spent(chal[c]) \in ChallengeRecord
    BY <1>5, <1>c, SpentType DEF RecordFailure
  <2>2. chal' \in [InitReq -> ChallengeRecord]
    BY <1>5, <2>1 DEF RecordFailure, TypeOK
  <2>3. Finish(r, creq[r].code) \/ Finish(r, "thrown")
    BY <1>5 DEF RecordFailure
  <2>4. "thrown" \in Code
    BY DEF Code
  <2> QED BY <1>0, <1>5, <2>2, <2>3, <2>4, FinishFacts DEF RecordFailure, TypeOK, HasLocals
<1>6. CASE ResolveAcl(r)
  <2>1. creq[r].event # None
    BY <1>6, <1>c DEF ResolveAcl
  <2>2. CASE Finish(r, "NAP_COMPLETE_ACL_DENIED")
    <3>1. "NAP_COMPLETE_ACL_DENIED" \in Code
      BY DEF Code
    <3> QED BY <1>6, <2>2, <3>1, FinishFacts DEF ResolveAcl, TypeOK, HasLocals
  <2>3. CASE \E b \in DecisionBound : Become(r, [creq[r] EXCEPT !.pc = "create", !.bound = b])
    <3>1. PICK b \in DecisionBound : Become(r, [creq[r] EXCEPT !.pc = "create", !.bound = b])
      BY <2>3
    <3> DEFINE q == [creq[r] EXCEPT !.pc = "create", !.bound = b]
    <3>2. b \in Opt(Int) /\ "create" \in CompPc
      BY LimitAssumption DEF CompPc
    <3>3. q \in CompRequest
      BY <1>0, <3>2, MovedType
    <3>4. q.pc = "create" /\ q.event = creq[r].event
      BY <1>0 DEF CompRequest
    <3> HIDE DEF q
    <3>5. creq' \in [CompReq -> CompRequest] /\ creq'[r] = q /\ Others
      BY <3>1, <3>3, BecomeFacts DEF q
    <3> QED BY <1>6, <2>1, <3>4, <3>5 DEF ResolveAcl, TypeOK, HasLocals
  <2> QED BY <1>6, <2>2, <2>3 DEF ResolveAcl
<1>7. CASE CreateSession(r)
  <2>1. creq[r].event \in Event /\ creq[r].event # None
    BY <1>7, <1>c DEF CreateSession
  <2>2. sess' \in [CompReq -> SessionRecord] /\ sessSwept' \in Int
    BY <1>0, <1>7, <2>1, SweepTypes, NewSessionType DEF CreateSession
  <2>3. "redeem" \in CompPc /\ r \in Opt(CompReq) /\ r # None
    BY OptIn, NoneAssumption DEF CompPc
  <2>4. Become(r, WithSession(creq[r], "redeem", r))
    BY <1>7 DEF CreateSession
  <2>5. /\ creq' \in [CompReq -> CompRequest] /\ creq'[r].event = creq[r].event
        /\ creq'[r].sid = r /\ Others
    BY <2>3, <2>4, MoveSidFacts
  <2> QED BY <1>7, <2>1, <2>2, <2>3, <2>5 DEF CreateSession, TypeOK, HasLocals
<1>8. CASE LoseCreate(r)
  <2>1. creq[r].event # None
    BY <1>8, <1>c DEF LoseCreate
  <2>2. sess' \in [CompReq -> SessionRecord] /\ sessSwept' \in Int
    BY <1>8, SweepTypes DEF LoseCreate
  <2>3. PICK s \in CompReq : \/ Become(r, WithSession(creq[r], "redeem", s))
                            \/ Become(r, [creq[r] EXCEPT !.pc = "reuse"])
    BY <1>8 DEF LoseCreate, ExistingSessions, SessionsOf
  <2>4. "redeem" \in CompPc /\ "reuse" \in CompPc /\ s \in Opt(CompReq) /\ s # None
    BY OptIn, NoneAssumption DEF CompPc
  <2>5. /\ creq' \in [CompReq -> CompRequest] /\ creq'[r].event = creq[r].event
        /\ creq'[r].pc = "reuse" \/ creq'[r].sid = s
        /\ Others
    BY <2>3, <2>4, MoveFacts, MoveSidFacts
  <2> QED BY <1>8, <2>1, <2>2, <2>4, <2>5 DEF LoseCreate, TypeOK, HasLocals
<1>9. CASE ReuseSession(r)
  <2>1. creq[r].event # None
    BY <1>9, <1>c DEF ReuseSession
  <2>2. CASE GiveUp(r, "thrown")
    <3>1. "thrown" \in Code
      BY DEF Code
    <3> QED BY <1>9, <2>2, <3>1, GiveUpFacts DEF ReuseSession, TypeOK, HasLocals
  <2>3. CASE \E s \in CompReq : Become(r, WithSession(creq[r], "redeem", s))
    <3>1. PICK s \in CompReq : Become(r, WithSession(creq[r], "redeem", s))
      BY <2>3
    <3>2. "redeem" \in CompPc /\ s \in Opt(CompReq) /\ s # None
      BY OptIn, NoneAssumption DEF CompPc
    <3>3. /\ creq' \in [CompReq -> CompRequest] /\ creq'[r].event = creq[r].event
          /\ creq'[r].sid = s /\ Others
      BY <3>1, <3>2, MoveSidFacts
    <3> QED BY <1>9, <2>1, <3>2, <3>3 DEF ReuseSession, TypeOK, HasLocals
  <2> QED BY <1>9, <2>2, <2>3 DEF ReuseSession, SessionsOf
<1>10. CASE RedeemMemory(r) \/ RedeemPostgres(r)
  <2>1. /\ creq[r].pc = "redeem" /\ creq[r].event # None /\ creq[r].sid # None
        /\ c \in InitReq /\ chal[c] \in ChallengeRecord
    BY <1>0, <1>10, <1>c DEF RedeemMemory, RedeemPostgres, HasLocals
  <2>2. Redeemed(chal[c], creq[r]) \in ChallengeRecord
    BY <1>0, <2>1, RedeemedType
  <2>3. chal' \in [InitReq -> ChallengeRecord]
    <3>1. [chal[c] EXCEPT !.state = "expired"] \in ChallengeRecord
      BY <2>1 DEF ChallengeRecord, ChallengeState
    <3> QED BY <1>10, <2>1, <2>2, <3>1 DEF RedeemMemory, RedeemPostgres, TypeOK
  <2>4. \/ Become(r, [creq[r] EXCEPT !.pc = "log"]) \/ RefuseOrReload(r, chal[c])
        \/ Become(r, [creq[r] EXCEPT !.pc = "recheck"])
    BY <1>10 DEF RedeemMemory, RedeemPostgres
  <2>5. "log" \in CompPc /\ "recheck" \in CompPc
    BY DEF CompPc
  <2>6. creq' \in [CompReq -> CompRequest] /\ HasLocals(r)' /\ Others
    BY <2>1, <2>4, <2>5, RefuseOrReloadFacts, MoveFacts DEF HasLocals
  <2> QED BY <1>10, <2>3, <2>6 DEF RedeemMemory, RedeemPostgres, TypeOK
<1>11. CASE RedeemRecheck(r)
  <2>1. creq[r].event # None /\ creq[r].sid # None /\ RefuseOrReload(r, chal[c])
    BY <1>0, <1>11, <1>c DEF RedeemRecheck, HasLocals
  <2> QED BY <1>11, <2>1, RefuseOrReloadFacts DEF RedeemRecheck, TypeOK, HasLocals
<1>12. CASE ReloadChallenge(r)
  <2>1. creq[r].event # None /\ chal[c].sid \in Opt(CompReq)
    BY <1>12, <1>c DEF ReloadChallenge, ChallengeRecord
  <2>2. CASE Finish(r, "NAP_COMPLETE_REDEEMED_CHALLENGE")
    <3>1. "NAP_COMPLETE_REDEEMED_CHALLENGE" \in Code
      BY DEF Code
    <3> QED BY <1>12, <2>2, <3>1, FinishFacts DEF ReloadChallenge, TypeOK, HasLocals
  <2>3. CASE /\ IsRetry(chal[c], creq[r])
             /\ Become(r, WithSession(creq[r], "fetch", chal[c].sid))
    <3>1. "fetch" \in CompPc /\ chal[c].sid # None
      BY <2>3 DEF CompPc, IsRetry
    <3>2. /\ creq' \in [CompReq -> CompRequest] /\ creq'[r].event = creq[r].event
          /\ creq'[r].sid = chal[c].sid /\ Others
      BY <2>1, <2>3, <3>1, MoveSidFacts
    <3> QED BY <1>12, <2>1, <3>1, <3>2 DEF ReloadChallenge, TypeOK, HasLocals
  <2> QED BY <1>12, <2>2, <2>3 DEF ReloadChallenge
<1>13. CASE FetchSession(r) \/ LogSuccess(r)
  <2>1. "NAP_COMPLETE_SUCCESS" \in Code /\ "NAP_COMPLETE_INTERNAL" \in Code
    BY DEF Code
  <2>2. Finish(r, "NAP_COMPLETE_SUCCESS") \/ Finish(r, "NAP_COMPLETE_INTERNAL")
    BY <1>13 DEF FetchSession, LogSuccess
  <2> QED BY <1>13, <2>1, <2>2, FinishFacts DEF FetchSession, LogSuccess, TypeOK, HasLocals
<1>14. CASE CompleteThrow(r)
  <2>1. "thrown" \in Code
    BY DEF Code
  <2> QED BY <1>14, <2>1, GiveUpFacts DEF CompleteThrow, TypeOK, HasLocals
<1> QED
  BY <1>1, <1>2, <1>3, <1>4, <1>5, <1>6, <1>7, <1>8, <1>9, <1>10, <1>11, <1>12, <1>13, <1>14
     DEF CompleteStep

\* The other steps keep the types too.
LEMMA OtherTypes ==
    ASSUME TypeOK,
           \/ \E i \in InitReq : InitStep(i)
           \/ \E s \in CompReq : Logout(s)
           \/ \E p \in Suspendable : Operator(p)
           \/ Tick \/ MarkExpired \/ GuardedRead
    PROVE  TypeOK' /\ creq' = creq
<1>1. ASSUME NEW i \in InitReq, InitStep(i) PROVE TypeOK' /\ creq' = creq
  <2>0. ireq[i] \in InitRequest
    BY DEF TypeOK
  <2>n. NewChallenge(ireq[i]) \in ChallengeRecord
    BY <2>0, NewChallengeType
  <2>1. CASE InitRefuse(i) \/ InitCount(i) \/ InitCountRest(i) \/ InitFail(i)
    <3>1. chal' \in [InitReq -> ChallengeRecord]
      BY <2>1, <2>n DEF InitRefuse, InitCount, InitCountRest, InitFail, TypeOK
    <3>2. \E pc \in InitPc : ireq' = [ireq EXCEPT ![i].pc = pc]
      BY <2>1 DEF InitRefuse, InitCount, InitCountRest, InitFail, InitPc
    <3>3. ireq' \in [InitReq -> InitRequest]
      BY <3>2 DEF TypeOK, InitRequest
    <3> QED BY <2>1, <3>1, <3>3
               DEF InitRefuse, InitCount, InitCountRest, InitFail, TypeOK
  <2>2. CASE InitBegin(i)
    <3>1. PICK p \in Principal, ip \in Opt(Ip) :
            ireq' = [ireq EXCEPT ![i] = [pc |-> "count", npub |-> p, ip |-> ip, now |-> clock]]
      BY <2>2 DEF InitBegin
    <3>2. p \in Opt(Principal) /\ clock \in Int /\ "count" \in InitPc
      BY OptIn DEF TypeOK, InitPc
    <3>3. [pc |-> "count", npub |-> p, ip |-> ip, now |-> clock] \in InitRequest
      BY <3>2 DEF InitRequest
    <3> QED BY <2>2, <3>1, <3>3 DEF InitBegin, TypeOK
  <2>3. CASE InitCreate(i)
    <3>1. chal' \in [InitReq -> ChallengeRecord] /\ chalSwept' \in Int
      BY <2>3, <2>n, SweepTypes DEF InitCreate
    <3>2. ireq' \in [InitReq -> InitRequest]
      BY <2>3 DEF InitCreate, TypeOK, InitRequest, InitPc
    <3> QED BY <2>3, <3>1, <3>2 DEF InitCreate, TypeOK
  <2> QED BY <1>1, <2>1, <2>2, <2>3 DEF InitStep
<1>2. ASSUME NEW s \in CompReq, Logout(s) PROVE TypeOK' /\ creq' = creq
  <2>1. sess' \in [CompReq -> SessionRecord] /\ sessSwept' \in Int
    BY <1>2, SweepTypes DEF Logout, SessionRecord
  <2> QED BY <1>2, <2>1 DEF Logout, TypeOK
<1>3. ASSUME NEW p \in Suspendable, Operator(p) PROVE TypeOK' /\ creq' = creq
  <2>1. p \in Principal
    BY LimitAssumption
  <2>2. CASE Suspend(p) \/ Unsuspend(p)
    BY <2>1, <2>2 DEF Suspend, Unsuspend, TypeOK
  <2>3. CASE RevokeByPrincipal(p)
    BY <2>1, <2>3 DEF RevokeByPrincipal, TypeOK, SessionRecord
  <2> QED BY <1>3, <2>2, <2>3 DEF Operator
<1>4. CASE Tick
  BY <1>4 DEF Tick, TypeOK
<1>5. CASE MarkExpired
  BY <1>5 DEF MarkExpired, TypeOK, ChallengeRecord, ChallengeState
<1>6. CASE GuardedRead
  BY <1>6, SweepTypes DEF GuardedRead, TypeOK
<1> QED BY <1>1, <1>2, <1>3, <1>4, <1>5, <1>6

\* Types and locals together are inductive.
LEMMA TypeStep == TypeOK /\ LocalsHeld /\ [Next]_vars => TypeOK' /\ LocalsHeld'
<1> SUFFICES ASSUME TypeOK, LocalsHeld, [Next]_vars PROVE TypeOK' /\ LocalsHeld'
  OBVIOUS
<1>1. ASSUME NEW r \in CompReq, CompleteStep(r) PROVE TypeOK' /\ LocalsHeld'
  BY <1>1, CompleteTypes DEF LocalsHeld, HasLocals
<1>2. ASSUME TypeOK', creq' = creq PROVE TypeOK' /\ LocalsHeld'
  BY <1>2 DEF LocalsHeld, HasLocals
<1>3. CASE UNCHANGED vars
  BY <1>3 DEF vars, TypeOK, LocalsHeld, HasLocals
<1> QED BY <1>1, <1>2, <1>3, OtherTypes DEF Next

\* The empty deployment: nothing issued, nobody suspended.
LEMMA InitTypes == Init => TypeOK /\ LocalsHeld
<1> SUFFICES ASSUME Init PROVE TypeOK /\ LocalsHeld
  OBVIOUS
<1>1. [pc |-> "idle", npub |-> None, ip |-> None, now |-> 0] \in InitRequest
  BY OptNone DEF InitRequest, InitPc
<1>2. TypeOK
  BY <1>1, EmptyTypes DEF Init, TypeOK
<1>3. LocalsHeld
  BY DEF Init, LocalsHeld, HasLocals, NoCompRequest
<1> QED BY <1>2, <1>3

\* Every reachable state of login is made of the records of nap-core/src/types.ts, whatever
\* the stores, the settings, and the number of requests.
THEOREM TypeCorrect == Spec => []TypeOK
<1>1. Spec => [](TypeOK /\ LocalsHeld)
  BY InitTypes, TypeStep, PTL DEF Spec
<1> QED BY <1>1, PTL

-----------------------------------------------------------------------------
(* Single use. *)

\* What a step may do to an issued row: sweep it, or leave its expiry alone, and its
\* winner too when it has one.
Kept(c) ==
    \/ chal'[c].state = "absent"
    \/ /\ Present(c) /\ chal'[c].exp = chal[c].exp
       /\ chal[c].state = "redeemed" =>
             /\ chal'[c].state = "redeemed"
             /\ chal'[c].event = chal[c].event /\ chal'[c].sid = chal[c].sid

RowsKept == \A c \in InitReq : Written(c) => Written(c)' /\ Kept(c)

\* The challenge an event names is one of the challenges.
LEMMA EventCid == ASSUME NEW e \in Opt(Event), e # None PROVE e.cid \in InitReq
<1>1. e \in Event
  BY OptSome
<1> QED BY <1>1, EventAssumption DEF EventRecord

\* A request a step leaves alone stays in time and stays backed.
LEMMA BystanderKept ==
    ASSUME TypeOK, LocalsHeld, LoadedInTime, WinnersAgree, RowsKept,
           NEW r \in CompReq, creq'[r] = creq[r]
    PROVE  InTime(r)' /\ Backed(r)'
<1> DEFINE c == creq[r].event.cid
<1>0. creq[r].event \in Opt(Event)
  BY DEF TypeOK, CompRequest
<1>1. InTime(r)'
  <2> SUFFICES ASSUME creq[r].pc \in PastLoad
               PROVE  Written(c)' /\ (Present(c)' => creq[r].now <= chal'[c].exp)
    BY DEF InTime, Present, Written
  <2>1. creq[r].event # None
    BY DEF LocalsHeld, HasLocals, PastLoad
  <2>2. c \in InitReq
    BY <1>0, <2>1, EventCid
  <2>3. Written(c) /\ (Present(c) => creq[r].now <= chal[c].exp)
    BY DEF LoadedInTime, InTime
  <2> QED BY <2>2, <2>3 DEF RowsKept, Kept, Present
<1>2. Backed(r)'
  <2> SUFFICES ASSUME Winner(r)
               PROVE  /\ creq[r].pc \in {"fetch", "log", "done"} /\ creq[r].event # None
                      /\ Written(c)'
                      /\ Present(c)' => /\ chal'[c].state = "redeemed"
                                        /\ chal'[c].event = creq[r].event
                                        /\ chal'[c].sid = creq[r].sid
    BY DEF Backed, Winner, Succeeded, Present, Written
  <2>1. /\ creq[r].pc \in {"fetch", "log", "done"} /\ creq[r].event # None
        /\ Written(c)
        /\ Present(c) => /\ chal[c].state = "redeemed" /\ chal[c].event = creq[r].event
                         /\ chal[c].sid = creq[r].sid
    BY DEF WinnersAgree, Backed
  <2>2. c \in InitReq
    BY <1>0, <2>1, EventCid
  <2> QED BY <2>1, <2>2 DEF RowsKept, Kept, Present
<1> QED BY <1>1, <1>2

\* A step of one request keeps everyone in time and in agreement if that request is in
\* time, is backed, and agrees with the others.
LEMMA RequestStep ==
    ASSUME TypeOK, LocalsHeld, LoadedInTime, WinnersAgree, RowsKept, NEW r \in CompReq,
           \A t \in CompReq : t # r => creq'[t] = creq[t],
           InTime(r)', Backed(r)',
           \A t \in CompReq : t # r => Agree(r, t)'
    PROVE  LoadedInTime' /\ WinnersAgree'
<1>1. \A t \in CompReq : InTime(t)' /\ Backed(t)'
  BY BystanderKept
<1>2. ASSUME NEW t \in CompReq, NEW u \in CompReq PROVE Agree(t, u)'
  <2>1. CASE t # r /\ u # r
    BY <2>1 DEF WinnersAgree, Agree, Winner, Succeeded
  <2>2. CASE t = r \/ u = r
    BY <2>2 DEF Agree
  <2> QED BY <2>1, <2>2
<1> QED BY <1>1, <1>2 DEF LoadedInTime, WinnersAgree

\* A step that leaves the requests alone keeps all of them.
LEMMA TableStep ==
    ASSUME TypeOK, LocalsHeld, LoadedInTime, WinnersAgree, RowsKept, creq' = creq
    PROVE  LoadedInTime' /\ WinnersAgree'
<1>1. \A t \in CompReq : InTime(t)' /\ Backed(t)'
  BY BystanderKept
<1>2. \A t, u \in CompReq : Agree(t, u)'
  BY DEF WinnersAgree, Agree, Winner, Succeeded
<1> QED BY <1>1, <1>2 DEF LoadedInTime, WinnersAgree

\* A step that neither succeeds nor reaches the fetch, and that is past the load only if
\* it already was, on the same challenge at the same `now'.
LEMMA QuietStep ==
    ASSUME TypeOK, LocalsHeld, LoadedInTime, WinnersAgree, RowsKept, NEW r \in CompReq,
           \A t \in CompReq : t # r => creq'[t] = creq[t],
           creq'[r].code # "NAP_COMPLETE_SUCCESS", creq'[r].pc \notin {"fetch", "log"},
           creq'[r].pc \in PastLoad => /\ creq[r].pc \in PastLoad
                                       /\ creq'[r].event = creq[r].event
                                       /\ creq'[r].now = creq[r].now
    PROVE  LoadedInTime' /\ WinnersAgree'
<1> DEFINE c == creq[r].event.cid
<1>1. InTime(r)'
  <2> SUFFICES ASSUME creq'[r].pc \in PastLoad PROVE InTime(r)'
    BY DEF InTime
  <2>1. creq[r].event \in Opt(Event) /\ creq[r].event # None
    BY DEF TypeOK, CompRequest, LocalsHeld, HasLocals, PastLoad
  <2>2. c \in InitReq
    BY <2>1, EventCid
  <2>3. Written(c) /\ (Present(c) => creq[r].now <= chal[c].exp)
    BY DEF LoadedInTime, InTime
  <2>4. Written(c)' /\ (Present(c)' => creq[r].now <= chal'[c].exp)
    BY <2>2, <2>3 DEF RowsKept, Kept, Present
  <2> QED BY <2>4 DEF InTime, Present, Written
<1>2. ~Winner(r)'
  BY DEF Winner, Succeeded
<1> QED BY <1>1, <1>2, RequestStep DEF Backed, Agree

\* A step that leaves challenges and init requests alone keeps the rows.
LEMMA SameRows ==
    ASSUME FreshIds, RedeemedRows, chal' = chal, ireq' = ireq
    PROVE  RowsKept /\ FreshIds' /\ RedeemedRows'
BY DEF RowsKept, Kept, Present, FreshIds, RedeemedRows, Written

\* The invariant is kept by /auth/complete ...
LEMMA CompleteSingleUse ==
    ASSUME SingleUseInv, NEW r \in CompReq, CompleteStep(r)
    PROVE  FreshIds' /\ RedeemedRows' /\ LoadedInTime' /\ WinnersAgree'
<1> DEFINE c == creq[r].event.cid
           Goal == FreshIds' /\ RedeemedRows' /\ LoadedInTime' /\ WinnersAgree'
<1>0. /\ TypeOK /\ LocalsHeld /\ FreshIds /\ RedeemedRows /\ LoadedInTime /\ WinnersAgree
      /\ HasLocals(r) /\ InTime(r) /\ Backed(r)
  BY DEF SingleUseInv, LocalsHeld, LoadedInTime, WinnersAgree
<1>t. /\ TypeOK' /\ HasLocals(r)'
      /\ \A t \in CompReq : t # r => creq'[t] = creq[t]
  BY <1>0, CompleteTypes
<1>c. ASSUME creq[r].pc \notin {"idle", "done"}
      PROVE  /\ creq[r].event # None /\ c \in InitReq /\ chal[c] \in ChallengeRecord
             /\ creq[r].now \in Int /\ creq[r].code \in Code
  <2>1. creq[r].event \in Opt(Event) /\ creq[r].event # None
    BY <1>0, <1>c DEF TypeOK, CompRequest, HasLocals
  <2>2. c \in InitReq
    BY <2>1, EventCid
  <2> QED BY <1>0, <2>1, <2>2 DEF TypeOK, CompRequest
\* Every step that leaves the tables alone and does not win is quiet.
<1>q. ASSUME chal' = chal, ireq' = ireq,
             creq'[r].code # "NAP_COMPLETE_SUCCESS", creq'[r].pc \notin {"fetch", "log"},
             creq'[r].pc \in PastLoad => /\ creq[r].pc \in PastLoad
                                         /\ creq'[r].event = creq[r].event
                                         /\ creq'[r].now = creq[r].now
      PROVE  Goal
  <2>1. RowsKept /\ FreshIds' /\ RedeemedRows'
    BY <1>0, <1>q, SameRows
  <2> QED BY <1>0, <1>t, <1>q, <2>1, QuietStep
<1>1. CASE CompleteReject(r) \/ CompleteRateLimited(r) \/ CompleteThrow(r)
  <2>1. {"NAP_COMPLETE_REJECTED", "NAP_COMPLETE_RATE_LIMITED", "thrown"} \subseteq Code
    BY DEF Code
  <2>2. creq'[r].pc = "done" /\ creq'[r].code # "NAP_COMPLETE_SUCCESS"
    BY <1>0, <1>1, <2>1, GiveUpFacts DEF CompleteReject, CompleteRateLimited, CompleteThrow
  <2> QED BY <1>1, <1>q, <2>2
             DEF CompleteReject, CompleteRateLimited, CompleteThrow, PastLoad
<1>2. CASE CompleteBegin(r)
  <2>1. PICK e \in Event :
          \/ Become(r, [creq[r] EXCEPT !.event = e, !.now = clock, !.pc = "load"])
          \/ GiveUp(r, "NAP_COMPLETE_CREATED_AT_OUT_OF_RANGE")
    BY <1>2 DEF CompleteBegin
  <2>2. creq[r] \in CompRequest /\ creq[r].code # "NAP_COMPLETE_SUCCESS"
    BY <1>0, <1>2 DEF CompleteBegin, TypeOK, Backed, Winner, Succeeded
  <2>3. "NAP_COMPLETE_CREATED_AT_OUT_OF_RANGE" \in Code
    BY DEF Code
  <2>4. creq'[r].pc \in {"load", "done"} /\ creq'[r].code # "NAP_COMPLETE_SUCCESS"
    <3>1. CASE Become(r, [creq[r] EXCEPT !.event = e, !.now = clock, !.pc = "load"])
      BY <1>0, <2>2, <3>1 DEF Become, TypeOK, CompRequest
    <3>2. CASE GiveUp(r, "NAP_COMPLETE_CREATED_AT_OUT_OF_RANGE")
      BY <1>0, <2>3, <3>2, GiveUpFacts
    <3> QED BY <2>1, <3>1, <3>2
  <2> QED BY <1>2, <1>q, <2>4 DEF CompleteBegin, PastLoad
<1>3. CASE LoadChallenge(r)
  <2> DEFINE code == ChallengeCheck(creq[r].event, creq[r].now, chal[c])
  <2>0. /\ creq[r].pc = "load" /\ chal' = chal /\ ireq' = ireq
        /\ creq[r] \in CompRequest /\ creq[r].code # "NAP_COMPLETE_SUCCESS"
    BY <1>0, <1>3 DEF LoadChallenge, TypeOK, Backed, Winner, Succeeded
  <2>1. code \in Code /\ code # "NAP_COMPLETE_SUCCESS"
    BY CodeTypes DEF ChallengeCheck
  <2>2. CASE Finish(r, code)
    <3> HIDE DEF code
    <3>1. creq'[r].pc = "done" /\ creq'[r].code # "NAP_COMPLETE_SUCCESS"
      BY <1>0, <2>1, <2>2, FinishFacts
    <3> QED BY <1>q, <2>0, <3>1 DEF PastLoad
  <2>3. CASE Become(r, [creq[r] EXCEPT !.pc = "spend", !.code = code])
    <3> HIDE DEF code
    <3>1. creq'[r].pc = "spend" /\ creq'[r].code = code
      BY <1>0, <2>0, <2>3 DEF Become, TypeOK, CompRequest
    <3> QED BY <1>q, <2>0, <2>1, <3>1 DEF PastLoad
  <2>4. CASE /\ code = "none"
             /\ Become(r, [creq[r] EXCEPT !.pc = "resolve", !.npub = chal[c].npub])
    <3>1. /\ creq'[r].pc = "resolve" /\ creq'[r].code = creq[r].code
          /\ creq'[r].event = creq[r].event /\ creq'[r].now = creq[r].now
      BY <1>0, <2>0, <2>4 DEF Become, TypeOK, CompRequest
    <3>2. Present(c) /\ ~(chal[c].exp < creq[r].now)
      BY <2>4 DEF ChallengeCheck, Present
    <3>3. c \in InitReq /\ chal[c].exp \in Int /\ creq[r].now \in Int
      BY <1>c, <2>0 DEF ChallengeRecord
    <3>4. Written(c)
      BY <1>0, <3>2, <3>3 DEF FreshIds, Present, NoChallenge
    <3>5. InTime(r)'
      BY <2>0, <3>1, <3>2, <3>3, <3>4 DEF InTime, Present, Written
    <3>6. RowsKept /\ FreshIds' /\ RedeemedRows'
      BY <1>0, <2>0, SameRows
    <3>7. ~Winner(r)'
      BY <2>0, <3>1 DEF Winner, Succeeded
    <3> QED BY <1>0, <1>t, <3>5, <3>6, <3>7, RequestStep DEF Backed, Agree
  <2> QED BY <1>3, <2>2, <2>3, <2>4 DEF LoadChallenge
<1>4. CASE RecordFailure(r)
  <2>0. c \in InitReq /\ chal[c] \in ChallengeRecord /\ creq[r].code \in Code
        /\ creq[r].code # "NAP_COMPLETE_SUCCESS"
    BY <1>0, <1>4, <1>c DEF RecordFailure, Backed, Winner, Succeeded
  <2>1. creq'[r].pc = "done" /\ creq'[r].code # "NAP_COMPLETE_SUCCESS"
    <3>1. "thrown" \in Code
      BY DEF Code
    <3> QED BY <1>0, <1>4, <2>0, <3>1, FinishFacts DEF RecordFailure
  <2>2. \/ chal' = chal
        \/ chal[c].state = "issued" /\ chal' = [chal EXCEPT ![c] = Spent(chal[c])]
    BY <1>0, <1>4 DEF RecordFailure, TypeOK
  <2>3. CASE chal' = chal
    BY <1>4, <1>q, <2>1, <2>3 DEF RecordFailure, PastLoad
  <2>4. CASE chal[c].state = "issued" /\ chal' = [chal EXCEPT ![c] = Spent(chal[c])]
    <3>1. /\ chal'[c] = Spent(chal[c]) /\ \A d \in InitReq : d # c => chal'[d] = chal[d]
          /\ ireq' = ireq
      BY <1>0, <1>4, <2>0, <2>4 DEF RecordFailure, TypeOK
    <3>2. /\ Spent(chal[c]).state \in {"issued", "failed_terminal"}
          /\ Spent(chal[c]).event = chal[c].event /\ Spent(chal[c]).exp = chal[c].exp
      BY <2>0, <2>4 DEF Spent, ChallengeRecord
    <3>3. Written(c)
      BY <1>0, <2>0, <2>4 DEF FreshIds, NoChallenge
    <3>4. RowsKept
      BY <2>4, <3>1, <3>2 DEF RowsKept, Kept, Present, Written
    <3>5. FreshIds'
      BY <1>0, <3>1, <3>3 DEF FreshIds, Written
    <3>6. RedeemedRows'
      BY <1>0, <2>0, <2>4, <3>1, <3>2 DEF RedeemedRows
    <3> QED BY <1>0, <1>t, <2>1, <3>4, <3>5, <3>6, QuietStep DEF PastLoad
  <2> QED BY <2>2, <2>3, <2>4
\* In progress and before the fetch a request has not won.
<1>w. creq[r].pc \notin {"fetch", "log", "done"} => creq[r].code # "NAP_COMPLETE_SUCCESS"
  BY <1>0 DEF Backed, Winner, Succeeded
<1>5. CASE ResolveAcl(r)
  <2>1. \/ Finish(r, "NAP_COMPLETE_ACL_DENIED")
        \/ \E b \in DecisionBound : Become(r, [creq[r] EXCEPT !.pc = "create", !.bound = b])
    BY <1>5 DEF ResolveAcl
  <2>2. "NAP_COMPLETE_ACL_DENIED" \in Code /\ creq[r] \in CompRequest
    BY <1>0 DEF Code, TypeOK
  <2>3. /\ creq'[r].pc \in {"create", "done"} /\ creq'[r].code # "NAP_COMPLETE_SUCCESS"
        /\ creq'[r].event = creq[r].event /\ creq'[r].now = creq[r].now
    <3>1. CASE Finish(r, "NAP_COMPLETE_ACL_DENIED")
      BY <1>0, <2>2, <3>1, FinishFacts
    <3>2. CASE \E b \in DecisionBound :
                 Become(r, [creq[r] EXCEPT !.pc = "create", !.bound = b])
      <4>1. PICK b \in DecisionBound :
              Become(r, [creq[r] EXCEPT !.pc = "create", !.bound = b])
        BY <3>2
      <4>2. creq'[r] = [creq[r] EXCEPT !.pc = "create", !.bound = b]
        BY <1>0, <4>1 DEF Become, TypeOK
      <4>3. creq[r].code # "NAP_COMPLETE_SUCCESS"
        BY <1>5, <1>w DEF ResolveAcl
      <4> QED BY <2>2, <4>2, <4>3 DEF CompRequest
    <3> QED BY <2>1, <3>1, <3>2
  <2> QED BY <1>5, <1>q, <2>3 DEF ResolveAcl, PastLoad
<1>6. CASE CreateSession(r) \/ LoseCreate(r)
  <2>1. PICK s \in CompReq : \/ Become(r, WithSession(creq[r], "redeem", s))
                            \/ Become(r, [creq[r] EXCEPT !.pc = "reuse"])
    BY <1>6 DEF CreateSession, LoseCreate, ExistingSessions, SessionsOf
  <2>2. "redeem" \in CompPc /\ "reuse" \in CompPc /\ s \in Opt(CompReq)
    BY OptIn DEF CompPc
  <2>3. /\ creq'[r].pc \in {"redeem", "reuse"} /\ creq'[r].code = creq[r].code
        /\ creq'[r].event = creq[r].event /\ creq'[r].now = creq[r].now
    BY <1>0, <2>1, <2>2, MoveFacts, MoveSidFacts
  <2> QED BY <1>6, <1>q, <1>w, <2>3 DEF CreateSession, LoseCreate, PastLoad
<1>7. CASE ReuseSession(r)
  <2>1. \/ GiveUp(r, "thrown")
        \/ \E s \in CompReq : Become(r, WithSession(creq[r], "redeem", s))
    BY <1>7 DEF ReuseSession, SessionsOf
  <2>2. "thrown" \in Code /\ "redeem" \in CompPc
    BY DEF Code, CompPc
  <2>3. CASE GiveUp(r, "thrown")
    <3>1. creq'[r].pc = "done" /\ creq'[r].code = "thrown"
      BY <1>0, <2>2, <2>3, GiveUpFacts
    <3> QED BY <1>7, <1>q, <3>1 DEF ReuseSession, PastLoad
  <2>4. CASE \E s \in CompReq : Become(r, WithSession(creq[r], "redeem", s))
    <3>1. PICK s \in CompReq : Become(r, WithSession(creq[r], "redeem", s))
      BY <2>4
    <3>2. s \in Opt(CompReq)
      BY OptIn
    <3>3. /\ creq'[r].pc = "redeem" /\ creq'[r].code = creq[r].code
          /\ creq'[r].event = creq[r].event /\ creq'[r].now = creq[r].now
      BY <1>0, <2>2, <3>1, <3>2, MoveSidFacts
    <3> QED BY <1>7, <1>q, <1>w, <3>3 DEF ReuseSession, PastLoad
  <2> QED BY <2>1, <2>3, <2>4
\* A refused redemption is quiet, whichever store refuses it.
<1>r. ASSUME creq[r].pc \in {"redeem", "recheck"}, RefuseOrReload(r, chal[c]),
             chal' = chal, ireq' = ireq
      PROVE  Goal
  <2>1. /\ creq'[r].pc \in {"done", "reload"} /\ creq'[r].code # "NAP_COMPLETE_SUCCESS"
        /\ creq'[r].event = creq[r].event /\ creq'[r].now = creq[r].now
    BY <1>0, <1>r, <1>w, RefuseOrReloadFacts
  <2> QED BY <1>q, <1>r, <2>1 DEF PastLoad
<1>8. CASE RedeemMemory(r) \/ RedeemPostgres(r)
  <2>0. /\ creq[r].pc = "redeem" /\ creq[r].event # None /\ creq[r].sid # None
        /\ c \in InitReq /\ chal[c] \in ChallengeRecord /\ creq[r].now \in Int
        /\ creq[r] \in CompRequest /\ ireq' = ireq
    BY <1>0, <1>8, <1>c DEF RedeemMemory, RedeemPostgres, HasLocals, TypeOK
  <2>1. \/ /\ chal[c].state = "issued" /\ Become(r, [creq[r] EXCEPT !.pc = "log"])
           /\ chal' = [chal EXCEPT ![c] = Redeemed(chal[c], creq[r])]
        \/ chal' = chal /\ RefuseOrReload(r, chal[c])
        \/ chal' = chal /\ Become(r, [creq[r] EXCEPT !.pc = "recheck"])
    <3>1. CASE RedeemMemory(r)
      <4>1. ~(Present(c) /\ chal[c].exp < creq[r].now)
        BY <1>0, <2>0 DEF InTime, PastLoad, ChallengeRecord
      <4> QED BY <1>0, <3>1, <4>1 DEF RedeemMemory, MayRedeem, TypeOK
    <3>2. CASE RedeemPostgres(r)
      BY <1>0, <3>2 DEF RedeemPostgres, MatchesUpdate, TypeOK
    <3> QED BY <1>8, <3>1, <3>2
  <2>2. CASE chal' = chal /\ RefuseOrReload(r, chal[c])
    BY <1>r, <2>0, <2>2
  <2>3. CASE chal' = chal /\ Become(r, [creq[r] EXCEPT !.pc = "recheck"])
    <3>1. "recheck" \in CompPc
      BY DEF CompPc
    <3>2. /\ creq'[r].pc = "recheck" /\ creq'[r].code = creq[r].code
          /\ creq'[r].event = creq[r].event /\ creq'[r].now = creq[r].now
      BY <1>0, <2>3, <3>1, MoveFacts
    <3> QED BY <1>q, <1>w, <2>0, <2>3, <3>2 DEF PastLoad
  <2>4. CASE /\ chal[c].state = "issued" /\ Become(r, [creq[r] EXCEPT !.pc = "log"])
             /\ chal' = [chal EXCEPT ![c] = Redeemed(chal[c], creq[r])]
    <3>1. "log" \in CompPc
      BY DEF CompPc
    <3>2. /\ creq'[r].pc = "log"
          /\ creq'[r].event = creq[r].event /\ creq'[r].sid = creq[r].sid
      BY <1>0, <2>4, <3>1, MoveFacts
    <3>3. /\ chal'[c] = Redeemed(chal[c], creq[r])
          /\ \A d \in InitReq : d # c => chal'[d] = chal[d]
      BY <1>0, <2>0, <2>4 DEF TypeOK
    <3>4. /\ chal'[c].state = "redeemed" /\ chal'[c].event = creq[r].event
          /\ chal'[c].sid = creq[r].sid /\ chal'[c].exp = chal[c].exp
      BY <2>0, <3>3 DEF Redeemed, ChallengeRecord
    <3>5. Written(c)
      BY <1>0, <2>0, <2>4 DEF FreshIds, NoChallenge
    <3>6. RowsKept
      BY <2>0, <2>4, <3>3, <3>4 DEF RowsKept, Kept, Present, Written
    <3>7. FreshIds'
      BY <1>0, <2>0, <3>3, <3>5 DEF FreshIds, Written
    <3>8. RedeemedRows'
      BY <1>0, <2>0, <3>3, <3>4 DEF RedeemedRows
    <3>9. InTime(r)'
      BY <3>2 DEF InTime, PastLoad
    <3>10. Backed(r)'
      BY <2>0, <3>2, <3>4, <3>5 DEF Backed, Written
    \* The row was open until now, so nobody else has won it.
    <3>11. ASSUME NEW t \in CompReq, t # r PROVE Agree(r, t)'
      <4>1. creq'[t] = creq[t] /\ Backed(t)
        BY <1>0, <1>t, <3>11 DEF WinnersAgree
      <4>2. Winner(t) => creq[t].event.cid # c
        BY <2>4, <4>1 DEF Backed, Present
      <4> QED BY <3>2, <4>1, <4>2 DEF Agree, Winner, Succeeded
    <3> QED BY <1>0, <1>t, <3>6, <3>7, <3>8, <3>9, <3>10, <3>11, RequestStep
  <2> QED BY <2>1, <2>2, <2>3, <2>4
<1>9. CASE RedeemRecheck(r)
  BY <1>9, <1>r DEF RedeemRecheck
<1>10. CASE ReloadChallenge(r)
  <2>0. /\ creq[r].pc = "reload" /\ creq[r].event # None /\ c \in InitReq
        /\ chal[c] \in ChallengeRecord /\ chal' = chal /\ ireq' = ireq
    BY <1>10, <1>c DEF ReloadChallenge
  <2>1. CASE Finish(r, "NAP_COMPLETE_REDEEMED_CHALLENGE")
    <3>1. "NAP_COMPLETE_REDEEMED_CHALLENGE" \in Code
      BY DEF Code
    <3>2. creq'[r].pc = "done" /\ creq'[r].code # "NAP_COMPLETE_SUCCESS"
      BY <1>0, <2>1, <3>1, FinishFacts
    <3> QED BY <1>q, <2>0, <3>2 DEF PastLoad
  <2>2. CASE /\ IsRetry(chal[c], creq[r])
             /\ Become(r, WithSession(creq[r], "fetch", chal[c].sid))
    <3>1. "fetch" \in CompPc /\ chal[c].sid \in Opt(CompReq)
      BY <2>0 DEF CompPc, ChallengeRecord
    <3>2. /\ creq'[r].pc = "fetch" /\ creq'[r].event = creq[r].event
          /\ creq'[r].now = creq[r].now /\ creq'[r].sid = chal[c].sid
      BY <1>0, <2>2, <3>1, MoveSidFacts
    <3>3. chal[c].event = creq[r].event /\ chal[c].state = "redeemed"
      BY <1>0, <2>0, <2>2 DEF IsRetry, RedeemedRows
    <3>4. RowsKept /\ FreshIds' /\ RedeemedRows'
      BY <1>0, <2>0, SameRows
    <3>5. Written(c) /\ (Present(c) => creq[r].now <= chal[c].exp)
      BY <1>0, <2>0 DEF InTime, PastLoad
    <3>6. InTime(r)' /\ Backed(r)'
      BY <2>0, <3>2, <3>3, <3>5 DEF InTime, Backed, Present, Written
    <3>7. ASSUME NEW t \in CompReq, t # r PROVE Agree(r, t)'
      <4>1. creq'[t] = creq[t] /\ Backed(t)
        BY <1>0, <1>t, <3>7 DEF WinnersAgree
      <4>2. Winner(t) /\ creq[t].event.cid = c
            => creq[t].event = creq[r].event /\ creq[t].sid = chal[c].sid
        BY <3>3, <4>1 DEF Backed, Present
      <4> QED BY <3>2, <4>1, <4>2 DEF Agree, Winner, Succeeded
    <3> QED BY <1>0, <1>t, <3>4, <3>6, <3>7, RequestStep
  <2> QED BY <1>10, <2>1, <2>2 DEF ReloadChallenge
<1>11. CASE FetchSession(r) \/ LogSuccess(r)
  <2>0. /\ creq[r].pc \in {"fetch", "log"} /\ creq[r].event # None /\ Winner(r)
        /\ chal' = chal /\ ireq' = ireq
    BY <1>11, <1>c DEF FetchSession, LogSuccess, Winner
  <2>1. "NAP_COMPLETE_SUCCESS" \in Code /\ "NAP_COMPLETE_INTERNAL" \in Code
    BY DEF Code
  <2>2. CASE Finish(r, "NAP_COMPLETE_INTERNAL")
    <3>1. creq'[r].pc = "done" /\ creq'[r].code # "NAP_COMPLETE_SUCCESS"
      BY <1>0, <2>1, <2>2, FinishFacts
    <3> QED BY <1>q, <2>0, <3>1 DEF PastLoad
  <2>3. CASE Finish(r, "NAP_COMPLETE_SUCCESS")
    <3>1. /\ creq'[r].pc = "done" /\ creq'[r].event = creq[r].event
          /\ creq'[r].sid = creq[r].sid
      BY <1>0, <2>1, <2>3, FinishFacts
    <3>2. RowsKept /\ FreshIds' /\ RedeemedRows'
      BY <1>0, <2>0, SameRows
    <3>3. InTime(r)' /\ Backed(r)'
      BY <1>0, <2>0, <3>1 DEF InTime, Backed, PastLoad, Present, Written
    <3>4. ASSUME NEW t \in CompReq, t # r PROVE Agree(r, t)'
      <4>1. creq'[t] = creq[t] /\ Agree(r, t)
        BY <1>0, <1>t, <3>4 DEF WinnersAgree
      <4> QED BY <2>0, <3>1, <4>1 DEF Agree, Winner, Succeeded
    <3> QED BY <1>0, <1>t, <3>2, <3>3, <3>4, RequestStep
  <2> QED BY <1>11, <2>2, <2>3 DEF FetchSession, LogSuccess
<1> QED
  BY <1>1, <1>2, <1>3, <1>4, <1>5, <1>6, <1>7, <1>8, <1>9, <1>10, <1>11 DEF CompleteStep

\* ... and by every other step: an init request writes a row nobody has used yet, a sweep
\* only removes rows, and housekeeping only expires open ones.
LEMMA OtherSingleUse ==
    ASSUME SingleUseInv,
           \/ \E i \in InitReq : InitStep(i)
           \/ \E s \in CompReq : Logout(s)
           \/ \E p \in Suspendable : Operator(p)
           \/ Tick \/ MarkExpired \/ GuardedRead
    PROVE  FreshIds' /\ RedeemedRows' /\ LoadedInTime' /\ WinnersAgree'
<1>0. TypeOK /\ LocalsHeld /\ FreshIds /\ RedeemedRows /\ LoadedInTime /\ WinnersAgree
  BY DEF SingleUseInv
<1>t. creq' = creq
  BY <1>0, OtherTypes
<1> SUFFICES RowsKept /\ FreshIds' /\ RedeemedRows'
  BY <1>0, <1>t, TableStep
<1>1. ASSUME NEW i \in InitReq, InitStep(i) PROVE RowsKept /\ FreshIds' /\ RedeemedRows'
  <2>0. ireq[i] \in InitRequest
    BY <1>0 DEF TypeOK
  <2>1. CASE chal' = chal
    <3>1. /\ ~Written(i) /\ \A d \in InitReq : d # i => ireq'[d] = ireq[d]
      BY <1>0, <1>1 DEF InitStep, InitRefuse, InitBegin, InitCount, InitCountRest, InitCreate,
                        InitFail, TypeOK, Written
    <3>2. RowsKept /\ RedeemedRows'
      BY <1>0, <2>1, <3>1 DEF RowsKept, Kept, Present, RedeemedRows, Written
    <3>3. chal[i] = NoChallenge
      BY <1>0, <3>1 DEF FreshIds
    <3>4. FreshIds'
      BY <1>0, <2>1, <3>1, <3>3 DEF FreshIds, Written
    <3> QED BY <3>2, <3>4
  <2>2. CASE chal' # chal
    <3>1. /\ SweptChallenges \in [InitReq -> ChallengeRecord]
          /\ \A d \in InitReq : SweptChallenges[d] \in {NoChallenge, chal[d]}
      BY <1>0, SweepTypes DEF SweptChallenges, TypeOK
    <3>2. /\ chal' = [SweptChallenges EXCEPT ![i] = NewChallenge(ireq[i])]
             \/ chal' = [chal EXCEPT ![i] = NewChallenge(ireq[i])]
          /\ ireq[i].pc = "create"
          /\ \E pc \in {"issued", "lost"} : ireq' = [ireq EXCEPT ![i].pc = pc]
      BY <1>1, <2>2 DEF InitStep, InitRefuse, InitBegin, InitCount, InitCountRest, InitCreate,
                        InitFail
    <3>3. /\ chal'[i] = NewChallenge(ireq[i])
          /\ \A d \in InitReq : d # i => chal'[d] \in {NoChallenge, chal[d]}
      BY <1>0, <3>1, <3>2 DEF TypeOK
    <3>4. /\ ~Written(i) /\ Written(i)'
          /\ \A d \in InitReq : d # i => ireq'[d] = ireq[d]
      BY <1>0, <3>2 DEF TypeOK, InitRequest, Written
    <3>5. chal'[i].state = "issued" /\ chal'[i].event = None
      BY <2>0, <3>3, NewChallengeType
    <3>6. RowsKept
      BY <3>3, <3>4 DEF RowsKept, Kept, Present, NoChallenge, Written
    <3>7. FreshIds'
      BY <1>0, <3>3, <3>4 DEF FreshIds, Written
    <3>8. RedeemedRows'
      BY <1>0, <3>3, <3>5 DEF RedeemedRows, NoChallenge
    <3> QED BY <3>6, <3>7, <3>8
  <2> QED BY <2>1, <2>2
<1>2. CASE MarkExpired
  <2>1. /\ ireq' = ireq
        /\ \A d \in InitReq :
             \/ chal'[d] = chal[d]
             \/ chal[d].state = "issued" /\ chal'[d] = [chal[d] EXCEPT !.state = "expired"]
    BY <1>2 DEF MarkExpired
  <2>2. \A d \in InitReq :
          \/ chal'[d] = chal[d]
          \/ /\ chal[d].state = "issued" /\ chal'[d].state = "expired"
             /\ chal'[d].event = chal[d].event /\ chal'[d].exp = chal[d].exp
    <3> SUFFICES ASSUME NEW d \in InitReq, chal[d].state = "issued",
                        chal'[d] = [chal[d] EXCEPT !.state = "expired"]
                 PROVE  /\ chal'[d].state = "expired"
                        /\ chal'[d].event = chal[d].event /\ chal'[d].exp = chal[d].exp
      BY <2>1
    <3>1. chal[d] \in ChallengeRecord
      BY <1>0 DEF TypeOK
    <3> QED BY <3>1 DEF ChallengeRecord
  <2>3. RowsKept
    BY <2>1, <2>2 DEF RowsKept, Kept, Present, Written
  <2>4. FreshIds'
    BY <1>0, <2>1, <2>2 DEF FreshIds, NoChallenge, Written
  <2>5. RedeemedRows'
    BY <1>0, <2>2 DEF RedeemedRows
  <2> QED BY <2>3, <2>4, <2>5
<1>3. ASSUME chal' = chal, ireq' = ireq PROVE RowsKept /\ FreshIds' /\ RedeemedRows'
  BY <1>0, <1>3, SameRows
<1>4. ASSUME \/ \E s \in CompReq : Logout(s)
             \/ \E p \in Suspendable : Operator(p)
             \/ Tick \/ GuardedRead
      PROVE  chal' = chal /\ ireq' = ireq
  BY <1>4 DEF Logout, Operator, Suspend, RevokeByPrincipal, Unsuspend, Tick, GuardedRead
<1> QED BY <1>1, <1>2, <1>3, <1>4

\* SingleUseInv holds of the empty deployment and is kept by every step.
THEOREM SingleUseInductive == Spec => []SingleUseInv
<1>1. Init => SingleUseInv
  <2> SUFFICES ASSUME Init PROVE SingleUseInv
    OBVIOUS
  <2>1. TypeOK /\ LocalsHeld
    BY InitTypes
  <2>2. FreshIds /\ RedeemedRows
    BY DEF Init, FreshIds, RedeemedRows, NoChallenge
  <2>3. LoadedInTime /\ WinnersAgree
    BY DEF Init, LoadedInTime, InTime, PastLoad, WinnersAgree, Backed, Agree, Winner,
           Succeeded, NoCompRequest
  <2> QED BY <2>1, <2>2, <2>3 DEF SingleUseInv
<1>2. SingleUseInv /\ [Next]_vars => SingleUseInv'
  <2> SUFFICES ASSUME SingleUseInv, [Next]_vars PROVE SingleUseInv'
    OBVIOUS
  <2>1. TypeOK' /\ LocalsHeld'
    BY TypeStep DEF SingleUseInv
  <2>2. FreshIds' /\ RedeemedRows' /\ LoadedInTime' /\ WinnersAgree'
    <3>1. CASE UNCHANGED vars
      BY <3>1 DEF vars, SingleUseInv, FreshIds, RedeemedRows, LoadedInTime, InTime,
                  WinnersAgree, Backed, Agree, Winner, Succeeded, Present, Written
    <3> QED BY <3>1, CompleteSingleUse, OtherSingleUse DEF Next
  <2> QED BY <2>1, <2>2 DEF SingleUseInv
<1> QED BY <1>1, <1>2, PTL DEF Spec

\* Single use, for any number of completions racing on, retrying or abandoning any number
\* of challenges, over either store: all that succeed on a challenge carried the same
\* signed event and were handed the same session.
THEOREM SingleUse == Spec => []OneProofPerChallenge
<1>1. SingleUseInv => OneProofPerChallenge
  BY DEF SingleUseInv, WinnersAgree, Agree, Winner, OneProofPerChallenge
<1> QED BY <1>1, SingleUseInductive, PTL

\* In each of redeem, recordFailure, create, markExpired and the sweep, a row that is
\* redeemed, expired or failed for good is kept as it is or removed: the `expired' that
\* the in-memory redeem would write over such a row needs a request that loaded it late.
LEMMA TerminalStep ==
    ASSUME SingleUseInv, [Next]_vars, NEW c \in InitReq PROVE TerminalRowKept(c)
<1>0. TypeOK /\ LocalsHeld /\ FreshIds /\ LoadedInTime
  BY DEF SingleUseInv
<1>1. ASSUME chal' = chal PROVE TerminalRowKept(c)
  BY <1>1 DEF TerminalRowKept
<1>2. ASSUME NEW i \in InitReq, InitStep(i) PROVE TerminalRowKept(c)
  <2>1. CASE InitCreate(i) \/ InitFail(i)
    <3>1. \A d \in InitReq : SweptChallenges[d] \in {NoChallenge, chal[d]}
      BY DEF SweptChallenges
    <3>2. SweptChallenges \in [InitReq -> ChallengeRecord]
      BY <1>0, SweepTypes
    <3>3. c # i => chal'[c] \in {SweptChallenges[c], chal[c]}
      BY <1>0, <2>1, <3>2 DEF InitCreate, InitFail, TypeOK
    <3>4. chal[i].state = "absent"
      BY <1>0, <2>1 DEF InitCreate, InitFail, FreshIds, Written, NoChallenge
    <3> QED BY <3>1, <3>3, <3>4 DEF TerminalRowKept
  <2> QED BY <1>1, <1>2, <2>1
             DEF InitStep, InitRefuse, InitBegin, InitCount, InitCountRest
<1>3. ASSUME NEW r \in CompReq, CompleteStep(r) PROVE TerminalRowKept(c)
  <2> DEFINE d == creq[r].event.cid
  <2>1. CASE RecordFailure(r)
    <3>1. chal' = chal \/ (chal[d].state = "issued" /\ chal' = [chal EXCEPT ![d] = Spent(@)])
      BY <2>1 DEF RecordFailure
    <3> QED BY <1>0, <3>1 DEF TypeOK, TerminalRowKept
  <2>2. CASE RedeemMemory(r) \/ RedeemPostgres(r)
    <3>1. creq[r].event \in Opt(Event) /\ creq[r].event # None
      BY <1>0, <2>2 DEF RedeemMemory, RedeemPostgres, TypeOK, CompRequest, LocalsHeld,
                       HasLocals
    <3>2. d \in InitReq
      BY <3>1, EventCid
    <3>3. ~(Present(d) /\ chal[d].exp < creq[r].now)
      BY <1>0, <2>2, <3>2 DEF RedeemMemory, RedeemPostgres, LoadedInTime, InTime, PastLoad,
                             TypeOK, ChallengeRecord, CompRequest
    <3>4. \/ chal' = chal
          \/ chal[d].state = "issued" /\ chal' = [chal EXCEPT ![d] = Redeemed(@, creq[r])]
      BY <2>2, <3>3 DEF RedeemMemory, RedeemPostgres, MayRedeem, MatchesUpdate
    <3> QED BY <1>0, <3>4 DEF TypeOK, TerminalRowKept
  <2> QED BY <1>1, <1>3, <2>1, <2>2
             DEF CompleteStep, CompleteReject, CompleteBegin, CompleteRateLimited,
                 LoadChallenge, ResolveAcl, CreateSession, LoseCreate, ReuseSession,
                 RedeemRecheck, LogSuccess, ReloadChallenge, FetchSession,
                 CompleteThrow
<1>4. CASE MarkExpired
  BY <1>4 DEF MarkExpired, TerminalRowKept
<1>5. ASSUME \/ \E s \in CompReq : Logout(s)
             \/ \E p \in Suspendable : Operator(p)
             \/ Tick \/ GuardedRead \/ UNCHANGED vars
      PROVE  chal' = chal
  BY <1>5 DEF Logout, Operator, Suspend, RevokeByPrincipal, Unsuspend, Tick, GuardedRead, vars
<1> QED BY <1>1, <1>2, <1>3, <1>4, <1>5 DEF Next

\* A challenge that is redeemed, expired or failed for good never changes again, except
\* that the in-memory store forgets it.
THEOREM TerminalFinal == Spec => TerminalStatesAreFinal
<1>1. SingleUseInv /\ [Next]_vars => [\A c \in InitReq : TerminalRowKept(c)]_chal
  BY TerminalStep
<1> QED BY <1>1, SingleUseInductive, PTL DEF Spec, TerminalStatesAreFinal

-----------------------------------------------------------------------------
(* What a segment of /auth/complete does, in the terms the proofs need.      *)

\* A request that gives up forgets its event and its session.
LEMMA GiveUpEnds ==
    ASSUME TypeOK, NEW r \in CompReq, NEW code \in Code, GiveUp(r, code)
    PROVE  creq'[r].event = None /\ creq'[r].sid = None
<1> DEFINE q == [NoCompRequest EXCEPT !.pc = "done", !.code = code]
<1>1. q \in CompRequest
  BY GaveUpType
<1>2. q.event = None /\ q.sid = None
  BY DEF NoCompRequest
<1>3. Become(r, q)
  BY DEF GiveUp
<1> HIDE DEF q
<1> QED BY <1>1, <1>2, <1>3, BecomeFacts

\* A request that is refused forgets its session.
LEMMA FinishEnds ==
    ASSUME TypeOK, NEW r \in CompReq, NEW code \in Code, Finish(r, code),
           code # "NAP_COMPLETE_SUCCESS"
    PROVE  creq'[r].sid = None
<1>1. Answered(creq[r], code) \in CompRequest
  BY AnsweredType DEF TypeOK
<1>2. creq'[r] = Answered(creq[r], code)
  BY <1>1, BecomeFacts DEF Finish
<1> QED BY <1>2 DEF Answered, NoCompRequest

\* A request keeps its event, its `now' and the answer it has.
Keeps(r) ==
    /\ creq'[r].event = creq[r].event /\ creq'[r].now = creq[r].now
    /\ creq'[r].code = creq[r].code

\* It ends without success, having spent nothing.
Ends(r) ==
    /\ creq[r].pc # "done" /\ creq'[r].pc = "done" /\ creq'[r].sid = None
    /\ creq'[r].code # "NAP_COMPLETE_SUCCESS"
    /\ \/ creq'[r].event = None
       \/ /\ creq'[r].event = creq[r].event
          /\ creq'[r].code \notin SpendingCode \cup {"thrown"}
    /\ UNCHANGED <<chal, sess>>

\* It holds a proof to check, ...
Begins(r) ==
    /\ creq[r].pc = "idle" /\ creq'[r].pc = "load"
    /\ creq'[r].event \in Event /\ creq'[r].sid = creq[r].sid
    /\ creq'[r].code = creq[r].code
    /\ UNCHANGED <<chal, sess>>

\* ... it passes the checks, or fails one that counts, ...
Passes(r) ==
    /\ creq[r].pc = "load" /\ creq'[r].pc = "resolve" /\ Keeps(r)
    /\ creq'[r].sid = creq[r].sid
    /\ ChallengeCheck(creq[r].event, creq[r].now, chal[creq[r].event.cid]) = "none"
    /\ UNCHANGED <<chal, sess>>

Fails(r) ==
    /\ creq[r].pc = "load" /\ creq'[r].pc = "spend"
    /\ creq'[r].event = creq[r].event /\ creq'[r].sid = creq[r].sid
    /\ creq'[r].code \in SpendingCode
    /\ creq'[r].code = ChallengeCheck(creq[r].event, creq[r].now, chal[creq[r].event.cid])
    /\ UNCHANGED <<chal, sess>>

\* ... and the failure is counted.
Spends(r) ==
    /\ creq[r].pc = "spend" /\ creq'[r].pc = "done" /\ creq'[r].sid = None
    /\ creq'[r].event = creq[r].event
    /\ creq'[r].code \in {creq[r].code, "thrown"}
    /\ chal' = IF MaxFailures > 0 /\ chal[creq[r].event.cid].state = "issued"
               THEN [chal EXCEPT ![creq[r].event.cid] = Spent(@)] ELSE chal
    /\ UNCHANGED sess

\* It moves between awaits with the session id it has, ...
Advances(r) ==
    /\ creq[r].pc \in PastLoad /\ creq'[r].pc \in PastLoad \ {"fetch"} /\ Keeps(r)
    /\ creq'[r].sid = creq[r].sid
    /\ creq[r].pc \in Drawn <=> creq'[r].pc \in Drawn
    /\ UNCHANGED chal
    /\ \A s \in CompReq : sess'[s] \in {sess[s], NoSession}

\* ... stores the session it drew, ...
Creates(r) ==
    /\ creq[r].pc = "create" /\ creq'[r].pc = "redeem" /\ Keeps(r)
    /\ creq'[r].sid = r
    /\ \A s \in CompReq : SweptSessions[s].state # "absent" =>
          SweptSessions[s].cid # creq[r].event.cid
    /\ UNCHANGED chal
    /\ sess'[r] = NewSession(creq[r])
    /\ \A s \in CompReq : s # r => sess'[s] = SweptSessions[s]

\* ... or is given the one that is there, ...
Joins(r) ==
    /\ creq[r].pc \in {"create", "reuse"} /\ creq'[r].pc = "redeem" /\ Keeps(r)
    /\ creq'[r].sid \in CompReq
    /\ sess[creq'[r].sid].state # "absent"
    /\ sess[creq'[r].sid].cid = creq[r].event.cid
    /\ UNCHANGED chal
    /\ \A s \in CompReq : sess'[s] \in {sess[s], NoSession}

\* ... or its own proof's.
Retries(r) ==
    /\ creq[r].pc = "reload" /\ creq'[r].pc = "fetch" /\ Keeps(r)
    /\ creq'[r].sid = chal[creq[r].event.cid].sid
    /\ IsRetry(chal[creq[r].event.cid], creq[r])
    /\ UNCHANGED <<chal, sess>>

\* It redeems the challenge, ...
Redeems(r) ==
    /\ creq[r].pc = "redeem" /\ creq'[r].pc = "log" /\ Keeps(r)
    /\ creq'[r].sid = creq[r].sid
    /\ chal[creq[r].event.cid].state = "issued"
    /\ chal' = [chal EXCEPT ![creq[r].event.cid] = Redeemed(@, creq[r])]
    /\ UNCHANGED sess

\* ... and is told of it.
Succeeds(r) ==
    /\ creq[r].pc \in {"log", "fetch"} /\ creq'[r].pc = "done"
    /\ creq'[r].code = "NAP_COMPLETE_SUCCESS"
    /\ creq'[r].event = creq[r].event /\ creq'[r].sid = creq[r].sid
    /\ UNCHANGED <<chal, sess>>

Effect(r) ==
    \/ Ends(r) \/ Begins(r) \/ Passes(r) \/ Fails(r) \/ Spends(r)
    \/ Advances(r) \/ Creates(r) \/ Joins(r) \/ Retries(r) \/ Redeems(r) \/ Succeeds(r)

\* A sweep keeps a session row or removes it.
LEMMA SweptRows == \A s \in CompReq : SweptSessions[s] \in {sess[s], NoSession}
BY DEF SweptSessions

\* A request that gives up ends without success.
LEMMA GiveUpEffect ==
    ASSUME TypeOK, NEW r \in CompReq, NEW code \in Code, GiveUp(r, code),
           code # "NAP_COMPLETE_SUCCESS", creq[r].pc # "done", UNCHANGED <<chal, sess>>
    PROVE  Ends(r)
BY GiveUpFacts, GiveUpEnds DEF Ends

\* So does one that is refused for something that spends nothing.
LEMMA FinishEffect ==
    ASSUME TypeOK, NEW r \in CompReq, NEW code \in Code, Finish(r, code),
           code \notin SpendingCode \cup {"thrown", "NAP_COMPLETE_SUCCESS"},
           creq[r].pc # "done", UNCHANGED <<chal, sess>>
    PROVE  Ends(r)
BY FinishFacts, FinishEnds DEF Ends
\* Every segment of /auth/complete is one of these.
LEMMA CompleteEffect ==
    ASSUME SingleUseInv, NEW r \in CompReq, CompleteStep(r)
    PROVE  /\ Effect(r)
           /\ \A t \in CompReq : t # r => creq'[t] = creq[t]
           /\ creq[r].pc \notin {"idle", "done"} => creq[r].event.cid \in InitReq
           /\ UNCHANGED <<clock, ireq>>
<1> DEFINE c == creq[r].event.cid
<1>0. TypeOK /\ LocalsHeld /\ LoadedInTime /\ HasLocals(r) /\ creq[r] \in CompRequest
  BY DEF SingleUseInv, LocalsHeld, TypeOK
<1>1. \A t \in CompReq : t # r => creq'[t] = creq[t]
  BY <1>0, CompleteTypes
<1>2. ASSUME creq[r].pc \notin {"idle", "done"}
      PROVE  /\ creq[r].event \in Event /\ creq[r].event # None /\ c \in InitReq
             /\ chal[c] \in ChallengeRecord
  <2>1. creq[r].event \in Opt(Event) /\ creq[r].event # None
    BY <1>0, <1>2 DEF CompRequest, HasLocals
  <2> QED BY <1>0, <2>1, EventCid, OptSome DEF TypeOK
<1>3. UNCHANGED <<clock, ireq>>
  BY DEF CompleteStep, CompleteReject, CompleteBegin, CompleteRateLimited, LoadChallenge,
         RecordFailure, ResolveAcl, CreateSession, LoseCreate, ReuseSession, RedeemMemory,
         RedeemPostgres, RedeemRecheck, LogSuccess, ReloadChallenge, FetchSession, CompleteThrow
<1>c. /\ {"NAP_COMPLETE_REJECTED", "NAP_COMPLETE_RATE_LIMITED", "thrown",
          "NAP_COMPLETE_CREATED_AT_OUT_OF_RANGE", "NAP_COMPLETE_ACL_DENIED",
          "NAP_COMPLETE_REDEEMED_CHALLENGE", "NAP_COMPLETE_INTERNAL",
          "NAP_COMPLETE_SUCCESS"} \subseteq Code
      /\ {"load", "resolve", "spend", "create", "redeem", "reuse", "log", "recheck", "reload",
          "fetch"} \subseteq CompPc
  BY DEF Code, CompPc
<1>p. UNCHANGED sess => \A s \in CompReq : sess'[s] \in {sess[s], NoSession}
  OBVIOUS
<1>4. CASE CompleteReject(r) \/ CompleteRateLimited(r) \/ CompleteThrow(r)
  <2>1. Ends(r)
    BY <1>0, <1>4, <1>c, GiveUpEffect DEF CompleteReject, CompleteRateLimited, CompleteThrow
  <2> QED BY <1>1, <1>2, <1>3, <2>1 DEF Effect
<1>5. CASE CompleteBegin(r)
  <2>1. PICK e \in Event :
          \/ Become(r, [creq[r] EXCEPT !.event = e, !.now = clock, !.pc = "load"])
          \/ GiveUp(r, "NAP_COMPLETE_CREATED_AT_OUT_OF_RANGE")
    BY <1>5 DEF CompleteBegin
  <2>2. CASE GiveUp(r, "NAP_COMPLETE_CREATED_AT_OUT_OF_RANGE")
    <3>1. Ends(r)
      BY <1>0, <1>5, <1>c, <2>2, GiveUpEffect DEF CompleteBegin
    <3> QED BY <1>1, <1>2, <1>3, <3>1 DEF Effect
  <2>3. CASE Become(r, [creq[r] EXCEPT !.event = e, !.now = clock, !.pc = "load"])
    <3>1. creq'[r] = [creq[r] EXCEPT !.event = e, !.now = clock, !.pc = "load"]
      BY <1>0, <2>3 DEF Become, TypeOK
    <3>2. Begins(r)
      BY <1>0, <1>5, <3>1 DEF Begins, CompleteBegin, CompRequest
    <3> QED BY <1>1, <1>2, <1>3, <3>2 DEF Effect
  <2> QED BY <2>1, <2>2, <2>3
<1>6. CASE LoadChallenge(r)
  <2> DEFINE code == ChallengeCheck(creq[r].event, creq[r].now, chal[c])
  <2>0. creq[r].pc = "load" /\ UNCHANGED <<chal, sess>> /\ code \in Code
    BY <1>6, CodeTypes DEF LoadChallenge
  <2>1. CASE /\ code = "none"
             /\ Become(r, [creq[r] EXCEPT !.pc = "resolve", !.npub = chal[c].npub])
    <3>1. creq'[r] = [creq[r] EXCEPT !.pc = "resolve", !.npub = chal[c].npub]
      BY <1>0, <2>1 DEF Become, TypeOK
    <3>2. Passes(r)
      BY <1>0, <2>0, <2>1, <3>1 DEF Passes, Keeps, CompRequest
    <3> QED BY <1>1, <1>2, <1>3, <3>2 DEF Effect
  <2>2. CASE /\ code \in SpendingCode
             /\ Become(r, [creq[r] EXCEPT !.pc = "spend", !.code = code])
    <3>1. creq'[r] = [creq[r] EXCEPT !.pc = "spend", !.code = code]
      BY <1>0, <2>2 DEF Become, TypeOK
    <3> HIDE DEF code
    <3>2. /\ creq'[r].pc = "spend" /\ creq'[r].code = code
          /\ creq'[r].event = creq[r].event /\ creq'[r].sid = creq[r].sid
      BY <1>0, <3>1 DEF CompRequest
    <3>3. Fails(r)
      BY <2>0, <2>2, <3>2 DEF Fails, code
    <3> QED BY <1>1, <1>2, <1>3, <3>3 DEF Effect
  <2>3. CASE code \notin SpendingCode \cup {"none"} /\ Finish(r, code)
    <3>1. code \notin {"thrown", "NAP_COMPLETE_SUCCESS"}
      BY DEF ChallengeCheck
    <3> HIDE DEF code
    <3>2. Ends(r)
      BY <1>0, <2>0, <2>3, <3>1, FinishEffect
    <3> QED BY <1>1, <1>2, <1>3, <3>2 DEF Effect
  <2> QED BY <1>6, <2>1, <2>2, <2>3 DEF LoadChallenge
\* An answer already given or about to be given is not given twice.
<1>w. creq[r].pc \notin {"fetch", "log", "done"} => creq[r].code # "NAP_COMPLETE_SUCCESS"
  BY DEF SingleUseInv, WinnersAgree, Backed, Winner, Succeeded
<1>7. CASE RecordFailure(r)
  <2>0. creq[r].pc = "spend" /\ creq[r].code # "NAP_COMPLETE_SUCCESS" /\ creq[r].code \in Code
    BY <1>0, <1>7, <1>w DEF RecordFailure, CompRequest
  <2>1. PICK code \in {creq[r].code, "thrown"} : Finish(r, code)
    BY <1>7 DEF RecordFailure
  <2>2. /\ creq'[r].pc = "done" /\ creq'[r].code = code /\ creq'[r].event = creq[r].event
        /\ creq'[r].sid = None
    BY <1>0, <1>c, <2>0, <2>1, FinishFacts, FinishEnds
  <2>3. Spends(r)
    BY <1>7, <2>0, <2>2 DEF Spends, RecordFailure
  <2> QED BY <1>1, <1>2, <1>3, <2>3 DEF Effect
<1>8. CASE ResolveAcl(r)
  <2>0. creq[r].pc = "resolve" /\ UNCHANGED <<chal, sess>>
    BY <1>8 DEF ResolveAcl
  <2>1. CASE Finish(r, "NAP_COMPLETE_ACL_DENIED")
    <3>1. Ends(r)
      BY <1>0, <1>c, <2>0, <2>1, FinishEffect DEF SpendingCode
    <3> QED BY <1>1, <1>2, <1>3, <3>1 DEF Effect
  <2>2. CASE \E b \in DecisionBound : Become(r, [creq[r] EXCEPT !.pc = "create", !.bound = b])
    <3>1. PICK b \in DecisionBound : Become(r, [creq[r] EXCEPT !.pc = "create", !.bound = b])
      BY <2>2
    <3>2. creq'[r] = [creq[r] EXCEPT !.pc = "create", !.bound = b]
      BY <1>0, <3>1 DEF Become, TypeOK
    <3>3. creq'[r].pc = "create" /\ Keeps(r) /\ creq'[r].sid = creq[r].sid
      BY <1>0, <3>2 DEF Keeps, CompRequest
    <3>4. Advances(r)
      BY <1>p, <2>0, <3>3 DEF Advances, PastLoad, Drawn
    <3> QED BY <1>1, <1>2, <1>3, <3>4 DEF Effect
  <2> QED BY <1>8, <2>1, <2>2 DEF ResolveAcl
<1>9. CASE CreateSession(r)
  <2>1. Become(r, WithSession(creq[r], "redeem", r)) /\ r \in Opt(CompReq)
    BY <1>9, OptIn DEF CreateSession
  <2>2. creq'[r].pc = "redeem" /\ Keeps(r) /\ creq'[r].sid = r
    BY <1>0, <1>c, <2>1, MoveSidFacts DEF Keeps
  <2>3. SweptSessions \in [CompReq -> SessionRecord]
    BY <1>0, SweepTypes
  <2>4. Creates(r)
    BY <1>9, <2>2, <2>3 DEF Creates, CreateSession, ExistingSessions, SessionsOf
  <2> QED BY <1>1, <1>2, <1>3, <2>4 DEF Effect
<1>10. CASE LoseCreate(r)
  <2>0. creq[r].pc = "create" /\ UNCHANGED chal
        /\ \A s \in CompReq : sess'[s] \in {sess[s], NoSession}
    BY <1>10, SweptRows DEF LoseCreate
  <2>1. PICK s \in ExistingSessions(r) :
          \/ Become(r, WithSession(creq[r], "redeem", s))
          \/ Become(r, [creq[r] EXCEPT !.pc = "reuse"])
    BY <1>10 DEF LoseCreate
  <2>2. s \in CompReq /\ s \in Opt(CompReq) /\ sess[s].state # "absent" /\ sess[s].cid = c
    BY SweptRows, OptIn DEF ExistingSessions, SessionsOf, NoSession
  <2>3. CASE Become(r, WithSession(creq[r], "redeem", s))
    <3>1. creq'[r].pc = "redeem" /\ Keeps(r) /\ creq'[r].sid = s
      BY <1>0, <1>c, <2>2, <2>3, MoveSidFacts DEF Keeps
    <3>2. Joins(r)
      BY <2>0, <2>2, <3>1 DEF Joins
    <3> QED BY <1>1, <1>2, <1>3, <3>2 DEF Effect
  <2>4. CASE Become(r, [creq[r] EXCEPT !.pc = "reuse"])
    <3>1. creq'[r].pc = "reuse" /\ Keeps(r) /\ creq'[r].sid = creq[r].sid
      BY <1>0, <1>c, <2>4, MoveFacts DEF Keeps
    <3>2. Advances(r)
      BY <2>0, <3>1 DEF Advances, PastLoad, Drawn
    <3> QED BY <1>1, <1>2, <1>3, <3>2 DEF Effect
  <2> QED BY <2>1, <2>3, <2>4
<1>11. CASE ReuseSession(r)
  <2>0. creq[r].pc = "reuse" /\ UNCHANGED <<chal, sess>>
    BY <1>11 DEF ReuseSession
  <2>1. CASE GiveUp(r, "thrown")
    <3>1. Ends(r)
      BY <1>0, <1>c, <2>0, <2>1, GiveUpEffect
    <3> QED BY <1>1, <1>2, <1>3, <3>1 DEF Effect
  <2>2. CASE \E s \in SessionsOf(sess, c) : Become(r, WithSession(creq[r], "redeem", s))
    <3>1. PICK s \in SessionsOf(sess, c) : Become(r, WithSession(creq[r], "redeem", s))
      BY <2>2
    <3>2. s \in CompReq /\ s \in Opt(CompReq) /\ sess[s].state # "absent" /\ sess[s].cid = c
      BY OptIn DEF SessionsOf
    <3>3. creq'[r].pc = "redeem" /\ Keeps(r) /\ creq'[r].sid = s
      BY <1>0, <1>c, <3>1, <3>2, MoveSidFacts DEF Keeps
    <3>4. Joins(r)
      BY <1>p, <2>0, <3>2, <3>3 DEF Joins
    <3> QED BY <1>1, <1>2, <1>3, <3>4 DEF Effect
  <2> QED BY <1>11, <2>1, <2>2 DEF ReuseSession
\* A redemption that did not happen, whichever store refused it.
<1>r. ASSUME creq[r].pc \in {"redeem", "recheck"}, RefuseOrReload(r, chal[c]),
             UNCHANGED <<chal, sess>>
      PROVE  Effect(r)
  <2> DEFINE code == RefusedRedeem(chal[c], creq[r].now)
  <2>1. CASE code # "none" /\ Finish(r, code)
    <3>1. code \in Code /\ code \notin SpendingCode \cup {"thrown", "NAP_COMPLETE_SUCCESS"}
      BY CodeTypes DEF RefusedRedeem, SpendingCode
    <3> HIDE DEF code
    <3>2. Ends(r)
      BY <1>0, <1>r, <2>1, <3>1, FinishEffect
    <3> QED BY <3>2 DEF Effect
  <2>2. CASE Become(r, [creq[r] EXCEPT !.pc = "reload"])
    <3>1. creq'[r].pc = "reload" /\ Keeps(r) /\ creq'[r].sid = creq[r].sid
      BY <1>0, <1>c, <2>2, MoveFacts DEF Keeps
    <3>2. Advances(r)
      BY <1>p, <1>r, <3>1 DEF Advances, PastLoad, Drawn
    <3> QED BY <3>2 DEF Effect
  <2> QED BY <1>r, <2>1, <2>2 DEF RefuseOrReload
<1>12. CASE RedeemMemory(r) \/ RedeemPostgres(r)
  <2>0. creq[r].pc = "redeem" /\ UNCHANGED sess /\ c \in InitReq /\ creq[r].now \in Int
        /\ chal[c] \in ChallengeRecord
    BY <1>0, <1>2, <1>12 DEF RedeemMemory, RedeemPostgres, CompRequest
  <2>1. \/ /\ chal[c].state = "issued" /\ Become(r, [creq[r] EXCEPT !.pc = "log"])
           /\ chal' = [chal EXCEPT ![c] = Redeemed(@, creq[r])]
        \/ chal' = chal /\ RefuseOrReload(r, chal[c])
        \/ chal' = chal /\ Become(r, [creq[r] EXCEPT !.pc = "recheck"])
    <3>1. CASE RedeemMemory(r)
      <4>1. ~(Present(c) /\ chal[c].exp < creq[r].now)
        BY <1>0, <2>0 DEF LoadedInTime, InTime, PastLoad, ChallengeRecord
      <4> QED BY <3>1, <4>1 DEF RedeemMemory, MayRedeem
    <3>2. CASE RedeemPostgres(r)
      BY <3>2 DEF RedeemPostgres, MatchesUpdate
    <3> QED BY <1>12, <3>1, <3>2
  <2>2. CASE chal' = chal /\ RefuseOrReload(r, chal[c])
    BY <1>1, <1>2, <1>3, <1>r, <2>0, <2>2
  <2>3. CASE chal' = chal /\ Become(r, [creq[r] EXCEPT !.pc = "recheck"])
    <3>1. creq'[r].pc = "recheck" /\ Keeps(r) /\ creq'[r].sid = creq[r].sid
      BY <1>0, <1>c, <2>3, MoveFacts DEF Keeps
    <3>2. Advances(r)
      BY <1>p, <2>0, <2>3, <3>1 DEF Advances, PastLoad, Drawn
    <3> QED BY <1>1, <1>2, <1>3, <3>2 DEF Effect
  <2>4. CASE /\ chal[c].state = "issued" /\ Become(r, [creq[r] EXCEPT !.pc = "log"])
             /\ chal' = [chal EXCEPT ![c] = Redeemed(@, creq[r])]
    <3>1. creq'[r].pc = "log" /\ Keeps(r) /\ creq'[r].sid = creq[r].sid
      BY <1>0, <1>c, <2>4, MoveFacts DEF Keeps
    <3>2. Redeems(r)
      BY <2>0, <2>4, <3>1 DEF Redeems
    <3> QED BY <1>1, <1>2, <1>3, <3>2 DEF Effect
  <2> QED BY <2>1, <2>2, <2>3, <2>4
<1>13. CASE RedeemRecheck(r)
  BY <1>1, <1>2, <1>3, <1>13, <1>r DEF RedeemRecheck
<1>14. CASE ReloadChallenge(r)
  <2>0. creq[r].pc = "reload" /\ UNCHANGED <<chal, sess>> /\ chal[c].sid \in Opt(CompReq)
    BY <1>2, <1>14 DEF ReloadChallenge, ChallengeRecord
  <2>1. CASE Finish(r, "NAP_COMPLETE_REDEEMED_CHALLENGE")
    <3>1. Ends(r)
      BY <1>0, <1>c, <2>0, <2>1, FinishEffect DEF SpendingCode
    <3> QED BY <1>1, <1>2, <1>3, <3>1 DEF Effect
  <2>2. CASE /\ IsRetry(chal[c], creq[r])
             /\ Become(r, WithSession(creq[r], "fetch", chal[c].sid))
    <3>1. creq'[r].pc = "fetch" /\ Keeps(r) /\ creq'[r].sid = chal[c].sid
      BY <1>0, <1>c, <2>0, <2>2, MoveSidFacts DEF Keeps
    <3>2. Retries(r)
      BY <2>0, <2>2, <3>1 DEF Retries
    <3> QED BY <1>1, <1>2, <1>3, <3>2 DEF Effect
  <2> QED BY <1>14, <2>1, <2>2 DEF ReloadChallenge
<1>15. CASE FetchSession(r) \/ LogSuccess(r)
  <2>0. creq[r].pc \in {"fetch", "log"} /\ UNCHANGED <<chal, sess>>
    BY <1>15 DEF FetchSession, LogSuccess
  <2>1. CASE Finish(r, "NAP_COMPLETE_INTERNAL")
    <3>1. Ends(r)
      BY <1>0, <1>c, <2>0, <2>1, FinishEffect DEF SpendingCode
    <3> QED BY <1>1, <1>2, <1>3, <3>1 DEF Effect
  <2>2. CASE Finish(r, "NAP_COMPLETE_SUCCESS")
    <3>1. Succeeds(r)
      BY <1>0, <1>c, <2>0, <2>2, FinishFacts DEF Succeeds
    <3> QED BY <1>1, <1>2, <1>3, <3>1 DEF Effect
  <2> QED BY <1>15, <2>1, <2>2 DEF FetchSession, LogSuccess
<1> QED
  BY <1>4, <1>5, <1>6, <1>7, <1>8, <1>9, <1>10, <1>11, <1>12, <1>13, <1>14, <1>15
     DEF CompleteStep

-----------------------------------------------------------------------------
(* What the other steps do.                                                  *)

\* No session row appears for a challenge or moves to it.
SessionsKept ==
    \A s \in CompReq, c \in InitReq :
        s \in SessionsOf(sess', c) => s \in SessionsOf(sess, c)

\* An init request writes its row, and the store may sweep others.
Issues(i) ==
    /\ ireq[i].pc = "create" /\ ireq'[i].pc \in {"issued", "lost"}
    /\ ireq'[i].npub = ireq[i].npub
    /\ \A j \in InitReq : j # i => ireq'[j] = ireq[j]
    /\ chal'[i] = NewChallenge(ireq[i])
    /\ \A c \in InitReq : c # i => chal'[c] \in {chal[c], NoChallenge}
    /\ UNCHANGED sess

\* It gets ready to, or ends with nothing written.
Asks(i) ==
    /\ ~Written(i) /\ ~Written(i)'
    /\ ireq'[i].pc \in Asked =>
          \/ ireq'[i].npub \in Principal
          \/ ireq[i].pc \in Asked /\ ireq'[i].npub = ireq[i].npub
    /\ ireq[i].pc = "idle" \/ ireq'[i].npub = ireq[i].npub
    /\ \A j \in InitReq : j # i => ireq'[j] = ireq[j]
    /\ UNCHANGED <<chal, sess>>

\* Housekeeping closes open challenges.
Expires ==
    /\ \A c \in InitReq :
          \/ chal'[c] = chal[c]
          \/ chal[c].state = "issued" /\ chal'[c] = [chal[c] EXCEPT !.state = "expired"]
    /\ UNCHANGED <<ireq, sess>>

\* Anything else touches no challenge and adds no session row.
Rests == UNCHANGED <<chal, ireq>> /\ SessionsKept

\* A table of sessions in which rows were removed or revoked has no new ones.
LEMMA RowsRemoved ==
    ASSUME TypeOK,
           \A s \in CompReq : \/ sess'[s] \in {sess[s], NoSession}
                              \/ sess'[s] = [sess[s] EXCEPT !.state = "revoked"] /\ sess[s].state = "live"
                              \/ sess'[s] = [NoSession EXCEPT !.state = "revoked"]
    PROVE  SessionsKept
<1> SUFFICES ASSUME NEW s \in CompReq, NEW c \in InitReq,
                    sess'[s].state # "absent", sess'[s].cid = c
             PROVE  sess[s].state # "absent" /\ sess[s].cid = c
  BY DEF SessionsKept, SessionsOf
<1>1. sess[s] \in SessionRecord
  BY DEF TypeOK
<1>2. CASE sess'[s] \in {sess[s], NoSession}
  BY <1>2 DEF NoSession
<1>3. CASE sess'[s] = [sess[s] EXCEPT !.state = "revoked"] /\ sess[s].state = "live"
  BY <1>1, <1>3 DEF SessionRecord
<1>4. CASE sess'[s] = [NoSession EXCEPT !.state = "revoked"]
  BY <1>4, NoneAssumption DEF NoSession
<1> QED BY <1>2, <1>3, <1>4

\* Every step outside /auth/complete is one of these.
LEMMA OtherEffect ==
    ASSUME TypeOK,
           \/ \E i \in InitReq : InitStep(i)
           \/ \E s \in CompReq : Logout(s)
           \/ \E p \in Suspendable : Operator(p)
           \/ Tick \/ MarkExpired \/ GuardedRead \/ UNCHANGED vars
    PROVE  /\ UNCHANGED creq
           /\ (\E i \in InitReq : Issues(i) \/ Asks(i)) \/ Expires \/ Rests
<1>1. UNCHANGED creq
  BY OtherTypes DEF vars
<1>2. ASSUME NEW i \in InitReq, InitStep(i) PROVE Issues(i) \/ Asks(i)
  <2>0. ireq[i] \in InitRequest
    BY DEF TypeOK
  <2>1. CASE InitRefuse(i) \/ InitCount(i) \/ InitCountRest(i)
    <3>1. PICK pc \in {"refused", "create", "count_ip", "count_npub"} :
            ireq' = [ireq EXCEPT ![i].pc = pc]
      BY <2>1 DEF InitRefuse, InitCount, InitCountRest
    <3>2. /\ ireq'[i].pc = pc /\ ireq'[i].npub = ireq[i].npub
          /\ \A j \in InitReq : j # i => ireq'[j] = ireq[j]
      BY <2>0, <3>1 DEF TypeOK, InitRequest
    <3>3. /\ ireq[i].pc \in {"idle", "count", "count_ip", "count_npub"}
          /\ ireq[i].pc = "idle" => pc = "refused"
          /\ UNCHANGED <<chal, sess>>
      <4>1. \A q \in InitPc : ireq' = [ireq EXCEPT ![i].pc = q] => q = pc
        BY <2>0, <3>2 DEF TypeOK, InitRequest
      <4>2. "refused" \in InitPc
        BY DEF InitPc
      <4> QED BY <2>1, <4>1, <4>2 DEF InitRefuse, InitCount, InitCountRest
    <3>4. Asks(i)
      BY <3>2, <3>3 DEF Asks, Written, Asked
    <3> QED BY <3>4
  <2>2. CASE InitBegin(i)
    <3>1. PICK p \in Principal, ip \in Opt(Ip) :
            ireq' = [ireq EXCEPT ![i] = [pc |-> "count", npub |-> p, ip |-> ip, now |-> clock]]
      BY <2>2 DEF InitBegin
    <3>2. /\ ireq'[i].pc = "count" /\ ireq'[i].npub = p
          /\ \A j \in InitReq : j # i => ireq'[j] = ireq[j]
      BY <3>1 DEF TypeOK
    <3>3. Asks(i)
      BY <2>2, <3>2 DEF Asks, InitBegin, Written
    <3> QED BY <3>3
  <2>3. CASE InitCreate(i) \/ InitFail(i)
    <3>1. PICK pc \in {"issued", "lost", "refused"} : ireq' = [ireq EXCEPT ![i].pc = pc]
      BY <2>3 DEF InitCreate, InitFail
    <3>2. /\ ireq'[i].pc = pc /\ ireq'[i].npub = ireq[i].npub
          /\ \A j \in InitReq : j # i => ireq'[j] = ireq[j]
      BY <2>0, <3>1 DEF TypeOK, InitRequest
    <3>3. ireq[i].pc = "create" /\ UNCHANGED sess
      BY <2>3 DEF InitCreate, InitFail
    <3>a. \A q \in InitPc : ireq' = [ireq EXCEPT ![i].pc = q] => q = pc
      BY <2>0, <3>2 DEF TypeOK, InitRequest
    <3>b. {"issued", "lost", "refused"} \subseteq InitPc
      BY DEF InitPc
    <3>4. CASE pc = "refused"
      <4>1. UNCHANGED chal
        BY <2>3, <3>4, <3>a, <3>b DEF InitCreate, InitFail
      <4> QED BY <3>2, <3>3, <3>4, <4>1 DEF Asks, Written, Asked
    <3>5. CASE pc # "refused"
      <4>1. \/ chal' = [SweptChallenges EXCEPT ![i] = NewChallenge(ireq[i])]
            \/ chal' = [chal EXCEPT ![i] = NewChallenge(ireq[i])]
        BY <2>3, <3>5, <3>a, <3>b DEF InitCreate, InitFail
      <4>2. \A c \in InitReq : SweptChallenges[c] \in {chal[c], NoChallenge}
        BY DEF SweptChallenges
      <4>3. /\ chal'[i] = NewChallenge(ireq[i])
            /\ \A c \in InitReq : c # i => chal'[c] \in {chal[c], NoChallenge}
        BY <4>1, <4>2, SweepTypes DEF TypeOK
      <4> QED BY <3>2, <3>3, <3>5, <4>3 DEF Issues
    <3> QED BY <3>4, <3>5
  <2> QED BY <1>2, <2>1, <2>2, <2>3 DEF InitStep
<1>3. ASSUME NEW s \in CompReq, Logout(s) PROVE Rests
  <2>1. sess' = [SweptSessions EXCEPT ![s].state = "revoked"] /\ sess[s].state = "live"
    BY <1>3 DEF Logout
  <2>2. \A t \in CompReq : t # s => sess'[t] = SweptSessions[t]
    BY <2>1, SweepTypes
  <2>3. sess'[s] = [SweptSessions[s] EXCEPT !.state = "revoked"]
    BY <2>1, SweepTypes
  <2>4. SessionsKept
    BY <2>1, <2>2, <2>3, SweptRows, RowsRemoved
  <2> QED BY <1>3, <2>4 DEF Rests, Logout
<1>4. ASSUME NEW p \in Suspendable, Operator(p) PROVE Rests
  <2>1. CASE RevokeByPrincipal(p)
    <3>1. \A s \in CompReq :
             \/ sess'[s] = sess[s]
             \/ sess'[s] = [sess[s] EXCEPT !.state = "revoked"] /\ sess[s].state = "live"
      BY <2>1 DEF RevokeByPrincipal
    <3>2. SessionsKept
      BY <3>1, RowsRemoved
    <3> QED BY <2>1, <3>2 DEF Rests, RevokeByPrincipal
  <2>2. CASE Suspend(p) \/ Unsuspend(p)
    BY <2>2 DEF Suspend, Unsuspend, Rests, SessionsKept
  <2> QED BY <1>4, <2>1, <2>2 DEF Operator
<1>5. CASE MarkExpired
  BY <1>5 DEF MarkExpired, Expires
<1>6. CASE GuardedRead
  <2>1. SessionsKept
    BY <1>6, SweptRows, RowsRemoved DEF GuardedRead
  <2> QED BY <1>6, <2>1 DEF GuardedRead, Rests
<1>7. CASE Tick \/ UNCHANGED vars
  BY <1>7 DEF Tick, vars, Rests, SessionsKept
<1> QED BY <1>1, <1>2, <1>3, <1>4, <1>5, <1>6, <1>7

-----------------------------------------------------------------------------
(* One session row per challenge.                                            *)

OneRow == \A c \in InitReq : \A s, t \in SessionsOf(sess, c) : s = t

\* createForChallenge adds the only row of its challenge, and nobody else adds one.
LEMMA OneRowStep == SingleUseInv /\ OneRow /\ [Next]_vars => OneRow'
<1> SUFFICES ASSUME SingleUseInv, OneRow, [Next]_vars PROVE OneRow'
  OBVIOUS
<1>1. ASSUME SessionsKept PROVE OneRow'
  BY <1>1 DEF SessionsKept, OneRow, SessionsOf
<1>2. ASSUME NEW r \in CompReq, CompleteStep(r) PROVE OneRow'
  <2>1. CASE Creates(r)
    <3> DEFINE c == creq[r].event.cid
    <3>1. c \in InitReq /\ creq[r].event \in Event
      BY <1>2, <2>1, CompleteEffect, OptSome
         DEF Creates, SingleUseInv, LocalsHeld, HasLocals, TypeOK, CompRequest
    <3>2. sess'[r].cid = c
      BY <2>1 DEF Creates, NewSession
    <3>3. ASSUME NEW d \in InitReq, NEW s \in SessionsOf(sess', d), s # r
          PROVE  d # c /\ s \in SessionsOf(sess, d)
      BY <2>1, <3>1, <3>3, SweptRows DEF Creates, SessionsOf, NoSession
    <3> QED BY <3>2, <3>3 DEF OneRow, SessionsOf
  <2>2. CASE UNCHANGED sess \/ \A s \in CompReq : sess'[s] \in {sess[s], NoSession}
    <3>1. SessionsKept
      BY <2>2, RowsRemoved DEF SingleUseInv
    <3> QED BY <1>1, <3>1
  <2> QED BY <1>2, <2>1, <2>2, CompleteEffect
             DEF Effect, Ends, Begins, Passes, Fails, Spends, Advances, Joins, Retries, Redeems,
                 Succeeds
<1>3. ASSUME UNCHANGED sess PROVE SessionsKept
  BY <1>3 DEF SessionsKept
<1>4. ASSUME \/ \E i \in InitReq : InitStep(i)
             \/ \E s \in CompReq : Logout(s)
             \/ \E p \in Suspendable : Operator(p)
             \/ Tick \/ MarkExpired \/ GuardedRead \/ UNCHANGED vars
      PROVE  OneRow'
  BY <1>1, <1>3, <1>4, OtherEffect DEF SingleUseInv, Issues, Asks, Expires, Rests
<1> QED BY <1>2, <1>4 DEF Next

\* createForChallenge is idempotent, for any number of completions of a challenge that
\* race, retry, fail or are swept under, over either store: never a second session row.
THEOREM OneSession == Spec => []OneSessionPerChallenge
<1>1. Init => OneRow
  BY DEF Init, OneRow, SessionsOf, NoSession
<1>2. OneRow => OneSessionPerChallenge
  <2> SUFFICES ASSUME OneRow, NEW c \in InitReq PROVE Cardinality(SessionsOf(sess, c)) <= 1
    BY DEF OneSessionPerChallenge
  <2>1. CASE SessionsOf(sess, c) = {}
    BY <2>1, FS_EmptySet
  <2>2. CASE SessionsOf(sess, c) # {}
    <3>1. PICK s : SessionsOf(sess, c) = {s}
      BY <2>2 DEF OneRow
    <3>2. Cardinality({s}) = 1
      BY FS_Singleton
    <3> QED BY <3>1, <3>2
  <2> QED BY <2>1, <2>2
<1>3. Spec => []OneRow
  BY <1>1, OneRowStep, SingleUseInductive, PTL DEF Spec
<1> QED BY <1>2, <1>3, PTL

-----------------------------------------------------------------------------
(* The invariant of the refinement.                                          *)

\* Owned rows stay owned, ...
LEMMA OwnedStep ==
    ASSUME SingleUseInv, OwnedRows, [Next]_vars PROVE OwnedRows'
<1>0. TypeOK /\ FreshIds
  BY DEF SingleUseInv
<1>1. ASSUME UNCHANGED <<chal, ireq>> PROVE OwnedRows'
  BY <1>1 DEF OwnedRows, Present
<1>2. ASSUME NEW r \in CompReq, CompleteStep(r) PROVE OwnedRows'
  <2> DEFINE c == creq[r].event.cid
  <2>1. CASE Spends(r) \/ Redeems(r)
    <3>1. c \in InitReq /\ chal[c] \in ChallengeRecord /\ UNCHANGED ireq
      BY <1>0, <1>2, <2>1, CompleteEffect DEF Spends, Redeems, TypeOK
    <3>2. chal' \in {chal, [chal EXCEPT ![c] = Spent(@)], [chal EXCEPT ![c] = Redeemed(@, creq[r])]}
      BY <2>1 DEF Spends, Redeems
    <3>3. \A d \in InitReq : d # c => chal'[d] = chal[d]
      BY <1>0, <3>2 DEF TypeOK
    <3>4. chal'[c] \in {chal[c], Spent(chal[c]), Redeemed(chal[c], creq[r])}
      BY <1>0, <3>1, <3>2 DEF TypeOK
    <3>5. chal'[c].npub = chal[c].npub
      BY <3>1, <3>4 DEF ChallengeRecord, Spent, Redeemed
    <3>6. chal'[c].state # "absent" => Present(c)
      BY <2>1, <3>1 DEF Spends, Redeems, Present
    <3> QED BY <3>1, <3>3, <3>5, <3>6 DEF OwnedRows, Present
  <2> QED BY <1>1, <1>2, <2>1, CompleteEffect
             DEF Effect, Ends, Begins, Passes, Fails, Advances, Creates, Joins, Retries, Succeeds
<1>3. ASSUME NEW i \in InitReq, Issues(i) PROVE OwnedRows'
  <2>1. chal'[i].npub = ireq[i].npub
    BY <1>3 DEF Issues, NewChallenge, NoChallenge
  <2> QED BY <1>3, <2>1 DEF OwnedRows, Issues, Present, NoChallenge, Asked
<1>4. ASSUME NEW i \in InitReq, Asks(i) PROVE OwnedRows'
  <2>1. ~Present(i)
    BY <1>0, <1>4 DEF FreshIds, Asks, Present, NoChallenge
  <2> QED BY <1>4, <2>1 DEF OwnedRows, Asks, Present
<1>5. ASSUME Expires PROVE OwnedRows'
  <2> SUFFICES ASSUME NEW c \in InitReq
               PROVE  chal'[c].npub = chal[c].npub /\ (Present(c)' => Present(c))
    BY <1>5 DEF OwnedRows, Present, Expires
  <2>1. chal[c] \in ChallengeRecord
    BY <1>0 DEF TypeOK
  <2> QED BY <1>5, <2>1 DEF Expires, Present, ChallengeRecord
<1> QED BY <1>0, <1>1, <1>2, <1>3, <1>4, <1>5, OtherEffect DEF Next, Rests

\* An init request that got as far as a row keeps its principal.
LEMMA OwnerKept ==
    ASSUME SingleUseInv, OwnedRows, [Next]_vars, NEW c \in InitReq, Written(c)
    PROVE  Written(c)' /\ ireq'[c].npub = ireq[c].npub
<1>1. ASSUME UNCHANGED ireq PROVE Written(c)' /\ ireq'[c].npub = ireq[c].npub
  BY <1>1 DEF Written
<1>2. ASSUME NEW i \in InitReq, Issues(i) \/ Asks(i)
      PROVE  Written(c)' /\ ireq'[c].npub = ireq[c].npub
  BY <1>2 DEF Issues, Asks, Written
<1> QED BY <1>1, <1>2, CompleteEffect, OtherEffect DEF SingleUseInv, Next, Expires, Rests

\* ... a request that passes the checks of the load carries its challenge's owner's proof,
\* and nobody changes either afterwards, ...
LEMMA ProofCheckedStep ==
    ASSUME SingleUseInv, OwnedRows, ProofChecked, [Next]_vars PROVE ProofChecked'
<1>1. ASSUME NEW r \in CompReq, creq'[r].pc \in PastLoad,
             /\ creq[r].event.cid \in InitReq /\ Written(creq[r].event.cid)
             /\ creq'[r].event = creq[r].event
             /\ creq[r].event.matches
             /\ creq[r].event.signer = ireq[creq[r].event.cid].npub
      PROVE  creq'[r].event.matches
             /\ creq'[r].event.signer = ireq'[creq'[r].event.cid].npub
  BY <1>1, OwnerKept
<1>2. ASSUME NEW r \in CompReq, creq[r].pc \in PastLoad
      PROVE  /\ creq[r].event.cid \in InitReq /\ Written(creq[r].event.cid)
             /\ creq[r].event.matches
             /\ creq[r].event.signer = ireq[creq[r].event.cid].npub
  <2>1. creq[r].event \in Opt(Event) /\ creq[r].event # None
    BY <1>2 DEF SingleUseInv, TypeOK, CompRequest, LocalsHeld, HasLocals, PastLoad
  <2> QED BY <1>2, <2>1, EventCid DEF SingleUseInv, LoadedInTime, InTime, ProofChecked
<1>3. ASSUME UNCHANGED creq PROVE ProofChecked'
  BY <1>1, <1>2, <1>3 DEF ProofChecked
<1>4. ASSUME NEW r \in CompReq, CompleteStep(r) PROVE ProofChecked'
  <2>1. \A t \in CompReq : t # r => creq'[t] = creq[t]
    BY <1>4, CompleteEffect
  <2>2. SUFFICES ASSUME creq'[r].pc \in PastLoad
                 PROVE  creq'[r].event.matches
                        /\ creq'[r].event.signer = ireq'[creq'[r].event.cid].npub
    BY <1>1, <1>2, <2>1 DEF ProofChecked
  <2>3. CASE Passes(r)
    <3> DEFINE c == creq[r].event.cid
    <3>1. c \in InitReq
      BY <1>4, <2>3, CompleteEffect DEF Passes
    <3>2. Present(c) /\ chal[c].npub = creq[r].event.signer /\ creq[r].event.matches
      BY <2>3 DEF Passes, ChallengeCheck, Present
    <3>3. Written(c)
      BY <3>1, <3>2 DEF SingleUseInv, FreshIds, Present, NoChallenge
    <3> QED BY <1>1, <2>2, <2>3, <3>1, <3>2, <3>3 DEF OwnedRows, Passes, Keeps
  <2>4. CASE creq[r].pc \in PastLoad /\ creq'[r].event = creq[r].event
    BY <1>1, <1>2, <2>2, <2>4
  <2> QED BY <1>4, <2>2, <2>3, <2>4, CompleteEffect
             DEF Effect, Ends, Begins, Fails, Spends, Advances, Creates, Joins, Retries,
                 Redeems, Succeeds, Keeps, PastLoad
<1> QED BY <1>3, <1>4, OtherEffect DEF SingleUseInv, Next

\* ... the locals stay in order, ...
LEMMA LocalsStep ==
    ASSUME SingleUseInv, LocalsInOrder, [Next]_vars PROVE LocalsInOrder'
<1>1. ASSUME NEW r \in CompReq, CompleteStep(r) PROVE LocalsInOrder'
  <2>1. \A t \in CompReq : t # r => creq'[t] = creq[t]
    BY <1>1, CompleteEffect
  <2>2. /\ Succeeded(r)' => creq'[r].pc = "done"
        /\ creq'[r].pc \notin Drawn => creq'[r].sid = None
    BY <1>1, CompleteEffect
       DEF LocalsInOrder, Succeeded, Effect, Ends, Begins, Passes, Fails, Spends, Advances,
           Creates, Joins, Retries, Redeems, Succeeds, Keeps, PastLoad, Drawn, SpendingCode
  <2> QED BY <2>1, <2>2 DEF LocalsInOrder, Succeeded
<1>2. ASSUME UNCHANGED creq PROVE LocalsInOrder'
  BY <1>2 DEF LocalsInOrder, Succeeded
<1> QED BY <1>1, <1>2, OtherEffect DEF SingleUseInv, Next

\* ... and a session id stays with its challenge: the only new names are those of the
\* request that stores the session it drew.
LEMMA SessionIdsStep ==
    ASSUME SingleUseInv, LocalsInOrder, SessionIds, [Next]_vars PROVE SessionIds'
<1>0. TypeOK
  BY DEF SingleUseInv
<1>d. \A s \in CompReq : creq[s].pc \in Drawn => creq'[s].pc \in Drawn
  <2>1. ASSUME NEW r \in CompReq, CompleteStep(r), creq[r].pc \in Drawn
        PROVE  creq'[r].pc \in Drawn
    BY <2>1, CompleteEffect
       DEF Effect, Ends, Begins, Passes, Fails, Spends, Advances, Creates, Joins, Retries,
           Redeems, Succeeds, Drawn
  <2> QED BY <1>0, <2>1, CompleteEffect, OtherEffect DEF Next
<1>1. ASSUME \A s \in CompReq, c \in InitReq : Names(s, c)' => Names(s, c)
      PROVE  SessionIds'
  BY <1>1, <1>d DEF SessionIds
\* Rows that appear, are swept or are closed name no session they did not name.
<1>n. NoChallenge.sid = None /\ \A q : NewChallenge(q).sid = None
  BY DEF NewChallenge, NoChallenge
<1>o. ASSUME \/ \E i \in InitReq : InitStep(i)
             \/ \E s \in CompReq : Logout(s)
             \/ \E p \in Suspendable : Operator(p)
             \/ Tick \/ MarkExpired \/ GuardedRead \/ UNCHANGED vars
      PROVE  SessionIds'
  <2>1. \A c \in InitReq : chal'[c].sid \in {None, chal[c].sid}
    <3>1. ASSUME NEW c \in InitReq PROVE [chal[c] EXCEPT !.state = "expired"].sid = chal[c].sid
      BY <1>0 DEF TypeOK, ChallengeRecord
    <3>2. CASE \E i \in InitReq : Issues(i)
      BY <1>n, <3>2 DEF Issues
    <3>3. CASE Expires
      BY <3>1, <3>3 DEF Expires
    <3>4. CASE UNCHANGED chal
      BY <3>4
    <3> QED BY <1>0, <1>o, <3>2, <3>3, <3>4, OtherEffect DEF Asks, Rests
  <2>2. UNCHANGED creq /\ SessionsKept
    BY <1>0, <1>o, OtherEffect DEF Issues, Asks, Expires, Rests, SessionsKept
  <2>3. ASSUME NEW s \in CompReq, NEW c \in InitReq, Names(s, c)' PROVE Names(s, c)
    BY <2>1, <2>2, <2>3, NoneAssumption DEF Names, SessionsKept, SessionsOf
  <2> QED BY <1>1, <2>3
<1>r. ASSUME NEW r \in CompReq, CompleteStep(r) PROVE SessionIds'
  <2> DEFINE c == creq[r].event.cid
  <2>0. /\ \A t \in CompReq : t # r => creq'[t] = creq[t]
        /\ creq[r].pc \notin {"idle", "done"} => c \in InitReq /\ creq[r].event # None
    BY <1>r, CompleteEffect DEF SingleUseInv, LocalsHeld, HasLocals
  \* The request names what it named, or what a session or its challenge's row names.
  <2>1. ASSUME chal' = chal \/ \A d \in InitReq : chal'[d].sid = chal[d].sid,
               SessionsKept,
               \/ creq'[r].sid \in {None}
               \/ creq'[r].sid = creq[r].sid /\ creq'[r].event = creq[r].event
               \/ /\ creq[r].pc \notin {"idle", "done"}
                  /\ creq'[r].event = creq[r].event /\ Names(creq'[r].sid, c)
        PROVE  SessionIds'
    <3>1. ASSUME NEW s \in CompReq, NEW d \in InitReq, Names(s, d)' PROVE Names(s, d)
      <4>1. CASE sess'[s].state # "absent" /\ sess'[s].cid = d
        BY <2>1, <4>1 DEF SessionsKept, SessionsOf, Names
      <4>2. CASE chal'[d].sid = s
        BY <2>1, <4>2 DEF Names
      <4>3. CASE \E t \in CompReq : creq'[t].sid = s /\ creq'[t].event # None /\ creq'[t].event.cid = d
        <5>1. PICK t \in CompReq : creq'[t].sid = s /\ creq'[t].event # None /\ creq'[t].event.cid = d
          BY <4>3
        <5>2. CASE t # r
          BY <2>0, <5>1, <5>2 DEF Names
        <5>3. CASE t = r
          BY <2>1, <5>1, <5>3, NoneAssumption DEF Names
        <5> QED BY <5>2, <5>3
      <4> QED BY <3>1, <4>1, <4>2, <4>3 DEF Names
    <3> QED BY <1>1, <3>1
  <2>k. ASSUME UNCHANGED sess \/ \A s \in CompReq : sess'[s] \in {sess[s], NoSession}
        PROVE  SessionsKept
    BY <1>0, <2>k, RowsRemoved
  <2>2. CASE Ends(r) \/ Passes(r) \/ Fails(r) \/ Advances(r) \/ Succeeds(r)
    BY <2>1, <2>2, <2>k DEF Ends, Passes, Fails, Advances, Succeeds, Keeps
  <2>3. CASE Begins(r)
    <3>1. creq'[r].sid = None
      BY <2>3 DEF Begins, LocalsInOrder, Drawn
    <3> QED BY <2>1, <2>3, <2>k, <3>1 DEF Begins
  <2>4. CASE Joins(r)
    <3>1. Names(creq'[r].sid, c)
      BY <2>4 DEF Joins, Names
    <3> QED BY <2>1, <2>4, <2>k, <3>1 DEF Joins, Keeps
  <2>5. CASE Retries(r)
    <3>1. Names(creq'[r].sid, c)
      BY <2>5 DEF Retries, Names
    <3> QED BY <2>1, <2>5, <2>k, <3>1 DEF Retries, Keeps
  <2>6. CASE Spends(r)
    <3>1. c \in InitReq /\ chal[c] \in ChallengeRecord
      BY <1>0, <2>0, <2>6 DEF Spends, TypeOK
    <3>2. Spent(chal[c]).sid = chal[c].sid
      BY <3>1 DEF Spent, ChallengeRecord
    <3>3. chal' \in {chal, [chal EXCEPT ![c] = Spent(@)]}
      BY <2>6 DEF Spends
    <3>4. \A d \in InitReq : chal'[d].sid = chal[d].sid
      BY <1>0, <3>1, <3>2, <3>3 DEF TypeOK
    <3> QED BY <2>1, <2>6, <2>k, <3>4 DEF Spends
  <2>7. CASE Redeems(r)
    <3>0. c \in InitReq /\ chal[c] \in ChallengeRecord /\ creq[r].event # None
      BY <1>0, <2>0, <2>7 DEF Redeems, TypeOK
    <3>1. Redeemed(chal[c], creq[r]).sid = creq[r].sid
      BY <3>0 DEF Redeemed, ChallengeRecord
    <3>2. chal'[c].sid = creq[r].sid /\ \A d \in InitReq : d # c => chal'[d] = chal[d]
      BY <1>0, <2>7, <3>0, <3>1 DEF Redeems, TypeOK
    <3>3. ASSUME NEW s \in CompReq, NEW d \in InitReq, Names(s, d)' PROVE Names(s, d)
      <4>1. CASE d = c /\ s = creq[r].sid
        BY <3>0, <4>1 DEF Names
      <4>2. CASE ~(d = c /\ s = creq[r].sid)
        <5>1. chal'[d].sid = s => chal[d].sid = s
          BY <3>2, <4>2
        <5>2. \A t \in CompReq : creq'[t].sid = creq[t].sid /\ creq'[t].event = creq[t].event
          BY <2>0, <2>7 DEF Redeems, Keeps
        <5> QED BY <2>7, <3>3, <5>1, <5>2 DEF Names, Redeems
      <4> QED BY <4>1, <4>2
    <3> QED BY <1>1, <3>3
  <2>8. CASE Creates(r)
    <3>1. c \in InitReq /\ creq[r].pc = "create" /\ creq'[r].pc = "redeem"
      BY <2>0, <2>8 DEF Creates
    \* Nobody named the id before.
    <3>2. \A d \in InitReq : ~Names(r, d)
      BY <3>1 DEF SessionIds, Drawn
    <3>3. ASSUME NEW d \in InitReq, Names(r, d)' PROVE d = c
      <4>1. CASE sess'[r].cid = d
        BY <2>8, <4>1 DEF Creates, NewSession
      <4>2. CASE chal'[d].sid = r
        BY <2>8, <3>2, <4>2 DEF Creates, Names
      <4>3. CASE \E t \in CompReq : creq'[t].sid = r /\ creq'[t].event # None /\ creq'[t].event.cid = d
        BY <2>0, <2>8, <3>2, <4>3 DEF Creates, Keeps, Names
      <4> QED BY <3>3, <4>1, <4>2, <4>3 DEF Names
    <3>4. ASSUME NEW s \in CompReq, NEW d \in InitReq, Names(s, d)', s # r PROVE Names(s, d)
      <4>1. CASE sess'[s].state # "absent" /\ sess'[s].cid = d
        BY <2>8, <3>4, <4>1, SweptRows DEF Creates, Names, NoSession
      <4>2. CASE chal'[d].sid = s
        BY <2>8, <4>2 DEF Creates, Names
      <4>3. CASE \E t \in CompReq : creq'[t].sid = s /\ creq'[t].event # None /\ creq'[t].event.cid = d
        BY <2>0, <2>8, <3>4, <4>3 DEF Creates, Names
      <4> QED BY <3>4, <4>1, <4>2, <4>3 DEF Names
    <3>5. creq'[r].pc \in Drawn
      BY <3>1 DEF Drawn
    <3> QED BY <1>d, <3>3, <3>4, <3>5 DEF SessionIds
  <2> QED BY <1>r, <2>2, <2>3, <2>4, <2>5, <2>6, <2>7, <2>8, CompleteEffect DEF Effect
<1> QED BY <1>o, <1>r DEF Next

\* What the refinement rests on holds of every reachable state.
THEOREM LoginInductive == Spec => []LoginInv
<1>1. Init => OwnedRows /\ ProofChecked /\ LocalsInOrder /\ SessionIds
  <2> SUFFICES ASSUME Init PROVE OwnedRows /\ ProofChecked /\ LocalsInOrder /\ SessionIds
    OBVIOUS
  <2>1. OwnedRows
    BY DEF Init, OwnedRows, Asked, Present, NoChallenge
  <2>2. ProofChecked /\ LocalsInOrder
    BY DEF Init, ProofChecked, LocalsInOrder, PastLoad, Succeeded, NoCompRequest
  <2>3. SessionIds
    BY NoneAssumption DEF Init, SessionIds, Names, NoSession, NoChallenge, NoCompRequest
  <2> QED BY <2>1, <2>2, <2>3
<1>2. /\ SingleUseInv /\ OwnedRows /\ ProofChecked /\ LocalsInOrder /\ SessionIds
      /\ [Next]_vars
      => OwnedRows' /\ ProofChecked' /\ LocalsInOrder' /\ SessionIds'
  BY OwnedStep, ProofCheckedStep, LocalsStep, SessionIdsStep
<1> QED BY <1>1, <1>2, SingleUseInductive, PTL DEF Spec, LoginInv

-----------------------------------------------------------------------------
(* Completion implements OneTimeLogin.                                       *)

Wins(r, c) == Winner(r) /\ creq[r].event.cid = c

RowGrant(c) == [event |-> chal[c].event, sid |-> chal[c].sid]

RequestGrant(r) == [event |-> creq[r].event, sid |-> creq[r].sid]

\* The grant of a challenge is what its row says, and what every winner says.
LEMMA GrantFacts ==
    SingleUseInv => \A c \in InitReq :
        /\ chal[c].state = "redeemed" => GrantOf(c) = RowGrant(c)
        /\ \A r \in CompReq : Wins(r, c) => GrantOf(c) = RequestGrant(r)
        /\ chal[c].state # "redeemed" /\ (\A r \in CompReq : ~Wins(r, c)) => GrantOf(c) = None
<1> SUFFICES ASSUME SingleUseInv, NEW c \in InitReq
             PROVE  /\ chal[c].state = "redeemed" => GrantOf(c) = RowGrant(c)
                    /\ \A r \in CompReq : Wins(r, c) => GrantOf(c) = RequestGrant(r)
                    /\ chal[c].state # "redeemed" /\ (\A r \in CompReq : ~Wins(r, c))
                       => GrantOf(c) = None
  OBVIOUS
<1> DEFINE winners == {r \in CompReq : Winner(r) /\ creq[r].event.cid = c}
           first == CHOOSE w \in winners : TRUE
<1>1. GrantOf(c) = IF chal[c].state = "redeemed" THEN RowGrant(c)
                   ELSE IF winners = {} THEN None ELSE RequestGrant(first)
  BY DEF GrantOf, RowGrant, RequestGrant
<1>2. ASSUME NEW r \in CompReq, Wins(r, c) PROVE GrantOf(c) = RequestGrant(r)
  <2>1. CASE chal[c].state = "redeemed"
    <3>1. chal[c].event = creq[r].event /\ chal[c].sid = creq[r].sid
      BY <1>2, <2>1 DEF SingleUseInv, WinnersAgree, Backed, Wins, Present
    <3> QED BY <1>1, <2>1, <3>1 DEF RowGrant, RequestGrant
  <2>2. CASE chal[c].state # "redeemed"
    <3>1. r \in winners
      BY <1>2 DEF Wins
    <3>2. first \in winners
      BY <3>1
    <3>3. Agree(r, first)
      BY <3>1, <3>2 DEF SingleUseInv, WinnersAgree
    <3>4. creq[first].event = creq[r].event /\ creq[first].sid = creq[r].sid
      BY <3>1, <3>2, <3>3 DEF Agree
    <3>5. GrantOf(c) = RequestGrant(first)
      BY <1>1, <2>2, <3>1
    <3> HIDE DEF first
    <3> QED BY <3>4, <3>5 DEF RequestGrant
  <2> QED BY <2>1, <2>2
<1>3. chal[c].state # "redeemed" /\ (\A r \in CompReq : ~Wins(r, c)) => GrantOf(c) = None
  BY <1>1 DEF Wins
<1> QED BY <1>1, <1>2, <1>3

\* ... also after a step.
LEMMA GrantFactsNext ==
    SingleUseInv' => \A c \in InitReq :
        /\ chal'[c].state = "redeemed" => GrantOf(c)' = RowGrant(c)'
        /\ \A r \in CompReq : Wins(r, c)' => GrantOf(c)' = RequestGrant(r)'
        /\ chal'[c].state # "redeemed" /\ (\A r \in CompReq : ~Wins(r, c)') => GrantOf(c)' = None
<1>1. (SingleUseInv => \A c \in InitReq :
        /\ chal[c].state = "redeemed" => GrantOf(c) = RowGrant(c)
        /\ \A r \in CompReq : Wins(r, c) => GrantOf(c) = RequestGrant(r)
        /\ chal[c].state # "redeemed" /\ (\A r \in CompReq : ~Wins(r, c)) => GrantOf(c) = None)'
  BY GrantFacts, PTL
<1> QED BY <1>1

\* A step that leaves a challenge's row and winners alone leaves its grant alone.
LEMMA GrantSame ==
    ASSUME SingleUseInv, SingleUseInv', NEW c \in InitReq,
           chal'[c] = chal[c],
           \A r \in CompReq : Wins(r, c) <=> Wins(r, c)',
           \A r \in CompReq : Wins(r, c) => RequestGrant(r)' = RequestGrant(r)
    PROVE  GrantOf(c)' = GrantOf(c)
<1>1. CASE chal[c].state = "redeemed"
  BY <1>1, GrantFacts, GrantFactsNext DEF RowGrant
<1>2. CASE chal[c].state # "redeemed" /\ \E r \in CompReq : Wins(r, c)
  BY <1>2, GrantFacts, GrantFactsNext
<1>3. CASE chal[c].state # "redeemed" /\ \A r \in CompReq : ~Wins(r, c)
  BY <1>3, GrantFacts, GrantFactsNext
<1> QED BY <1>1, <1>2, <1>3

\* What a step that grants nothing does to a challenge: its row may lose a grant but not
\* gain or change one, and may not reopen; a winner is one that was, or is told what the
\* row says; and who was told of a success stays told.
Forgets(c) ==
    /\ chal'[c].state = "redeemed" => chal[c].state = "redeemed" /\ RowGrant(c)' = RowGrant(c)
    /\ Written(c) => Written(c)' /\ (chal'[c].state = "issued" => chal[c].state = "issued")
    /\ \A r \in CompReq : Wins(r, c)' =>
          \/ Wins(r, c) /\ RequestGrant(r)' = RequestGrant(r)
          \/ chal[c].state = "redeemed" /\ RequestGrant(r)' = RowGrant(c)
    /\ \A r \in CompReq : Succeeded(r) /\ creq[r].event.cid = c => Wins(r, c)'

\* Such a step keeps the grant, or loses one that nobody was told of and nobody can get.
LEMMA ForgetsGrant ==
    ASSUME SingleUseInv, SingleUseInv', NEW c \in InitReq, Forgets(c)
    PROVE  /\ IsClosed(c) => IsClosed(c)'
           /\ \/ GrantOf(c)' = GrantOf(c)
              \/ /\ GrantOf(c)' = None /\ IsClosed(c)'
                 /\ \A r \in CompReq : ~(Succeeded(r) /\ creq[r].event.cid = c)
<1>1. IsClosed(c) => IsClosed(c)'
  BY DEF IsClosed, Forgets
<1>2. CASE chal'[c].state = "redeemed" \/ \E r \in CompReq : Wins(r, c)'
  BY <1>1, <1>2, GrantFacts, GrantFactsNext DEF Forgets
<1>3. CASE chal'[c].state # "redeemed" /\ \A r \in CompReq : ~Wins(r, c)'
  <2>1. GrantOf(c)' = None /\ \A r \in CompReq : ~(Succeeded(r) /\ creq[r].event.cid = c)
    BY <1>3, GrantFactsNext DEF Forgets
  <2>2. ASSUME GrantOf(c) # None PROVE IsClosed(c)'
    <3>1. Written(c) /\ chal[c].state # "issued"
      <4>1. CASE chal[c].state = "redeemed"
        BY <4>1 DEF SingleUseInv, FreshIds, NoChallenge
      <4>2. CASE \E r \in CompReq : Wins(r, c)
        BY <4>2 DEF SingleUseInv, WinnersAgree, Backed, Wins, Present
      <4> QED BY <2>2, <4>1, <4>2, GrantFacts
    <3> QED BY <1>3, <3>1 DEF Forgets, IsClosed
  <2> QED BY <1>1, <2>1, <2>2
<1> QED BY <1>2, <1>3

\* Seen from OneTimeLogin that is Forget.
LEMMA ForgetStep ==
    ASSUME SingleUseInv, SingleUseInv', \A c \in InitReq : Forgets(c),
           \A r \in CompReq : AnswerOf(r)' = AnswerOf(r)
    PROVE  Login!Forget
<1> DEFINE lost == {c \in InitReq : GrantOf(c)' # GrantOf(c)}
           shut == {c \in InitReq : IsClosed(c)}
<1>1. shut' \in SUBSET InitReq /\ shut \subseteq shut'
  BY ForgetsGrant
<1>2. ASSUME NEW c \in lost
      PROVE  GrantOf(c)' = None /\ c \in shut' /\ ~Login!Told(c)
  <2>1. /\ c \in InitReq /\ GrantOf(c)' = None /\ IsClosed(c)'
        /\ \A r \in CompReq : ~(Succeeded(r) /\ creq[r].event.cid = c)
    BY ForgetsGrant
  <2>2. ~Login!Told(c)
    BY <2>1 DEF Login!Told, AnswerOf
  <2> QED BY <2>1, <2>2
<1>3. [c \in InitReq |-> GrantOf(c)'] =
      [c \in InitReq |-> IF c \in lost THEN None ELSE [d \in InitReq |-> GrantOf(d)][c]]
  BY <1>2
<1>4. lost \in SUBSET {c \in shut' : ~Login!Told(c)}
  BY <1>2
<1>5. [r \in CompReq |-> AnswerOf(r)'] = [r \in CompReq |-> AnswerOf(r)]
  OBVIOUS
<1> HIDE DEF lost
<1> QED BY <1>1, <1>3, <1>4, <1>5 DEF Login!Forget

\* A request says what it said before unless it is told of a success.
LEMMA AnswersKept ==
    ASSUME LoginInv, NEW r \in CompReq, CompleteStep(r), ~Succeeds(r)
    PROVE  \A t \in CompReq : AnswerOf(t)' = AnswerOf(t)
<1>1. \A t \in CompReq : t # r => AnswerOf(t)' = AnswerOf(t)
  BY CompleteEffect DEF LoginInv, AnswerOf, Succeeded
<1>2. ~Succeeded(r) /\ ~Succeeded(r)'
  BY CompleteEffect
     DEF LoginInv, LocalsInOrder, Succeeded, Effect, Ends, Begins, Passes, Fails, Spends,
         Advances, Creates, Joins, Retries, Redeems, Keeps, PastLoad, SpendingCode
<1> QED BY <1>1, <1>2 DEF AnswerOf

\* A segment that neither redeems nor succeeds forgets at most.
LEMMA CompleteForgets ==
    ASSUME LoginInv, NEW r \in CompReq, CompleteStep(r), ~Redeems(r), ~Succeeds(r)
    PROVE  \A c \in InitReq : Forgets(c)
<1> DEFINE d == creq[r].event.cid
<1>0. SingleUseInv /\ TypeOK /\ LocalsInOrder
  BY DEF LoginInv, SingleUseInv
<1>1. /\ \A t \in CompReq : t # r => creq'[t] = creq[t]
      /\ creq[r].pc \notin {"idle", "done"} => d \in InitReq
      /\ UNCHANGED ireq /\ Effect(r)
  BY <1>0, CompleteEffect
<1> SUFFICES ASSUME NEW c \in InitReq PROVE Forgets(c)
  OBVIOUS
<1>2. /\ chal'[c].state = "redeemed" => chal[c].state = "redeemed" /\ RowGrant(c)' = RowGrant(c)
      /\ chal'[c].state = "issued" => chal[c].state = "issued"
  <2>1. CASE UNCHANGED chal
    BY <2>1 DEF RowGrant
  <2>2. CASE Spends(r)
    <3>1. d \in InitReq /\ chal[d] \in ChallengeRecord
      BY <1>0, <1>1, <2>2 DEF Spends, TypeOK
    <3>2. \/ chal' = chal
          \/ chal[d].state = "issued" /\ chal' = [chal EXCEPT ![d] = Spent(@)]
      BY <2>2 DEF Spends
    <3>3. chal[d].state = "issued" => Spent(chal[d]).state \in {"issued", "failed_terminal"}
      BY <3>1 DEF Spent, ChallengeRecord
    <3>4. \/ chal'[c] = chal[c]
          \/ chal[c].state = "issued" /\ chal'[c].state \in {"issued", "failed_terminal"}
      BY <1>0, <3>1, <3>2, <3>3 DEF TypeOK
    <3> QED BY <3>4 DEF RowGrant
  <2> QED BY <1>1, <2>1, <2>2
             DEF Effect, Ends, Begins, Passes, Fails, Advances, Creates, Joins, Retries
<1>3. ASSUME NEW t \in CompReq, t # r
      PROVE  /\ Wins(t, c)' <=> Wins(t, c)
             /\ RequestGrant(t)' = RequestGrant(t)
  BY <1>1, <1>3 DEF Wins, Winner, Succeeded, RequestGrant
<1>4. ~Succeeded(r)
  BY <1>1 DEF LoginInv, LocalsInOrder, Succeeded, Effect, Ends, Begins, Passes, Fails, Spends,
              Advances, Creates, Joins, Retries, PastLoad
<1>5. Wins(r, c)' => /\ chal[c].state = "redeemed"
                     /\ RequestGrant(r)' = RowGrant(c)
  <2>1. CASE Retries(r)
    <3>1. d \in InitReq /\ chal[d].event = creq[r].event
      BY <1>1, <2>1 DEF Retries, IsRetry
    <3>2. creq[r].event # None
      BY <2>1 DEF Retries, LoginInv, SingleUseInv, LocalsHeld, HasLocals
    <3>3. chal[d].state = "redeemed"
      BY <1>0, <3>1, <3>2 DEF SingleUseInv, RedeemedRows
    <3>4. creq'[r].event = chal[d].event /\ creq'[r].sid = chal[d].sid
      BY <2>1, <3>1 DEF Retries, Keeps
    <3> QED BY <2>1, <3>3, <3>4 DEF Wins, RequestGrant, RowGrant, Retries, Keeps
  <2>2. CASE creq'[r].pc \notin {"fetch", "log"}
    <3>1. creq'[r].code # "NAP_COMPLETE_SUCCESS"
      BY <1>1, <1>4, <2>2
         DEF Effect, Ends, Begins, Passes, Fails, Spends, Advances, Creates, Joins, Retries, Keeps,
             SpendingCode, Succeeded
    <3> QED BY <2>2, <3>1 DEF Wins, Winner, Succeeded
  <2> QED BY <1>1, <2>1, <2>2
             DEF Effect, Ends, Begins, Passes, Fails, Spends, Advances, Creates, Joins, PastLoad
<1>6. Written(c) => Written(c)'
  BY <1>1 DEF Written
<1> QED
  <2>1. \A t \in CompReq : Wins(t, c)' =>
          \/ Wins(t, c) /\ RequestGrant(t)' = RequestGrant(t)
          \/ chal[c].state = "redeemed" /\ RequestGrant(t)' = RowGrant(c)
    BY <1>3, <1>5
  <2>2. \A t \in CompReq : Succeeded(t) /\ creq[t].event.cid = c => Wins(t, c)'
    BY <1>3, <1>4 DEF Wins, Winner
  <2> QED BY <1>2, <1>6, <2>1, <2>2 DEF Forgets

\* So does every step outside /auth/complete.
LEMMA OtherForgets ==
    ASSUME LoginInv, UNCHANGED creq,
           (\E i \in InitReq : Issues(i) \/ Asks(i)) \/ Expires \/ Rests
    PROVE  \A c \in InitReq : Forgets(c)
<1>0. SingleUseInv /\ TypeOK
  BY DEF LoginInv, SingleUseInv
<1> SUFFICES ASSUME NEW c \in InitReq PROVE Forgets(c)
  OBVIOUS
<1>1. \A t \in CompReq :
        /\ Wins(t, c)' <=> Wins(t, c)
        /\ RequestGrant(t)' = RequestGrant(t)
        /\ Succeeded(t) /\ creq[t].event.cid = c => Wins(t, c)'
  BY DEF Wins, Winner, Succeeded, RequestGrant
<1> SUFFICES
      /\ chal'[c].state = "redeemed" => chal[c].state = "redeemed" /\ RowGrant(c)' = RowGrant(c)
      /\ Written(c) => Written(c)' /\ (chal'[c].state = "issued" => chal[c].state = "issued")
  BY <1>1 DEF Forgets
<1>2. ASSUME NEW i \in InitReq, Issues(i)
      PROVE  /\ chal'[c].state = "redeemed" =>
                   chal[c].state = "redeemed" /\ RowGrant(c)' = RowGrant(c)
             /\ Written(c) => /\ Written(c)'
                              /\ chal'[c].state = "issued" => chal[c].state = "issued"
  <2>1. CASE c = i
    <3>1. ~Written(c) /\ chal'[c].state = "issued"
      BY <1>2, <2>1 DEF Issues, Written, NewChallenge, NoChallenge
    <3> QED BY <3>1
  <2>2. CASE c # i
    BY <1>2, <2>2 DEF Issues, Written, NoChallenge, RowGrant
  <2> QED BY <2>1, <2>2
<1>3. ASSUME UNCHANGED chal, Written(c) => Written(c)'
      PROVE  /\ chal'[c].state = "redeemed" =>
                   chal[c].state = "redeemed" /\ RowGrant(c)' = RowGrant(c)
             /\ Written(c) => /\ Written(c)'
                              /\ chal'[c].state = "issued" => chal[c].state = "issued"
  BY <1>3 DEF RowGrant
<1>4. ASSUME Expires
      PROVE  /\ chal'[c].state = "redeemed" =>
                   chal[c].state = "redeemed" /\ RowGrant(c)' = RowGrant(c)
             /\ Written(c) => /\ Written(c)'
                              /\ chal'[c].state = "issued" => chal[c].state = "issued"
  <2>1. chal[c] \in ChallengeRecord
    BY <1>0 DEF TypeOK
  <2>2. chal'[c] = chal[c] \/ chal'[c].state = "expired"
    BY <1>4, <2>1 DEF Expires, ChallengeRecord
  <2> QED BY <1>4, <2>2 DEF Expires, RowGrant, Written
<1> QED BY <1>2, <1>3, <1>4 DEF Asks, Rests, Written

\* The redemption is the grant.
LEMMA RedeemGrants ==
    ASSUME LoginInv, SingleUseInv', NEW r \in CompReq, CompleteStep(r), Redeems(r)
    PROVE  Login!Grant(creq[r].event.cid, creq[r].event, creq[r].sid)
           /\ creq[r].event.cid \in InitReq /\ creq[r].event \in Event /\ creq[r].sid \in CompReq
<1>0. /\ SingleUseInv /\ TypeOK /\ SessionIds /\ ProofChecked
      /\ \A t \in CompReq : t # r => creq'[t] = creq[t]
      /\ UNCHANGED ireq /\ creq[r].pc = "redeem"
  BY CompleteEffect DEF LoginInv, SingleUseInv, Redeems
<1>1. PICK c \in InitReq, e \in Event, s \in CompReq :
        c = e.cid /\ e = creq[r].event /\ s = creq[r].sid /\ e # None /\ s # None
  <2>1. /\ creq[r].event # None /\ creq[r].event \in Opt(Event)
        /\ creq[r].sid # None /\ creq[r].sid \in Opt(CompReq)
    BY <1>0 DEF SingleUseInv, LocalsHeld, HasLocals, TypeOK, CompRequest
  <2> QED BY <2>1, OptSome, EventCid
<1>2. /\ chal[c].state = "issued" /\ chal[c] \in ChallengeRecord
      /\ chal'[c].state = "redeemed" /\ chal'[c].event = e /\ chal'[c].sid = s
      /\ \A d \in InitReq : d # c => chal'[d] = chal[d]
  BY <1>0, <1>1 DEF Redeems, TypeOK, Redeemed, ChallengeRecord
<1>3. Written(c) /\ OwnerOf(c) = e.signer /\ e.matches
  BY <1>0, <1>1 DEF SingleUseInv, LoadedInTime, InTime, ProofChecked, PastLoad, OwnerOf
<1>4. GrantOf(c) = None
  <2>1. \A t \in CompReq : ~Wins(t, c)
    BY <1>2 DEF LoginInv, SingleUseInv, WinnersAgree, Backed, Wins, Present
  <2> QED BY <1>0, <1>1, <1>2, <2>1, GrantFacts
<1>5. GrantOf(c)' = [event |-> e, sid |-> s]
  BY <1>1, <1>2, GrantFactsNext DEF RowGrant
<1>6. ASSUME NEW d \in InitReq, d # c PROVE GrantOf(d)' = GrantOf(d)
  <2>1. \A t \in CompReq : /\ Wins(t, d) <=> Wins(t, d)'
                           /\ Wins(t, d) => RequestGrant(t)' = RequestGrant(t)
    <3>1. ~Wins(r, d) /\ ~Wins(r, d)'
      BY <1>1, <1>6 DEF Wins, Redeems, Keeps
    <3> QED BY <1>0, <3>1 DEF Wins, Winner, Succeeded, RequestGrant
  <2> QED BY <1>0, <1>2, <1>6, <2>1, GrantSame
<1>7. ASSUME NEW d \in InitReq, GrantOf(d) # None PROVE GrantOf(d).sid # s
  <2>1. Names(s, c)
    BY <1>1 DEF Names
  <2>2. GrantOf(d).sid = s => Names(s, d)
    <3>1. CASE chal[d].state = "redeemed"
      BY <1>0, <3>1, GrantFacts DEF RowGrant, Names
    <3>2. CASE \E t \in CompReq : Wins(t, d)
      <4>1. PICK t \in CompReq : Wins(t, d)
        BY <3>2
      <4>2. creq[t].event # None
        BY <4>1 DEF LoginInv, SingleUseInv, WinnersAgree, Backed, Wins
      <4> QED BY <1>0, <4>1, <4>2, GrantFacts DEF RequestGrant, Names, Wins
    <3> QED BY <1>0, <1>7, <3>1, <3>2, GrantFacts
  <2>3. d # c
    BY <1>4, <1>7
  <2> QED BY <1>0, <1>1, <2>1, <2>2, <2>3 DEF SessionIds
<1>8. \A d \in InitReq : OwnerOf(d)' = OwnerOf(d) /\ (IsClosed(d)' <=> IsClosed(d))
  BY <1>0, <1>2 DEF OwnerOf, IsClosed, Written
<1>9. ~IsClosed(c)
  BY <1>2 DEF IsClosed
<1>10. \A t \in CompReq : AnswerOf(t)' = AnswerOf(t)
  <2>1. ~Succeeds(r)
    BY DEF Redeems, Succeeds
  <2> QED BY <2>1, AnswersKept
<1>11. [d \in InitReq |-> GrantOf(d)'] =
       [[d \in InitReq |-> GrantOf(d)] EXCEPT ![c] = [event |-> e, sid |-> s]]
  BY <1>1, <1>5, <1>6
<1>12. {d \in InitReq : IsClosed(d)'} = {d \in InitReq : IsClosed(d)}
  BY <1>8
<1> QED BY <1>1, <1>3, <1>4, <1>7, <1>8, <1>9, <1>10, <1>11, <1>12 DEF Login!Grant

\* The success is the answer.
LEMMA SuccessAnswers ==
    ASSUME LoginInv, SingleUseInv', NEW r \in CompReq, CompleteStep(r), Succeeds(r)
    PROVE  Login!Answer(r, creq[r].event.cid) /\ creq[r].event.cid \in InitReq
<1> DEFINE c == creq[r].event.cid
<1>0. /\ SingleUseInv /\ TypeOK /\ UNCHANGED <<ireq, chal>>
      /\ \A t \in CompReq : t # r => creq'[t] = creq[t]
      /\ creq[r].pc \in {"log", "fetch"} /\ ~Succeeded(r) /\ Succeeded(r)'
      /\ creq'[r].event = creq[r].event /\ creq'[r].sid = creq[r].sid
  BY CompleteEffect DEF LoginInv, SingleUseInv, LocalsInOrder, Succeeds, Succeeded
<1>1. /\ creq[r].event \in Event /\ c \in InitReq /\ creq[r].sid \in CompReq
  <2>1. /\ creq[r].event # None /\ creq[r].event \in Opt(Event)
        /\ creq[r].sid # None /\ creq[r].sid \in Opt(CompReq)
    BY <1>0 DEF SingleUseInv, LocalsHeld, HasLocals, TypeOK, CompRequest
  <2> QED BY <2>1, OptSome, EventCid
<1>2. GrantOf(c) = RequestGrant(r) /\ GrantOf(c) # None
  BY <1>0, <1>1, GrantFacts, GrantAssumption DEF Wins, Winner, RequestGrant
<1>3. ASSUME NEW d \in InitReq PROVE GrantOf(d)' = GrantOf(d)
  <2>1. \A t \in CompReq : /\ Wins(t, d) <=> Wins(t, d)'
                           /\ RequestGrant(t)' = RequestGrant(t)
    BY <1>0 DEF Wins, Winner, Succeeded, RequestGrant
  <2> QED BY <1>0, <2>1, GrantSame
<1>4. AnswerOf(r) = None
      /\ AnswerOf(r)' = [cid |-> c, event |-> GrantOf(c).event, sid |-> GrantOf(c).sid]
  BY <1>0, <1>2 DEF AnswerOf, RequestGrant
<1>5. \A t \in CompReq : t # r => AnswerOf(t)' = AnswerOf(t)
  BY <1>0 DEF AnswerOf, Succeeded
<1>6. \A d \in InitReq : OwnerOf(d)' = OwnerOf(d) /\ (IsClosed(d)' <=> IsClosed(d))
  BY <1>0 DEF OwnerOf, IsClosed, Written
<1>7. {d \in InitReq : IsClosed(d)'} = {d \in InitReq : IsClosed(d)}
  BY <1>6
<1>8. [t \in CompReq |-> AnswerOf(t)'] =
      [[t \in CompReq |-> AnswerOf(t)] EXCEPT
         ![r] = [cid |-> c, event |-> GrantOf(c).event, sid |-> GrantOf(c).sid]]
  BY <1>4, <1>5
<1> HIDE DEF c
<1> QED BY <1>1, <1>2, <1>3, <1>4, <1>6, <1>7, <1>8 DEF Login!Answer, c

\* Every step of login is a step of OneTimeLogin.
LEMMA LoginStep ==
    ASSUME LoginInv, SingleUseInv', [Next]_vars PROVE Login!LoginNext
<1>0. SingleUseInv /\ TypeOK /\ OwnedRows
  BY DEF LoginInv, SingleUseInv
<1>1. ASSUME UNCHANGED ireq, \A c \in InitReq : Forgets(c),
             \A r \in CompReq : AnswerOf(r)' = AnswerOf(r)
      PROVE  Login!LoginNext
  <2>1. Login!Forget
    BY <1>0, <1>1, ForgetStep
  <2>2. [c \in InitReq |-> OwnerOf(c)'] = [c \in InitReq |-> OwnerOf(c)]
    BY <1>1 DEF OwnerOf, Written
  <2> QED BY <2>1, <2>2 DEF Login!LoginNext, Login!Close
<1>2. ASSUME NEW r \in CompReq, CompleteStep(r) PROVE Login!LoginNext
  <2>1. CASE Redeems(r)
    BY <1>2, <2>1, RedeemGrants DEF Login!LoginNext
  <2>2. CASE Succeeds(r)
    BY <1>2, <2>2, SuccessAnswers DEF Login!LoginNext
  <2>3. CASE ~Redeems(r) /\ ~Succeeds(r)
    BY <1>0, <1>1, <1>2, <2>3, CompleteForgets, AnswersKept, CompleteEffect
  <2> QED BY <2>1, <2>2, <2>3
<1>3. ASSUME \/ \E i \in InitReq : InitStep(i)
             \/ \E s \in CompReq : Logout(s)
             \/ \E p \in Suspendable : Operator(p)
             \/ Tick \/ MarkExpired \/ GuardedRead \/ UNCHANGED vars
      PROVE  Login!LoginNext
  <2>1. /\ UNCHANGED creq
        /\ (\E i \in InitReq : Issues(i) \/ Asks(i)) \/ Expires \/ Rests
    BY <1>0, <1>3, OtherEffect
  <2>2. (\A c \in InitReq : Forgets(c)) /\ \A r \in CompReq : AnswerOf(r)' = AnswerOf(r)
    BY <2>1, OtherForgets DEF AnswerOf, Succeeded
  <2>3. Login!Forget
    BY <1>0, <2>2, ForgetStep
  <2>4. CASE Expires \/ Rests
    BY <1>1, <2>2, <2>4 DEF Expires, Rests
  <2>5. ASSUME NEW i \in InitReq, Asks(i) PROVE Login!LoginNext
    <3>1. [c \in InitReq |-> OwnerOf(c)'] = [c \in InitReq |-> OwnerOf(c)]
      BY <2>5 DEF OwnerOf, Written, Asks
    <3> QED BY <2>3, <3>1 DEF Login!LoginNext, Login!Close
  <2>6. ASSUME NEW i \in InitReq, Issues(i) PROVE Login!LoginNext
    <3> DEFINE p == ireq[i].npub
    <3>1. p \in Principal /\ OwnerOf(i) = None /\ OwnerOf(i)' = p
      BY <1>0, <2>6 DEF OwnedRows, Issues, Asked, OwnerOf, Written
    <3>2. \A c \in InitReq : c # i => OwnerOf(c)' = OwnerOf(c)
      BY <2>6 DEF Issues, OwnerOf, Written
    <3>3. [c \in InitReq |-> OwnerOf(c)'] = [[c \in InitReq |-> OwnerOf(c)] EXCEPT ![i] = p]
      BY <3>1, <3>2
    <3>4. Login!Issue(i, p)
      BY <2>3, <3>1, <3>3 DEF Login!Issue
    <3> QED BY <3>1, <3>4 DEF Login!LoginNext
  <2> QED BY <2>1, <2>4, <2>5, <2>6
<1> QED BY <1>2, <1>3 DEF Next

\* The login handlers implement the one-time login, for any number of challenges and
\* requests over either store: whatever races, is swept, fails half way or is retried, a
\* challenge is granted once, to a proof by the principal it was issued to, for a session
\* of its own, and whoever is told of success is told of that grant.
THEOREM Refines == Spec => RefinesLogin
<1>1. Init => Login!LoginInit
  <2> SUFFICES ASSUME Init PROVE Login!LoginInit
    OBVIOUS
  <2>1. \A c \in InitReq : ~Written(c) /\ chal[c] = NoChallenge
    BY DEF Init, Written
  <2>2. \A r \in CompReq : ~Winner(r)
    BY DEF Init, Winner, Succeeded, NoCompRequest
  <2>3. \A c \in InitReq : OwnerOf(c) = None /\ GrantOf(c) = None /\ ~IsClosed(c)
    BY <2>1, <2>2 DEF OwnerOf, GrantOf, IsClosed, NoChallenge
  <2>4. \A r \in CompReq : AnswerOf(r) = None
    BY <2>2 DEF AnswerOf, Winner
  <2> QED BY <2>3, <2>4 DEF Login!LoginInit
<1>2. LoginInv /\ SingleUseInv' /\ [Next]_vars => [Login!LoginNext]_(Login!loginVars)
  BY LoginStep
<1> QED
  BY <1>1, <1>2, LoginInductive, SingleUseInductive, PTL DEF Spec, RefinesLogin, Login!LoginSpec

-----------------------------------------------------------------------------
(* The failure budget.                                                       *)

\* A request failed on a challenge in a way that counts, if its key is the owner's.
FailedOn(r, c) ==
    /\ creq[r].pc = "done" /\ creq[r].code \in SpendingCode \cup {"thrown"}
    /\ creq[r].event # None /\ creq[r].event.cid = c

\* Only the owner gets as far as failing in that way, and only on a challenge that exists
\* or did.
OwnersFail ==
    \A r \in CompReq, c \in InitReq :
        /\ creq[r].pc = "spend" =>
              /\ creq[r].code \in SpendingCode
              /\ creq[r].event.cid = c => /\ Written(c)
                                          /\ creq[r].event.signer = ireq[c].npub
        /\ FailedOn(r, c) => Written(c)

Counted(c) ==
    MaxFailures > 0 /\ chal[c].state = "issued" =>
        /\ IsFiniteSet(OwnFailures(c))
        /\ chal[c].failures = Cardinality(OwnFailures(c))
        /\ chal[c].failures < MaxFailures

BudgetInv == OwnersFail /\ \A c \in InitReq : Counted(c)

\* Only a request that fails on an open challenge changes who failed.
LEMMA OwnersFailStep ==
    ASSUME LoginInv, OwnersFail, [Next]_vars PROVE OwnersFail'
<1>0. SingleUseInv /\ TypeOK /\ OwnedRows
  BY DEF LoginInv, SingleUseInv
<1>1. \A c \in InitReq : Written(c) => Written(c)' /\ ireq'[c].npub = ireq[c].npub
  BY <1>0, OwnerKept
<1>2. ASSUME NEW r \in CompReq, creq'[r] = creq[r], NEW c \in InitReq
      PROVE  /\ creq'[r].pc = "spend" =>
                   /\ creq'[r].code \in SpendingCode
                   /\ creq'[r].event.cid = c => /\ Written(c)'
                                                /\ creq'[r].event.signer = ireq'[c].npub
             /\ FailedOn(r, c)' => Written(c)'
  BY <1>1, <1>2 DEF OwnersFail, FailedOn
<1>3. ASSUME NEW r \in CompReq, CompleteStep(r) PROVE OwnersFail'
  <2>1. /\ \A t \in CompReq : t # r => creq'[t] = creq[t]
        /\ creq[r].pc \notin {"idle", "done"} => creq[r].event.cid \in InitReq
    BY <1>0, <1>3, CompleteEffect
  <2>2. ASSUME NEW c \in InitReq
        PROVE  /\ creq'[r].pc = "spend" =>
                     /\ creq'[r].code \in SpendingCode
                     /\ creq'[r].event.cid = c => /\ Written(c)'
                                                  /\ creq'[r].event.signer = ireq'[c].npub
               /\ FailedOn(r, c)' => Written(c)'
    <3>1. CASE Fails(r)
      <4>1. ASSUME creq[r].event.cid = c PROVE Written(c) /\ creq[r].event.signer = ireq[c].npub
        <5>1. Present(c) /\ chal[c].npub = creq[r].event.signer
          BY <3>1, <4>1 DEF Fails, ChallengeCheck, SpendingCode, Present
        <5> QED BY <1>0, <5>1 DEF OwnedRows, SingleUseInv, FreshIds, NoChallenge, Present
      <4> QED BY <1>1, <3>1, <4>1 DEF Fails, FailedOn
    <3>2. CASE Spends(r)
      BY <1>1, <3>2 DEF Spends, FailedOn, OwnersFail
    <3>3. CASE creq'[r].pc \notin {"spend", "done"}
      BY <3>3 DEF FailedOn
    <3>4. CASE Ends(r)
      BY <3>4 DEF Ends, FailedOn
    <3>5. CASE Succeeds(r)
      BY <3>5 DEF Succeeds, FailedOn, SpendingCode
    <3> QED BY <1>0, <1>3, <3>1, <3>2, <3>3, <3>4, <3>5, CompleteEffect
               DEF Effect, Begins, Passes, Advances, Creates, Joins, Retries, Redeems, PastLoad
  <2> QED BY <1>2, <2>1, <2>2 DEF OwnersFail
<1> QED BY <1>0, <1>2, <1>3, OtherEffect DEF Next, OwnersFail

\* A row that is open after a step that leaves its owner, its count and those who failed
\* on it alone was open before, with the same failures.
LEMMA CountKept ==
    ASSUME NEW c \in InitReq, Counted(c),
           chal'[c].state = "issued" =>
              /\ chal[c].state = "issued"
              /\ chal'[c].npub = chal[c].npub /\ chal'[c].failures = chal[c].failures,
           \A r \in CompReq : FailedOn(r, c)' <=> FailedOn(r, c),
           \A r \in CompReq : FailedOn(r, c) => creq'[r].event = creq[r].event
    PROVE  Counted(c)'
<1> SUFFICES ASSUME MaxFailures > 0, chal'[c].state = "issued"
             PROVE  OwnFailures(c)' = OwnFailures(c)
  BY DEF Counted
<1>1. OwnFailures(c) = {r \in CompReq : FailedOn(r, c) /\ creq[r].event.signer = chal[c].npub}
  BY DEF OwnFailures, FailedOn
<1>2. OwnFailures(c)' =
      {r \in CompReq : FailedOn(r, c)' /\ creq'[r].event.signer = chal'[c].npub}
  BY DEF OwnFailures, FailedOn
<1> QED BY <1>1, <1>2

\* recordFailure counts one failure, the one that ends here.
LEMMA CountStep ==
    ASSUME LoginInv, OwnersFail, NEW c \in InitReq, Counted(c), [Next]_vars PROVE Counted(c)'
<1>0. SingleUseInv /\ TypeOK /\ OwnedRows /\ chal[c] \in ChallengeRecord
  BY DEF LoginInv, SingleUseInv, TypeOK
<1>1. ASSUME UNCHANGED creq,
             chal'[c].state = "issued" =>
                /\ chal[c].state = "issued"
                /\ chal'[c].npub = chal[c].npub /\ chal'[c].failures = chal[c].failures
      PROVE  Counted(c)'
  <2>1. \A r \in CompReq : (FailedOn(r, c)' <=> FailedOn(r, c)) /\ creq'[r].event = creq[r].event
    BY <1>1 DEF FailedOn
  <2> QED BY <1>1, <2>1, CountKept
<1>2. ASSUME NEW r \in CompReq, CompleteStep(r) PROVE Counted(c)'
  <2> DEFINE d == creq[r].event.cid
  <2>1. /\ \A t \in CompReq : t # r => creq'[t] = creq[t]
        /\ creq[r].pc \notin {"idle", "done"} => d \in InitReq
    BY <1>0, <1>2, CompleteEffect
  <2>2. \A t \in CompReq : t # r =>
          (FailedOn(t, c)' <=> FailedOn(t, c)) /\ creq'[t].event = creq[t].event
    BY <2>1 DEF FailedOn
  <2>3. ~FailedOn(r, c)
    BY <1>0, <1>2, CompleteEffect
       DEF Effect, Ends, Begins, Passes, Fails, Spends, Advances, Creates, Joins, Retries,
           Redeems, Succeeds, FailedOn, PastLoad
  <2>4. ASSUME ~FailedOn(r, c)',
               chal'[c].state = "issued" =>
                  /\ chal[c].state = "issued"
                  /\ chal'[c].npub = chal[c].npub /\ chal'[c].failures = chal[c].failures
        PROVE  Counted(c)'
    BY <2>2, <2>3, <2>4, CountKept
  <2>5. CASE Ends(r) \/ Succeeds(r)
    BY <2>4, <2>5 DEF Ends, Succeeds, FailedOn, SpendingCode
  <2>6. CASE Begins(r) \/ Passes(r) \/ Fails(r) \/ Advances(r) \/ Creates(r) \/ Joins(r) \/ Retries(r)
    BY <2>4, <2>6 DEF Begins, Passes, Fails, Advances, Creates, Joins, Retries, FailedOn, PastLoad
  <2>7. CASE Redeems(r)
    <3>1. chal'[c].state = "issued" => chal'[c] = chal[c]
      BY <1>0, <2>1, <2>7 DEF Redeems, Redeemed, TypeOK, ChallengeRecord
    <3> QED BY <2>4, <2>7, <3>1 DEF Redeems, FailedOn
  <2>8. CASE Spends(r)
    <3>0. d \in InitReq /\ creq[r].pc = "spend" /\ creq'[r].event = creq[r].event
      BY <2>1, <2>8 DEF Spends
    <3>1. CASE d # c
      <4>1. chal'[c] = chal[c]
        BY <1>0, <2>8, <3>0, <3>1 DEF Spends, TypeOK
      <4>2. ~FailedOn(r, c)'
        BY <3>0, <3>1 DEF FailedOn
      <4> QED BY <2>4, <4>1, <4>2
    <3>2. CASE d = c
      <4> SUFFICES ASSUME MaxFailures > 0, chal'[c].state = "issued"
                   PROVE  /\ IsFiniteSet(OwnFailures(c)')
                          /\ chal'[c].failures = Cardinality(OwnFailures(c)')
                          /\ chal'[c].failures < MaxFailures
        BY DEF Counted
      <4>1. chal[c].state = "issued" /\ chal'[c] = Spent(chal[c])
        BY <1>0, <2>8, <3>2 DEF Spends, TypeOK
      <4>2. /\ chal'[c].failures = chal[c].failures + 1 /\ chal'[c].npub = chal[c].npub
            /\ ~(chal[c].failures + 1 >= MaxFailures) /\ chal[c].failures \in Nat
        BY <1>0, <4>1 DEF Spent, ChallengeRecord
      <4>3. creq[r].event # None /\ creq[r].event.signer = chal[c].npub
        BY <1>0, <3>0, <3>2, <4>1
           DEF OwnersFail, OwnedRows, Present, SingleUseInv, LocalsHeld, HasLocals
      <4>4. FailedOn(r, c)'
        BY <2>8, <3>0, <3>2, <4>3 DEF FailedOn, OwnersFail, Spends
      <4>5. OwnFailures(c) = {t \in CompReq : FailedOn(t, c) /\ creq[t].event.signer = chal[c].npub}
        BY DEF OwnFailures, FailedOn
      <4>6. OwnFailures(c)' =
            {t \in CompReq : FailedOn(t, c)' /\ creq'[t].event.signer = chal'[c].npub}
        BY DEF OwnFailures, FailedOn
      <4>7. OwnFailures(c)' = OwnFailures(c) \cup {r}
        BY <2>2, <2>3, <3>0, <4>2, <4>3, <4>4, <4>5, <4>6
      <4>8. r \notin OwnFailures(c)
        BY <2>3, <4>5
      <4>9. /\ IsFiniteSet(OwnFailures(c)) /\ chal[c].failures = Cardinality(OwnFailures(c))
        BY <4>1 DEF Counted
      <4>10. /\ IsFiniteSet(OwnFailures(c)')
             /\ Cardinality(OwnFailures(c)') = Cardinality(OwnFailures(c)) + 1
        BY <4>7, <4>8, <4>9, FS_AddElement
      <4>11. MaxFailures \in Nat
        BY LimitAssumption
      <4> QED BY <4>2, <4>9, <4>10, <4>11
    <3> QED BY <3>1, <3>2
  <2> QED BY <1>0, <1>2, <2>5, <2>6, <2>7, <2>8, CompleteEffect DEF Effect
<1>3. ASSUME NEW i \in InitReq, Issues(i), UNCHANGED creq PROVE Counted(c)'
  <2>1. CASE c = i
    <3>1. ~Written(c) /\ chal'[c].failures = 0
      BY <1>3, <2>1 DEF Issues, Written, NewChallenge, NoChallenge
    <3>2. \A r \in CompReq : ~FailedOn(r, c)
      BY <3>1 DEF OwnersFail
    <3>3. OwnFailures(c)' = {}
      BY <1>3, <3>2 DEF OwnFailures, FailedOn
    <3>4. Cardinality(OwnFailures(c)') = 0 /\ IsFiniteSet(OwnFailures(c)')
      BY <3>3, FS_EmptySet
    <3>5. MaxFailures \in Nat
      BY LimitAssumption
    <3> QED BY <3>1, <3>4, <3>5 DEF Counted
  <2>2. CASE c # i
    BY <1>1, <1>3, <2>2 DEF Issues, NoChallenge
  <2> QED BY <2>1, <2>2
<1>4. ASSUME Expires, UNCHANGED creq PROVE Counted(c)'
  <2>1. chal'[c].state = "issued" => chal'[c] = chal[c]
    BY <1>0, <1>4 DEF Expires, ChallengeRecord
  <2> QED BY <1>1, <1>4, <2>1
<1>5. ASSUME UNCHANGED <<chal, creq>> PROVE Counted(c)'
  BY <1>1, <1>5
<1> QED BY <1>0, <1>2, <1>3, <1>4, <1>5, OtherEffect DEF Next, Asks, Rests

\* The failure budget, for any number of challenges, requests and failures racing on one:
\* a challenge still open has counted each failure of its own principal once and no one
\* else's, and has room for another.
THEOREM Budget == Spec => []BudgetCountsOwnFailures
<1>1. Init => BudgetInv
  BY DEF Init, BudgetInv, OwnersFail, Counted, FailedOn, NoChallenge, NoCompRequest
<1>2. LoginInv /\ BudgetInv /\ [Next]_vars => BudgetInv'
  BY OwnersFailStep, CountStep DEF BudgetInv
<1>3. BudgetInv => BudgetCountsOwnFailures
  BY DEF BudgetInv, Counted, BudgetCountsOwnFailures
<1> QED BY <1>1, <1>2, <1>3, LoginInductive, PTL DEF Spec
=============================================================================
