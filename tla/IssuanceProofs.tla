--------------------------- MODULE IssuanceProofs ---------------------------
(***************************************************************************)
(* Proofs about challenge issuance, for every number of requests,          *)
(* addresses and principals and every setting: the caps on outstanding     *)
(* challenges are overshot by the requests in flight at most, the rate     *)
(* limiter bounds what an identifier gets through, and only an address     *)
(* that spent its own budget is refused.                                   *)
(***************************************************************************)
EXTENDS Issuance, CompletionProofs

\* Issuance is Completion with the limiter in front: every step of it is one of
\* Completion's, or leaves Completion alone.
LEMMA IssuanceSteps == [IssuanceNext]_<<vars, limiterVars>> => [Next]_vars
<1> SUFFICES ASSUME [IssuanceNext]_<<vars, limiterVars>> PROVE [Next]_vars
  OBVIOUS
<1>1. ASSUME NEW i \in InitReq, Admit(i) \/ Refuse(i) PROVE InitStep(i)
  BY <1>1 DEF Admit, Refuse, InitStep
<1>2. ASSUME NEW i \in InitReq, InitCount(i) \/ InitCountRest(i) \/ InitCreate(i) \/ InitFail(i)
      PROVE  InitStep(i)
  BY <1>2 DEF InitStep
<1>3. ASSUME NEW n \in Other, Elsewhere(n) PROVE UNCHANGED vars
  BY <1>3 DEF Elsewhere
<1> QED BY <1>1, <1>2, <1>3 DEF IssuanceNext, Next

\* ... so what holds of login holds behind the limiter.
THEOREM IssuanceIsLogin == IssuanceSpec => Spec
<1>1. IssuanceInit => Init
  BY DEF IssuanceInit
<1> QED BY <1>1, IssuanceSteps, PTL DEF IssuanceSpec, Spec

-----------------------------------------------------------------------------
(* Counting.                                                                 *)

\* A part of a finite set is no larger.
LEMMA Part ==
    ASSUME NEW S, NEW T, IsFiniteSet(T), S \subseteq T
    PROVE  IsFiniteSet(S) /\ Cardinality(S) \in Nat /\ Cardinality(T) \in Nat
           /\ Cardinality(S) <= Cardinality(T)
BY FS_Subset, FS_CardinalityType

\* A set covered by two is no larger than they are together.
LEMMA Cover ==
    ASSUME NEW S, NEW A, NEW B, IsFiniteSet(A), IsFiniteSet(B), S \subseteq A \cup B
    PROVE  /\ IsFiniteSet(S) /\ Cardinality(S) \in Nat
           /\ Cardinality(A) \in Nat /\ Cardinality(B) \in Nat
           /\ Cardinality(S) <= Cardinality(A) + Cardinality(B)
<1>1. IsFiniteSet(A \cup B) /\ IsFiniteSet(A \cap B)
      /\ Cardinality(A \cup B) = Cardinality(A) + Cardinality(B) - Cardinality(A \cap B)
  BY FS_Union, FS_Intersection
<1>2. /\ Cardinality(A) \in Nat /\ Cardinality(B) \in Nat /\ Cardinality(A \cap B) \in Nat
      /\ Cardinality(A \cup B) \in Nat
  BY <1>1, FS_CardinalityType
<1>3. IsFiniteSet(S) /\ Cardinality(S) \in Nat /\ Cardinality(S) <= Cardinality(A \cup B)
  BY <1>1, Part
<1> QED BY <1>1, <1>2, <1>3

-----------------------------------------------------------------------------
(* The caps.                                                                 *)

\* A row that is open after a step was open before it, for as long, for the same
\* principal and address, or belongs to the init request that wrote it.
LEMMA OpenRows ==
    ASSUME SingleUseInv, [Next]_vars, NEW c \in InitReq, chal'[c].state = "issued"
    PROVE  \/ /\ chal[c].state = "issued" /\ chal'[c].exp = chal[c].exp
              /\ chal'[c].npub = chal[c].npub /\ chal'[c].ip = chal[c].ip
           \/ /\ ireq[c].pc = "create"
              /\ chal'[c].npub = ireq[c].npub /\ chal'[c].ip = ireq[c].ip
<1>0. TypeOK /\ chal[c] \in ChallengeRecord
  BY DEF SingleUseInv, TypeOK
<1>1. CASE chal'[c] = chal[c]
  BY <1>1
<1>2. ASSUME NEW r \in CompReq, CompleteStep(r)
      PROVE  /\ chal[c].state = "issued" /\ chal'[c].exp = chal[c].exp
             /\ chal'[c].npub = chal[c].npub /\ chal'[c].ip = chal[c].ip
  <2>1. CASE Spends(r) \/ Redeems(r)
    <3>1. creq[r].event.cid \in InitReq
      BY <1>2, <2>1, CompleteEffect DEF Spends, Redeems
    <3>2. \/ chal'[c] = chal[c]
          \/ chal[c].state = "issued" /\ chal'[c] = Spent(chal[c])
          \/ chal[c].state = "issued" /\ chal'[c] = Redeemed(chal[c], creq[r])
      BY <1>0, <2>1, <3>1 DEF Spends, Redeems, TypeOK
    <3> QED BY <1>0, <3>2 DEF Spent, Redeemed, ChallengeRecord
  <2> QED BY <1>1, <1>2, <2>1, CompleteEffect
             DEF Effect, Ends, Begins, Passes, Fails, Advances, Creates, Joins, Retries, Succeeds
<1>3. ASSUME NEW i \in InitReq, Issues(i), c = i
      PROVE  /\ ireq[c].pc = "create"
             /\ chal'[c].npub = ireq[c].npub /\ chal'[c].ip = ireq[c].ip
  BY <1>3 DEF Issues, NewChallenge, NoChallenge
<1>4. ASSUME NEW i \in InitReq, Issues(i), c # i PROVE chal'[c] = chal[c]
  BY <1>4 DEF Issues, NoChallenge
<1>5. CASE Expires
  BY <1>0, <1>1, <1>5 DEF Expires, ChallengeRecord
<1> QED BY <1>0, <1>1, <1>2, <1>3, <1>4, <1>5, OtherEffect DEF Next, Asks, Rests

\* What an init request's segment does to the counts it may have passed.
LEMMA InitMoves ==
    ASSUME TypeOK, NEW i \in InitReq, InitStep(i)
    PROVE  /\ \A j \in InitReq : j # i => ireq'[j] = ireq[j]
           /\ UNCHANGED clock /\ ~Written(i)
           /\ \/ ireq[i].pc = "idle" /\ ireq'[i].pc = "refused"
              \/ /\ ireq[i].pc = "idle" /\ ireq'[i].pc = "count" /\ ireq'[i].now = clock
                 /\ Cardinality(InFlight) < MaxInFlight
              \/ /\ ireq[i].pc \in {"count", "count_ip", "count_npub", "create"}
                 /\ ireq'[i].npub = ireq[i].npub /\ ireq'[i].ip = ireq[i].ip
                 /\ ireq'[i].now = ireq[i].now
                 /\ ireq'[i].pc \in {"create", "count_npub", "count_ip", "refused", "issued", "lost"}
                 /\ ireq[i].pc = "create" => ireq'[i].pc \in {"refused", "issued", "lost"}
                 /\ ireq'[i].pc \in {"create", "count_npub"} =>
                       \/ ireq[i].pc = "count_npub"
                       \/ ~ExceedsIpCap(ireq[i]) /\ UNCHANGED chal
                 /\ ireq'[i].pc \in {"create", "count_ip"} =>
                       \/ ireq[i].pc = "count_ip"
                       \/ ~ExceedsNpubCap(ireq[i]) /\ UNCHANGED chal
<1>0. ireq[i] \in InitRequest
  BY DEF TypeOK
<1>1. ASSUME NEW pc \in InitPc, ireq' = [ireq EXCEPT ![i].pc = pc]
      PROVE  /\ \A j \in InitReq : j # i => ireq'[j] = ireq[j]
             /\ ireq'[i].pc = pc /\ ireq'[i].npub = ireq[i].npub /\ ireq'[i].ip = ireq[i].ip
             /\ ireq'[i].now = ireq[i].now
  BY <1>0, <1>1 DEF TypeOK, InitRequest
<1>p. {"refused", "create", "count_ip", "count_npub", "issued", "lost"} \subseteq InitPc
  BY DEF InitPc
<1>2. CASE InitRefuse(i)
  BY <1>1, <1>2, <1>p DEF InitRefuse, Written
<1>3. CASE InitBegin(i)
  <2>1. PICK p \in Principal, ip \in Opt(Ip) :
          ireq' = [ireq EXCEPT ![i] = [pc |-> "count", npub |-> p, ip |-> ip, now |-> clock]]
    BY <1>3 DEF InitBegin
  <2>2. /\ ireq'[i].pc = "count" /\ ireq'[i].now = clock
        /\ \A j \in InitReq : j # i => ireq'[j] = ireq[j]
    BY <2>1 DEF TypeOK
  <2> QED BY <1>3, <2>2 DEF InitBegin, Written
<1>4. CASE InitCount(i)
  <2>0. ireq[i].pc = "count" /\ UNCHANGED <<chal, clock>>
    BY <1>4 DEF InitCount
  <2>1. PICK pc \in {"refused", "create", "count_ip", "count_npub"} :
          /\ ireq' = [ireq EXCEPT ![i].pc = pc]
          /\ pc \in {"create", "count_npub"} => ~ExceedsIpCap(ireq[i])
          /\ pc \in {"create", "count_ip"} => ~ExceedsNpubCap(ireq[i])
    BY <1>4 DEF InitCount
  <2> QED BY <1>1, <1>p, <2>0, <2>1 DEF Written
<1>5. CASE InitCountRest(i)
  <2>0. ireq[i].pc \in {"count_ip", "count_npub"} /\ UNCHANGED <<chal, clock>>
    BY <1>5 DEF InitCountRest
  <2>1. PICK pc \in {"refused", "create"} :
          /\ ireq' = [ireq EXCEPT ![i].pc = pc]
          /\ pc = "create" /\ ireq[i].pc = "count_ip" => ~ExceedsIpCap(ireq[i])
          /\ pc = "create" /\ ireq[i].pc = "count_npub" => ~ExceedsNpubCap(ireq[i])
    BY <1>5 DEF InitCountRest
  <2> QED BY <1>1, <1>p, <2>0, <2>1 DEF Written
<1>6. CASE InitCreate(i) \/ InitFail(i)
  <2>0. ireq[i].pc = "create" /\ UNCHANGED clock
    BY <1>6 DEF InitCreate, InitFail
  <2>1. PICK pc \in {"refused", "issued", "lost"} : ireq' = [ireq EXCEPT ![i].pc = pc]
    BY <1>6 DEF InitCreate, InitFail
  <2> QED BY <1>1, <1>p, <2>0, <2>1 DEF Written
<1> QED BY <1>2, <1>3, <1>4, <1>5, <1>6 DEF InitStep

\* Requests in flight stay within their bound, and read the clock before they count.
LEMMA FlightStep ==
    ASSUME SingleUseInv, CapInv, [Next]_vars
    PROVE  /\ IsFiniteSet(Issued') /\ IsFiniteSet(InFlight')
           /\ Cardinality(InFlight') <= MaxInFlight
           /\ \A i \in InFlight' : ireq'[i].now <= clock'
           /\ clock \in Int /\ clock' \in Int /\ clock <= clock'
           /\ \A i \in InitReq : ireq[i].now \in Int
<1>0. TypeOK /\ TypeOK' /\ MaxInFlight \in Nat
  BY TypeStep, LimitAssumption DEF SingleUseInv
<1>1. /\ clock \in Int /\ clock' \in Int /\ \A i \in InitReq : ireq[i].now \in Int
  BY <1>0 DEF TypeOK, InitRequest
<1>2. ASSUME UNCHANGED ireq, clock <= clock'
      PROVE  /\ IsFiniteSet(Issued') /\ IsFiniteSet(InFlight')
             /\ Cardinality(InFlight') <= MaxInFlight
             /\ \A i \in InFlight' : ireq'[i].now <= clock'
  <2>1. Issued' = Issued /\ InFlight' = InFlight
    BY <1>2 DEF Issued, InFlight, Written
  <2>2. \A i \in InFlight : i \in InitReq
    BY DEF InFlight
  <2> QED BY <1>1, <1>2, <2>1, <2>2 DEF CapInv
<1>3. ASSUME NEW i \in InitReq, InitStep(i)
      PROVE  /\ IsFiniteSet(Issued') /\ IsFiniteSet(InFlight')
             /\ Cardinality(InFlight') <= MaxInFlight
             /\ \A j \in InFlight' : ireq'[j].now <= clock'
             /\ clock <= clock'
  <2>1. /\ \A j \in InitReq : j # i => ireq'[j] = ireq[j]
        /\ UNCHANGED clock
    BY <1>0, <1>3, InitMoves
  <2>2. Issued' \subseteq Issued \cup {i}
    BY <2>1 DEF Issued, Written
  <2>3. IsFiniteSet(Issued')
    <3>1. IsFiniteSet(Issued \cup {i})
      BY FS_AddElement DEF CapInv
    <3> QED BY <2>2, <3>1, FS_Subset
  <2>4. CASE ireq[i].pc = "idle" /\ ireq'[i].pc = "count" /\ ireq'[i].now = clock
             /\ Cardinality(InFlight) < MaxInFlight
    <3>1. InFlight' \subseteq InFlight \cup {i}
      BY <2>1 DEF InFlight
    <3>2. i \notin InFlight
      BY <2>4 DEF InFlight
    <3>3. /\ IsFiniteSet(InFlight \cup {i})
          /\ Cardinality(InFlight \cup {i}) = Cardinality(InFlight) + 1
          /\ Cardinality(InFlight) \in Nat
      BY <3>2, FS_AddElement, FS_CardinalityType DEF CapInv
    <3>4. /\ IsFiniteSet(InFlight') /\ Cardinality(InFlight') \in Nat
          /\ Cardinality(InFlight') <= Cardinality(InFlight \cup {i})
      BY <3>1, <3>3, Part
    <3>5. \A j \in InFlight' : ireq'[j].now <= clock'
      BY <1>1, <2>1, <2>4, <3>1 DEF InFlight, CapInv
    <3> QED BY <1>0, <1>1, <2>1, <2>3, <2>4, <3>3, <3>4, <3>5
  <2>5. CASE ireq[i].pc = "idle" => ireq'[i].pc = "refused"
    <3>1. InFlight' \subseteq InFlight
      BY <1>0, <1>3, <2>1, <2>5, InitMoves DEF InFlight
    <3>2. /\ IsFiniteSet(InFlight') /\ Cardinality(InFlight') <= MaxInFlight
      BY <1>0, <3>1, Part DEF CapInv
    <3>3. \A j \in InFlight' : ireq'[j].now <= clock'
      BY <1>0, <1>3, <2>1, <2>5, <3>1, InitMoves DEF InFlight, CapInv
    <3> QED BY <1>1, <2>1, <2>3, <3>2, <3>3
  <2> QED BY <1>0, <1>3, <2>4, <2>5, InitMoves
<1>4. ASSUME NEW r \in CompReq, CompleteStep(r) PROVE UNCHANGED ireq /\ clock <= clock'
  BY <1>1, <1>4, CompleteEffect
<1>5. ASSUME \/ \E s \in CompReq : Logout(s)
             \/ \E p \in Suspendable : Operator(p)
             \/ Tick \/ MarkExpired \/ GuardedRead \/ UNCHANGED vars
      PROVE  UNCHANGED ireq /\ clock <= clock'
  BY <1>1, <1>5 DEF Logout, Operator, Suspend, RevokeByPrincipal, Unsuspend, Tick, MarkExpired,
                    GuardedRead, vars
<1> QED BY <1>1, <1>2, <1>3, <1>4, <1>5 DEF Next

\* A request that gets past a count was counted at its own `now'; other steps add neither
\* a row that was not a request's nor a request that fits.
LEMMA FitStep ==
    ASSUME SingleUseInv, CapInv, [Next]_vars, NEW ip \in Ip, NEW p
    PROVE  /\ \/ FitIp(ip)' \subseteq FitIp(ip)
              \/ \E i \in InFlight : /\ ireq[i].ip = ip /\ ~ExceedsIpCap(ireq[i])
                                     /\ UNCHANGED <<clock, chal>>
           /\ \/ FitNpub(p, ip)' \subseteq FitNpub(p, ip)
              \/ \E i \in InFlight : /\ ireq[i].ip = ip /\ ireq[i].npub = p
                                     /\ ~ExceedsNpubCap(ireq[i]) /\ UNCHANGED <<clock, chal>>
<1>0. TypeOK
  BY DEF SingleUseInv
<1>1. ASSUME UNCHANGED ireq
      PROVE  FitIp(ip)' \subseteq FitIp(ip) /\ FitNpub(p, ip)' \subseteq FitNpub(p, ip)
  BY <1>1 DEF FitIp, FitNpub
<1>2. ASSUME NEW i \in InitReq, InitStep(i)
      PROVE  /\ \/ FitIp(ip)' \subseteq FitIp(ip)
                \/ i \in InFlight /\ ireq[i].ip = ip /\ ~ExceedsIpCap(ireq[i])
                   /\ UNCHANGED <<clock, chal>>
             /\ \/ FitNpub(p, ip)' \subseteq FitNpub(p, ip)
                \/ i \in InFlight /\ ireq[i].ip = ip /\ ireq[i].npub = p
                   /\ ~ExceedsNpubCap(ireq[i]) /\ UNCHANGED <<clock, chal>>
  <2>0. \A j \in InitReq : j # i => ireq'[j] = ireq[j]
    BY <1>0, <1>2, InitMoves
  <2>1. CASE i \notin FitIp(ip)' /\ i \notin FitNpub(p, ip)'
    BY <2>0, <2>1 DEF FitIp, FitNpub
  <2>2. CASE i \in FitIp(ip)' \/ i \in FitNpub(p, ip)'
    <3>1. ireq'[i].pc \in {"create", "count_npub", "count_ip"}
      BY <2>2 DEF FitIp, FitNpub
    <3>2. /\ ireq[i].pc \in {"count", "count_ip", "count_npub", "create"}
          /\ ireq'[i].npub = ireq[i].npub /\ ireq'[i].ip = ireq[i].ip
          /\ ireq'[i].pc \in {"create", "count_npub"} =>
                ireq[i].pc = "count_npub" \/ (~ExceedsIpCap(ireq[i]) /\ UNCHANGED chal)
          /\ ireq'[i].pc \in {"create", "count_ip"} =>
                ireq[i].pc = "count_ip" \/ (~ExceedsNpubCap(ireq[i]) /\ UNCHANGED chal)
          /\ UNCHANGED clock
      BY <1>0, <1>2, <3>1, InitMoves
    <3>3. i \in InFlight
      BY <3>2 DEF InFlight
    <3>4. \/ FitIp(ip)' \subseteq FitIp(ip)
          \/ ireq[i].ip = ip /\ ~ExceedsIpCap(ireq[i]) /\ UNCHANGED chal
      BY <2>0, <3>2 DEF FitIp
    <3>5. \/ FitNpub(p, ip)' \subseteq FitNpub(p, ip)
          \/ /\ ireq[i].ip = ip /\ ireq[i].npub = p
             /\ ~ExceedsNpubCap(ireq[i]) /\ UNCHANGED chal
      BY <2>0, <3>2 DEF FitNpub
    <3> QED BY <3>2, <3>3, <3>4, <3>5
  <2> QED BY <2>1, <2>2
<1>3. ASSUME NEW r \in CompReq, CompleteStep(r) PROVE UNCHANGED ireq
  BY <1>3, CompleteEffect
<1>4. ASSUME \/ \E s \in CompReq : Logout(s)
             \/ \E q \in Suspendable : Operator(q)
             \/ Tick \/ MarkExpired \/ GuardedRead \/ UNCHANGED vars
      PROVE  UNCHANGED ireq
  BY <1>4 DEF Logout, Operator, Suspend, RevokeByPrincipal, Unsuspend, Tick, MarkExpired,
              GuardedRead, vars
<1>5. InFlight \subseteq InitReq
  BY DEF InFlight
<1> QED BY <1>1, <1>2, <1>3, <1>4 DEF Next

\* The rows an address or a principal has open after a step were open before it, or were
\* about to be written.
LEMMA OpenStep ==
    ASSUME SingleUseInv, CapInv, [Next]_vars, NEW ip \in Ip, NEW p
    PROVE  /\ OutstandingForIp(ip, clock)' \subseteq OutstandingForIp(ip, clock) \cup FitIp(ip)
           /\ OutstandingForNpub(p, ip, clock)'
                 \subseteq OutstandingForNpub(p, ip, clock) \cup FitNpub(p, ip)
<1>0. /\ clock \in Int /\ clock' \in Int /\ clock <= clock' /\ ip # None
      /\ \A c \in InitReq : chal[c].exp \in Int
  BY FlightStep, NoneAssumption DEF SingleUseInv, TypeOK, ChallengeRecord
<1>1. ASSUME NEW c \in InitReq, chal'[c].state = "issued", chal'[c].exp >= clock',
             chal'[c].ip = ip
      PROVE  /\ c \in OutstandingForIp(ip, clock) \cup FitIp(ip)
             /\ chal'[c].npub = p => c \in OutstandingForNpub(p, ip, clock) \cup FitNpub(p, ip)
  <2>1. CASE /\ chal[c].state = "issued" /\ chal'[c].exp = chal[c].exp
             /\ chal'[c].npub = chal[c].npub /\ chal'[c].ip = chal[c].ip
    <3>1. chal[c].exp >= clock
      BY <1>0, <1>1, <2>1
    <3> QED BY <1>1, <2>1, <3>1 DEF OutstandingForIp, OutstandingForNpub, Outstanding
  <2>2. CASE /\ ireq[c].pc = "create"
             /\ chal'[c].npub = ireq[c].npub /\ chal'[c].ip = ireq[c].ip
    BY <1>1, <2>2 DEF FitIp, FitNpub
  <2> QED BY <1>1, <2>1, <2>2, OpenRows
<1> QED BY <1>0, <1>1 DEF OutstandingForIp, OutstandingForNpub, Outstanding

\* What is outstanding is finite, and no less than what is outstanding later.
LEMMA OpenFinite ==
    ASSUME SingleUseInv, CapInv, NEW ip \in Ip, NEW p, NEW now \in Int
    PROVE  /\ IsFiniteSet(OutstandingForIp(ip, now)) /\ IsFiniteSet(FitIp(ip))
           /\ IsFiniteSet(OutstandingForNpub(p, ip, now)) /\ IsFiniteSet(FitNpub(p, ip))
           /\ now <= clock =>
                 /\ OutstandingForIp(ip, clock) \subseteq OutstandingForIp(ip, now)
                 /\ OutstandingForNpub(p, ip, clock) \subseteq OutstandingForNpub(p, ip, now)
<1>1. /\ OutstandingForIp(ip, now) \subseteq Issued /\ OutstandingForNpub(p, ip, now) \subseteq Issued
  BY DEF OutstandingForIp, OutstandingForNpub, Outstanding, Issued, SingleUseInv, FreshIds,
         NoChallenge
<1>2. FitIp(ip) \subseteq InFlight /\ FitNpub(p, ip) \subseteq InFlight
  BY DEF FitIp, FitNpub, InFlight
<1>3. now <= clock => Outstanding(clock) \subseteq Outstanding(now)
  BY DEF Outstanding, SingleUseInv, TypeOK, ChallengeRecord
<1> QED BY <1>1, <1>2, <1>3, FS_Subset DEF CapInv, OutstandingForIp, OutstandingForNpub

\* The caps are inductive: a request that fits leaves room for those in flight only.
LEMMA CapStep == SingleUseInv /\ CapInv /\ [Next]_vars => CapInv'
<1> SUFFICES ASSUME SingleUseInv, CapInv, [Next]_vars PROVE CapInv'
  OBVIOUS
<1>0. /\ IsFiniteSet(Issued') /\ IsFiniteSet(InFlight') /\ Cardinality(InFlight') <= MaxInFlight
      /\ \A i \in InFlight' : ireq'[i].now <= clock'
      /\ clock \in Int /\ \A i \in InitReq : ireq[i].now \in Int
  BY FlightStep
<1>l. MaxInFlight \in Nat /\ MaxPerIp \in Nat /\ MaxPerNpub \in Nat
  BY LimitAssumption
<1>f. InFlight \subseteq InitReq
  BY DEF InFlight
<1>1. ASSUME NEW ip \in Ip, NEW p, MaxPerIp > 0
      PROVE  Cardinality(OutstandingForIp(ip, clock)' \cup FitIp(ip)') <= MaxPerIp + MaxInFlight - 1
  <2> DEFINE new == OutstandingForIp(ip, clock)' \cup FitIp(ip)'
             old == OutstandingForIp(ip, clock) \cup FitIp(ip)
  <2>1. CASE FitIp(ip)' \subseteq FitIp(ip)
    <3>1. new \subseteq old
      BY <2>1, OpenStep
    <3>2. IsFiniteSet(old)
      BY <1>0, OpenFinite, FS_Union
    <3>3. Cardinality(old) <= MaxPerIp + MaxInFlight - 1
      BY <1>1 DEF CapInv
    <3>4. Cardinality(new) \in Nat /\ Cardinality(old) \in Nat /\ Cardinality(new) <= Cardinality(old)
      BY <3>1, <3>2, Part
    <3> QED BY <1>l, <3>3, <3>4
  <2>2. CASE \E i \in InFlight : /\ ireq[i].ip = ip /\ ~ExceedsIpCap(ireq[i])
                                 /\ UNCHANGED <<clock, chal>>
    <3>1. PICK i \in InFlight : /\ ireq[i].ip = ip /\ ~ExceedsIpCap(ireq[i])
                                /\ UNCHANGED <<clock, chal>>
      BY <2>2
    <3> DEFINE now == ireq[i].now
               seen == OutstandingForIp(ip, now)
    <3>2. now \in Int /\ now <= clock
      BY <1>0, <1>f DEF CapInv
    <3>3. IsFiniteSet(seen) /\ OutstandingForIp(ip, clock) \subseteq seen
      BY <3>2, OpenFinite
    <3>4. OutstandingForIp(ip, clock)' = OutstandingForIp(ip, clock)
      BY <3>1 DEF OutstandingForIp, Outstanding
    <3>5. FitIp(ip)' \subseteq InFlight'
      BY DEF FitIp, InFlight
    <3>6. new \subseteq seen \cup InFlight'
      BY <3>3, <3>4, <3>5
    <3>7. /\ Cardinality(new) \in Nat /\ Cardinality(seen) \in Nat /\ Cardinality(InFlight') \in Nat
          /\ Cardinality(new) <= Cardinality(seen) + Cardinality(InFlight')
      BY <1>0, <3>3, <3>6, Cover
    <3>8. ~(Cardinality(seen) >= MaxPerIp)
      BY <1>1, <3>1, NoneAssumption DEF ExceedsIpCap
    <3> QED BY <1>0, <1>l, <3>7, <3>8
  <2> QED BY <2>1, <2>2, FitStep
<1>2. ASSUME NEW ip \in Ip, NEW p \in Principal, MaxPerNpub > 0
      PROVE  Cardinality(OutstandingForNpub(p, ip, clock)' \cup FitNpub(p, ip)')
                <= MaxPerNpub + MaxInFlight - 1
  <2> DEFINE new == OutstandingForNpub(p, ip, clock)' \cup FitNpub(p, ip)'
             old == OutstandingForNpub(p, ip, clock) \cup FitNpub(p, ip)
  <2>1. CASE FitNpub(p, ip)' \subseteq FitNpub(p, ip)
    <3>1. new \subseteq old
      BY <2>1, OpenStep
    <3>2. IsFiniteSet(old)
      BY <1>0, OpenFinite, FS_Union
    <3>3. Cardinality(old) <= MaxPerNpub + MaxInFlight - 1
      BY <1>2 DEF CapInv
    <3>4. Cardinality(new) \in Nat /\ Cardinality(old) \in Nat /\ Cardinality(new) <= Cardinality(old)
      BY <3>1, <3>2, Part
    <3> QED BY <1>l, <3>3, <3>4
  <2>2. CASE \E i \in InFlight : /\ ireq[i].ip = ip /\ ireq[i].npub = p
                                 /\ ~ExceedsNpubCap(ireq[i]) /\ UNCHANGED <<clock, chal>>
    <3>1. PICK i \in InFlight : /\ ireq[i].ip = ip /\ ireq[i].npub = p
                                /\ ~ExceedsNpubCap(ireq[i]) /\ UNCHANGED <<clock, chal>>
      BY <2>2
    <3> DEFINE now == ireq[i].now
               seen == OutstandingForNpub(p, ip, now)
    <3>2. now \in Int /\ now <= clock
      BY <1>0, <1>f DEF CapInv
    <3>3. IsFiniteSet(seen) /\ OutstandingForNpub(p, ip, clock) \subseteq seen
      BY <3>2, OpenFinite
    <3>4. OutstandingForNpub(p, ip, clock)' = OutstandingForNpub(p, ip, clock)
      BY <3>1 DEF OutstandingForNpub, Outstanding
    <3>5. FitNpub(p, ip)' \subseteq InFlight'
      BY DEF FitNpub, InFlight
    <3>6. new \subseteq seen \cup InFlight'
      BY <3>3, <3>4, <3>5
    <3>7. /\ Cardinality(new) \in Nat /\ Cardinality(seen) \in Nat /\ Cardinality(InFlight') \in Nat
          /\ Cardinality(new) <= Cardinality(seen) + Cardinality(InFlight')
      BY <1>0, <3>3, <3>6, Cover
    <3>8. ~(Cardinality(seen) >= MaxPerNpub)
      BY <1>2, <3>1 DEF ExceedsNpubCap
    <3> QED BY <1>0, <1>l, <3>7, <3>8
  <2> QED BY <2>1, <2>2, FitStep
<1> QED BY <1>0, <1>1, <1>2 DEF CapInv

\* A login start that was written or is about to be never breaks the caps by more than the
\* others in flight (OutstandingBounded), whatever the settings and the load.
THEOREM Caps == Spec => []OutstandingBounded
<1>1. Init => CapInv
  <2> SUFFICES ASSUME Init PROVE CapInv
    OBVIOUS
  <2>1. /\ Issued = {} /\ InFlight = {}
        /\ \A ip, p : FitIp(ip) = {} /\ FitNpub(p, ip) = {}
    BY DEF Init, Issued, Written, InFlight, FitIp, FitNpub
  <2>2. \A ip, p : OutstandingForIp(ip, clock) = {} /\ OutstandingForNpub(p, ip, clock) = {}
    BY DEF Init, OutstandingForIp, OutstandingForNpub, Outstanding, NoChallenge
  <2>3. {} \cup {} = {} /\ IsFiniteSet({}) /\ Cardinality({}) = 0
    BY FS_EmptySet
  <2>4. \A ip, p : /\ Cardinality(OutstandingForIp(ip, clock) \cup FitIp(ip)) = 0
                   /\ Cardinality(OutstandingForNpub(p, ip, clock) \cup FitNpub(p, ip)) = 0
    BY <2>1, <2>2, <2>3
  <2>5. /\ 0 <= MaxInFlight
        /\ MaxPerIp > 0 => 0 <= MaxPerIp + MaxInFlight - 1
        /\ MaxPerNpub > 0 => 0 <= MaxPerNpub + MaxInFlight - 1
    BY LimitAssumption
  <2> QED BY <2>1, <2>3, <2>4, <2>5 DEF CapInv
<1>2. SingleUseInv /\ CapInv => OutstandingBounded
  <2> SUFFICES ASSUME SingleUseInv, CapInv PROVE OutstandingBounded
    OBVIOUS
  <2>0. clock \in Int /\ MaxInFlight \in Nat /\ MaxPerIp \in Nat /\ MaxPerNpub \in Nat
    BY LimitAssumption DEF SingleUseInv, TypeOK
  <2>1. ASSUME NEW ip \in Ip, MaxPerIp > 0
        PROVE  Cardinality(OutstandingForIp(ip, clock)) <= MaxPerIp + MaxInFlight - 1
    <3> DEFINE all == OutstandingForIp(ip, clock) \cup FitIp(ip)
    <3>1. IsFiniteSet(all)
      BY <2>0, OpenFinite, FS_Union
    <3>2. /\ Cardinality(OutstandingForIp(ip, clock)) \in Nat /\ Cardinality(all) \in Nat
          /\ Cardinality(OutstandingForIp(ip, clock)) <= Cardinality(all)
      BY <3>1, Part
    <3>3. Cardinality(all) <= MaxPerIp + MaxInFlight - 1
      BY <2>1 DEF CapInv
    <3> QED BY <2>0, <3>2, <3>3
  <2>2. ASSUME NEW ip \in Ip, NEW p \in Principal, MaxPerNpub > 0
        PROVE  Cardinality(OutstandingForNpub(p, ip, clock)) <= MaxPerNpub + MaxInFlight - 1
    <3> DEFINE all == OutstandingForNpub(p, ip, clock) \cup FitNpub(p, ip)
    <3>1. IsFiniteSet(all)
      BY <2>0, OpenFinite, FS_Union
    <3>2. /\ Cardinality(OutstandingForNpub(p, ip, clock)) \in Nat /\ Cardinality(all) \in Nat
          /\ Cardinality(OutstandingForNpub(p, ip, clock)) <= Cardinality(all)
      BY <3>1, Part
    <3>3. Cardinality(all) <= MaxPerNpub + MaxInFlight - 1
      BY <2>2 DEF CapInv
    <3> QED BY <2>0, <3>2, <3>3
  <2> QED BY <2>1, <2>2 DEF OutstandingBounded
<1> QED BY <1>1, <1>2, CapStep, SingleUseInductive, PTL DEF Spec

\* ... behind the limiter too.
THEOREM CapsBehindLimiter == IssuanceSpec => []OutstandingBounded
BY Caps, IssuanceIsLogin

-----------------------------------------------------------------------------
(* The rate limiter.                                                         *)

\* Caller c makes its one check, of ids: those of a login start, or of a completion.
Logged(c, ids) ==
    /\ c \in Caller /\ log[c] = None /\ CheckRateLimit(c, ids) /\ UNCHANGED clock
    /\ \/ c \in InitReq /\ \E n \in Principal \cup {Junk}, ip \in Opt(Ip) :
             ids = RL!Identifiers("init", n, None, ip)
       \/ c \notin InitReq /\ \/ \E ip \in Ip : ids = RL!Identifiers("complete", None, None, ip)
                              \/ \E k \in Principal : ids = RL!Identifiers("complete", None, k, None)

\* Every step makes one check, in the tick it is in, or none.
LEMMA LimiterStep ==
    ASSUME TypeOK, LogTypes, [IssuanceNext]_<<vars, limiterVars>>
    PROVE  /\ \/ UNCHANGED <<windows, lastPrunedAt, log>> /\ clock <= clock'
              \/ \E c \in Caller, ids \in SUBSET RL!Identifier : Logged(c, ids)
           /\ clock \in Int /\ clock' \in Int
           /\ \A i \in InitReq : ireq'[i].pc = "idle" => ireq[i].pc = "idle" /\ log'[i] = log[i]
<1>0. clock \in Int /\ Time \subseteq Int
  BY LimitAssumption DEF TypeOK, Time
<1>t. /\ \A n \in Principal \cup {Junk}, ip \in Opt(Ip) :
            RL!Identifiers("init", n, None, ip) \in SUBSET RL!Identifier
      /\ \A ip \in Ip : RL!Identifiers("complete", None, None, ip) \in SUBSET RL!Identifier
      /\ \A k \in Principal : RL!Identifiers("complete", None, k, None) \in SUBSET RL!Identifier
  BY DEF RL!Identifiers, RL!Identifier, RL!Id, Opt
<1>1. ASSUME NEW i \in InitReq, Admit(i) \/ Refuse(i)
      PROVE  /\ \E ids \in SUBSET RL!Identifier : Logged(i, ids)
             /\ ireq'[i].pc # "idle" /\ clock' = clock
             /\ \A j \in InitReq : j # i => ireq'[j] = ireq[j] /\ log'[j] = log[j]
  <2>1. ireq[i].pc = "idle" /\ log[i] = None
    BY <1>1 DEF Admit, Refuse, LogTypes
  <2>2. InitBegin(i) \/ InitRefuse(i)
    BY <1>1 DEF Admit, Refuse
  <2>3. /\ clock' = clock /\ ireq'[i].pc # "idle"
        /\ \A j \in InitReq : j # i => ireq'[j] = ireq[j]
    <3>1. InitStep(i)
      BY <2>2 DEF InitStep
    <3>2. /\ clock' = clock /\ ireq'[i].pc \in {"refused", "count"}
          /\ \A j \in InitReq : j # i => ireq'[j] = ireq[j]
      BY <2>1, <3>1, InitMoves
    <3> QED BY <3>2
  <2>4. PICK n \in Principal \cup {Junk}, ip \in Opt(Ip) :
          CheckRateLimit(i, RL!Identifiers("init", n, None, ip))
    BY <1>1 DEF Admit, Refuse
  <2>5. \E ids \in SUBSET RL!Identifier : Logged(i, ids)
    BY <1>t, <2>1, <2>3, <2>4 DEF Logged, Caller
  <2>6. \A j \in InitReq : j # i => log'[j] = log[j]
    BY <2>4 DEF CheckRateLimit, LogTypes, Caller
  <2> QED BY <2>3, <2>5, <2>6
<1>2. ASSUME NEW i \in InitReq, InitCount(i) \/ InitCountRest(i) \/ InitCreate(i) \/ InitFail(i)
      PROVE  /\ clock' = clock /\ ireq'[i].pc # "idle"
             /\ \A j \in InitReq : j # i => ireq'[j] = ireq[j]
  <2>1. InitStep(i) /\ ireq[i].pc # "idle"
    BY <1>2 DEF InitStep, InitCount, InitCountRest, InitCreate, InitFail
  <2>2. /\ clock' = clock /\ ireq'[i].pc \in {"create", "count_npub", "count_ip", "refused", "issued", "lost"}
        /\ \A j \in InitReq : j # i => ireq'[j] = ireq[j]
    BY <2>1, InitMoves
  <2> QED BY <2>2
<1>3. ASSUME Tick \/ MarkExpired PROVE UNCHANGED ireq /\ clock' \in Int /\ clock <= clock'
  BY <1>0, <1>3 DEF Tick, MarkExpired
<1>4. ASSUME NEW n \in Other, Elsewhere(n)
      PROVE  /\ \E ids \in SUBSET RL!Identifier : Logged(n, ids)
             /\ UNCHANGED <<clock, ireq>> /\ \A j \in InitReq : log'[j] = log[j]
  <2>1. n \in Caller /\ n \notin InitReq /\ UNCHANGED vars /\ log[n] = None
    BY <1>4, OtherAssumption DEF Caller, Elsewhere
  <2>2. \E ids \in SUBSET RL!Identifier : Logged(n, ids) /\ CheckRateLimit(n, ids)
    BY <1>t, <1>4, <2>1 DEF Elsewhere, Logged, vars
  <2>3. \A j \in InitReq : log'[j] = log[j]
    BY <2>1, <2>2 DEF CheckRateLimit, LogTypes, Caller
  <2> QED BY <2>1, <2>2, <2>3 DEF vars
<1>c. InitReq \subseteq Caller /\ Other \subseteq Caller
  BY DEF Caller
<1> QED BY <1>0, <1>1, <1>2, <1>3, <1>4, <1>c DEF IssuanceNext, limiterVars, vars

\* What is logged stays finite and well-typed, and nothing in it is later than the clock.
LEMMA LogTypesStep ==
    ASSUME TypeOK, LogTypes, [IssuanceNext]_<<vars, limiterVars>> PROVE LogTypes'
<1>0. /\ clock \in Int /\ clock' \in Int
      /\ \A i \in InitReq : ireq'[i].pc = "idle" => ireq[i].pc = "idle" /\ log'[i] = log[i]
  BY LimiterStep
<1>1. CASE UNCHANGED <<windows, lastPrunedAt, log>> /\ clock <= clock'
  <2>1. \A c \in Caller : log[c] # None => log[c].at \in Int
    BY DEF LogTypes, CheckRecord
  <2> QED BY <1>0, <1>1, <2>1 DEF LogTypes
<1>2. ASSUME NEW c \in Caller, NEW ids \in SUBSET RL!Identifier, Logged(c, ids) PROVE LogTypes'
  <2> DEFINE rec == [ids |-> ids, at |-> clock, ok |-> RL!Allowed(ids)]
  <2>1. log' = [log EXCEPT ![c] = rec] /\ rec \in CheckRecord /\ clock' = clock
    BY <1>0, <1>2 DEF Logged, CheckRateLimit, CheckRecord, RL!Allowed
  <2>2. /\ log' \in [Caller -> CheckRecord \cup {None}]
        /\ \A d \in Caller : log'[d] # None => log'[d].at <= clock'
    BY <1>0, <2>1 DEF LogTypes
  <2>3. IsFiniteSet({d \in Caller : log'[d] # None})
    <3>1. {d \in Caller : log'[d] # None} \subseteq {d \in Caller : log[d] # None} \cup {c}
      BY <2>1 DEF LogTypes
    <3>2. IsFiniteSet({d \in Caller : log[d] # None} \cup {c})
      BY FS_AddElement DEF LogTypes
    <3> QED BY <3>1, <3>2, FS_Subset
  <2>4. RL!Pruned \subseteq DOMAIN windows /\ RL!Check(ids)
    BY <1>2 DEF RL!Pruned, Logged, CheckRateLimit
  <2>5. /\ DOMAIN windows' = RL!Pruned \cup ids
        /\ \A id \in DOMAIN windows' :
              windows'[id] = IF id \in ids THEN RL!Hit(id) ELSE windows[id]
        /\ windows' = [id \in DOMAIN windows' |-> windows'[id]]
    BY <2>4 DEF RL!Check, RL!Counted
  <2>6. \A id \in ids : RL!Hit(id) \in [start : Int, count : Nat]
    BY <1>0, <2>4 DEF RL!Hit, LogTypes
  <2>7. \A id \in RL!Pruned : windows[id] \in [start : Int, count : Nat]
    BY <2>4 DEF LogTypes
  <2>8. windows' \in [DOMAIN windows' -> [start : Int, count : Nat]]
    BY <2>5, <2>6, <2>7
  <2>9. DOMAIN windows' \subseteq RL!Identifier
    BY <2>4, <2>5 DEF LogTypes
  <2>10. lastPrunedAt' \in Int
    BY <1>0, <2>4 DEF RL!Check, LogTypes
  <2> QED BY <1>0, <2>2, <2>3, <2>8, <2>9, <2>10 DEF LogTypes
<1> QED BY <1>1, <1>2, LimiterStep

\* A step without a check, or a check that does not count id, leaves what was counted of id.
LEMMA NotCounted ==
    ASSUME LogTypes, NEW id, NEW from, NEW to,
           \/ UNCHANGED log
           \/ \E c \in Caller : \E ids : Logged(c, ids) /\ id \notin ids
    PROVE  /\ Checks(id, from, to)' = Checks(id, from, to)
           /\ Passed(id, from, to)' = Passed(id, from, to)
<1>1. CASE UNCHANGED log
  BY <1>1 DEF Checks, Passed
<1>2. ASSUME NEW c \in Caller, NEW ids, Logged(c, ids), id \notin ids
      PROVE  /\ Checks(id, from, to)' = Checks(id, from, to)
             /\ Passed(id, from, to)' = Passed(id, from, to)
  <2>1. /\ log[c] = None /\ log'[c].ids = ids
        /\ \A d \in Caller : d # c => log'[d] = log[d]
    BY <1>2 DEF Logged, CheckRateLimit, LogTypes
  <2> QED BY <1>2, <2>1 DEF Checks, Passed
<1> QED BY <1>1, <1>2

\* A check is added to what was counted of each of its identifiers, at the clock.
LEMMA NowCounted ==
    ASSUME TypeOK, LogTypes, NEW c \in Caller, NEW ids \in SUBSET RL!Identifier, Logged(c, ids),
           NEW id \in ids, NEW from \in Int, NEW to \in Int
    PROVE  /\ clock \in from..to => Checks(id, from, to)' = Checks(id, from, to) \cup {c}
           /\ clock \in from..to => Passed(id, from, to)' \subseteq Passed(id, from, to) \cup {c}
           /\ clock \in from..to /\ ~RL!Allowed(ids) => Passed(id, from, to)' = Passed(id, from, to)
           /\ clock \notin from..to => /\ Checks(id, from, to)' = Checks(id, from, to)
                                       /\ Passed(id, from, to)' = Passed(id, from, to)
           /\ c \notin Checks(id, from, to) /\ c \notin Passed(id, from, to)
<1> DEFINE rec == [ids |-> ids, at |-> clock, ok |-> RL!Allowed(ids)]
<1>1. /\ log[c] = None /\ log'[c] = rec
      /\ \A d \in Caller : d # c => log'[d] = log[d]
  BY DEF Logged, CheckRateLimit, LogTypes
<1>0. clock \in Int /\ RL!Allowed(ids) \in BOOLEAN
  BY DEF TypeOK, RL!Allowed
<1>2. rec # None
  <2>1. rec \in CheckRecord
    BY <1>0 DEF CheckRecord
  <2> QED BY <2>1, CheckAssumption
<1>3. rec.ids = ids /\ rec.at = clock /\ rec.ok = RL!Allowed(ids)
  OBVIOUS
<1>4. /\ clock \in from..to => Checks(id, from, to)' = Checks(id, from, to) \cup {c}
      /\ clock \notin from..to => Checks(id, from, to)' = Checks(id, from, to)
  BY <1>1, <1>2, <1>3 DEF Checks
<1>5. c \notin Checks(id, from, to) /\ c \notin Passed(id, from, to)
  BY <1>1 DEF Checks, Passed
<1>6. \A d \in Passed(id, from, to)' : d # c => d \in Passed(id, from, to)
  BY <1>1 DEF Checks, Passed
<1>7. \A d \in Passed(id, from, to) : d # c /\ d \in Passed(id, from, to)'
  BY <1>1 DEF Checks, Passed
<1>8. c \in Passed(id, from, to)' => clock \in from..to /\ RL!Allowed(ids)
  BY <1>1, <1>3 DEF Checks, Passed
<1> QED BY <1>4, <1>5, <1>6, <1>7, <1>8

\* Whatever is counted is finitely many checks.
LEMMA CheckSets ==
    ASSUME LogTypes, NEW id, NEW from, NEW to
    PROVE  /\ IsFiniteSet(Checks(id, from, to)) /\ IsFiniteSet(Passed(id, from, to))
           /\ Cardinality(Checks(id, from, to)) \in Nat /\ Cardinality(Passed(id, from, to)) \in Nat
           /\ Passed(id, from, to) \subseteq Checks(id, from, to)
<1>1. /\ Checks(id, from, to) \subseteq {c \in Caller : log[c] # None}
      /\ Passed(id, from, to) \subseteq Checks(id, from, to)
  BY DEF Checks, Passed
<1> QED BY <1>1, FS_Subset, FS_CardinalityType DEF LogTypes

\* A longer stretch of time counts no less.
LEMMA Within ==
    ASSUME LogTypes, NEW id, NEW from \in Int, NEW to \in Int, NEW f \in Int, NEW t \in Int,
           \A c \in Checks(id, from, to) : log[c].at \in f..t
    PROVE  /\ Checks(id, from, to) \subseteq Checks(id, f, t)
           /\ Passed(id, from, to) \subseteq Passed(id, f, t)
           /\ Cardinality(Checks(id, from, to)) <= Cardinality(Checks(id, f, t))
           /\ Cardinality(Passed(id, from, to)) <= Cardinality(Passed(id, f, t))
<1>1. /\ Checks(id, from, to) \subseteq Checks(id, f, t)
      /\ Passed(id, from, to) \subseteq Passed(id, f, t)
  BY DEF Checks, Passed
<1> QED BY <1>1, CheckSets, Part

\* An identifier without a running window was not checked in this tick, and got less than
\* its budget through in a window's length.
LEMMA NotRunning ==
    ASSUME TypeOK, RateInv, NEW id \in RL!Identifier, RL!Over(id) PROVE NoWindow(id)
<1>0. clock \in Int /\ Window \in Nat \ {0} /\ MaxPerWindow \in Nat \ {0} /\ LogTypes
  BY WindowAssumption DEF TypeOK, RateInv
<1>1. CASE id \notin DOMAIN windows
  BY <1>1 DEF RateInv
<1>2. CASE id \in DOMAIN windows
  <2> DEFINE s == windows[id].start
  <2>1. s \in Int /\ clock - s >= Window
    BY <1>0, <1>2 DEF LogTypes, RL!Over
  <2>2. WindowCounts(id)
    BY <1>2 DEF RateInv
  <2>3. \A c \in Caller : log[c] # None /\ id \in log[c].ids =>
            log[c].at \in Int /\ log[c].at < clock /\ log[c].at < s + Window
    BY <1>0, <2>1, <2>2 DEF WindowCounts, LogTypes, CheckRecord
  <2>4. Cardinality(Passed(id, clock - Window + 1, clock)) <= Cardinality(Passed(id, s + 1, clock))
    <3>1. \A c \in Checks(id, clock - Window + 1, clock) : log[c].at \in s + 1..clock
      BY <1>0, <2>1 DEF Checks, LogTypes, CheckRecord
    <3>2. clock - Window + 1 \in Int /\ s + 1 \in Int
      BY <1>0, <2>1
    <3> QED BY <1>0, <3>1, <3>2, Within
  <2>5. Cardinality(Passed(id, s + 1, clock)) <= MaxPerWindow - 1
    BY <2>2 DEF WindowCounts
  <2> HIDE DEF s
  <2> QED BY <1>0, <2>3, <2>4, <2>5, CheckSets DEF NoWindow
<1> QED BY <1>1, <1>2

\* What a check makes of the windows: its identifiers are counted, the others kept or pruned.
LEMMA WindowsAfter ==
    ASSUME NEW c, NEW ids, Logged(c, ids)
    PROVE  /\ DOMAIN windows' = RL!Pruned \cup ids /\ RL!Pruned \subseteq DOMAIN windows
           /\ \A id \in ids : windows'[id] = RL!Hit(id)
           /\ \A id \in RL!Pruned : id \notin ids => windows'[id] = windows[id]
           /\ \A id \in DOMAIN windows : id \notin RL!Pruned => RL!Over(id)
           /\ clock' = clock
BY DEF Logged, CheckRateLimit, RL!Check, RL!Counted, RL!Pruned

\* The check that opens a window is the first that counts in it.
LEMMA WindowOpens ==
    ASSUME TypeOK, RateInv, LogTypes', NEW c \in Caller, NEW ids \in SUBSET RL!Identifier,
           Logged(c, ids), NEW id \in ids, RL!Over(id)
    PROVE  WindowCounts(id)'
<1>0. /\ clock \in Int /\ Window \in Nat \ {0} /\ MaxPerWindow \in Nat \ {0} /\ LogTypes
      /\ clock' = clock
  BY WindowAssumption DEF TypeOK, RateInv, Logged
<1>1. windows'[id].start = clock /\ windows'[id].count = 1
  <2>1. windows'[id] = [start |-> clock, count |-> 1]
    BY WindowsAfter DEF RL!Hit
  <2> QED BY <2>1
<1>2. NoWindow(id)
  BY NotRunning
<1>3. Checks(id, clock, clock)' = {c}
  <2>1. Checks(id, clock, clock) = {}
    BY <1>0, <1>2 DEF NoWindow, Checks
  <2> QED BY <1>0, <2>1, NowCounted
<1>4. Cardinality({c}) = 1 /\ IsFiniteSet({c})
  BY FS_Singleton
<1>5. Cardinality(Passed(id, clock, clock)') <= MaxPerWindow
  <2>1. Passed(id, clock, clock)' \subseteq {c}
    BY <1>3 DEF Passed
  <2> QED BY <1>0, <1>4, <2>1, Part
<1>6. Cardinality(Passed(id, clock + 1, clock)') <= MaxPerWindow - 1
  <2>1. Passed(id, clock + 1, clock)' = {}
    BY <1>0 DEF Passed, Checks
  <2> QED BY <1>0, <2>1, FS_EmptySet
<1>7. Cardinality(Passed(id, clock - Window + 1, clock - 1)') <= MaxPerWindow - 1
  <2> DEFINE from == clock - Window + 1
  <2>0. from \in Int /\ clock - 1 \in Int /\ clock \notin from..clock - 1
    BY <1>0
  <2>1. Passed(id, from, clock - 1)' = Passed(id, from, clock - 1)
    BY <1>0, <2>0, NowCounted
  <2>2. Cardinality(Passed(id, from, clock - 1)) <= Cardinality(Passed(id, from, clock))
    <3>1. \A d \in Checks(id, from, clock - 1) : log[d].at \in from..clock
      BY <1>0, <2>0 DEF Checks
    <3> QED BY <1>0, <2>0, <3>1, Within
  <2>3. Cardinality(Passed(id, from, clock)) <= MaxPerWindow - 1
    BY <1>2 DEF NoWindow
  <2>4. Cardinality(Passed(id, from, clock - 1)) \in Nat /\ Cardinality(Passed(id, from, clock)) \in Nat
    BY <1>0, CheckSets
  <2>5. Cardinality(Passed(id, from, clock - 1)) <= MaxPerWindow - 1
    BY <1>0, <2>2, <2>3, <2>4
  <2> QED BY <1>0, <2>1, <2>5
<1>8. \A d \in Caller : log'[d] # None /\ id \in log'[d].ids => log'[d].at < clock + Window
  <2>1. \A d \in Caller : log'[d] # None => log'[d].at \in Int /\ log'[d].at <= clock
    BY <1>0 DEF LogTypes, CheckRecord
  <2> QED BY <1>0, <2>1
<1> QED BY <1>0, <1>1, <1>3, <1>4, <1>5, <1>6, <1>7, <1>8 DEF WindowCounts

\* A check counted in a running window passes only while the count is within the limit.
LEMMA WindowGoesOn ==
    ASSUME TypeOK, RateInv, LogTypes', NEW c \in Caller, NEW ids \in SUBSET RL!Identifier,
           Logged(c, ids), NEW id \in ids, ~RL!Over(id)
    PROVE  WindowCounts(id)'
<1>0. /\ clock \in Int /\ Window \in Nat \ {0} /\ MaxPerWindow \in Nat \ {0} /\ LogTypes
      /\ clock' = clock
  BY WindowAssumption DEF TypeOK, RateInv, Logged
<1>d. id \in DOMAIN windows /\ id \in RL!Pruned
  BY WindowsAfter DEF RL!Over, RL!Pruned
<1>p. PICK s, n : s = windows[id].start /\ n = windows[id].count
  OBVIOUS
<1>1. s \in Int /\ n \in Nat /\ clock - s < Window /\ s <= clock /\ s + 1 \in Int
  BY <1>0, <1>d, <1>p DEF LogTypes, RL!Over, RateInv, WindowCounts
<1>2. windows'[id].start = s /\ windows'[id].count = n + 1 /\ RL!Hit(id).count = n + 1
  <2>1. RL!Hit(id) = [windows[id] EXCEPT !.count = @ + 1]
    BY <1>d DEF RL!Hit
  <2>2. windows[id] \in [start : Int, count : Nat]
    BY <1>d, <1>0 DEF LogTypes
  <2>3. windows'[id] = RL!Hit(id)
    BY WindowsAfter
  <2> QED BY <1>p, <2>1, <2>2, <2>3
<1>3. WindowCounts(id)
  BY <1>d DEF RateInv
<1>4. /\ Checks(id, s, clock)' = Checks(id, s, clock) \cup {c}
      /\ c \notin Checks(id, s, clock) /\ n = Cardinality(Checks(id, s, clock))
      /\ IsFiniteSet(Checks(id, s, clock)')
      /\ Cardinality(Checks(id, s, clock)') = n + 1
  <2>1. /\ Checks(id, s, clock)' = Checks(id, s, clock) \cup {c}
        /\ c \notin Checks(id, s, clock)
    BY <1>0, <1>1, NowCounted
  <2>2. n = Cardinality(Checks(id, s, clock))
    BY <1>p, <1>3 DEF WindowCounts
  <2> QED BY <1>0, <2>1, <2>2, CheckSets, FS_AddElement
<1>5. PICK o : o \in Checks(id, s, s)
  BY <1>p, <1>3 DEF WindowCounts
<1>6. o \in Checks(id, s, s)' /\ o \in Checks(id, s, clock)' /\ o # c
  <2>1. o \in Caller /\ log[o] # None /\ id \in log[o].ids /\ log[o].at = s
    BY <1>1, <1>5 DEF Checks
  <2>2. log[c] = None /\ log'[o] = log[o]
    BY <2>1 DEF Logged, CheckRateLimit, LogTypes
  <2> QED BY <1>0, <1>1, <2>1, <2>2 DEF Checks
<1>7. RL!Allowed(ids) => n + 1 <= MaxPerWindow
  BY <1>2 DEF RL!Allowed, RL!Within
<1>8. /\ Cardinality(Passed(id, s, clock)') <= MaxPerWindow
      /\ Cardinality(Passed(id, s + 1, clock)') <= MaxPerWindow - 1
  <2>1. CASE RL!Allowed(ids)
    <3>1. Passed(id, s, clock)' \subseteq Checks(id, s, clock)'
      BY DEF Passed
    <3>2. Passed(id, s + 1, clock)' \subseteq Checks(id, s, clock)' \ {o}
      <4>1. log'[o].at = s
        BY <1>0, <1>1, <1>6 DEF Checks
      <4> QED BY <1>0, <1>1, <4>1 DEF Passed, Checks
    <3>3. IsFiniteSet(Checks(id, s, clock)' \ {o}) /\ Cardinality(Checks(id, s, clock)' \ {o}) = n
      <4> DEFINE all == Checks(id, s, clock)'
      <4>1. IsFiniteSet(all) /\ o \in all /\ Cardinality(all) = n + 1
        BY <1>4, <1>6
      <4>2. IsFiniteSet(all \ {o}) /\ Cardinality(all \ {o}) = Cardinality(all) - 1
        <5> HIDE DEF all
        <5> QED BY <4>1, FS_RemoveElement
      <4> QED BY <1>1, <4>1, <4>2
    <3>4. Cardinality(Passed(id, s, clock)') <= n + 1
      BY <1>4, <3>1, Part
    <3>5. Cardinality(Passed(id, s + 1, clock)') <= n
      BY <3>2, <3>3, Part
    <3>6. Cardinality(Passed(id, s, clock)') \in Nat /\ Cardinality(Passed(id, s + 1, clock)') \in Nat
      BY <1>4, <3>1, <3>2, <3>3, Part
    <3> QED BY <1>0, <1>1, <1>7, <2>1, <3>4, <3>5, <3>6
  <2>2. CASE ~RL!Allowed(ids)
    <3>1. Passed(id, s, clock)' = Passed(id, s, clock)
      BY <1>0, <1>1, <2>2, NowCounted
    <3>2. Passed(id, s + 1, clock)' = Passed(id, s + 1, clock)
      BY <1>0, <1>1, <2>2, NowCounted
    <3> QED BY <1>p, <1>3, <3>1, <3>2 DEF WindowCounts
  <2> QED BY <2>1, <2>2
<1>9. Cardinality(Passed(id, s - Window + 1, s - 1)') <= MaxPerWindow - 1
  <2>0. s - Window + 1 \in Int /\ s - 1 \in Int /\ clock \notin (s - Window + 1)..(s - 1)
    BY <1>0, <1>1
  <2>1. Passed(id, s - Window + 1, s - 1)' = Passed(id, s - Window + 1, s - 1)
    BY <1>0, <2>0, NowCounted
  <2> QED BY <1>p, <1>3, <2>1 DEF WindowCounts
<1>10. \A d \in Caller : log'[d] # None /\ id \in log'[d].ids => log'[d].at < s + Window
  <2>1. \A d \in Caller : log'[d] # None => log'[d].at \in Int /\ log'[d].at <= clock
    BY <1>0 DEF LogTypes, CheckRecord
  <2> QED BY <1>0, <1>1, <2>1
<1>s. (Checks(id, s, s)') # {}
  BY <1>6
<1> QED BY <1>0, <1>1, <1>2, <1>4, <1>8, <1>9, <1>10, <1>s DEF WindowCounts

\* Time passes: what was counted up to the clock is what was counted up to now.
LEMMA WindowsAge ==
    ASSUME TypeOK, RateInv, LogTypes', UNCHANGED <<windows, log>>, clock' \in Int, clock <= clock',
           NEW id \in RL!Identifier
    PROVE  /\ id \in DOMAIN windows' => WindowCounts(id)'
           /\ id \notin DOMAIN windows' => NoWindow(id)'
<1>0. /\ clock \in Int /\ Window \in Nat \ {0} /\ MaxPerWindow \in Nat \ {0} /\ LogTypes
      /\ \A c \in Caller : log[c] # None => log[c].at \in Int /\ log[c].at <= clock
  BY WindowAssumption DEF TypeOK, RateInv, LogTypes, CheckRecord
<1>1. ASSUME id \in DOMAIN windows PROVE WindowCounts(id)'
  <2>1. PICK s : s = windows[id].start
    OBVIOUS
  <2>2. WindowCounts(id) /\ s \in Int
    BY <1>0, <1>1, <2>1 DEF RateInv, LogTypes
  <2>3. \A from \in Int : /\ Checks(id, from, clock)' = Checks(id, from, clock)
                          /\ Passed(id, from, clock)' = Passed(id, from, clock)
    BY <1>0 DEF Checks, Passed
  <2>4. /\ Checks(id, s, s)' = Checks(id, s, s)
        /\ Passed(id, s - Window + 1, s - 1)' = Passed(id, s - Window + 1, s - 1)
    BY DEF Checks, Passed
  <2>5. s + 1 \in Int /\ s <= clock'
    BY <1>0, <2>1, <2>2 DEF WindowCounts
  <2> QED BY <1>0, <2>1, <2>2, <2>3, <2>4, <2>5 DEF WindowCounts
<1>2. ASSUME id \notin DOMAIN windows PROVE NoWindow(id)'
  <2>1. NoWindow(id)
    BY <1>2 DEF RateInv
  <2>2. Passed(id, clock - Window + 1, clock)' \subseteq Passed(id, clock - Window + 1, clock)
    BY <1>0 DEF Checks, Passed
  <2>3. /\ Cardinality(Passed(id, clock - Window + 1, clock)') \in Nat
        /\ Cardinality(Passed(id, clock - Window + 1, clock)) \in Nat
        /\ Cardinality(Passed(id, clock - Window + 1, clock)')
              <= Cardinality(Passed(id, clock - Window + 1, clock))
    BY <1>0, <2>2, CheckSets, Part
  <2>4. Cardinality(Passed(id, clock - Window + 1, clock)) <= MaxPerWindow - 1
    BY <2>1 DEF NoWindow
  <2>5. Cardinality(Passed(id, clock - Window + 1, clock)') <= MaxPerWindow - 1
    BY <1>0, <2>3, <2>4
  <2> QED BY <1>0, <2>1, <2>5 DEF NoWindow
<1> QED BY <1>1, <1>2

\* The windows after a check, of the identifiers it counts and of the others.
LEMMA WindowsStep ==
    ASSUME TypeOK, RateInv, LogTypes', NEW c \in Caller, NEW ids \in SUBSET RL!Identifier,
           Logged(c, ids), NEW id \in RL!Identifier
    PROVE  /\ id \in DOMAIN windows' => WindowCounts(id)'
           /\ id \notin DOMAIN windows' => NoWindow(id)'
<1>0. LogTypes /\ clock' = clock
  BY DEF RateInv, Logged
<1>1. CASE id \in ids
  BY <1>1, WindowsAfter, WindowOpens, WindowGoesOn
<1>2. CASE id \notin ids
  <2>1. \A from, to : /\ Checks(id, from, to)' = Checks(id, from, to)
                      /\ Passed(id, from, to)' = Passed(id, from, to)
    BY <1>0, <1>2, NotCounted
  <2>2. \A d \in Caller : log'[d] # None /\ id \in log'[d].ids =>
            log[d] # None /\ id \in log[d].ids /\ log'[d].at = log[d].at
    <3>1. log'[c].ids = ids /\ \A d \in Caller : d # c => log'[d] = log[d]
      BY <1>0 DEF Logged, CheckRateLimit, LogTypes
    <3> QED BY <1>2, <3>1
  <2>3. CASE id \in RL!Pruned
    <3>1. id \in DOMAIN windows' /\ id \in DOMAIN windows /\ windows'[id] = windows[id]
      BY <1>2, <2>3, WindowsAfter
    <3>2. WindowCounts(id)
      BY <3>1 DEF RateInv
    <3> QED BY <1>0, <2>1, <2>2, <3>1, <3>2 DEF WindowCounts
  <2>4. CASE id \notin RL!Pruned
    <3>1. id \notin DOMAIN windows' /\ RL!Over(id)
      BY <1>2, <2>4, WindowsAfter DEF RL!Over
    <3>2. NoWindow(id)
      BY <3>1, NotRunning
    <3> QED BY <1>0, <2>1, <2>2, <3>1, <3>2 DEF NoWindow
  <2> QED BY <2>3, <2>4
<1> QED BY <1>1, <1>2

\* A stretch of time that the clock is in: what passed in it passed in the running window,
\* or in a window's length before that.
LEMMA HistoryStep ==
    ASSUME TypeOK, RateInv, LogTypes', NEW c \in Caller, NEW ids \in SUBSET RL!Identifier,
           Logged(c, ids), NEW id \in RL!Identifier, NEW t \in Time
    PROVE  Cardinality(Passed(id, t, t + Window - 1)') <= 2 * MaxPerWindow - 1
<1>0. /\ clock \in Int /\ Window \in Nat \ {0} /\ MaxPerWindow \in Nat \ {0} /\ LogTypes
      /\ clock' = clock /\ t \in Int /\ t + Window - 1 \in Int
  BY WindowAssumption, LimitAssumption DEF TypeOK, RateInv, Logged, Time
<1>1. CASE id \notin ids \/ clock \notin t..(t + Window - 1)
  <2>1. Passed(id, t, t + Window - 1)' = Passed(id, t, t + Window - 1)
    BY <1>0, <1>1, NotCounted, NowCounted
  <2> QED BY <2>1 DEF RateInv
<1>2. CASE id \in ids /\ clock \in t..(t + Window - 1)
  <2>1. PICK s : s = windows'[id].start
    OBVIOUS
  <2>2. WindowCounts(id)' /\ id \in DOMAIN windows'
    BY <1>2, WindowsStep, WindowsAfter
  <2>3. /\ s \in Int /\ clock - s < Window /\ s <= clock
        /\ s - Window + 1 \in Int /\ s - 1 \in Int
        /\ \A d \in Caller : log'[d] # None => log'[d].at \in Int /\ log'[d].at <= clock
    <3>1. s \in Int
      BY <2>1, <2>2 DEF LogTypes
    <3>2. PICK d \in Caller : log'[d] # None /\ id \in log'[d].ids /\ log'[d].at = clock
      <4>1. c \in Checks(id, clock, clock)'
        BY <1>0, <1>2, NowCounted
      <4> QED BY <1>0, <4>1 DEF Checks
    <3>3. log'[d].at < s + Window /\ s <= clock
      BY <1>0, <2>1, <2>2, <3>2 DEF WindowCounts
    <3>4. \A e \in Caller : log'[e] # None => log'[e].at \in Int /\ log'[e].at <= clock
      BY <1>0 DEF LogTypes, CheckRecord
    <3> QED BY <1>0, <3>1, <3>2, <3>3, <3>4
  <2>4. Passed(id, t, t + Window - 1)'
           \subseteq Passed(id, s, clock)' \cup Passed(id, s - Window + 1, s - 1)'
    <3> SUFFICES ASSUME NEW d \in Passed(id, t, t + Window - 1)'
                 PROVE  \/ d \in Passed(id, s, clock)'
                        \/ d \in Passed(id, s - Window + 1, s - 1)'
      OBVIOUS
    <3>1. /\ d \in Caller /\ log'[d] # None /\ id \in log'[d].ids /\ log'[d].ok
          /\ log'[d].at \in t..(t + Window - 1)
      BY DEF Passed, Checks
    <3>2. log'[d].at \in s..clock' \/ log'[d].at \in (s - Window + 1)..(s - 1)
      BY <1>0, <1>2, <2>3, <3>1
    <3> QED BY <3>1, <3>2 DEF Passed, Checks
  <2>5. /\ Cardinality(Passed(id, s, clock)') <= MaxPerWindow
        /\ Cardinality(Passed(id, s - Window + 1, s - 1)') <= MaxPerWindow - 1
    BY <2>1, <2>2 DEF WindowCounts
  <2>6. /\ IsFiniteSet(Passed(id, s, clock)')
        /\ IsFiniteSet(Passed(id, s - Window + 1, s - 1)')
    <3>1. /\ Passed(id, s, clock)' \subseteq {d \in Caller : log'[d] # None}
          /\ Passed(id, s - Window + 1, s - 1)' \subseteq {d \in Caller : log'[d] # None}
      BY DEF Passed, Checks
    <3> QED BY <3>1, FS_Subset DEF LogTypes
  <2> DEFINE A == Passed(id, s, clock)'
             B == Passed(id, s - Window + 1, s - 1)'
             S == Passed(id, t, t + Window - 1)'
  <2>7. /\ Cardinality(S) \in Nat /\ Cardinality(A) \in Nat /\ Cardinality(B) \in Nat
        /\ Cardinality(S) <= Cardinality(A) + Cardinality(B)
    BY <2>4, <2>6, Cover
  <2> QED BY <1>0, <2>5, <2>7
<1> QED BY <1>1, <1>2

\* A login start is counted by its npub at its address and by its address.
LEMMA StartCounts ==
    ASSUME NEW c, NEW ids, Logged(c, ids)
    PROVE  /\ \A n \in Principal \cup {Junk}, ip \in Ip :
                 RL!Id("init", "npub", n, ip) \in ids => RL!Id("init", "ip", None, ip) \in ids
           /\ \A ip \in Ip : c \in InitReq /\ RL!Id("init", "ip", None, ip) \in ids =>
                 \A id \in ids : \/ id = RL!Id("init", "ip", None, ip)
                                 \/ \E n \in Principal \cup {Junk} : id = RL!Id("init", "npub", n, ip)
<1>1. ASSUME NEW n \in Principal \cup {Junk}, NEW a \in Opt(Ip),
             ids = RL!Identifiers("init", n, None, a)
      PROVE  /\ \A m \in Principal \cup {Junk}, ip \in Ip :
                   RL!Id("init", "npub", m, ip) \in ids => RL!Id("init", "ip", None, ip) \in ids
             /\ \A ip \in Ip : RL!Id("init", "ip", None, ip) \in ids =>
                   \A id \in ids : \/ id = RL!Id("init", "ip", None, ip)
                                   \/ id = RL!Id("init", "npub", n, ip)
  BY <1>1, NoneAssumption DEF RL!Identifiers, RL!Id
<1>2. ASSUME c \notin InitReq
      PROVE  \A m \in Principal \cup {Junk}, ip \in Ip : RL!Id("init", "npub", m, ip) \notin ids
  BY <1>2 DEF Logged, RL!Identifiers, RL!Id
<1> QED BY <1>1, <1>2 DEF Logged

\* The rate invariant is inductive.
LEMMA RateStep ==
    TypeOK /\ RateInv /\ [IssuanceNext]_<<vars, limiterVars>> => RateInv'
<1> SUFFICES ASSUME TypeOK, RateInv, [IssuanceNext]_<<vars, limiterVars>> PROVE RateInv'
  OBVIOUS
<1>0. LogTypes /\ LogTypes' /\ clock \in Int /\ clock' \in Int
  BY LogTypesStep, LimiterStep DEF RateInv
<1>1. CASE UNCHANGED <<windows, lastPrunedAt, log>> /\ clock <= clock'
  <2>1. AddressCounted'
    BY <1>1 DEF RateInv, AddressCounted
  <2>2. \A id, t : Passed(id, t, t + Window - 1)' = Passed(id, t, t + Window - 1)
    BY <1>1 DEF Passed, Checks
  <2> QED BY <1>0, <1>1, <2>1, <2>2, WindowsAge DEF RateInv
<1>2. ASSUME NEW c \in Caller, NEW ids \in SUBSET RL!Identifier, Logged(c, ids) PROVE RateInv'
  <2>1. AddressCounted'
    <3>1. /\ log'[c] # None => log'[c].ids = ids
          /\ \A d \in Caller : d # c => log'[d] = log[d]
      BY <1>0, <1>2 DEF Logged, CheckRateLimit, LogTypes
    <3> QED BY <1>2, <3>1, StartCounts DEF RateInv, AddressCounted
  <2> QED BY <1>0, <1>2, <2>1, WindowsStep, HistoryStep DEF RateInv
<1> QED BY <1>0, <1>1, <1>2, LimiterStep

\* ... and holds at the start.
LEMMA RateStart == IssuanceInit => RateInv
<1> SUFFICES ASSUME IssuanceInit PROVE RateInv
  OBVIOUS
<1>1. /\ \A c \in Caller : log[c] = None
      /\ DOMAIN windows = {} /\ windows = [id \in {} |-> None] /\ lastPrunedAt = -1
  BY DEF IssuanceInit
<1>2. \A id, from, to : Passed(id, from, to) = {}
  BY <1>1 DEF Passed, Checks
<1>3. Cardinality({}) = 0 /\ IsFiniteSet({})
  BY FS_EmptySet
<1>4. LogTypes
  <2>1. {c \in Caller : log[c] # None} = {}
    BY <1>1
  <2>2. log \in [Caller -> CheckRecord \cup {None}]
    BY DEF IssuanceInit
  <2>3. windows \in [DOMAIN windows -> [start : Int, count : Nat]]
    BY <1>1
  <2>4. IsFiniteSet({c \in Caller : log[c] # None})
    BY <1>3, <2>1
  <2>5. DOMAIN windows \subseteq RL!Identifier /\ lastPrunedAt \in Int
    BY <1>1
  <2>6. \A i \in InitReq : i \in Caller
    BY DEF Caller
  <2> QED BY <1>1, <2>2, <2>3, <2>4, <2>5, <2>6 DEF LogTypes
<1>5. /\ 0 <= MaxPerWindow - 1 /\ 0 <= 2 * MaxPerWindow - 1
      /\ MaxPerWindow - 1 \in Int
  BY WindowAssumption
<1>6. \A id, from, to : Cardinality(Passed(id, from, to)) = 0
  BY <1>2, <1>3
<1>7. AddressCounted
  BY <1>1 DEF AddressCounted
<1>8. \A id : NoWindow(id)
  BY <1>1, <1>5, <1>6 DEF NoWindow
<1> QED BY <1>1, <1>4, <1>5, <1>6, <1>7, <1>8 DEF RateInv

\* The rate limiter never lets 2 * MaxPerWindow requests of one identifier through in a
\* window's length, across the edges of its fixed windows (RateBounded).
THEOREM RateLimited == IssuanceSpec => []RateBounded
<1>1. RateInv => RateBounded
  BY DEF RateInv, RateBounded, LogTypes, Passed
<1>2. IssuanceSpec => []TypeOK
  BY IssuanceIsLogin, TypeCorrect
<1> QED BY <1>1, <1>2, RateStart, RateStep, PTL DEF IssuanceSpec

\* A refusal is earned: an identifier over its budget was checked that often since its
\* window began, and each check of a npub at an address was one of the address.
LEMMA RefusalEarned ==
    ASSUME TypeOK, RateInv, RateInv', NEW c \in InitReq, NEW ids \in SUBSET RL!Identifier,
           Logged(c, ids), ~RL!Allowed(ids), NEW ip \in Ip, RL!Id("init", "ip", None, ip) \in ids
    PROVE  Cardinality(Checks(RL!Id("init", "ip", None, ip), clock - Window + 1, clock)')
              > MaxPerWindow
<1>0. /\ clock \in Int /\ Window \in Nat \ {0} /\ MaxPerWindow \in Nat \ {0} /\ LogTypes
      /\ clock' = clock /\ c \in Caller /\ LogTypes'
  BY WindowAssumption DEF TypeOK, RateInv, Logged, Caller
<1>1. PICK id \in ids : ~(RL!Hit(id).count <= MaxPerWindow)
  BY DEF RL!Allowed, RL!Within
<1>2. PICK s : s = windows'[id].start
  OBVIOUS
<1>3. WindowCounts(id)' /\ windows'[id] = RL!Hit(id) /\ s \in Int
  <2>1. id \in DOMAIN windows' /\ windows'[id] = RL!Hit(id)
    BY WindowsAfter
  <2>2. id \in RL!Identifier
    OBVIOUS
  <2>3. WindowCounts(id)'
    BY <2>1, <2>2 DEF RateInv
  <2>4. windows'[id] \in [start : Int, count : Nat]
    BY <1>0, <2>1 DEF LogTypes
  <2> QED BY <1>2, <2>1, <2>3, <2>4
<1>4. clock - s < Window
  <2>1. c \in Checks(id, clock, clock)'
    BY <1>0, NowCounted
  <2>2. log'[c].at = clock /\ log'[c] # None /\ id \in log'[c].ids
    BY <1>0, <2>1 DEF Checks
  <2>3. log'[c].at < s + Window
    BY <1>0, <1>2, <1>3, <2>2 DEF WindowCounts
  <2> QED BY <1>0, <1>3, <2>2, <2>3
<1>5. Cardinality(Checks(id, s, clock)') = RL!Hit(id).count
  BY <1>2, <1>3 DEF WindowCounts
<1> DEFINE a == RL!Id("init", "ip", None, ip)
           A == Checks(id, s, clock)'
           B == Checks(a, clock - Window + 1, clock)'
<1>6. A \subseteq B
  <2>1. id = a \/ \E n \in Principal \cup {Junk} : id = RL!Id("init", "npub", n, ip)
    BY StartCounts
  <2>2. \A d \in Caller : log'[d] # None /\ id \in log'[d].ids => a \in log'[d].ids
    BY <2>1 DEF RateInv, AddressCounted
  <2>3. \A d \in Caller : log'[d] # None => log'[d].at \in Int
    BY <1>0 DEF LogTypes, CheckRecord
  <2> QED BY <1>0, <1>3, <1>4, <2>2, <2>3 DEF Checks
<1>7. IsFiniteSet(B)
  <2>1. B \subseteq {d \in Caller : log'[d] # None}
    BY DEF Checks
  <2> QED BY <1>0, <2>1, FS_Subset DEF LogTypes
<1>8. Cardinality(A) \in Nat /\ Cardinality(B) \in Nat /\ Cardinality(A) <= Cardinality(B)
  BY <1>6, <1>7, Part
<1>9. ~(Cardinality(A) <= MaxPerWindow)
  BY <1>1, <1>5
<1> HIDE DEF A, B
<1>10. Cardinality(B) > MaxPerWindow
  BY <1>0, <1>8, <1>9
<1> QED BY <1>10 DEF B, a

\* What is earned stays earned: checks are only added.
LEMMA LockoutStep ==
    TypeOK /\ RateInv /\ RateInv' /\ NoLockout /\ [IssuanceNext]_<<vars, limiterVars>>
    => NoLockout'
<1> SUFFICES ASSUME TypeOK, RateInv, RateInv', NoLockout, [IssuanceNext]_<<vars, limiterVars>>,
                    NEW i \in InitReq, NEW ip \in Ip,
                    log'[i] # None, ~log'[i].ok, RL!Id("init", "ip", None, ip) \in log'[i].ids
             PROVE  Cardinality(Checks(RL!Id("init", "ip", None, ip), log[i].at - Window + 1, log[i].at)')
                       > MaxPerWindow
  BY DEF NoLockout
<1> DEFINE a == RL!Id("init", "ip", None, ip)
<1>0. LogTypes /\ LogTypes' /\ i \in Caller /\ Window \in Nat /\ MaxPerWindow \in Nat
  BY WindowAssumption DEF RateInv, Caller
<1>1. ASSUME log'[i] = log[i], \A d \in Caller : log[d] # None => log'[d] = log[d]
      PROVE  Cardinality(Checks(a, log[i].at - Window + 1, log[i].at)') > MaxPerWindow
  <2>1. PICK at : at = log[i].at /\ at = log'[i].at
    BY <1>1
  <2>2. Cardinality(Checks(a, at - Window + 1, at)) > MaxPerWindow
    BY <1>1, <2>1 DEF NoLockout
  <2> DEFINE A == Checks(a, at - Window + 1, at)
             B == Checks(a, at - Window + 1, at)'
  <2>3. A \subseteq B
    BY <1>1 DEF Checks
  <2>4. IsFiniteSet(B)
    <3>1. B \subseteq {d \in Caller : log'[d] # None}
      BY DEF Checks
    <3> QED BY <1>0, <3>1, FS_Subset DEF LogTypes
  <2>5. Cardinality(A) \in Nat /\ Cardinality(B) \in Nat /\ Cardinality(A) <= Cardinality(B)
    BY <2>3, <2>4, Part
  <2>6. Cardinality(B) > MaxPerWindow
    BY <1>0, <2>2, <2>5
  <2> QED BY <2>1, <2>6
<1>2. CASE UNCHANGED log
  BY <1>1, <1>2
<1>3. ASSUME NEW c \in Caller, NEW ids \in SUBSET RL!Identifier, Logged(c, ids)
      PROVE  Cardinality(Checks(a, log[i].at - Window + 1, log[i].at)') > MaxPerWindow
  <2>1. /\ log[c] = None /\ log'[c] = [ids |-> ids, at |-> clock, ok |-> RL!Allowed(ids)]
        /\ \A d \in Caller : d # c => log'[d] = log[d]
        /\ clock' = clock
    BY <1>0, <1>3 DEF Logged, CheckRateLimit, LogTypes
  <2>2. CASE c # i
    BY <1>0, <1>1, <2>1, <2>2
  <2>3. CASE c = i
    <3>1. log'[i].at = clock /\ log'[i].ids = ids /\ log'[i].ok = RL!Allowed(ids)
      BY <2>1, <2>3
    <3>2. Cardinality(Checks(a, clock - Window + 1, clock)') > MaxPerWindow
      BY <1>3, <2>3, <3>1, RefusalEarned
    <3> QED BY <2>1, <3>1, <3>2
  <2> QED BY <2>2, <2>3
<1> QED BY <1>0, <1>2, <1>3, LimiterStep

\* Nobody is locked out of login by strangers: a refused login start comes from an address
\* that itself made more than MaxPerWindow requests in the last window (NoLockout).
THEOREM NobodyLockedOut == IssuanceSpec => []NoLockout
<1>1. IssuanceInit => NoLockout
  BY DEF IssuanceInit, NoLockout, Caller
<1>2. IssuanceSpec => []TypeOK
  BY IssuanceIsLogin, TypeCorrect
<1> QED BY <1>1, <1>2, RateStart, RateStep, LockoutStep, PTL DEF IssuanceSpec
=============================================================================
