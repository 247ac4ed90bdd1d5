------------------------ MODULE ClientSessionProofs ------------------------
(***************************************************************************)
(* Why a locked browser session has no key and an unlocked one has its     *)
(* key, why a lock is never a dead end, and why nothing but resume() puts  *)
(* another account in a tab, for any number of tabs and of calls under     *)
(* way in them.                                                            *)
(***************************************************************************)
EXTENDS ClientSession, TLAPS

-----------------------------------------------------------------------------
(* What each of the ways of changing a tab does to it. *)

\* activityLock.touch only starts timers.
LEMMA TouchedFields ==
    ASSUME NEW x \in TabRecord
    PROVE  /\ Touched(x) \in TabRecord
           /\ Touched(x).open = x.open /\ Touched(x).session = x.session
           /\ Touched(x).locked = x.locked /\ Touched(x).shut = x.shut /\ Touched(x).key = x.key
           /\ Touched(x).via = x.via /\ Touched(x).lapsed = x.lapsed /\ Touched(x).out = x.out
  BY DEF Touched, TabRecord

\* An unlocked tab is neither locked nor shut down, and otherwise as it was.
LEMMA UnlockedFields ==
    ASSUME NEW x \in TabRecord
    PROVE  /\ Unlocked(x) \in TabRecord
           /\ Unlocked(x).open = x.open /\ Unlocked(x).session = x.session
           /\ Unlocked(x).locked = FALSE /\ Unlocked(x).shut = FALSE /\ Unlocked(x).key = x.key
           /\ Unlocked(x).via = x.via /\ Unlocked(x).lapsed = x.lapsed /\ Unlocked(x).out = x.out
  BY DEF Unlocked, TabRecord

\* A lock takes the key.
LEMMA EvictedFields ==
    ASSUME NEW x \in TabRecord
    PROVE  /\ Evicted(x) \in TabRecord
           /\ Evicted(x).open = x.open /\ Evicted(x).session = x.session
           /\ Evicted(x).locked = TRUE /\ Evicted(x).shut = x.shut /\ Evicted(x).key = FALSE
           /\ Evicted(x).via = x.via /\ Evicted(x).lapsed = x.lapsed /\ Evicted(x).out = x.out
  BY DEF Evicted, TabRecord

\* A shutdown is a lock.
LEMMA ShutDownFields ==
    ASSUME NEW x \in TabRecord
    PROVE  /\ ShutDown(x) \in TabRecord
           /\ ShutDown(x).open = x.open /\ ShutDown(x).session = x.session
           /\ ShutDown(x).locked = TRUE /\ ShutDown(x).key = FALSE
           /\ ShutDown(x).via = x.via /\ ShutDown(x).lapsed = x.lapsed /\ ShutDown(x).out = x.out
<1>1. PICK e \in TabRecord : e = Evicted(x)
  BY EvictedFields
<1>2. ShutDown(x) = [e EXCEPT !.shut = TRUE]
  BY <1>1 DEF ShutDown
<1>3. /\ e.open = x.open /\ e.session = x.session /\ e.locked = TRUE /\ e.key = FALSE
      /\ e.via = x.via /\ e.lapsed = x.lapsed /\ e.out = x.out
  BY <1>1, EvictedFields
<1>4. PICK d : d = [e EXCEPT !.shut = TRUE]
  OBVIOUS
<1>5. /\ d \in TabRecord
      /\ d.open = e.open /\ d.session = e.session /\ d.locked = e.locked /\ d.key = e.key
      /\ d.via = e.via /\ d.lapsed = e.lapsed /\ d.out = e.out
  BY <1>1, <1>4 DEF TabRecord
<1> QED
  BY <1>2, <1>3, <1>4, <1>5

\* Setting a key unlocks.
LEMMA KeySetFields ==
    ASSUME NEW x \in TabRecord
    PROVE  /\ KeySet(x) \in TabRecord
           /\ KeySet(x).session = x.session
           /\ KeySet(x).locked = FALSE /\ KeySet(x).shut = FALSE
           /\ kind = "key" => KeySet(x).key
           /\ KeySet(x).via = x.via /\ KeySet(x).lapsed = x.lapsed
<1>1. PICK k \in BOOLEAN : k <=> kind = "key"
  OBVIOUS
<1>2. k = (kind = "key")
  BY <1>1
<1>3. PICK u \in TabRecord : u = Unlocked(x)
  BY UnlockedFields
<1>4. PICK d : d = [u EXCEPT !.key = k, !.out = FALSE]
  OBVIOUS
<1>5. d \in TabRecord
  <2>1. [u EXCEPT !.key = k] \in TabRecord
    BY <1>1, <1>3 DEF TabRecord
  <2>2. \A v \in TabRecord : [v EXCEPT !.out = FALSE] \in TabRecord
    BY DEF TabRecord
  <2>3. d = [[u EXCEPT !.key = k] EXCEPT !.out = FALSE]
    BY <1>4
  <2> QED
    BY <2>1, <2>2, <2>3
<1>6. /\ d.session = u.session /\ d.locked = u.locked /\ d.shut = u.shut
      /\ d.key = k /\ d.via = u.via /\ d.lapsed = u.lapsed
  BY <1>3, <1>4 DEF TabRecord
<1>7. KeySet(x) = d
  BY <1>2, <1>3, <1>4 DEF KeySet
<1>8. /\ u.session = x.session /\ u.locked = FALSE /\ u.shut = FALSE
      /\ u.via = x.via /\ u.lapsed = x.lapsed
  BY <1>3, UnlockedFields
<1> QED
  BY <1>1, <1>5, <1>6, <1>7, <1>8

\* A logged-out tab has neither a session nor a key nor a lock.
LEMMA LoggedOutFields ==
    ASSUME NEW x \in TabRecord
    PROVE  /\ LoggedOut(x) \in TabRecord
           /\ LoggedOut(x).session = None /\ LoggedOut(x).locked = FALSE /\ LoggedOut(x).shut = FALSE
           /\ LoggedOut(x).key = FALSE /\ LoggedOut(x).out = TRUE
<1>1. PICK u \in TabRecord : u = Unlocked(x) /\ u.locked = FALSE /\ u.shut = FALSE
  BY UnlockedFields
<1>2. PICK d : d = [u EXCEPT !.session = None, !.key = FALSE, !.via = "none",
                             !.lapsed = FALSE, !.out = TRUE]
  OBVIOUS
<1>3. None \in Opt(Account)
  BY DEF Opt
<1>4. /\ d \in TabRecord /\ d.session = None /\ d.key = FALSE /\ d.out = TRUE
      /\ d.locked = u.locked /\ d.shut = u.shut
  BY <1>1, <1>2, <1>3 DEF TabRecord
<1>5. LoggedOut(x) = d
  BY <1>1, <1>2 DEF LoggedOut
<1> QED
  BY <1>1, <1>4, <1>5

-----------------------------------------------------------------------------
(* The invariant, tab by tab and call by call. *)

\* What the invariant says of one tab
Sound(x) ==
    /\ x \in TabRecord
    /\ x.shut => x.locked
    /\ kind = "key" => /\ x.locked => ~x.key
                       /\ x.open /\ ~x.locked => x.key \/ x.out
    /\ x.locked => x.session # None \/ x.lapsed

\* What the invariant says of one call
Fits(q) == q \in CallRecord /\ Known(q)

\* One tab and one call change at most, into something sound.
StepTab == tab' = tab \/ \E t \in Tab, x \in TabRecord : Sound(x) /\ tab' = [tab EXCEPT ![t] = x]
StepCall == call' = call \/ \E c \in Call, q \in CallRecord : Fits(q) /\ Become(c, q)

\* Every tab is sound.
LEMMA TabsSound ==
    ASSUME ClientInv
    PROVE  \A t \in Tab : Sound(tab[t])
  BY DEF ClientInv, TypeOK, KeyOrLock, LockedHasSession, Sound

\* Every call fits.
LEMMA CallsFit ==
    ASSUME ClientInv
    PROVE  \A c \in Call : Fits(call[c])
  BY DEF ClientInv, TypeOK, CallsInOrder, Fits

\* No call is a call in order.
LEMMA NoCallFits == Fits(NoCall)
  BY DEF Fits, NoCall, CallRecord, Known, Opt

\* A step of one tab and one call keeps the invariant.
LEMMA StepKeeps ==
    ASSUME ClientInv, kind' = kind, who' \in Account, cookie' \in Opt(Account),
           moves' \in 0..MaxMoves, inbox' \in [Tab -> Seq(Message)], StepTab, StepCall
    PROVE  ClientInv'
<1>1. /\ tab' \in [Tab -> TabRecord]
      /\ \A t \in Tab : Sound(tab'[t])
  <2>1. CASE tab' = tab
    BY <2>1, TabsSound DEF ClientInv, TypeOK
  <2>2. ASSUME NEW t \in Tab, NEW x \in TabRecord, Sound(x), tab' = [tab EXCEPT ![t] = x]
        PROVE  /\ tab' \in [Tab -> TabRecord]
               /\ \A u \in Tab : Sound(tab'[u])
    <3>1. tab \in [Tab -> TabRecord]
      BY DEF ClientInv, TypeOK
    <3>2. \A u \in Tab : tab'[u] = IF u = t THEN x ELSE tab[u]
      BY <2>2, <3>1
    <3> QED
      BY <2>2, <3>1, <3>2, TabsSound
  <2> QED
    BY <2>1, <2>2 DEF StepTab
<1>2. /\ call' \in [Call -> CallRecord]
      /\ \A c \in Call : Known(call'[c])
  <2>1. CASE call' = call
    BY <2>1, CallsFit DEF ClientInv, TypeOK, Fits
  <2>2. ASSUME NEW c \in Call, NEW q \in CallRecord, Fits(q), Become(c, q)
        PROVE  /\ call' \in [Call -> CallRecord]
               /\ \A d \in Call : Known(call'[d])
    <3>1. call \in [Call -> CallRecord]
      BY DEF ClientInv, TypeOK
    <3>2. \A d \in Call : call'[d] = IF d = c THEN q ELSE call[d]
      BY <2>2, <3>1 DEF Become
    <3> QED
      BY <2>2, <3>1, <3>2, CallsFit DEF Fits, Become
  <2> QED
    BY <2>1, <2>2 DEF StepCall
<1>3. CallsInOrder'
  BY <1>2 DEF CallsInOrder, Known
<1>4. TypeOK'
  BY <1>1, <1>2 DEF TypeOK, Sound, ClientInv
<1>5. KeyOrLock' /\ LockedHasSession'
  BY <1>1 DEF KeyOrLock, LockedHasSession, Sound
<1> QED
  BY <1>3, <1>4, <1>5 DEF ClientInv

\* Posting a message leaves every inbox a sequence of messages.
LEMMA PublishTypes ==
    ASSUME TypeOK, NEW t \in Tab, NEW x \in TabRecord, NEW m \in Message, Publish(t, x, m)
    PROVE  inbox' \in [Tab -> Seq(Message)] /\ tab' = [tab EXCEPT ![t] = x]
<1>1. \A u \in Tab : inbox[u] \in Seq(Message) /\ Append(inbox[u], m) \in Seq(Message)
  BY DEF TypeOK
<1> QED
  BY <1>1 DEF Publish

\* A tab that changes without telling the others leaves their inboxes alone.
LEMMA QuietlyTypes ==
    ASSUME TypeOK, NEW t \in Tab, NEW x, Quietly(t, x)
    PROVE  inbox' \in [Tab -> Seq(Message)] /\ tab' = [tab EXCEPT ![t] = x]
  BY DEF Quietly, TypeOK

\* A lock or a shutdown, of a sound tab whose timer has fired or not, leaves it sound.
LEMMA LockingKeeps ==
    ASSUME ClientInv, NEW t \in Tab, NEW x \in TabRecord, Sound(x),
           Locking(t, x) \/ ShuttingDown(t, x)
    PROVE  inbox' \in [Tab -> Seq(Message)] /\ StepTab
<1>1. TypeOK /\ "lock" \in Message /\ "shutdown" \in Message
  BY DEF ClientInv, Message
<1>2. CASE x.session = None
  <2>1. Quietly(t, Touched(x))
    BY <1>2 DEF Locking, ShuttingDown
  <2>2. Sound(Touched(x)) /\ Touched(x) \in TabRecord
    BY TouchedFields DEF Sound
  <2> QED
    BY <1>1, <2>1, <2>2, QuietlyTypes DEF StepTab
<1>3. CASE x.session # None
  <2>1. Publish(t, Evicted(x), "lock") \/ Publish(t, ShutDown(x), "shutdown")
    BY <1>3 DEF Locking, ShuttingDown
  <2>2. /\ Sound(Evicted(x)) /\ Evicted(x) \in TabRecord
        /\ Sound(ShutDown(x)) /\ ShutDown(x) \in TabRecord
    BY <1>3, EvictedFields, ShutDownFields DEF Sound
  <2>3. CASE Publish(t, Evicted(x), "lock")
    BY <1>1, <2>2, <2>3, PublishTypes DEF StepTab
  <2>4. CASE Publish(t, ShutDown(x), "shutdown")
    BY <1>1, <2>2, <2>4, PublishTypes DEF StepTab
  <2> QED
    BY <2>1, <2>3, <2>4
<1> QED
  BY <1>2, <1>3

\* The end of a session leaves a sound tab.
LEMMA LogoutKeeps ==
    ASSUME ClientInv, NEW t \in Tab, NEW m \in Message, Publish(t, LoggedOut(tab[t]), m)
    PROVE  inbox' \in [Tab -> Seq(Message)] /\ StepTab
<1>1. TypeOK /\ tab[t] \in TabRecord
  BY DEF ClientInv, TypeOK
<1>2. LoggedOut(tab[t]) \in TabRecord /\ Sound(LoggedOut(tab[t]))
  BY <1>1, LoggedOutFields DEF Sound
<1> QED
  BY <1>1, <1>2, PublishTypes DEF StepTab

\* What another tab says leaves a sound tab sound.
LEMMA ReceivedSound ==
    ASSUME NEW x, Sound(x), NEW m \in Message
    PROVE  Received(x, m) \in TabRecord /\ Sound(Received(x, m))
<1> DEFINE y == Received(x, m)
<1>1. x \in TabRecord
  BY DEF Sound
<1>2. CASE m \in {"logout", "identity-changed"}
  <2>1. y = LoggedOut(x)
    BY <1>2 DEF Received
  <2> QED
    BY <1>1, <2>1, LoggedOutFields DEF Sound
<1>3. CASE m = "unlock"
  <2>1. y = IF kind = "key" THEN x ELSE Touched(Unlocked(x))
    BY <1>3 DEF Received
  <2>2. CASE kind = "key"
    BY <1>1, <2>1, <2>2
  <2>3. CASE kind # "key"
    <3>1. PICK u : u = Unlocked(x)
      OBVIOUS
    <3>2. u \in TabRecord /\ Sound(u)
      BY <1>1, <2>3, <3>1, UnlockedFields DEF Sound
    <3>3. y = Touched(u)
      BY <2>1, <2>3, <3>1
    <3>4. Touched(u) \in TabRecord /\ Sound(Touched(u))
      BY <3>2, TouchedFields DEF Sound
    <3> QED
      BY <3>3, <3>4
  <2> QED
    BY <2>2, <2>3
<1>4. CASE m = "lock"
  <2>1. y = IF x.session = None THEN x ELSE Evicted(x)
    BY <1>4 DEF Received
  <2> QED
    BY <1>1, <2>1, EvictedFields DEF Sound
<1>5. CASE m = "shutdown"
  <2>1. y = IF x.session = None THEN x ELSE ShutDown(x)
    BY <1>5 DEF Received
  <2> QED
    BY <1>1, <2>1, ShutDownFields DEF Sound
<1> QED
  BY <1>2, <1>3, <1>4, <1>5 DEF Message

-----------------------------------------------------------------------------
(* Every step keeps the invariant. *)

\* The first state satisfies it: every tab has its key and nobody is logged in.
LEMMA InitClient == Init => ClientInv
<1> SUFFICES ASSUME Init PROVE ClientInv
  OBVIOUS
<1>1. PICK k \in BOOLEAN : k <=> kind = "key"
  OBVIOUS
<1>2. k = (kind = "key")
  BY <1>1
<1>3. ASSUME NEW t \in Tab
      PROVE  tab[t] \in TabRecord /\ Sound(tab[t]) /\ inbox[t] \in Seq(Message)
  <2>1. tab[t] = [open |-> TRUE, session |-> None, locked |-> FALSE, shut |-> FALSE, key |-> k,
                  lockTimer |-> TRUE, shutTimer |-> TRUE, via |-> "none", lapsed |-> FALSE,
                  out |-> FALSE]
    BY <1>2 DEF Init
  <2>2. tab[t] \in TabRecord
    BY <2>1 DEF TabRecord, Opt
  <2>3. inbox[t] \in Seq(Message)
    BY DEF Init
  <2> QED
    BY <1>1, <2>1, <2>2, <2>3 DEF Sound
<1>4. \A c \in Call : Fits(call[c])
  BY NoCallFits DEF Init
<1>5. tab \in [Tab -> TabRecord] /\ call \in [Call -> CallRecord] /\ inbox \in [Tab -> Seq(Message)]
  BY <1>3, <1>4 DEF Init, Fits
<1>6. kind \in {"key", "remote"} /\ who \in Account /\ cookie \in Opt(Account) /\ moves \in 0..MaxMoves
  BY ClientAssumption DEF Init, Opt
<1> QED
  BY <1>3, <1>4, <1>5, <1>6
     DEF ClientInv, TypeOK, CallsInOrder, Fits, KeyOrLock, LockedHasSession, Sound

\* What somebody does of their own accord counts.
LEMMA MoveType == ASSUME TypeOK, Move PROVE moves' \in 0..MaxMoves
  BY ClientAssumption DEF TypeOK, Move

\* A message is delivered.
LEMMA DeliverKeeps == ASSUME ClientInv, NEW t \in Tab, Deliver(t) PROVE ClientInv'
<1>1. inbox[t] \in Seq(Message) /\ inbox[t] # <<>> /\ TypeOK
  BY DEF Deliver, ClientInv, TypeOK
<1>2. PICK m \in Message : m = Head(inbox[t])
  BY <1>1
<1>3. Tail(inbox[t]) \in Seq(Message)
  BY <1>1
<1>4. inbox' \in [Tab -> Seq(Message)]
  BY <1>1, <1>3 DEF Deliver, TypeOK
<1>5. tab' = [tab EXCEPT ![t] = Received(tab[t], m)]
  BY <1>1, <1>2 DEF Deliver, TypeOK
<1>6. Received(tab[t], m) \in TabRecord /\ Sound(Received(tab[t], m))
  BY TabsSound, ReceivedSound
<1>7. StepTab
  BY <1>5, <1>6 DEF StepTab
<1> QED
  BY <1>1, <1>4, <1>7, StepKeeps DEF Deliver, TypeOK, StepCall

\* The user, the timers and the world outside, step by step.
LEMMA OthersKeep ==
    ASSUME ClientInv, NEW t \in Tab,
           \/ Lock(t) \/ LockTimer(t) \/ ShutdownTimer(t)
           \/ Unlock(t) \/ Activity(t) \/ Destroy(t) \/ Outside
    PROVE  ClientInv'
<1>0. TypeOK /\ tab[t] \in TabRecord /\ Sound(tab[t])
  BY TabsSound DEF ClientInv, TypeOK
<1>1. CASE Lock(t)
  <2>1. inbox' \in [Tab -> Seq(Message)] /\ StepTab
    BY <1>0, <1>1, LockingKeeps DEF Lock
  <2> QED
    BY <1>0, <1>1, <2>1, MoveType, StepKeeps DEF Lock, TypeOK, StepCall
<1>2. CASE LockTimer(t)
  <2>1. PICK x : x = [tab[t] EXCEPT !.lockTimer = FALSE]
    OBVIOUS
  <2>2. x \in TabRecord /\ Sound(x)
    BY <1>0, <2>1 DEF TabRecord, Sound
  <2>3. inbox' \in [Tab -> Seq(Message)] /\ StepTab
    BY <1>2, <2>1, <2>2, LockingKeeps DEF LockTimer
  <2> QED
    BY <1>0, <1>2, <2>3, StepKeeps DEF LockTimer, TypeOK, StepCall
<1>3. CASE ShutdownTimer(t)
  <2>1. PICK x : x = [tab[t] EXCEPT !.shutTimer = FALSE]
    OBVIOUS
  <2>2. x \in TabRecord /\ Sound(x)
    BY <1>0, <2>1 DEF TabRecord, Sound
  <2>3. inbox' \in [Tab -> Seq(Message)] /\ StepTab
    BY <1>3, <2>1, <2>2, LockingKeeps DEF ShutdownTimer
  <2> QED
    BY <1>0, <1>3, <2>3, StepKeeps DEF ShutdownTimer, TypeOK, StepCall
<1>4. CASE Unlock(t)
  <2>1. PICK x : x = Touched(Unlocked(tab[t]))
    OBVIOUS
  <2>2. kind # "key"
    BY <1>4 DEF Unlock
  <2>3. x \in TabRecord /\ Sound(x)
    BY <1>0, <2>1, <2>2, UnlockedFields, TouchedFields DEF Sound
  <2>4. Publish(t, x, "unlock") /\ "unlock" \in Message
    BY <1>4, <2>1 DEF Unlock, Message
  <2>5. inbox' \in [Tab -> Seq(Message)] /\ StepTab
    BY <1>0, <2>3, <2>4, PublishTypes DEF StepTab
  <2> QED
    BY <1>0, <1>4, <2>5, MoveType, StepKeeps DEF Unlock, TypeOK, StepCall
<1>5. CASE Activity(t)
  <2>1. PICK x : x = Touched(tab[t])
    OBVIOUS
  <2>2. x \in TabRecord /\ Sound(x)
    BY <1>0, <2>1, TouchedFields DEF Sound
  <2>3. Quietly(t, x)
    BY <1>5, <2>1 DEF Activity
  <2>4. inbox' \in [Tab -> Seq(Message)] /\ StepTab
    BY <1>0, <2>2, <2>3, QuietlyTypes DEF StepTab
  <2> QED
    BY <1>0, <1>5, <2>4, MoveType, StepKeeps DEF Activity, TypeOK, StepCall
<1>6. CASE Destroy(t)
  <2>1. PICK x : x = [tab[t] EXCEPT !.open = FALSE, !.key = FALSE, !.lockTimer = FALSE, !.shutTimer = FALSE]
    OBVIOUS
  <2>2. x \in TabRecord /\ Sound(x)
    BY <1>0, <2>1 DEF TabRecord, Sound
  <2>3. inbox' \in [Tab -> Seq(Message)] /\ tab' = [tab EXCEPT ![t] = x]
    BY <1>0, <1>6, <2>1 DEF Destroy, TypeOK
  <2>4. StepTab
    BY <2>2, <2>3 DEF StepTab
  <2> QED
    BY <1>0, <1>6, <2>3, <2>4, MoveType, StepKeeps DEF Destroy, TypeOK, StepCall
<1>7. CASE Outside
  <2>1. who' \in Account /\ cookie' \in Opt(Account)
    BY <1>0, <1>7 DEF Outside, TypeOK, Opt
  <2>2. tab' = tab /\ call' = call /\ inbox' = inbox /\ kind' = kind /\ Move
    BY <1>7 DEF Outside
  <2> QED
    BY <1>0, <2>1, <2>2, MoveType, StepKeeps DEF TypeOK, StepCall, StepTab
<1> QED
  BY <1>1, <1>2, <1>3, <1>4, <1>5, <1>6, <1>7

\* The first steps of a call, at a call's own bidding.
LEMMA StartKeeps ==
    ASSUME ClientInv, NEW c \in Call, NEW t \in Tab, LoginStart(c, t) \/ Start(c, t)
    PROVE  ClientInv'
<1>0. TypeOK /\ tab[t] \in TabRecord /\ Sound(tab[t]) /\ NoCall \in CallRecord
  BY TabsSound, NoCallFits DEF ClientInv, TypeOK, Fits
<1>1. CASE LoginStart(c, t)
  <2>1. kind' = kind /\ who' = who /\ inbox' = inbox /\ cookie' = cookie /\ Move
    BY <1>1 DEF LoginStart
  <2>2. CASE tab' = tab /\ call' = call
    BY <1>0, <2>1, <2>2, MoveType, StepKeeps DEF TypeOK, StepTab, StepCall
  <2>3. CASE /\ HasKey(tab[t]) /\ kind = "remote"
             /\ Become(c, [NoCall EXCEPT !.pc = "npub", !.op = "login", !.tab = t])
             /\ tab' = tab
    <3>1. PICK q : q = [NoCall EXCEPT !.pc = "npub", !.op = "login", !.tab = t]
      OBVIOUS
    <3>2. q \in CallRecord /\ Fits(q)
      BY <2>3, <3>1 DEF NoCall, CallRecord, Fits, Known, Opt
    <3>3. StepCall
      BY <2>3, <3>1, <3>2 DEF StepCall
    <3> QED
      BY <1>0, <2>1, <2>3, <3>3, MoveType, StepKeeps DEF TypeOK, StepTab
  <2>4. CASE /\ HasKey(tab[t]) /\ kind = "key"
             /\ Become(c, [NoCall EXCEPT !.pc = "init", !.op = "login", !.tab = t, !.npub = who])
             /\ tab' = [tab EXCEPT ![t] = Touched(Unlocked(@))]
    <3>1. PICK q : q = [NoCall EXCEPT !.pc = "init", !.op = "login", !.tab = t, !.npub = who]
      OBVIOUS
    <3>2. q \in CallRecord /\ Fits(q)
      BY <1>0, <3>1 DEF NoCall, CallRecord, Fits, Known, Opt, TypeOK
    <3>3. StepCall
      BY <2>4, <3>1, <3>2 DEF StepCall
    <3>4. PICK x : x = Touched(Unlocked(tab[t]))
      OBVIOUS
    <3>5. tab[t].key
      BY <2>4 DEF HasKey
    <3>6. x \in TabRecord /\ Sound(x)
      BY <1>0, <3>4, <3>5, UnlockedFields, TouchedFields DEF Sound
    <3>7. StepTab
      BY <1>0, <2>4, <3>4, <3>6 DEF StepTab, TypeOK
    <3> QED
      BY <1>0, <2>1, <3>3, <3>7, MoveType, StepKeeps DEF TypeOK
  <2> QED
    BY <1>1, <2>2, <2>3, <2>4 DEF LoginStart
<1>2. CASE Start(c, t)
  <2>1. kind' = kind /\ who' = who /\ tab' = tab /\ inbox' = inbox /\ cookie' = cookie /\ Move
    BY <1>2 DEF Start
  <2>2. ASSUME NEW o \in {"logout", "resume"}, Become(c, [NoCall EXCEPT !.pc = o, !.op = o, !.tab = t])
        PROVE  StepCall
    <3>1. PICK q : q = [NoCall EXCEPT !.pc = o, !.op = o, !.tab = t]
      OBVIOUS
    <3>2. q \in CallRecord /\ Fits(q)
      BY <3>1 DEF NoCall, CallRecord, Fits, Known, Opt
    <3> QED
      BY <2>2, <3>1, <3>2 DEF StepCall
  <2>3. ASSUME kind = "key", Become(c, [NoCall EXCEPT !.pc = "load", !.op = "reunlock", !.tab = t])
        PROVE  StepCall
    <3>1. PICK q : q = [NoCall EXCEPT !.pc = "load", !.op = "reunlock", !.tab = t]
      OBVIOUS
    <3>2. q \in CallRecord /\ Fits(q)
      BY <2>3, <3>1 DEF NoCall, CallRecord, Fits, Known, Opt
    <3> QED
      BY <2>3, <3>1, <3>2 DEF StepCall
  <2>4. StepCall
    BY <1>2, <2>2, <2>3 DEF Start
  <2> QED
    BY <1>0, <2>1, <2>4, MoveType, StepKeeps DEF TypeOK, StepTab
<1> QED
  BY <1>1, <1>2

\* A call that ends is a call in order.
LEMMA DoneFits == ASSUME NEW c \in Call, Done(c) PROVE StepCall
  BY NoCallFits DEF Done, StepCall, Fits

\* The steps of a login.
LEMMA LoginKeeps ==
    ASSUME ClientInv, NEW c \in Call,
           LoginNpub(c) \/ LoginInit(c) \/ LoginSign(c) \/ ServerComplete(c) \/ LoginAnswer(c)
    PROVE  ClientInv'
<1> DEFINE t == call[c].tab
<1>0. TypeOK /\ call[c] \in CallRecord /\ Known(call[c])
  BY CallsFit DEF ClientInv, TypeOK, Fits
<1>t. call[c].pc # "idle" => t \in Tab /\ tab[t] \in TabRecord /\ Sound(tab[t])
  BY <1>0, TabsSound DEF Known, TypeOK
<1>1. CASE LoginNpub(c)
  <2>1. kind' = kind /\ who' = who /\ cookie' = cookie /\ moves' = moves /\ call[c].pc = "npub"
    BY <1>1 DEF LoginNpub
  <2>2. CASE Terminate(t) /\ Done(c)
    <3>1. inbox' \in [Tab -> Seq(Message)] /\ StepTab
      BY <1>t, <2>1, <2>2, LogoutKeeps DEF Terminate, Message
    <3> QED
      BY <1>0, <2>1, <2>2, <3>1, DoneFits, StepKeeps DEF TypeOK
  <2>3. CASE /\ Quietly(t, [Touched(Unlocked(tab[t])) EXCEPT !.out = FALSE])
             /\ Become(c, [call[c] EXCEPT !.pc = "init", !.npub = who])
    <3>0. PICK u \in TabRecord : u = Unlocked(tab[t]) /\ u.locked = FALSE /\ u.shut = FALSE
      BY <1>t, <2>1, UnlockedFields
    <3>1. PICK y \in TabRecord : y = Touched(u) /\ y.locked = FALSE /\ y.shut = FALSE
      BY <3>0, TouchedFields
    <3>2. PICK x : x = [y EXCEPT !.out = FALSE]
      OBVIOUS
    <3>4. x \in TabRecord /\ x.locked = FALSE /\ x.shut = FALSE
      BY <3>1, <3>2 DEF TabRecord
    <3>5. kind # "key"
      BY <1>0, <2>1 DEF Known
    <3>6. Sound(x)
      BY <3>4, <3>5 DEF Sound
    <3>7. inbox' \in [Tab -> Seq(Message)] /\ StepTab
      BY <1>0, <1>t, <2>1, <2>3, <3>0, <3>1, <3>2, <3>4, <3>6, QuietlyTypes DEF StepTab
    <3>8. PICK q : q = [call[c] EXCEPT !.pc = "init", !.npub = who]
      OBVIOUS
    <3>9. q \in CallRecord /\ Fits(q)
      BY <1>0, <2>1, <3>8 DEF CallRecord, Fits, Known, Opt, TypeOK
    <3>10. StepCall
      BY <2>3, <3>8, <3>9 DEF StepCall
    <3> QED
      BY <1>0, <2>1, <3>7, <3>10, StepKeeps DEF TypeOK
  <2> QED
    BY <1>1, <2>2, <2>3 DEF LoginNpub
<1>2. CASE LoginInit(c)
  <2>1. /\ kind' = kind /\ who' = who /\ cookie' = cookie /\ moves' = moves /\ call[c].pc = "init"
        /\ tab' = tab /\ inbox' = inbox
    BY <1>2 DEF LoginInit
  <2>2. CASE Done(c)
    BY <1>0, <2>1, <2>2, DoneFits, StepKeeps DEF TypeOK, StepTab
  <2>3. CASE Become(c, [call[c] EXCEPT !.pc = "complete", !.resp = call[c].npub])
    <3>1. PICK q : q = [call[c] EXCEPT !.pc = "complete", !.resp = call[c].npub]
      OBVIOUS
    <3>2. q \in CallRecord /\ Fits(q)
      BY <1>0, <2>1, <3>1 DEF CallRecord, Fits, Known, Opt
    <3>3. StepCall
      BY <2>3, <3>1, <3>2 DEF StepCall
    <3> QED
      BY <1>0, <2>1, <3>3, StepKeeps DEF TypeOK, StepTab
  <2>4. CASE kind = "remote" /\ Become(c, [call[c] EXCEPT !.pc = "sign"])
    <3>1. PICK q : q = [call[c] EXCEPT !.pc = "sign"]
      OBVIOUS
    <3>2. q \in CallRecord /\ Fits(q)
      BY <1>0, <2>1, <2>4, <3>1 DEF CallRecord, Fits, Known
    <3>3. StepCall
      BY <2>4, <3>1, <3>2 DEF StepCall
    <3> QED
      BY <1>0, <2>1, <3>3, StepKeeps DEF TypeOK, StepTab
  <2> QED
    BY <1>2, <2>2, <2>3, <2>4 DEF LoginInit
<1>3. CASE LoginSign(c)
  <2>1. /\ kind' = kind /\ who' = who /\ cookie' = cookie /\ moves' = moves /\ call[c].pc = "sign"
        /\ tab' = tab /\ inbox' = inbox
    BY <1>3 DEF LoginSign
  <2>2. PICK q : q = [call[c] EXCEPT !.pc = "complete", !.resp = who]
    OBVIOUS
  <2>3. q \in CallRecord /\ Fits(q)
    BY <1>0, <2>1, <2>2 DEF CallRecord, Fits, Known, Opt, TypeOK
  <2>4. StepCall
    BY <1>3, <2>2, <2>3 DEF LoginSign, StepCall
  <2> QED
    BY <1>0, <2>1, <2>4, StepKeeps DEF TypeOK, StepTab
<1>4. CASE ServerComplete(c)
  <2>1. /\ kind' = kind /\ who' = who /\ moves' = moves /\ call[c].pc = "complete"
        /\ tab' = tab /\ inbox' = inbox
    BY <1>4 DEF ServerComplete
  <2>2. CASE cookie' = cookie /\ Done(c)
    BY <1>0, <2>1, <2>2, DoneFits, StepKeeps DEF TypeOK, StepTab
  <2>3. CASE /\ call[c].resp = call[c].npub /\ cookie' = call[c].npub
             /\ Become(c, [call[c] EXCEPT !.pc = "answer"])
    <3>1. PICK q : q = [call[c] EXCEPT !.pc = "answer"]
      OBVIOUS
    <3>2. q \in CallRecord /\ Fits(q) /\ cookie' \in Opt(Account)
      BY <1>0, <2>1, <2>3, <3>1 DEF CallRecord, Fits, Known, Opt
    <3>3. StepCall
      BY <2>3, <3>1, <3>2 DEF StepCall
    <3> QED
      BY <1>0, <2>1, <3>2, <3>3, StepKeeps DEF TypeOK, StepTab
  <2> QED
    BY <1>4, <2>2, <2>3 DEF ServerComplete
<1>5. CASE LoginAnswer(c)
  <2>1. /\ kind' = kind /\ who' = who /\ cookie' = cookie /\ moves' = moves /\ Done(c)
        /\ call[c].pc = "answer" /\ call[c].op = "login"
    BY <1>5 DEF LoginAnswer
  <2>2. CASE Terminate(t)
    <3>1. inbox' \in [Tab -> Seq(Message)] /\ StepTab
      BY <1>t, <2>1, <2>2, LogoutKeeps DEF Terminate, Message
    <3> QED
      BY <1>0, <2>1, <3>1, DoneFits, StepKeeps DEF TypeOK
  <2>3. CASE Quietly(t, [tab[t] EXCEPT !.session = call[c].resp, !.via = "login", !.lapsed = FALSE])
    <3>1. PICK x : x = [tab[t] EXCEPT !.session = call[c].resp, !.via = "login", !.lapsed = FALSE]
      OBVIOUS
    <3>2. call[c].resp \in Account /\ call[c].resp # None
      BY <1>0, <2>1, ClientAssumption DEF Known
    <3>3. x \in TabRecord /\ Sound(x)
      BY <1>t, <2>1, <3>1, <3>2 DEF TabRecord, Sound, Opt
    <3>4. inbox' \in [Tab -> Seq(Message)] /\ StepTab
      BY <1>0, <1>t, <2>1, <2>3, <3>1, <3>3, QuietlyTypes DEF StepTab
    <3> QED
      BY <1>0, <2>1, <3>4, DoneFits, StepKeeps DEF TypeOK
  <2> QED
    BY <1>5, <2>2, <2>3 DEF LoginAnswer
<1> QED
  BY <1>1, <1>2, <1>3, <1>4, <1>5

\* The steps of a logout, a resume and a reunlock, and a call that fails.
LEMMA AnswerKeeps ==
    ASSUME ClientInv, NEW c \in Call,
           \/ ServerAnswer(c) \/ LogoutAnswer(c) \/ ResumeAnswer(c) \/ ResumeVerify(c)
           \/ Reunlocked(c) \/ Fail(c)
    PROVE  ClientInv'
<1> DEFINE t == call[c].tab
<1>0. TypeOK /\ call[c] \in CallRecord /\ Known(call[c])
  BY CallsFit DEF ClientInv, TypeOK, Fits
<1>t. call[c].pc # "idle" => t \in Tab /\ tab[t] \in TabRecord /\ Sound(tab[t])
  BY <1>0, TabsSound DEF Known, TypeOK
<1>1. CASE ServerAnswer(c)
  <2>1. /\ kind' = kind /\ who' = who /\ moves' = moves /\ call[c].pc \in {"logout", "resume"}
        /\ tab' = tab /\ inbox' = inbox
        /\ cookie' = IF call[c].pc = "logout" THEN None ELSE cookie
    BY <1>1 DEF ServerAnswer
  <2>2. PICK r \in Opt(Account) : r = IF call[c].pc = "resume" THEN cookie ELSE None
    BY <1>0 DEF TypeOK, Opt
  <2>3. PICK q : q = [call[c] EXCEPT !.pc = "answer", !.resp = r]
    OBVIOUS
  <2>4. q \in CallRecord /\ Fits(q)
    BY <1>0, <2>1, <2>3 DEF CallRecord, Fits, Known
  <2>5. StepCall
    BY <1>1, <2>2, <2>3, <2>4 DEF ServerAnswer, StepCall
  <2> QED
    BY <1>0, <2>1, <2>5, StepKeeps DEF TypeOK, StepTab, Opt
<1>2. CASE LogoutAnswer(c)
  <2>1. /\ kind' = kind /\ who' = who /\ cookie' = cookie /\ moves' = moves /\ Done(c)
        /\ call[c].pc = "answer" /\ Publish(t, LoggedOut(tab[t]), "logout")
    BY <1>2 DEF LogoutAnswer
  <2>2. inbox' \in [Tab -> Seq(Message)] /\ StepTab
    BY <1>t, <2>1, LogoutKeeps DEF Message
  <2> QED
    BY <1>0, <2>1, <2>2, DoneFits, StepKeeps DEF TypeOK
<1>3. CASE ResumeAnswer(c)
  <2> DEFINE r == call[c].resp
  <2>1. /\ kind' = kind /\ who' = who /\ cookie' = cookie /\ moves' = moves
        /\ call[c].pc = "answer" /\ call[c].op = "resume"
    BY <1>3 DEF ResumeAnswer
  <2>2. CASE /\ r = None /\ Done(c)
             /\ Quietly(t, [tab[t] EXCEPT !.session = None, !.via = "none", !.lapsed = tab[t].locked])
    <3>1. PICK x : x = [tab[t] EXCEPT !.session = None, !.via = "none", !.lapsed = tab[t].locked]
      OBVIOUS
    <3>2. x \in TabRecord /\ Sound(x)
      BY <1>t, <2>1, <3>1 DEF TabRecord, Sound, Opt
    <3>3. inbox' \in [Tab -> Seq(Message)] /\ StepTab
      BY <1>0, <1>t, <2>1, <2>2, <3>1, <3>2, QuietlyTypes DEF StepTab
    <3> QED
      BY <1>0, <2>1, <2>2, <3>3, DoneFits, StepKeeps DEF TypeOK
  <2>3. CASE /\ r # None
             /\ Quietly(t, [tab[t] EXCEPT !.session = r, !.via = "resume", !.lapsed = FALSE])
             /\ Done(c) \/ Become(c, [call[c] EXCEPT !.pc = "verify"])
    <3>1. PICK x : x = [tab[t] EXCEPT !.session = r, !.via = "resume", !.lapsed = FALSE]
      OBVIOUS
    <3>2. r \in Account
      BY <1>0, <2>3 DEF CallRecord, Opt
    <3>3. x \in TabRecord /\ Sound(x)
      BY <1>t, <2>1, <2>3, <3>1, <3>2 DEF TabRecord, Sound, Opt
    <3>4. inbox' \in [Tab -> Seq(Message)] /\ StepTab
      BY <1>0, <1>t, <2>1, <2>3, <3>1, <3>3, QuietlyTypes DEF StepTab
    <3>5. PICK q : q = [call[c] EXCEPT !.pc = "verify"]
      OBVIOUS
    <3>6. q \in CallRecord /\ Fits(q)
      BY <1>0, <2>1, <3>2, <3>5 DEF CallRecord, Fits, Known
    <3>7. StepCall
      BY <2>3, <3>5, <3>6, DoneFits DEF StepCall
    <3> QED
      BY <1>0, <2>1, <3>4, <3>7, StepKeeps DEF TypeOK
  <2> QED
    BY <1>3, <2>2, <2>3 DEF ResumeAnswer
<1>4. CASE ResumeVerify(c)
  <2>1. /\ kind' = kind /\ who' = who /\ cookie' = cookie /\ moves' = moves /\ Done(c)
        /\ call[c].pc = "verify"
    BY <1>4 DEF ResumeVerify
  <2>2. CASE Terminate(t)
    <3>1. inbox' \in [Tab -> Seq(Message)] /\ StepTab
      BY <1>t, <2>1, <2>2, LogoutKeeps DEF Terminate, Message
    <3> QED
      BY <1>0, <2>1, <3>1, DoneFits, StepKeeps DEF TypeOK
  <2>3. CASE tab' = tab /\ inbox' = inbox
    BY <1>0, <2>1, <2>3, DoneFits, StepKeeps DEF TypeOK, StepTab
  <2> QED
    BY <1>4, <2>2, <2>3 DEF ResumeVerify
<1>5. CASE Reunlocked(c)
  <2>1. /\ kind' = kind /\ who' = who /\ cookie' = cookie /\ moves' = moves /\ Done(c)
        /\ call[c].pc = "load" /\ Publish(t, Touched(KeySet(tab[t])), "unlock")
    BY <1>5 DEF Reunlocked
  <2>2. kind = "key"
    BY <1>0, <2>1 DEF Known
  <2>3. PICK u \in TabRecord : /\ u = KeySet(tab[t])
                               /\ u.locked = FALSE /\ u.shut = FALSE /\ u.key
    BY <1>t, <2>1, <2>2, KeySetFields
  <2>4. PICK x \in TabRecord : /\ x = Touched(u)
                               /\ x.locked = FALSE /\ x.shut = FALSE /\ x.key
    BY <2>3, TouchedFields
  <2>5. Sound(x) /\ "unlock" \in Message
    BY <2>4 DEF Sound, Message
  <2>6. inbox' \in [Tab -> Seq(Message)] /\ StepTab
    BY <1>0, <1>t, <2>1, <2>3, <2>4, <2>5, PublishTypes DEF StepTab
  <2> QED
    BY <1>0, <2>1, <2>6, DoneFits, StepKeeps DEF TypeOK
<1>6. CASE Fail(c)
  <2>1. Done(c) /\ UNCHANGED <<kind, who, tab, inbox, cookie, moves>>
    BY <1>6 DEF Fail
  <2> QED
    BY <1>0, <2>1, DoneFits, StepKeeps DEF TypeOK, StepTab
<1> QED
  BY <1>1, <1>2, <1>3, <1>4, <1>5, <1>6

\* A step in which nothing happens keeps the invariant.
LEMMA StutterKeeps == ClientInv /\ UNCHANGED vars => ClientInv'
<1> SUFFICES ASSUME ClientInv, UNCHANGED vars PROVE ClientInv'
  OBVIOUS
<1>1. TypeOK /\ UNCHANGED <<kind, who, tab, inbox, call, cookie, moves>>
  BY DEF ClientInv, vars
<1> QED
  BY <1>1, StepKeeps DEF TypeOK, StepTab, StepCall

-----------------------------------------------------------------------------
(* The theorems. *)

\* Every state of the browser sessions satisfies the inductive invariant, its types included.
THEOREM ClientInductive == Spec => []ClientInv
<1>1. ASSUME ClientInv, [Next]_vars
      PROVE  ClientInv'
  <2>1. ASSUME NEW c \in Call, Progress(c) PROVE ClientInv'
    BY <1>1, <2>1, LoginKeeps, AnswerKeeps DEF Progress
  <2>2. ASSUME NEW c \in Call, NEW t \in Tab, LoginStart(c, t) \/ Start(c, t) PROVE ClientInv'
    BY <1>1, <2>2, StartKeeps
  <2>3. ASSUME NEW t \in Tab, \/ Deliver(t) \/ Lock(t) \/ LockTimer(t) \/ ShutdownTimer(t)
                              \/ Unlock(t) \/ Activity(t) \/ Destroy(t)
        PROVE  ClientInv'
    BY <1>1, <2>3, DeliverKeeps, OthersKeep
  <2>4. CASE Outside
    <3>1. TypeOK /\ who' \in Account /\ cookie' \in Opt(Account)
      BY <1>1, <2>4 DEF ClientInv, Outside, TypeOK, Opt
    <3>2. tab' = tab /\ call' = call /\ inbox' = inbox /\ kind' = kind /\ Move
      BY <2>4 DEF Outside
    <3> QED
      BY <1>1, <3>1, <3>2, MoveType, StepKeeps DEF TypeOK, StepCall, StepTab
  <2>5. CASE UNCHANGED vars
    BY <1>1, <2>5, StutterKeeps
  <2> QED
    BY <1>1, <2>1, <2>2, <2>3, <2>4, <2>5 DEF Next
<1> QED
  BY <1>1, InitClient, PTL DEF Spec

\* The types, and that a session that is shut down is locked.
THEOREM ClientTypes == Spec => []TypeOK
<1>1. ClientInv => TypeOK
  BY DEF ClientInv
<1> QED
  BY <1>1, ClientInductive, PTL

\* session.ts:83: with a key in the page, locked means that it is gone and unlocked that it
\* is there, except after a logout that overtook the call which had set it.
THEOREM LockAndKey == Spec => []LockMeansNoKey
<1>1. ClientInv => LockMeansNoKey
  BY DEF ClientInv, KeyOrLock, LockMeansNoKey
<1> QED
  BY <1>1, ClientInductive, PTL

\* session.ts:157: no order of messages, timers and answers locks a tab that has no session,
\* save by a resume() that finds the session of a locked tab expired.
THEOREM NoDeadEnd == Spec => []LockedHasSession
<1>1. ClientInv => LockedHasSession
  BY DEF ClientInv
<1> QED
  BY <1>1, ClientInductive, PTL

-----------------------------------------------------------------------------
(* Whose session a tab shows. *)

\* The session of a tab stays, ends, begins, or is what resume() brought.
Follows(x, y) == y.session \in {x.session, None} \/ x.session = None \/ y.via = "resume"

StepFollows == tab' = tab \/ \E t \in Tab, y \in TabRecord : Follows(tab[t], y) /\ tab' = [tab EXCEPT ![t] = y]

\* What another tab says never brings an account.
LEMMA ReceivedFollows ==
    ASSUME NEW x \in TabRecord, NEW m \in Message
    PROVE  Received(x, m).session \in {x.session, None}
<1>1. CASE m \in {"logout", "identity-changed"}
  BY <1>1, LoggedOutFields DEF Received
<1>2. CASE m = "unlock"
  <2>1. Received(x, m) = IF kind = "key" THEN x ELSE Touched(Unlocked(x))
    BY <1>2 DEF Received
  <2>2. PICK u \in TabRecord : u = Unlocked(x) /\ u.session = x.session
    BY UnlockedFields
  <2> QED
    BY <2>1, <2>2, TouchedFields
<1>3. CASE m = "lock"
  <2>1. Received(x, m) = IF x.session = None THEN x ELSE Evicted(x)
    BY <1>3 DEF Received
  <2> QED
    BY <2>1, EvictedFields
<1>4. CASE m = "shutdown"
  <2>1. Received(x, m) = IF x.session = None THEN x ELSE ShutDown(x)
    BY <1>4 DEF Received
  <2> QED
    BY <2>1, ShutDownFields
<1> QED
  BY <1>1, <1>2, <1>3, <1>4 DEF Message

\* Neither does a lock.
LEMMA LockingFollows ==
    ASSUME NEW t \in Tab, tab[t] \in TabRecord, NEW x \in TabRecord, x.session = tab[t].session,
           Locking(t, x) \/ ShuttingDown(t, x)
    PROVE  StepFollows
<1>1. \/ tab' = [tab EXCEPT ![t] = Touched(x)]
      \/ tab' = [tab EXCEPT ![t] = Evicted(x)]
      \/ tab' = [tab EXCEPT ![t] = ShutDown(x)]
  BY DEF Locking, ShuttingDown, Quietly, Publish
<1>2. ASSUME NEW y \in TabRecord, y.session = x.session, tab' = [tab EXCEPT ![t] = y]
      PROVE  StepFollows
  BY <1>2 DEF StepFollows, Follows
<1> QED
  BY <1>1, <1>2, TouchedFields, EvictedFields, ShutDownFields

\* Nor a logout.
LEMMA LogoutFollows ==
    ASSUME NEW t \in Tab, tab[t] \in TabRecord, NEW m, Publish(t, LoggedOut(tab[t]), m)
    PROVE  StepFollows
<1>1. PICK y \in TabRecord : y = LoggedOut(tab[t]) /\ y.session = None
  BY LoggedOutFields
<1> QED
  BY <1>1 DEF Publish, StepFollows, Follows

\* The steps of the calls: a login gives a tab the account it showed, or its first one.
LEMMA ProgressFollows ==
    ASSUME ClientInv, NEW c \in Call, Progress(c)
    PROVE  StepFollows
<1> DEFINE t == call[c].tab
<1>0. /\ TypeOK /\ call[c] \in CallRecord /\ Known(call[c])
      /\ call[c].pc # "idle" => t \in Tab /\ tab[t] \in TabRecord
  BY CallsFit DEF ClientInv, TypeOK, Fits, Known
<1>1. ASSUME LoginInit(c) \/ LoginSign(c) \/ ServerComplete(c) \/ ServerAnswer(c) \/ Fail(c)
      PROVE  tab' = tab
  BY <1>1 DEF LoginInit, LoginSign, ServerComplete, ServerAnswer, Fail
<1>2. ASSUME NEW y \in TabRecord, t \in Tab, Follows(tab[t], y), tab' = [tab EXCEPT ![t] = y]
      PROVE  StepFollows
  BY <1>2 DEF StepFollows
<1>3. CASE LoginNpub(c)
  <2>1. t \in Tab /\ tab[t] \in TabRecord
    BY <1>0, <1>3 DEF LoginNpub
  <2>2. CASE Terminate(t)
    BY <2>1, <2>2, LogoutFollows DEF Terminate
  <2>3. CASE Quietly(t, [Touched(Unlocked(tab[t])) EXCEPT !.out = FALSE])
    <3>1. PICK u \in TabRecord : u = Unlocked(tab[t]) /\ u.session = tab[t].session
      BY <2>1, UnlockedFields
    <3>2. PICK v \in TabRecord : v = Touched(u) /\ v.session = u.session
      BY TouchedFields
    <3>3. PICK y : y = [v EXCEPT !.out = FALSE]
      OBVIOUS
    <3>4. y \in TabRecord /\ y.session = tab[t].session
      <4>1. y \in TabRecord /\ y.session = v.session
        BY <3>2, <3>3 DEF TabRecord
      <4> QED
        BY <3>1, <3>2, <4>1
    <3>5. tab' = [tab EXCEPT ![t] = y]
      BY <2>3, <3>1, <3>2, <3>3 DEF Quietly
    <3> QED
      BY <1>2, <2>1, <3>4, <3>5 DEF Follows
  <2> QED
    BY <1>3, <2>2, <2>3 DEF LoginNpub
<1>4. CASE LoginAnswer(c)
  <2>1. t \in Tab /\ tab[t] \in TabRecord /\ call[c].resp \in Account
    BY <1>0, <1>4 DEF LoginAnswer, Known
  <2>2. CASE Terminate(t)
    BY <2>1, <2>2, LogoutFollows DEF Terminate
  <2>3. CASE /\ tab[t].session \in {None, call[c].resp}
             /\ Quietly(t, [tab[t] EXCEPT !.session = call[c].resp, !.via = "login", !.lapsed = FALSE])
    <3>1. PICK y : y = [tab[t] EXCEPT !.session = call[c].resp, !.via = "login", !.lapsed = FALSE]
      OBVIOUS
    <3>2. y \in TabRecord /\ y.session = call[c].resp
      BY <2>1, <3>1 DEF TabRecord, Opt
    <3> QED
      BY <1>2, <2>1, <2>3, <3>1, <3>2 DEF Follows, Quietly
  <2> QED
    BY <1>4, <2>2, <2>3 DEF LoginAnswer
<1>5. CASE LogoutAnswer(c)
  <2>1. t \in Tab /\ tab[t] \in TabRecord
    BY <1>0, <1>5 DEF LogoutAnswer
  <2> QED
    BY <1>5, <2>1, LogoutFollows DEF LogoutAnswer
<1>6. CASE ResumeAnswer(c)
  <2>1. t \in Tab /\ tab[t] \in TabRecord
    BY <1>0, <1>6 DEF ResumeAnswer
  <2>2. PICK y, z : /\ y = [tab[t] EXCEPT !.session = None, !.via = "none", !.lapsed = tab[t].locked]
                    /\ z = [tab[t] EXCEPT !.session = call[c].resp, !.via = "resume", !.lapsed = FALSE]
    OBVIOUS
  <2>3. y \in TabRecord /\ y.session = None /\ z \in TabRecord /\ z.via = "resume"
    BY <1>0, <2>1, <2>2 DEF TabRecord, CallRecord, Opt
  <2>4. tab' = [tab EXCEPT ![t] = y] \/ tab' = [tab EXCEPT ![t] = z]
    BY <1>6, <2>2 DEF ResumeAnswer, Quietly
  <2> QED
    BY <1>2, <2>1, <2>3, <2>4 DEF Follows
<1>7. CASE ResumeVerify(c)
  <2>1. t \in Tab /\ tab[t] \in TabRecord
    BY <1>0, <1>7 DEF ResumeVerify
  <2>2. Terminate(t) \/ tab' = tab
    BY <1>7 DEF ResumeVerify
  <2> QED
    BY <2>1, <2>2, LogoutFollows DEF Terminate, StepFollows
<1>8. CASE Reunlocked(c)
  <2>1. t \in Tab /\ tab[t] \in TabRecord
    BY <1>0, <1>8 DEF Reunlocked
  <2>2. PICK u \in TabRecord : u = KeySet(tab[t]) /\ u.session = tab[t].session
    BY <2>1, KeySetFields
  <2>3. PICK y \in TabRecord : y = Touched(u) /\ y.session = tab[t].session
    BY <2>2, TouchedFields
  <2> QED
    BY <1>2, <1>8, <2>1, <2>2, <2>3 DEF Reunlocked, Publish, Follows
<1> QED
  BY <1>1, <1>3, <1>4, <1>5, <1>6, <1>7, <1>8 DEF Progress, StepFollows

\* The steps of the tabs themselves.
LEMMA TabFollows ==
    ASSUME ClientInv, NEW t \in Tab,
           \/ Deliver(t) \/ Lock(t) \/ LockTimer(t) \/ ShutdownTimer(t)
           \/ Unlock(t) \/ Activity(t) \/ Destroy(t)
           \/ \E c \in Call : LoginStart(c, t) \/ Start(c, t)
    PROVE  StepFollows
<1>0. TypeOK /\ tab[t] \in TabRecord
  BY DEF ClientInv, TypeOK
<1>1. ASSUME NEW y \in TabRecord, y.session \in {tab[t].session, None}, tab' = [tab EXCEPT ![t] = y]
      PROVE  StepFollows
  BY <1>1 DEF StepFollows, Follows
<1>2. CASE Deliver(t)
  <2>1. PICK m \in Message : m = Head(inbox[t])
    BY <1>0, <1>2 DEF Deliver, TypeOK
  <2>2. Received(tab[t], m) \in TabRecord
    BY TabsSound, ReceivedSound
  <2>3. tab' = [tab EXCEPT ![t] = Received(tab[t], m)]
    BY <1>0, <1>2, <2>1 DEF Deliver, TypeOK
  <2> QED
    BY <1>0, <1>1, <2>2, <2>3, ReceivedFollows
<1>3. CASE Lock(t)
  BY <1>0, <1>3, LockingFollows DEF Lock
<1>4. CASE LockTimer(t)
  <2>1. PICK x : x = [tab[t] EXCEPT !.lockTimer = FALSE]
    OBVIOUS
  <2>2. x \in TabRecord /\ x.session = tab[t].session
    BY <1>0, <2>1 DEF TabRecord
  <2> QED
    BY <1>0, <1>4, <2>1, <2>2, LockingFollows DEF LockTimer
<1>5. CASE ShutdownTimer(t)
  <2>1. PICK x : x = [tab[t] EXCEPT !.shutTimer = FALSE]
    OBVIOUS
  <2>2. x \in TabRecord /\ x.session = tab[t].session
    BY <1>0, <2>1 DEF TabRecord
  <2> QED
    BY <1>0, <1>5, <2>1, <2>2, LockingFollows DEF ShutdownTimer
<1>6. Touched(tab[t]) \in TabRecord /\ Touched(tab[t]).session = tab[t].session
  BY <1>0, TouchedFields
<1>7. /\ Touched(Unlocked(tab[t])) \in TabRecord
      /\ Touched(Unlocked(tab[t])).session = tab[t].session
  <2>1. PICK u \in TabRecord : u = Unlocked(tab[t]) /\ u.session = tab[t].session
    BY <1>0, UnlockedFields
  <2>2. Touched(u) \in TabRecord /\ Touched(u).session = u.session
    BY TouchedFields
  <2> QED
    BY <2>1, <2>2
<1>8. CASE Unlock(t)
  BY <1>1, <1>7, <1>8 DEF Unlock, Publish
<1>9. CASE Activity(t)
  BY <1>1, <1>6, <1>9 DEF Activity, Quietly
<1>10. CASE Destroy(t)
  <2>1. PICK y : y = [tab[t] EXCEPT !.open = FALSE, !.key = FALSE, !.lockTimer = FALSE, !.shutTimer = FALSE]
    OBVIOUS
  <2>2. y \in TabRecord /\ y.session = tab[t].session
    BY <1>0, <2>1 DEF TabRecord
  <2>3. tab' = [tab EXCEPT ![t] = y]
    BY <1>0, <1>10, <2>1 DEF Destroy, TypeOK
  <2> QED
    BY <1>1, <2>2, <2>3
<1>11. CASE \E c \in Call : LoginStart(c, t) \/ Start(c, t)
  <2>1. tab' = tab \/ tab' = [tab EXCEPT ![t] = Touched(Unlocked(tab[t]))]
    BY <1>0, <1>11 DEF LoginStart, Start, TypeOK
  <2> QED
    BY <1>1, <1>7, <2>1 DEF StepFollows
<1> QED
  BY <1>2, <1>3, <1>4, <1>5, <1>8, <1>9, <1>10, <1>11

\* A login, a step-up, a lock or a message never puts another account in the place of the
\* one a tab shows; only resume() does, on the server's word.
THEOREM NoSwap == Spec => NoSilentSwap
<1> DEFINE Swap == \A t \in Tab, a, b \in Account :
                      tab[t].session = a /\ tab'[t].session = b /\ a # b => tab'[t].via = "resume"
<1>1. ASSUME ClientInv, [Next]_vars
      PROVE  [Swap]_vars
  <2>1. TypeOK
    BY <1>1 DEF ClientInv
  <2>2. CASE UNCHANGED vars
    BY <2>2
  <2>3. CASE Next
    <3>1. StepFollows
      BY <1>1, <2>3, ProgressFollows, TabFollows DEF Next, Outside, StepFollows
    <3>2. ASSUME NEW t \in Tab, NEW a \in Account, NEW b \in Account,
                 tab[t].session = a, tab'[t].session = b, a # b
          PROVE  tab'[t].via = "resume"
      <4>1. a # None /\ b # None
        BY ClientAssumption
      <4>2. PICK u \in Tab, y \in TabRecord : Follows(tab[u], y) /\ tab' = [tab EXCEPT ![u] = y]
        BY <3>1, <3>2 DEF StepFollows
      <4>3. u = t /\ tab'[t] = y
        BY <2>1, <3>2, <4>2 DEF TypeOK
      <4> QED
        BY <3>2, <4>1, <4>2, <4>3 DEF Follows
    <3> QED
      BY <3>2
  <2> QED
    BY <1>1, <2>2, <2>3
<1> QED
  BY <1>1, ClientInductive, PTL DEF Spec, NoSilentSwap
=============================================================================
