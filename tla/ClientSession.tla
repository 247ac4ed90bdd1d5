--------------------------- MODULE ClientSession ---------------------------
(***************************************************************************)
(* The browser session (nap-client-web/src/session.ts) in several tabs     *)
(* that share one cookie and talk over a BroadcastChannel: login, logout,  *)
(* resume and re-unlock with their awaits, lock and shutdown by the user   *)
(* or by the idle timers, and another tab's messages between any two of    *)
(* their steps.                                                            *)
(*                                                                         *)
(* The signer either holds a key in the page, which a lock evicts          *)
(* ("key"), or asks an extension or a remote signer, which can change      *)
(* accounts meanwhile ("remote"). autoLock is enabled, with a keyStore     *)
(* where there is a key.                                                   *)
(***************************************************************************)
EXTENDS Naturals, Sequences, FiniteSets

CONSTANTS
    Tab,
    Call,       \* calls of login, logout, resume and reunlock under way at once, in any tab
    Account,
    None,
    MaxMoves    \* bound: what users, servers and signers do of their own accord

ASSUME ClientAssumption ==
    MaxMoves \in Nat /\ None \notin Account /\ None \notin Tab /\ Account # {}

VARIABLES
    kind,       \* "key" or "remote"
    who,        \* the account the signer signs for
    tab,        \* the tabs
    inbox,      \* messages of the BroadcastChannel not yet delivered to each tab
    call,       \* the calls under way
    cookie,     \* the account of the server's session the shared cookie names
    moves

vars == <<kind, who, tab, inbox, call, cookie, moves>>

Opt(S) == S \cup {None}

TabRecord ==
    [open : BOOLEAN, session : Opt(Account), locked : BOOLEAN, shut : BOOLEAN, key : BOOLEAN,
     lockTimer : BOOLEAN, shutTimer : BOOLEAN,
     via : {"none", "login", "resume"},   \* ghost: how the session was come by
     lapsed : BOOLEAN,                    \* ghost: resume() found it expired while locked
     out : BOOLEAN]                       \* ghost: logged out since its key was last set, or
                                          \* since a login last asked its signer who it is

Message == {"logout", "lock", "unlock", "shutdown", "identity-changed"}

CallRecord ==
    [pc : {"idle", "npub", "init", "sign", "complete", "logout", "resume", "load", "verify",
           "answer"},
     op : {"none", "login", "logout", "resume", "reunlock"},
     tab : Opt(Tab), npub : Opt(Account), resp : Opt(Account)]

NoCall == [pc |-> "idle", op |-> "none", tab |-> None, npub |-> None, resp |-> None]

Init ==
    /\ kind \in {"key", "remote"}
    /\ who \in Account
    /\ tab = [t \in Tab |-> [open |-> TRUE, session |-> None, locked |-> FALSE, shut |-> FALSE,
                             key |-> kind = "key", lockTimer |-> TRUE, shutTimer |-> TRUE,
                             via |-> "none", lapsed |-> FALSE, out |-> FALSE]]
    /\ inbox = [t \in Tab |-> <<>>]
    /\ call = [c \in Call |-> NoCall]
    /\ cookie = None
    /\ moves = 0

\* One more thing somebody does of their own accord
Move == moves < MaxMoves /\ moves' = moves + 1

Become(c, q) == call' = [call EXCEPT ![c] = q]
Done(c) == Become(c, NoCall)

-----------------------------------------------------------------------------
(* What happens to a tab. *)

\* activityLock.touch: both timers are scheduled afresh.
Touched(x) == [x EXCEPT !.lockTimer = TRUE, !.shutTimer = TRUE]

\* Mutant of Evicted: a lock only marks the session.
Evicted_FlagOnly(x) == [x EXCEPT !.locked = TRUE]

\* keyHolder.clearKey
Evicted(x) == [x EXCEPT !.key = FALSE, !.locked = TRUE]

ShutDown(x) == [Evicted(x) EXCEPT !.shut = TRUE]

\* Mutant of Unlocked: a shut-down session stays shut down.
Unlocked_StaysShut(x) == [x EXCEPT !.locked = FALSE]

Unlocked(x) == [x EXCEPT !.locked = FALSE, !.shut = FALSE]

\* keyHolder.setKey
KeySet(x) == [Unlocked(x) EXCEPT !.key = (kind = "key"), !.out = FALSE]

\* The session is gone, and the key with it; "logged out" is not "locked".
LoggedOut(x) ==
    [Unlocked(x) EXCEPT !.session = None, !.key = FALSE, !.via = "none", !.lapsed = FALSE,
                         !.out = TRUE]

\* keyHolder.hasKey
HasKey(x) == IF kind = "key" THEN x.key ELSE ~x.locked

\* Mutant of Received: a tab without a session takes the lock.
Received_LockAnyway(x, m) ==
    CASE m \in {"logout", "identity-changed"} -> LoggedOut(x)
      [] m = "unlock" -> IF kind = "key" THEN x ELSE Touched(Unlocked(x))
      [] m = "lock" -> Evicted(x)
      [] m = "shutdown" -> ShutDown(x)

\* Mutant of Received: another tab's unlock leaves the idle timer as it was.
Received_NoTouch(x, m) ==
    CASE m \in {"logout", "identity-changed"} -> LoggedOut(x)
      [] m = "unlock" -> IF kind = "key" THEN x ELSE Unlocked(x)
      [] m = "lock" -> IF x.session = None THEN x ELSE Evicted(x)
      [] m = "shutdown" -> IF x.session = None THEN x ELSE ShutDown(x)

\* The BroadcastChannel handler. Only this tab's own reunlock() restores its own key, and
\* a tab without a session does not take a lock it could not get rid of.
Received(x, m) ==
    CASE m \in {"logout", "identity-changed"} -> LoggedOut(x)
      [] m = "unlock" -> IF kind = "key" THEN x ELSE Touched(Unlocked(x))
      [] m = "lock" -> IF x.session = None THEN x ELSE Evicted(x)
      [] m = "shutdown" -> IF x.session = None THEN x ELSE ShutDown(x)

\* broadcast.publish, and what the publishing tab becomes; a closed channel posts nothing.
Publish(t, x, m) ==
    /\ tab' = [tab EXCEPT ![t] = x]
    /\ inbox' = [u \in Tab |-> IF u # t /\ tab[u].open /\ x.open THEN Append(inbox[u], m) ELSE inbox[u]]

Quietly(t, x) == tab' = [tab EXCEPT ![t] = x] /\ UNCHANGED inbox

\* publishLock; the timers are one-shot, so with no session they are armed again.
Locking(t, x) ==
    IF x.session = None THEN Quietly(t, Touched(x)) ELSE Publish(t, Evicted(x), "lock")

\* publishShutdown
ShuttingDown(t, x) ==
    IF x.session = None THEN Quietly(t, Touched(x)) ELSE Publish(t, ShutDown(x), "shutdown")

\* terminateForIdentity
Terminate(t) == Publish(t, LoggedOut(tab[t]), "identity-changed")

Deliver(t) ==
    /\ inbox[t] # <<>> /\ tab[t].open
    /\ tab' = [tab EXCEPT ![t] = Received(@, Head(inbox[t]))]
    /\ inbox' = [inbox EXCEPT ![t] = Tail(@)]
    /\ UNCHANGED <<kind, who, call, cookie, moves>>

-----------------------------------------------------------------------------
(* The user and the timers. *)

Lock(t) ==
    /\ Move /\ tab[t].open
    /\ Locking(t, tab[t]) \/ ShuttingDown(t, tab[t])
    /\ UNCHANGED <<kind, who, call, cookie>>

\* destroy() stops the timers, but a call that was under way then may start them again.
LockTimer(t) ==
    /\ tab[t].lockTimer
    /\ Locking(t, [tab[t] EXCEPT !.lockTimer = FALSE])
    /\ UNCHANGED <<kind, who, call, cookie, moves>>

ShutdownTimer(t) ==
    /\ tab[t].shutTimer
    /\ ShuttingDown(t, [tab[t] EXCEPT !.shutTimer = FALSE])
    /\ UNCHANGED <<kind, who, call, cookie, moves>>

\* unlock() is refused to a session that holds a key.
Unlock(t) ==
    /\ Move /\ tab[t].open /\ kind = "remote"
    /\ Publish(t, Touched(Unlocked(tab[t])), "unlock")
    /\ UNCHANGED <<kind, who, call, cookie>>

\* A mouse, key or touch event
Activity(t) ==
    /\ Move /\ tab[t].open
    /\ Quietly(t, Touched(tab[t]))
    /\ UNCHANGED <<kind, who, call, cookie>>

Destroy(t) ==
    /\ Move /\ tab[t].open
    /\ tab' = [tab EXCEPT ![t] = [@ EXCEPT !.open = FALSE, !.key = FALSE,
                                           !.lockTimer = FALSE, !.shutTimer = FALSE]]
    /\ inbox' = [inbox EXCEPT ![t] = <<>>]
    /\ UNCHANGED <<kind, who, call, cookie>>

\* The extension changes accounts, or the server's session expires.
Outside ==
    /\ Move
    /\ \/ kind = "remote" /\ who' \in Account \ {who} /\ UNCHANGED cookie
       \/ cookie # None /\ cookie' = None /\ UNCHANGED who
    /\ UNCHANGED <<kind, tab, inbox, call>>

-----------------------------------------------------------------------------
(* login() and stepUp(): authenticate. *)

\* Asking a signer in the page who it is takes no time others could use, and comparing the
\* answer with the session finds nothing: a page holds the key of one account all along.
LoginStart(c, t) ==
    /\ call[c].pc = "idle" /\ Move /\ tab[t].open
    /\ \/ /\ ~HasKey(tab[t])
          /\ UNCHANGED <<tab, call>>
       \/ /\ HasKey(tab[t]) /\ kind = "remote"
          /\ Become(c, [NoCall EXCEPT !.pc = "npub", !.op = "login", !.tab = t])
          /\ UNCHANGED tab
       \/ /\ HasKey(tab[t]) /\ kind = "key"
          /\ Become(c, [NoCall EXCEPT !.pc = "init", !.op = "login", !.tab = t, !.npub = who])
          /\ tab' = [tab EXCEPT ![t] = Touched(Unlocked(@))]
    /\ UNCHANGED <<kind, who, inbox, cookie>>

\* getNpub answers. A signer that has become somebody else ends the session at once.
LoginNpub(c) ==
    LET t == call[c].tab IN
    /\ call[c].pc = "npub"
    /\ \/ /\ tab[t].session \notin {None, who}
          /\ Terminate(t) /\ Done(c)
       \/ /\ tab[t].session \in {None, who}
          /\ Quietly(t, [Touched(Unlocked(tab[t])) EXCEPT !.out = FALSE])
          /\ Become(c, [call[c] EXCEPT !.pc = "init", !.npub = who])
    /\ UNCHANGED <<kind, who, cookie, moves>>

\* /auth/init has answered: a key in the page signs here, or throws if it was evicted.
LoginInit(c) ==
    /\ call[c].pc = "init"
    /\ \/ /\ kind = "key" /\ ~tab[call[c].tab].key
          /\ Done(c)
       \/ /\ kind = "key" /\ tab[call[c].tab].key
          /\ Become(c, [call[c] EXCEPT !.pc = "complete", !.resp = call[c].npub])
       \/ /\ kind = "remote"
          /\ Become(c, [call[c] EXCEPT !.pc = "sign"])
    /\ UNCHANGED <<kind, who, tab, inbox, cookie, moves>>

\* The remote signer signs, as whoever it is by now.
LoginSign(c) ==
    /\ call[c].pc = "sign"
    /\ Become(c, [call[c] EXCEPT !.pc = "complete", !.resp = who])
    /\ UNCHANGED <<kind, who, tab, inbox, cookie, moves>>

\* The server completes the login and sets the cookie; another account's signature it refuses.
ServerComplete(c) ==
    /\ call[c].pc = "complete"
    /\ \/ /\ call[c].resp = call[c].npub
          /\ cookie' = call[c].npub
          /\ Become(c, [call[c] EXCEPT !.pc = "answer"])
       \/ /\ call[c].resp # call[c].npub
          /\ UNCHANGED cookie
          /\ Done(c)
    /\ UNCHANGED <<kind, who, tab, inbox, moves>>

\* Mutant of LoginAnswer: the identity is not compared again.
LoginAnswer_Trusting(c) ==
    LET t == call[c].tab IN
    /\ call[c].pc = "answer" /\ call[c].op = "login"
    /\ Quietly(t, [tab[t] EXCEPT !.session = call[c].resp, !.via = "login", !.lapsed = FALSE])
    /\ Done(c)
    /\ UNCHANGED <<kind, who, cookie, moves>>

LoginAnswer(c) ==
    LET t == call[c].tab IN
    /\ call[c].pc = "answer" /\ call[c].op = "login"
    /\ \/ /\ tab[t].session \notin {None, call[c].resp}
          /\ Terminate(t)
       \/ /\ tab[t].session \in {None, call[c].resp}
          /\ Quietly(t, [tab[t] EXCEPT !.session = call[c].resp, !.via = "login", !.lapsed = FALSE])
    /\ Done(c)
    /\ UNCHANGED <<kind, who, cookie, moves>>

-----------------------------------------------------------------------------
(* logout(), resume() and reunlock(). *)

Start(c, t) ==
    /\ call[c].pc = "idle" /\ Move /\ tab[t].open
    /\ \/ \E o \in {"logout", "resume"} : Become(c, [NoCall EXCEPT !.pc = o, !.op = o, !.tab = t])
       \/ kind = "key" /\ Become(c, [NoCall EXCEPT !.pc = "load", !.op = "reunlock", !.tab = t])
    /\ UNCHANGED <<kind, who, tab, inbox, cookie>>

\* The server's part: a logout ends the session, a resume reads it.
ServerAnswer(c) ==
    /\ call[c].pc \in {"logout", "resume"}
    /\ cookie' = IF call[c].pc = "logout" THEN None ELSE cookie
    /\ Become(c, [call[c] EXCEPT !.pc = "answer",
                                 !.resp = IF call[c].pc = "resume" THEN cookie ELSE None])
    /\ UNCHANGED <<kind, who, tab, inbox, moves>>

LogoutAnswer(c) ==
    LET t == call[c].tab IN
    /\ call[c].pc = "answer" /\ call[c].op = "logout"
    /\ Publish(t, LoggedOut(tab[t]), "logout")
    /\ Done(c)
    /\ UNCHANGED <<kind, who, cookie, moves>>

\* 401 clears the session; 200 restores it, asking the signer first only where the caller
\* wants that. Neither touches the lock.
ResumeAnswer(c) ==
    LET t == call[c].tab
        r == call[c].resp IN
    /\ call[c].pc = "answer" /\ call[c].op = "resume"
    /\ \/ /\ r = None
          /\ Quietly(t, [tab[t] EXCEPT !.session = None, !.via = "none", !.lapsed = tab[t].locked])
          /\ Done(c)
       \/ /\ r # None
          /\ Quietly(t, [tab[t] EXCEPT !.session = r, !.via = "resume", !.lapsed = FALSE])
          /\ Done(c) \/ Become(c, [call[c] EXCEPT !.pc = "verify"])
    /\ UNCHANGED <<kind, who, cookie, moves>>

\* resume({ verifyIdentity: true })
ResumeVerify(c) ==
    LET t == call[c].tab IN
    /\ call[c].pc = "verify"
    /\ \/ call[c].resp # who /\ Terminate(t)
       \/ call[c].resp = who /\ UNCHANGED <<tab, inbox>>
    /\ Done(c)
    /\ UNCHANGED <<kind, who, cookie, moves>>

\* reunlock: the store has decrypted the key.
Reunlocked(c) ==
    LET t == call[c].tab IN
    /\ call[c].pc = "load"
    /\ Publish(t, Touched(KeySet(tab[t])), "unlock")
    /\ Done(c)
    /\ UNCHANGED <<kind, who, cookie, moves>>

\* A request, the signer or the key store fails: the call rejects and leaves the tab as it is.
Fail(c) ==
    /\ call[c].pc # "idle"
    /\ Done(c)
    /\ UNCHANGED <<kind, who, tab, inbox, cookie, moves>>

Progress(c) ==
    \/ LoginNpub(c) \/ LoginInit(c) \/ LoginSign(c) \/ ServerComplete(c) \/ LoginAnswer(c)
    \/ ServerAnswer(c) \/ LogoutAnswer(c) \/ ResumeAnswer(c) \/ ResumeVerify(c)
    \/ Reunlocked(c) \/ Fail(c)

Next ==
    \/ \E c \in Call : Progress(c)
    \/ \E c \in Call, t \in Tab : LoginStart(c, t) \/ Start(c, t)
    \/ \E t \in Tab : \/ Deliver(t) \/ Lock(t) \/ LockTimer(t) \/ ShutdownTimer(t)
                      \/ Unlock(t) \/ Activity(t) \/ Destroy(t)
    \/ Outside

\* Browsers deliver messages and run timers, and every promise settles.
Fairness ==
    /\ \A t \in Tab : WF_vars(Deliver(t)) /\ WF_vars(LockTimer(t))
    /\ \A c \in Call : WF_vars(Progress(c))

Spec == Init /\ [][Next]_vars
FairSpec == Spec /\ Fairness

-----------------------------------------------------------------------------
(* Properties. *)

\* The type invariant.
TypeOK ==
    /\ kind \in {"key", "remote"} /\ who \in Account /\ cookie \in Opt(Account)
    /\ tab \in [Tab -> TabRecord] /\ call \in [Call -> CallRecord]
    /\ inbox \in [Tab -> Seq(Message)]
    /\ moves \in 0..MaxMoves
    /\ \A t \in Tab : tab[t].shut => tab[t].locked

\* session.ts:83 and 282: locked means the key is gone, and unlocked means it is there,
\* whichever tab locked and whatever login, resume or reunlock was under way: the only
\* unlocked sessions without their key are ones a logout overtook.
LockMeansNoKey ==
    kind = "key" => \A t \in Tab :
        /\ tab[t].locked => ~tab[t].key
        /\ tab[t].open /\ tab[t].session # None /\ ~tab[t].locked => tab[t].key \/ tab[t].out

\* session.ts:157: a lock without a session is a dead end, because login() refuses while
\* locked. Whatever order messages and answers arrive in, a tab gets into one only by
\* learning from resume() that its locked session had expired.
LockedHasSession ==
    \A t \in Tab : tab[t].locked => tab[t].session # None \/ tab[t].lapsed

\* A login or a step-up never puts another account in the place of the one a tab shows:
\* only resume() can, which takes the cookie's word.
NoSilentSwap ==
    [][\A t \in Tab, a, b \in Account :
          tab[t].session = a /\ tab'[t].session = b /\ a # b => tab'[t].via = "resume"]_vars

\* session.ts:171: a session that came from a login always locks in the end if nobody is
\* there: the one-shot idle timer is armed again wherever it could have gone off, unless a
\* logout overtook the login.
UnattendedSessionLocks ==
    \A t \in Tab :
        <>[](tab[t].open /\ tab[t].session # None /\ tab[t].via = "login" => tab[t].locked \/ tab[t].out)

-----------------------------------------------------------------------------
(* What the safety properties rest on (proved in ClientSessionProofs). *)

\* How far a call has come says whose it is and what it knows: only a remote signer is asked
\* who it is, and the account of a login that the server let in is never missing.
Known(q) ==
    /\ q.pc # "idle" => q.tab \in Tab
    /\ q.pc \in {"npub", "sign"} => kind = "remote"
    /\ q.pc \in {"npub", "init", "sign", "complete"} => q.op = "login"
    /\ q.pc \in {"logout", "resume"} => q.op = q.pc
    /\ q.pc \in {"init", "sign", "complete"} => q.npub \in Account
    /\ q.pc = "verify" \/ (q.pc = "answer" /\ q.op = "login") => q.resp \in Account
    /\ q.pc = "load" => kind = "key"

CallsInOrder == \A c \in Call : Known(call[c])

\* A key and its lock are never both there, and where neither is, the tab was logged out.
KeyOrLock ==
    kind = "key" => \A t \in Tab :
        /\ tab[t].locked => ~tab[t].key
        /\ tab[t].open /\ ~tab[t].locked => tab[t].key \/ tab[t].out

ClientInv == TypeOK /\ CallsInOrder /\ KeyOrLock /\ LockedHasSession
=============================================================================
