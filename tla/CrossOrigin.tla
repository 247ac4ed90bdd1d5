---------------------------- MODULE CrossOrigin ----------------------------
(***************************************************************************)
(* The cross-origin signer: a relying page opens a popup on the origin     *)
(* that holds the key (crossOriginClient.ts) and gets a grant from the     *)
(* signer page there (crossOriginSigner.ts). The two talk by postMessage,  *)
(* and every step of either may be overtaken by a lock or an account       *)
(* switch of the wallet, a revocation, a reload or the closing of the      *)
(* popup, an expiry or a timeout.                                          *)
(*                                                                         *)
(* A permission (a pair of an event kind and an audience) is a member of   *)
(* Item, what a page asks for a set of them. Message ids are the requests' *)
(* own names.                                                              *)
(***************************************************************************)
EXTENDS Naturals, Sequences, FiniteSets

CONSTANTS
    Account,
    Item,
    Policy,     \* what the relying origin may ask for (validatePolicy)
    Asks,       \* what connectCrossOrigin may be called with: a scope and an account or None
    Template,   \* what may be asked to be signed: a permission, and whether it is a completion
    Wired,      \* which of the callbacks onSign and ensureUnlocked the wallet may supply
    MaxReq,     \* bound: signEvent calls of one grant
    None,
    MaxMoves    \* bound: what users and browsers do of their own accord

ASSUME CrossOriginAssumption ==
    /\ Policy # {} /\ Policy \subseteq Item
    /\ Asks \subseteq (SUBSET Item) \X (Account \cup {None})
    /\ Template \subseteq [item : Item \cup {None}, completion : BOOLEAN]
    /\ Wired \subseteq [onSign : BOOLEAN, ensures : BOOLEAN]
    /\ Account # {} /\ MaxReq \in Nat /\ MaxMoves \in Nat
    /\ None \notin Account \cup Nat /\ None \notin [who : Account, scope : SUBSET Item]

VARIABLES
    client,     \* connectCrossOrigin on the relying page
    req,        \* its signEvent calls
    toSigner, toClient,     \* messages posted and not yet delivered
    popup,      \* the signer page
    conn,       \* its handleConnect under way
    sign,       \* its handleSign calls under way
    wallet,     \* the wallet's session in its other tabs
    consent,    \* consentStore
    expired,    \* the grant's lifetime is over
    yes,        \* ghost: what the user has said yes to
    rides,      \* ghost: completion proofs signed in this grant without asking
    moves

vars == <<client, req, toSigner, toClient, popup, conn, sign, wallet, consent, expired, yes, rides, moves>>

Opt(S) == S \cup {None}

\* signEvent calls, numbered as they are made
Req == 1..MaxReq

Code == {"REFUSED", "DECLINED", "SIGNER_ERROR", "REVOKED", "GRANT_EXPIRED"}

\* What the two pages post to each other
ToSigner == [type : {"connect"}, id : {None}] \cup [type : {"sign"}, id : Req]

ToClient ==
    [type : {"ready", "revoked"}] \cup [type : {"error"}, id : Opt(Req), code : Code]
        \cup [type : {"connected"}, grant : [who : Account, scope : SUBSET Item]]
        \cup [type : {"signed"}, id : Req, by : Account, stale : BOOLEAN]

Grant == [who : Account, scope : SUBSET Item, used : BOOLEAN, overtaken : BOOLEAN]

ClientRecord ==
    [pc : {"idle", "waiting", "connecting", "live", "ended"}, scope : SUBSET Item,
     expected : Opt(Account), grant : Opt([who : Account, scope : SUBSET Item])]

ReqRecord == [pc : {"idle", "pending", "resolved", "rejected"}, t : Opt(Template), by : Opt(Account)]

PopupRecord == [at : {"closed", "loading", "mounted"}, grant : Opt(Grant)]

ConnRecord ==
    [pc : {"idle", "unlock", "npub", "store", "consent"}, who : Opt(Account), overtaken : BOOLEAN]

SignRecord == [pc : {"idle", "prompt", "sign"}, asked : BOOLEAN, revoked : BOOLEAN]

WalletRecord == [who : Account, locked : BOOLEAN, bus : BOOLEAN, onSign : BOOLEAN, ensures : BOOLEAN]

Init ==
    /\ client = [pc |-> "idle", scope |-> {}, expected |-> None, grant |-> None]
    /\ req = [r \in Req |-> [pc |-> "idle", t |-> None, by |-> None]]
    /\ toSigner = <<>> /\ toClient = <<>>
    /\ popup = [at |-> "closed", grant |-> None]
    /\ conn = [pc |-> "idle", who |-> None, overtaken |-> FALSE]
    /\ sign = [r \in Req |-> [pc |-> "idle", asked |-> FALSE, revoked |-> FALSE]]
    /\ \E w \in Account, x \in Wired :
          wallet = [who |-> w, locked |-> FALSE, bus |-> FALSE, onSign |-> x.onSign, ensures |-> x.ensures]
    /\ consent = {} /\ yes = {}
    /\ expired = FALSE
    /\ rides = 0 /\ moves = 0

Move == moves < MaxMoves /\ moves' = moves + 1

IdleSign == [r \in Req |-> [pc |-> "idle", asked |-> FALSE, revoked |-> FALSE]]
IdleConn == [pc |-> "idle", who |-> None, overtaken |-> FALSE]

Reply(m) == toClient' = Append(toClient, m)
Failed(id, code) == [type |-> "error", id |-> id, code |-> code]

\* Mutant of PageGone: grants survive a reload.
PageGone_KeepsGrant(at) ==
    /\ popup' = [popup EXCEPT !.at = at]
    /\ conn' = IdleConn /\ sign' = IdleSign

\* The signer page's document is gone, and all that lived in it
PageGone(at) ==
    /\ popup' = [at |-> at, grant |-> None]
    /\ conn' = IdleConn /\ sign' = IdleSign

-----------------------------------------------------------------------------
(* The relying page. *)

\* The client stops: whatever was pending is rejected, and nothing is listened to any more.
Ended == /\ client' = [client EXCEPT !.pc = "ended"]
         /\ req' = [r \in Req |-> IF req[r].pc = "pending" THEN [req[r] EXCEPT !.pc = "rejected"] ELSE req[r]]

Running == client.pc \in {"waiting", "connecting", "live"}

\* The popup is opened in the click itself.
Connect(scope, expected) ==
    /\ ~Running /\ Move
    /\ client' = [pc |-> "waiting", scope |-> scope, expected |-> expected, grant |-> None]
    /\ req' = [r \in Req |-> [pc |-> "idle", t |-> None, by |-> None]]
    /\ toSigner' = <<>> /\ toClient' = <<>>
    /\ PageGone("loading")
    /\ rides' = 0 /\ expired' = FALSE
    /\ UNCHANGED <<wallet, consent, yes>>

\* connectCrossOrigin rejects: the client ends and closes the popup.
ConnectRejected ==
    /\ Ended /\ PageGone("closed")

ConnectTimeout ==
    /\ client.pc \in {"waiting", "connecting"}
    /\ ConnectRejected
    /\ UNCHANGED <<toSigner, toClient, wallet, consent, expired, yes, rides, moves>>

SignEvent(r, t) ==
    /\ client.pc = "live" /\ req[r].pc = "idle"
    /\ \A q \in 1..(r - 1) : req[q].pc # "idle"
    /\ \/ /\ expired
          /\ Ended /\ UNCHANGED toSigner
       \/ /\ ~expired
          /\ req' = [req EXCEPT ![r] = [pc |-> "pending", t |-> t, by |-> None]]
          /\ toSigner' = Append(toSigner, [type |-> "sign", id |-> r])
          /\ UNCHANGED client
    /\ UNCHANGED <<toClient, popup, conn, sign, wallet, consent, expired, yes, rides, moves>>

\* Mutant of RequestTimeout: an open prompt stops the clock.
RequestTimeout_NotPrompting(r) ==
    /\ req[r].pc = "pending" /\ sign[r].pc # "prompt"
    /\ req' = [req EXCEPT ![r].pc = "rejected"]
    /\ UNCHANGED <<client, toSigner, toClient, popup, conn, sign, wallet, consent, expired, yes, rides>>
    /\ UNCHANGED moves

RequestTimeout(r) ==
    /\ req[r].pc = "pending"
    /\ req' = [req EXCEPT ![r].pc = "rejected"]
    /\ UNCHANGED <<client, toSigner, toClient, popup, conn, sign, wallet, consent, expired, yes, rides, moves>>

\* disconnect() posts before it closes the window, which takes the message with it or not.
Disconnect ==
    /\ client.pc = "live" /\ Move
    /\ Ended /\ PageGone("closed")
    /\ UNCHANGED <<toSigner, toClient, wallet, consent, expired, yes, rides>>

ClosedPoll ==
    /\ Running /\ popup.at = "closed"
    /\ Ended
    /\ UNCHANGED <<toSigner, toClient, popup, conn, sign, wallet, consent, expired, yes, rides, moves>>

\* Mutant of OnReady: a signer page that has reloaded is not noticed.
OnReady_Once(m) ==
    /\ m.type = "ready" /\ client.pc = "waiting"
    /\ client' = [client EXCEPT !.pc = "connecting"]
    /\ toSigner' = Append(toSigner, [type |-> "connect", id |-> None])
    /\ UNCHANGED <<req, popup, conn, sign>>

\* The page announces itself: the first time the client asks to connect, and once there is
\* a grant it means that the page has been reloaded and the grant is gone.
OnReady(m) ==
    /\ m.type = "ready"
    /\ \/ /\ client.pc = "waiting"
          /\ client' = [client EXCEPT !.pc = "connecting"]
          /\ toSigner' = Append(toSigner, [type |-> "connect", id |-> None])
          /\ UNCHANGED req
       \/ client.pc = "live" /\ Ended /\ UNCHANGED toSigner
    /\ UNCHANGED <<popup, conn, sign>>

OnConnected(m) ==
    /\ m.type = "connected" /\ client.pc = "connecting"
    /\ \/ /\ m.grant.scope \subseteq client.scope /\ client.expected \in {None, m.grant.who}
          /\ client' = [client EXCEPT !.pc = "live", !.grant = m.grant]
          /\ UNCHANGED <<req, popup, conn, sign>>
       \/ /\ ~(m.grant.scope \subseteq client.scope /\ client.expected \in {None, m.grant.who})
          /\ ConnectRejected
    /\ UNCHANGED toSigner

\* The event must be the one asked for, signed by the account of the grant.
OnSigned(m) ==
    /\ m.type = "signed" /\ req[m.id].pc = "pending"
    /\ req' = [req EXCEPT ![m.id] = IF m.by = client.grant.who
                                    THEN [@ EXCEPT !.pc = "resolved", !.by = m.by]
                                    ELSE [@ EXCEPT !.pc = "rejected"]]
    /\ UNCHANGED <<client, toSigner, popup, conn, sign>>

OnError(m) ==
    /\ m.type = "error"
    /\ \/ /\ m.id = None /\ client.pc = "connecting"
          /\ ConnectRejected
       \/ /\ m.id # None /\ req[m.id].pc = "pending"
          /\ IF m.code \in {"REVOKED", "GRANT_EXPIRED"} THEN Ended
             ELSE req' = [req EXCEPT ![m.id].pc = "rejected"] /\ UNCHANGED client
          /\ UNCHANGED <<popup, conn, sign>>
    /\ UNCHANGED toSigner

OnRevoked(m) ==
    /\ m.type = "revoked" /\ client.pc = "live"
    /\ Ended
    /\ UNCHANGED <<toSigner, popup, conn, sign>>

Heard(m) == OnReady(m) \/ OnConnected(m) \/ OnSigned(m) \/ OnError(m) \/ OnRevoked(m)

\* What no handler wants (a late answer, a grant unknown here) is ignored.
Stray(m) ==
    CASE m.type = "ready" -> client.pc \notin {"waiting", "live"}
      [] m.type = "connected" -> client.pc # "connecting"
      [] m.type = "signed" -> req[m.id].pc # "pending"
      [] m.type = "error" -> IF m.id = None THEN client.pc # "connecting" ELSE req[m.id].pc # "pending"
      [] m.type = "revoked" -> client.pc # "live"

ClientListen ==
    /\ toClient # <<>>
    /\ toClient' = Tail(toClient)
    /\ \/ Running /\ Heard(Head(toClient))
       \/ /\ ~Running \/ Stray(Head(toClient))
          /\ UNCHANGED <<client, req, toSigner, popup, conn, sign>>
    /\ UNCHANGED <<wallet, consent, expired, yes, rides, moves>>

-----------------------------------------------------------------------------
(* The signer page. *)

\* The page loads, starts listening and announces itself to its opener.
Mount ==
    /\ popup.at = "loading"
    /\ popup' = [popup EXCEPT !.at = "mounted"]
    /\ Reply([type |-> "ready"])
    /\ UNCHANGED <<client, req, toSigner, conn, sign, wallet, consent, expired, yes, rides, moves>>

\* The user reloads or closes the popup.
Leave ==
    /\ popup.at = "mounted" /\ Move
    /\ PageGone("loading") \/ PageGone("closed")
    /\ UNCHANGED <<client, req, toSigner, toClient, wallet, consent, expired, yes, rides>>

\* A message to a document that is not listening is lost.
Lost ==
    /\ toSigner # <<>> /\ popup.at # "mounted"
    /\ toSigner' = Tail(toSigner)
    /\ UNCHANGED <<client, req, toClient, popup, conn, sign, wallet, consent, expired, yes, rides, moves>>

\* revokeAll: the grant goes, its page is told, and signatures under way will find it gone.
Revoked ==
    /\ popup' = [popup EXCEPT !.grant = None]
    /\ sign' = [r \in Req |-> [sign[r] EXCEPT !.revoked = sign[r].pc # "idle"]]

RevokeAll ==
    IF popup.grant = None THEN UNCHANGED <<popup, sign, toClient>>
    ELSE Revoked /\ Reply([type |-> "revoked"])

\* Mutant of OnSessionBus: the message is not listened for.
OnSessionBus_Deaf ==
    /\ wallet.bus /\ popup.at = "mounted"
    /\ wallet' = [wallet EXCEPT !.bus = FALSE]
    /\ UNCHANGED <<client, req, toSigner, toClient, popup, sign, conn, consent, expired, yes, rides, moves>>

\* A lock, logout, shutdown or identity change in another tab of the wallet ends the grant;
\* a connection still being made has none yet.
OnSessionBus ==
    /\ wallet.bus /\ popup.at = "mounted"
    /\ RevokeAll
    /\ wallet' = [wallet EXCEPT !.bus = FALSE]
    /\ conn' = [conn EXCEPT !.overtaken = conn.pc # "idle"]
    /\ UNCHANGED <<client, req, toSigner, consent, expired, yes, rides, moves>>

\* revoke() and revokeAll("user"), from the "Connected sites" screen
UserRevoke ==
    /\ popup.at = "mounted" /\ popup.grant # None /\ Move
    /\ RevokeAll
    /\ UNCHANGED <<client, req, toSigner, conn, wallet, consent, expired, yes, rides>>

Listening(type) == popup.at = "mounted" /\ toSigner # <<>> /\ Head(toSigner).type = type

ConnFail(code) == conn' = IdleConn /\ Reply(Failed(None, code))

HandleConnect ==
    /\ Listening("connect")
    /\ toSigner' = Tail(toSigner)
    /\ \/ /\ ~(client.scope \subseteq Policy)
          /\ ConnFail("REFUSED")
       \/ /\ client.scope \subseteq Policy
          /\ conn' = [IdleConn EXCEPT !.pc = "unlock"]
          /\ UNCHANGED toClient
    /\ UNCHANGED <<client, req, popup, sign, wallet, consent, expired, yes, rides, moves>>

\* ensureUnlocked, if it is supplied: the wallet is unlocked now, or it throws.
ConnUnlock ==
    /\ conn.pc = "unlock"
    /\ \/ /\ wallet' = [wallet EXCEPT !.locked = @ /\ ~wallet.ensures]
          /\ conn' = [conn EXCEPT !.pc = "npub"]
          /\ UNCHANGED toClient
       \/ /\ wallet.ensures
          /\ ConnFail("DECLINED") /\ UNCHANGED wallet
    /\ UNCHANGED <<client, req, toSigner, popup, sign, consent, expired, yes, rides, moves>>

\* signer.getNpub answers or fails.
ConnNpub ==
    /\ conn.pc = "npub"
    /\ \/ conn' = [conn EXCEPT !.pc = "store", !.who = wallet.who] /\ UNCHANGED toClient
       \/ ConnFail("SIGNER_ERROR")
    /\ UNCHANGED <<client, req, toSigner, popup, sign, wallet, consent, expired, yes, rides, moves>>

\* Mutant of HasConsent: any earlier yes to this page will do.
HasConsent_AnyScope == \E s \in SUBSET Item : <<conn.who, s>> \in consent

\* consentStore.has: exactly this scope, for exactly this account
HasConsent == <<conn.who, client.scope>> \in consent

\* An approved connection becomes a grant, unless the page had asked for somebody else.
Granted ==
    \/ /\ client.expected \notin {None, conn.who}
       /\ ConnFail("REFUSED")
       /\ UNCHANGED popup
    \/ /\ client.expected \in {None, conn.who}
       /\ LET g == [who |-> conn.who, scope |-> client.scope, used |-> FALSE, overtaken |-> conn.overtaken]
          IN /\ popup' = [popup EXCEPT !.grant = g]
             /\ Reply([type |-> "connected", grant |-> [who |-> g.who, scope |-> g.scope]])
       /\ conn' = IdleConn

\* The store answers or fails.
ConnStore ==
    /\ conn.pc = "store"
    /\ \/ HasConsent /\ Granted
       \/ ConnFail("DECLINED") /\ UNCHANGED popup
       \/ /\ ~HasConsent
          /\ conn' = [conn EXCEPT !.pc = "consent"]
          /\ UNCHANGED <<popup, toClient>>
    /\ UNCHANGED <<client, req, toSigner, sign, wallet, consent, expired, yes, rides, moves>>

\* The user answers. A yes replaces what was remembered of this page and account, and counts
\* for nothing if the store fails.
ConnConsent ==
    /\ conn.pc = "consent"
    /\ \/ /\ yes' = yes \cup {<<conn.who, client.scope>>}
          /\ \/ /\ consent' = {c \in consent : c[1] # conn.who} \cup {<<conn.who, client.scope>>}
                /\ Granted
             \/ /\ ConnFail("DECLINED")
                /\ UNCHANGED <<consent, popup>>
       \/ /\ ConnFail("DECLINED")
          /\ UNCHANGED <<consent, yes, popup>>
    /\ UNCHANGED <<client, req, toSigner, sign, wallet, expired, rides, moves>>

\* Mutant of SignGuard: a completion proof claims the consent only when it is answered.
SignGuard_LateClaim(g, t) == [g EXCEPT !.used = g.used]

\* Claimed before the await, so that two completion proofs cannot both ride the consent.
SignGuard(g, t) == [g EXCEPT !.used = g.used \/ t.completion]

NeedsPrompt(g, t) == t.completion /\ g.used

\* A template may be refused whatever it asks for: its created_at can be too far off.
HandleSign(r) ==
    LET g == popup.grant
        t == req[r].t
        Answer(code) == Reply(Failed(r, code)) /\ UNCHANGED sign IN
    /\ Listening("sign") /\ Head(toSigner).id = r
    /\ toSigner' = Tail(toSigner)
    /\ \/ g = None /\ Answer("REVOKED") /\ UNCHANGED popup
       \/ /\ g # None /\ expired
          /\ Revoked /\ Reply(Failed(r, "GRANT_EXPIRED"))
       \/ g # None /\ ~expired /\ Answer("REFUSED") /\ UNCHANGED popup
       \/ /\ g # None /\ ~expired /\ t.item \in g.scope
          /\ ~NeedsPrompt(g, t) \/ wallet.onSign
          /\ popup' = [popup EXCEPT !.grant = SignGuard(g, t)]
          /\ sign' = [sign EXCEPT ![r] = [pc |-> IF wallet.onSign THEN "prompt" ELSE "sign",
                                          asked |-> NeedsPrompt(g, t), revoked |-> FALSE]]
          /\ UNCHANGED toClient
    /\ UNCHANGED <<client, req, conn, wallet, consent, expired, yes, rides, moves>>

SignAnswer(r, m) == Reply(m) /\ sign' = [sign EXCEPT ![r] = IdleSign[r]]

\* onSign: the user, or the wallet on their behalf, answers.
SignPrompt(r) ==
    /\ sign[r].pc = "prompt"
    /\ \/ SignAnswer(r, Failed(r, "DECLINED"))
       \/ popup.grant = None /\ SignAnswer(r, Failed(r, "REVOKED"))
       \/ popup.grant # None /\ sign' = [sign EXCEPT ![r].pc = "sign"] /\ UNCHANGED toClient
    /\ UNCHANGED <<client, req, toSigner, popup, conn, wallet, consent, expired, yes, rides, moves>>

\* Mutant of StillGranted: the grant is not looked up again after the await.
StillGranted_Unchecked == TRUE

StillGranted == popup.grant # None

\* signer.signEvent returns, as whoever the wallet is by now. Another account than the
\* grant's ends every grant.
Sign(r) ==
    /\ sign[r].pc = "sign"
    /\ \/ SignAnswer(r, Failed(r, "SIGNER_ERROR")) /\ UNCHANGED <<popup, rides>>
       \/ /\ ~StillGranted
          /\ SignAnswer(r, Failed(r, "REVOKED")) /\ UNCHANGED <<popup, rides>>
       \/ /\ StillGranted /\ popup.grant # None /\ popup.grant.who # wallet.who
          /\ popup' = [popup EXCEPT !.grant = None]
          /\ sign' = [q \in Req |-> IF q = r THEN IdleSign[r]
                                    ELSE [sign[q] EXCEPT !.revoked = sign[q].pc # "idle"]]
          /\ toClient' = toClient \o <<Failed(r, "REVOKED"), [type |-> "revoked"]>>
          /\ UNCHANGED rides
       \/ /\ StillGranted /\ (popup.grant = None \/ popup.grant.who = wallet.who)
          /\ SignAnswer(r, [type |-> "signed", id |-> r, by |-> wallet.who, stale |-> sign[r].revoked])
          /\ rides' = IF req[r].t.completion /\ ~sign[r].asked THEN rides + 1 ELSE rides
          /\ UNCHANGED popup
    /\ UNCHANGED <<client, req, toSigner, conn, wallet, consent, expired, yes, moves>>

-----------------------------------------------------------------------------
(* The wallet in its other tabs, and time. *)

\* The wallet is locked in another tab, which says so; or the signer becomes another account,
\* which nobody announces.
WalletLock ==
    /\ Move
    /\ \/ wallet' = [wallet EXCEPT !.locked = TRUE, !.bus = popup.at = "mounted"]
       \/ \E w \in Account \ {wallet.who} : wallet' = [wallet EXCEPT !.who = w]
    /\ UNCHANGED <<client, req, toSigner, toClient, popup, conn, sign, consent, expired, yes, rides>>

\* consentStore.forget
Forget ==
    /\ consent # {} /\ Move
    /\ consent' = {}
    /\ UNCHANGED <<client, req, toSigner, toClient, popup, conn, sign, wallet, expired, yes, rides>>

Expire ==
    /\ client.grant # None /\ ~expired /\ Move
    /\ expired' = TRUE
    /\ UNCHANGED <<client, req, toSigner, toClient, popup, conn, sign, wallet, consent, yes, rides>>

SignerStep ==
    \/ Mount \/ HandleConnect \/ ConnUnlock \/ ConnNpub \/ ConnStore \/ ConnConsent
    \/ \E r \in Req : HandleSign(r) \/ SignPrompt(r) \/ Sign(r)

Next ==
    \/ \E a \in Asks : Connect(a[1], a[2])
    \/ \E r \in Req, t \in Template : SignEvent(r, t)
    \/ ConnectTimeout \/ Disconnect \/ ClosedPoll \/ ClientListen
    \/ \E r \in Req : RequestTimeout(r)
    \/ SignerStep \/ Lost \/ Leave \/ OnSessionBus \/ UserRevoke
    \/ WalletLock \/ Forget \/ Expire

\* Timers fire, messages are delivered, an opened page loads and the popup's state is polled.
\* Nothing is assumed of users or of the signer.
Fairness ==
    /\ WF_vars(ConnectTimeout) /\ WF_vars(ClosedPoll) /\ WF_vars(ClientListen)
    /\ \A r \in Req : WF_vars(RequestTimeout(r))
    /\ WF_vars(Mount) /\ WF_vars(OnSessionBus)

Spec == Init /\ [][Next]_vars
FairSpec == Spec /\ Fairness

-----------------------------------------------------------------------------
(* Properties. *)

\* The type invariant.
TypeOK ==
    /\ client \in ClientRecord /\ req \in [Req -> ReqRecord]
    /\ toSigner \in Seq(ToSigner) /\ toClient \in Seq(ToClient)
    /\ popup \in PopupRecord /\ conn \in ConnRecord /\ sign \in [Req -> SignRecord]
    /\ wallet \in WalletRecord
    /\ consent \subseteq yes /\ yes \subseteq Account \X SUBSET Item
    /\ expired \in BOOLEAN /\ rides \in Nat /\ moves \in 0..MaxMoves
    /\ popup.at # "mounted" => popup.grant = None /\ conn = IdleConn /\ sign = IdleSign

\* crossOriginSigner.ts:379: the consent to a connection covers one completion proof. Two
\* sent at once do not both ride it: any further one is put to the user, or refused.
OneCompletionPerConsent == rides <= 1

\* What a relying page gets signed is by the account it expected, and both that account and
\* that page's permission are what the user once said yes to, whatever the wallet turned
\* into and whatever was remembered of other scopes.
NothingBeyondConsent ==
    \A r \in Req : req[r].pc = "resolved" =>
        /\ client.expected \in {None, req[r].by}
        /\ req[r].t.item \in Policy
        /\ \E s \in SUBSET Item : req[r].t.item \in s /\ <<req[r].by, s>> \in yes

\* crossOriginSigner.ts:407: a signature that was still being asked for or made when its
\* grant was revoked never leaves the page.
NoSignatureAfterRevocation ==
    \A i \in 1..Len(toClient) : toClient[i].type = "signed" => ~toClient[i].stale

\* crossOriginSigner.ts:450: a grant does not outlive the unlocked key. Once the page has
\* been told of a lock there is no grant, save from a connection the lock overtook, if the
\* wallet supplies ensureUnlocked.
GrantDiesWithTheKey ==
    wallet.ensures /\ wallet.locked /\ ~wallet.bus /\ popup.grant # None => popup.grant.overtaken

\* Every signEvent of the relying page settles, whatever became of the popup.
EveryRequestSettles == \A r \in Req : (req[r].pc = "pending") ~> (req[r].pc # "pending")

\* crossOriginClient.ts:232
IsActive == client.pc = "live" /\ ~expired

\* A page whose grant is gone learns of it without asking, whether the popup was closed or
\* reloaded, the wallet was locked, or the user took the grant back: its isActive() turns
\* false, by a message, by the poll of the window or by its own clock.
RevocationReachesClient == (IsActive /\ popup.grant = None) ~> ~IsActive

-----------------------------------------------------------------------------
(* What the safety properties rest on (proved in CrossOriginProofs). *)

Queued(q) == {q[i] : i \in 1..Len(q)}

\* Nothing has come of this connection yet.
Unspent == popup.grant = None /\ sign = IdleSign /\ rides = 0

\* One call of connectCrossOrigin asks once to connect, and gets one grant at most.
OneGrantPerConnect ==
    /\ client.pc = "waiting" => toSigner = <<>> /\ conn.pc = "idle" /\ Unspent
    /\ \A i \in 1..Len(toSigner) :
          toSigner[i].type = "connect" => i = 1 /\ conn.pc = "idle" /\ Unspent
    /\ conn.pc # "idle" => Unspent

\* What the page asked for is within its permission, and was asked for at all.
InScope(r) == /\ req[r].pc # "idle"
              /\ client.scope \subseteq Policy /\ req[r].t.item \in client.scope

\* This account said yes to what the page asks for.
SaidYes(a) == <<a, client.scope>> \in yes

\* From the policy to the signed event, each stage has what the one before it checked: the
\* signer page,
PageWithin ==
    /\ conn.pc # "idle" => client.scope \subseteq Policy
    /\ conn.pc \in {"store", "consent"} => conn.who \in Account
    /\ popup.grant # None =>
          popup.grant.scope = client.scope /\ client.scope \subseteq Policy /\ SaidYes(popup.grant.who)
    /\ \A r \in Req : sign[r].pc # "idle" => InScope(r)

\* the messages under way,
MessagesWithin ==
    /\ \A m \in Queued(toSigner) : m.type = "sign" => req[m.id].pc # "idle"
    /\ \A m \in Queued(toClient) : m.type = "signed" => InScope(m.id) /\ SaidYes(m.by) /\ ~m.stale

\* and the relying page.
ClientWithin ==
    /\ client.pc = "live" => client.grant # None
    /\ client.grant # None => client.expected \in {None, client.grant.who}
    /\ \A r \in Req :
          /\ req[r].pc # "idle" => req[r].t \in Template
          /\ req[r].pc = "pending" => client.pc = "live"
          /\ req[r].pc = "resolved" =>
                InScope(r) /\ SaidYes(req[r].by) /\ client.expected \in {None, req[r].by}

\* A completion proof that is being signed on the strength of the consent alone
Riding(r) == sign[r].pc # "idle" /\ req[r].t.completion /\ ~sign[r].asked

\* The consent is claimed before the first such proof is signed, and by one alone.
OneRide ==
    /\ rides <= 1
    /\ \A r \in Req : Riding(r) => rides = 0 /\ \A q \in Req : Riding(q) => q = r
    /\ popup.grant # None /\ (rides # 0 \/ \E r \in Req : Riding(r)) => popup.grant.used

\* A signature under way whose grant was revoked finds no grant, its own or another.
RevokedFindsNone == \A r \in Req : sign[r].revoked => popup.grant = None

\* A connection made while the wallet locked is known as one.
LockNoted ==
    wallet.ensures /\ wallet.locked /\ ~wallet.bus /\ conn.pc \in {"npub", "store", "consent"} => conn.overtaken

CrossInv ==
    /\ TypeOK /\ OneGrantPerConnect /\ PageWithin /\ MessagesWithin /\ ClientWithin
    /\ OneRide /\ RevokedFindsNone /\ LockNoted /\ GrantDiesWithTheKey
=============================================================================
