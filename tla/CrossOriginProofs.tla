------------------------- MODULE CrossOriginProofs -------------------------
(***************************************************************************)
(* Why what a relying page gets signed is what the user said yes to, why   *)
(* one consent covers one completion proof, and why no grant outlives its  *)
(* revocation or the key, for any number of requests, accounts and         *)
(* permissions.                                                            *)
(***************************************************************************)
EXTENDS CrossOrigin, TLAPS

-----------------------------------------------------------------------------
(* The messages between the two pages. *)

\* What is in a queue after a message was posted
LEMMA QueuedAppend ==
    ASSUME NEW S, NEW q \in Seq(S), NEW m \in S
    PROVE  Append(q, m) \in Seq(S) /\ Queued(Append(q, m)) \subseteq Queued(q) \cup {m}
<1>1. ASSUME NEW i \in 1..Len(Append(q, m))
      PROVE  Append(q, m)[i] \in Queued(q) \cup {m}
  <2>1. CASE i = Len(q) + 1
    BY <2>1
  <2>2. CASE i # Len(q) + 1
    <3>1. i \in 1..Len(q) /\ Append(q, m)[i] = q[i]
      BY <2>2
    <3> QED
      BY <3>1 DEF Queued
  <2> QED
    BY <2>1, <2>2
<1>2. \A x \in Queued(Append(q, m)) : \E i \in 1..Len(Append(q, m)) : x = Append(q, m)[i]
  BY DEF Queued
<1> QED
  BY <1>1, <1>2

\* What is in a queue when its first message is taken
LEMMA QueuedTail ==
    ASSUME NEW S, NEW q \in Seq(S), q # <<>>
    PROVE  /\ Tail(q) \in Seq(S) /\ Queued(Tail(q)) \subseteq Queued(q)
           /\ Head(q) \in S /\ Head(q) \in Queued(q) /\ Head(q) = q[1]
           /\ Len(Tail(q)) = Len(q) - 1 /\ \A i \in 1..Len(Tail(q)) : Tail(q)[i] = q[i + 1]
<1>1. Len(Tail(q)) = Len(q) - 1 /\ \A i \in 1..Len(Tail(q)) : Tail(q)[i] = q[i + 1]
  OBVIOUS
<1>2. \A i \in 1..Len(Tail(q)) : i + 1 \in 1..Len(q)
  BY <1>1
<1>3. Queued(Tail(q)) \subseteq Queued(q)
  BY <1>1, <1>2 DEF Queued
<1>4. 1 \in 1..Len(q) /\ Head(q) = q[1]
  OBVIOUS
<1> QED
  BY <1>1, <1>3, <1>4 DEF Queued

\* What is queued is a message.
LEMMA QueuedType == ASSUME NEW S, NEW q \in Seq(S) PROVE Queued(q) \subseteq S
  BY DEF Queued

-----------------------------------------------------------------------------
(* What a step leaves alone. *)

\* What the page asks for, and what it has asked to be signed, stay as they are.
SameAsk ==
    /\ client'.scope = client.scope /\ client'.expected = client.expected
    /\ yes \subseteq yes'
    /\ \A r \in Req : req[r].pc # "idle" => req'[r].pc # "idle" /\ req'[r].t = req[r].t

\* The signer page's grant and its calls stay as they are.
SamePage == popup'.grant = popup.grant /\ conn' = conn /\ sign' = sign /\ rides' = rides

\* Nothing is signed.
NothingSigned ==
    /\ toClient' \in Seq(ToClient)
    /\ \A m \in Queued(toClient') : m \in Queued(toClient) \/ m.type # "signed"

\* No more is asked of the signer page.
NothingAsked ==
    /\ toSigner' \in Seq(ToSigner)
    /\ Queued(toSigner') \subseteq Queued(toSigner)

\* The records that calls and connections go back to
LEMMA IdleTypes ==
    /\ IdleSign \in [Req -> SignRecord] /\ IdleConn \in ConnRecord
    /\ \A r \in Req : IdleSign[r].pc = "idle" /\ ~IdleSign[r].asked /\ ~IdleSign[r].revoked
    /\ IdleConn.pc = "idle"
  BY DEF IdleSign, IdleConn, SignRecord, ConnRecord, Opt

\* What was asked for within the permission, and said yes to, stays so.
LEMMA AskKept ==
    ASSUME SameAsk
    PROVE  /\ \A r \in Req : InScope(r) => InScope(r)'
           /\ \A a : SaidYes(a) => SaidYes(a)'
  BY DEF SameAsk, InScope, SaidYes

\* A step that leaves the signer page alone keeps what is known of it.
LEMMA PageKept ==
    ASSUME CrossInv, SameAsk, SamePage
    PROVE  PageWithin' /\ OneRide' /\ RevokedFindsNone'
<1>1. \A r \in Req : InScope(r) => InScope(r)' /\ req'[r].t = req[r].t
  BY AskKept DEF SameAsk, InScope
<1>2. \A a : SaidYes(a) => SaidYes(a)'
  BY AskKept
<1>3. PageWithin'
  BY <1>1, <1>2 DEF CrossInv, PageWithin, SamePage, SameAsk
<1>4. \A r \in Req : Riding(r)' => Riding(r)
  BY <1>1 DEF CrossInv, PageWithin, SamePage, Riding
<1>5. OneRide'
  BY <1>4 DEF CrossInv, OneRide, SamePage
<1>6. RevokedFindsNone'
  BY DEF CrossInv, RevokedFindsNone, SamePage
<1> QED
  BY <1>3, <1>5, <1>6

\* With the signer page's document goes everything it held.
LEMMA PageLost ==
    ASSUME NEW at \in {"closed", "loading"}, PageGone(at), rides \in Nat, rides <= 1, rides' = rides \/ rides' = 0
    PROVE  /\ popup' \in PopupRecord /\ conn' \in ConnRecord /\ sign' \in [Req -> SignRecord]
           /\ popup'.at = at /\ popup'.grant = None /\ conn' = IdleConn /\ sign' = IdleSign
           /\ PageWithin' /\ OneRide' /\ RevokedFindsNone' /\ LockNoted' /\ GrantDiesWithTheKey'
<1>1. /\ popup' = [at |-> at, grant |-> None] /\ conn' = IdleConn /\ sign' = IdleSign
  BY DEF PageGone
<1>2. popup' \in PopupRecord /\ popup'.at = at /\ popup'.grant = None
  BY <1>1 DEF PopupRecord, Opt
<1>3. \A r \in Req : ~Riding(r)'
  BY <1>1, IdleTypes DEF Riding
<1> QED
  BY <1>1, <1>2, <1>3, IdleTypes
     DEF PageWithin, OneRide, RevokedFindsNone, LockNoted, GrantDiesWithTheKey

\* A step that asks for nothing and signs nothing keeps what is known of the messages.
LEMMA MessagesKept ==
    ASSUME CrossInv, SameAsk, NothingAsked, NothingSigned
    PROVE  MessagesWithin'
<1>1. \A r \in Req : InScope(r) => InScope(r)'
  BY AskKept
<1>2. \A a : SaidYes(a) => SaidYes(a)'
  BY AskKept
<1>3. Queued(toSigner) \subseteq ToSigner /\ Queued(toClient) \subseteq ToClient
  BY QueuedType DEF CrossInv, TypeOK
<1>4. ASSUME NEW m \in Queued(toSigner'), m.type = "sign"
      PROVE  req'[m.id].pc # "idle"
  <2>1. m \in Queued(toSigner) /\ m.id \in Req /\ req[m.id].pc # "idle"
    BY <1>3, <1>4 DEF CrossInv, MessagesWithin, NothingAsked, ToSigner
  <2> QED
    BY <2>1 DEF SameAsk
<1>5. ASSUME NEW m \in Queued(toClient'), m.type = "signed"
      PROVE  InScope(m.id)' /\ SaidYes(m.by)' /\ ~m.stale
  <2>1. m \in Queued(toClient) /\ m.id \in Req
    BY <1>3, <1>5 DEF NothingSigned, ToClient
  <2> QED
    BY <1>1, <1>2, <1>5, <2>1 DEF CrossInv, MessagesWithin
<1> QED
  BY <1>4, <1>5 DEF MessagesWithin

\* A step that leaves the relying page alone keeps what is known of it.
LEMMA ClientKept ==
    ASSUME CrossInv, UNCHANGED <<client, req>>, yes \subseteq yes'
    PROVE  SameAsk /\ ClientWithin' /\ client' \in ClientRecord /\ req' \in [Req -> ReqRecord]
<1>1. SameAsk
  BY DEF SameAsk
<1>2. \A r \in Req : InScope(r) => InScope(r)'
  BY <1>1, AskKept
<1>3. \A a : SaidYes(a) => SaidYes(a)'
  BY <1>1, AskKept
<1>4. ClientWithin'
  BY <1>2, <1>3 DEF CrossInv, ClientWithin
<1> QED
  BY <1>1, <1>4 DEF CrossInv, TypeOK

\* A client that ends keeps nothing pending, and what it got it got rightly.
LEMMA ClientEnds ==
    ASSUME CrossInv, Ended, yes' = yes
    PROVE  /\ SameAsk /\ ClientWithin' /\ client' \in ClientRecord /\ req' \in [Req -> ReqRecord]
           /\ client'.pc = "ended"
<1>1. client \in ClientRecord /\ req \in [Req -> ReqRecord]
  BY DEF CrossInv, TypeOK
<1>2. /\ client' \in ClientRecord /\ client'.pc = "ended" /\ client'.scope = client.scope
      /\ client'.expected = client.expected /\ client'.grant = client.grant
  BY <1>1 DEF Ended, ClientRecord
<1>3. ASSUME NEW r \in Req
      PROVE  /\ req'[r] \in ReqRecord /\ req'[r].t = req[r].t /\ req'[r].by = req[r].by
             /\ req'[r].pc = IF req[r].pc = "pending" THEN "rejected" ELSE req[r].pc
  <2>1. req[r] \in ReqRecord
    BY <1>1
  <2>2. req'[r] = IF req[r].pc = "pending" THEN [req[r] EXCEPT !.pc = "rejected"] ELSE req[r]
    BY DEF Ended
  <2> QED
    BY <2>1, <2>2 DEF ReqRecord
<1>4. req' \in [Req -> ReqRecord]
  BY <1>3 DEF Ended
<1>5. SameAsk
  BY <1>2, <1>3 DEF SameAsk
<1>6. \A r \in Req : InScope(r) => InScope(r)'
  BY <1>5, AskKept
<1>7. \A a : SaidYes(a) => SaidYes(a)'
  BY <1>5, AskKept
<1>8. ClientWithin'
  BY <1>2, <1>3, <1>6, <1>7 DEF CrossInv, ClientWithin
<1> QED
  BY <1>2, <1>4, <1>5, <1>8

-----------------------------------------------------------------------------
(* The parts of the invariant, put together. *)

\* The messages are where they were, or the first one has been taken.
SomeTaken == toSigner' = toSigner \/ (toSigner # <<>> /\ toSigner' = Tail(toSigner))

\* What is remembered and counted is of its kind.
OthersTyped ==
    /\ wallet' \in WalletRecord /\ consent' \subseteq yes' /\ yes' \subseteq Account \X SUBSET Item
    /\ expired' \in BOOLEAN /\ moves' \in 0..MaxMoves

\* Taking a message asks for nothing.
LEMMA TakenAsksNothing == ASSUME CrossInv, SomeTaken PROVE NothingAsked
  BY QueuedTail DEF CrossInv, TypeOK, SomeTaken, NothingAsked

\* As long as the signer page stays as it is, or goes, no second connection is in sight.
LEMMA GrantOnceKept ==
    ASSUME CrossInv, client'.pc = "waiting" => client.pc = "waiting", SomeTaken,
           \/ SamePage
           \/ \E at \in {"closed", "loading"} : PageGone(at) /\ rides' = rides
    PROVE  OneGrantPerConnect'
<1>1. conn'.pc # "idle" => conn' = conn
  BY IdleTypes DEF SamePage, PageGone
<1>2. Unspent => Unspent'
  BY IdleTypes DEF SamePage, PageGone, Unspent
<1>3. ASSUME NEW i \in 1..Len(toSigner'), toSigner'[i].type = "connect"
      PROVE  i = 1 /\ conn.pc = "idle" /\ Unspent /\ toSigner' = toSigner
  <2>1. toSigner \in Seq(ToSigner)
    BY DEF CrossInv, TypeOK
  <2>2. CASE toSigner' = toSigner
    BY <1>3, <2>2 DEF CrossInv, OneGrantPerConnect
  <2>3. CASE toSigner # <<>> /\ toSigner' = Tail(toSigner)
    <3>1. i + 1 \in 1..Len(toSigner) /\ toSigner[i + 1].type = "connect" /\ i + 1 # 1
      BY <1>3, <2>1, <2>3, QueuedTail
    <3> QED
      BY <3>1 DEF CrossInv, OneGrantPerConnect
  <2> QED
    BY <2>2, <2>3 DEF SomeTaken
<1>4. client'.pc = "waiting" => toSigner' = <<>> /\ conn.pc = "idle" /\ Unspent
  BY DEF CrossInv, OneGrantPerConnect, SomeTaken
<1>5. conn.pc # "idle" => Unspent
  BY DEF CrossInv, OneGrantPerConnect
<1> QED
  BY <1>1, <1>2, <1>3, <1>4, <1>5 DEF OneGrantPerConnect

\* Once something has come of a connection, no other is in sight.
LEMMA SpentOnce ==
    ASSUME CrossInv, ~Unspent \/ conn.pc # "idle"
    PROVE  client.pc # "waiting" /\ \A i \in 1..Len(toSigner) : toSigner[i].type # "connect"
  BY DEF CrossInv, OneGrantPerConnect

\* The wallet and the connection being made stay as they are.
LEMMA LockKept ==
    ASSUME CrossInv, wallet' = wallet, conn' = conn, popup'.grant = popup.grant
    PROVE  LockNoted' /\ GrantDiesWithTheKey'
  BY DEF CrossInv, LockNoted, GrantDiesWithTheKey

\* A step of the relying page, or of the user elsewhere, that leaves the signer page alone
LEMMA PageAlone ==
    ASSUME CrossInv, SameAsk, client' \in ClientRecord, req' \in [Req -> ReqRecord], ClientWithin',
           popup' = popup, conn' = conn, sign' = sign, rides' = rides, wallet' = wallet,
           OthersTyped, toSigner' \in Seq(ToSigner), toClient' \in Seq(ToClient),
           MessagesWithin', OneGrantPerConnect'
    PROVE  CrossInv'
<1>1. PageWithin' /\ OneRide' /\ RevokedFindsNone'
  BY PageKept DEF SamePage
<1>2. LockNoted' /\ GrantDiesWithTheKey'
  BY LockKept
<1>3. TypeOK'
  BY DEF CrossInv, TypeOK, OthersTyped
<1> QED
  BY <1>1, <1>2, <1>3 DEF CrossInv

\* A step that leaves the signer page alone, asks for nothing and signs nothing
LEMMA PageAloneQuiet ==
    ASSUME CrossInv, SameAsk, client' \in ClientRecord, req' \in [Req -> ReqRecord], ClientWithin',
           popup' = popup, conn' = conn, sign' = sign, rides' = rides, wallet' = wallet,
           OthersTyped, SomeTaken, NothingSigned, client'.pc = "waiting" => client.pc = "waiting"
    PROVE  CrossInv'
<1>1. NothingAsked
  BY TakenAsksNothing
<1>2. MessagesWithin'
  BY <1>1, MessagesKept
<1>3. OneGrantPerConnect'
  BY GrantOnceKept DEF SamePage
<1> QED
  BY <1>1, <1>2, <1>3, PageAlone DEF NothingAsked, NothingSigned

\* A step in which the signer page's document goes
LEMMA PageGoes ==
    ASSUME CrossInv, SameAsk, client' \in ClientRecord, req' \in [Req -> ReqRecord], ClientWithin',
           NEW at \in {"closed", "loading"}, PageGone(at), rides' = rides,
           OthersTyped, SomeTaken, NothingSigned, client'.pc = "waiting" => client.pc = "waiting"
    PROVE  CrossInv'
<1>1. rides \in Nat /\ rides <= 1
  BY DEF CrossInv, TypeOK, OneRide
<1>2. /\ popup' \in PopupRecord /\ conn' \in ConnRecord /\ sign' \in [Req -> SignRecord]
      /\ popup'.at = at /\ popup'.grant = None /\ conn' = IdleConn /\ sign' = IdleSign
      /\ PageWithin' /\ OneRide' /\ RevokedFindsNone' /\ LockNoted' /\ GrantDiesWithTheKey'
  BY <1>1, PageLost
<1>3. NothingAsked
  BY TakenAsksNothing
<1>4. MessagesWithin'
  BY <1>3, MessagesKept
<1>5. OneGrantPerConnect'
  BY GrantOnceKept
<1>6. TypeOK'
  BY <1>1, <1>2, <1>3 DEF TypeOK, OthersTyped, NothingAsked, NothingSigned
<1> QED
  BY <1>2, <1>4, <1>5, <1>6 DEF CrossInv

\* What users and browsers do of their own accord counts.
LEMMA MoveType == ASSUME CrossInv, Move PROVE moves' \in 0..MaxMoves
  BY CrossOriginAssumption DEF CrossInv, TypeOK, Move

\* What nobody touches keeps its type.
LEMMA OthersKept ==
    ASSUME CrossInv, wallet' = wallet, consent' = consent, yes' = yes,
           expired' \in BOOLEAN, moves' = moves \/ Move
    PROVE  OthersTyped
  BY MoveType DEF CrossInv, TypeOK, OthersTyped

\* A step that posts nothing to the relying page signs nothing.
LEMMA NoMessage == ASSUME CrossInv, toClient' = toClient PROVE NothingSigned
  BY DEF CrossInv, TypeOK, NothingSigned

\* Neither does one that posts another message than a signed event,
LEMMA OneMessage ==
    ASSUME CrossInv, NEW m \in ToClient, m.type # "signed", Reply(m)
    PROVE  NothingSigned
<1>1. toClient \in Seq(ToClient)
  BY DEF CrossInv, TypeOK
<1> QED
  BY <1>1, QueuedAppend DEF Reply, NothingSigned

\* or one that takes a message.
LEMMA MessageTaken ==
    ASSUME CrossInv, toClient # <<>>, toClient' = Tail(toClient)
    PROVE  NothingSigned
<1>1. toClient \in Seq(ToClient)
  BY DEF CrossInv, TypeOK
<1> QED
  BY <1>1, QueuedTail DEF NothingSigned

-----------------------------------------------------------------------------
(* The first state, and the steps of the relying page. *)

\* Nothing has been asked for yet.
LEMMA InitCross == Init => CrossInv
<1> SUFFICES ASSUME Init PROVE CrossInv
  OBVIOUS
<1>1. \A r \in Req : /\ req[r] = [pc |-> "idle", t |-> None, by |-> None]
                     /\ req[r].pc = "idle"
  BY DEF Init
<1>2. req \in [Req -> ReqRecord]
  BY DEF Init, ReqRecord, Opt
<1>3. sign = IdleSign /\ conn = IdleConn
  BY DEF Init, IdleSign, IdleConn
<1>4. client \in ClientRecord /\ client.pc = "idle" /\ client.grant = None
  BY DEF Init, ClientRecord, Opt
<1>5. popup \in PopupRecord /\ popup.grant = None
  BY DEF Init, PopupRecord, Opt
<1>6. wallet \in WalletRecord /\ wallet.locked = FALSE
  <2>1. PICK w \in Account, x \in Wired :
           wallet = [who |-> w, locked |-> FALSE, bus |-> FALSE, onSign |-> x.onSign, ensures |-> x.ensures]
    BY DEF Init
  <2>2. x.onSign \in BOOLEAN /\ x.ensures \in BOOLEAN
    BY CrossOriginAssumption
  <2> QED
    BY <2>1, <2>2 DEF WalletRecord
<1>7. toSigner \in Seq(ToSigner) /\ toClient \in Seq(ToClient) /\ Len(toSigner) = 0 /\ Len(toClient) = 0
  BY DEF Init
<1>8. Queued(toSigner) = {} /\ Queued(toClient) = {}
  BY <1>7 DEF Queued
<1>9. TypeOK
  <2>0. consent = {} /\ yes = {} /\ expired = FALSE /\ rides = 0 /\ moves = 0 /\ MaxMoves \in Nat
    BY CrossOriginAssumption DEF Init
  <2>1. consent \subseteq yes /\ yes \subseteq Account \X SUBSET Item
    BY <2>0, Zenon
  <2>2. rides \in Nat /\ moves \in 0..MaxMoves
    BY <2>0
  <2>3. expired \in BOOLEAN
    BY <2>0, Zenon
  <2> QED
    BY <1>2, <1>3, <1>4, <1>5, <1>6, <1>7, <2>1, <2>2, <2>3, IdleTypes DEF TypeOK
<1>10. OneGrantPerConnect
  BY <1>3, <1>4, <1>7, IdleTypes DEF OneGrantPerConnect
<1>11. PageWithin /\ MessagesWithin /\ ClientWithin
  BY <1>1, <1>3, <1>4, <1>5, <1>8, IdleTypes DEF PageWithin, MessagesWithin, ClientWithin
<1>12. rides = 0 /\ \A r \in Req : ~Riding(r)
  BY <1>3, IdleTypes DEF Init, Riding
<1>13. OneRide /\ RevokedFindsNone
  BY <1>3, <1>5, <1>12, IdleTypes DEF OneRide, RevokedFindsNone
<1>14. LockNoted /\ GrantDiesWithTheKey
  BY <1>3, <1>5, <1>6, IdleTypes DEF LockNoted, GrantDiesWithTheKey
<1> QED
  BY <1>9, <1>10, <1>11, <1>13, <1>14 DEF CrossInv

\* A new connection starts from nothing.
LEMMA ConnectKeeps ==
    ASSUME CrossInv, NEW a \in Asks, Connect(a[1], a[2])
    PROVE  CrossInv'
<1>1. a[1] \subseteq Item /\ a[2] \in Opt(Account)
  BY CrossOriginAssumption DEF Opt
<1>2. /\ client' = [pc |-> "waiting", scope |-> a[1], expected |-> a[2], grant |-> None]
      /\ req' = [r \in Req |-> [pc |-> "idle", t |-> None, by |-> None]]
      /\ toSigner' = <<>> /\ toClient' = <<>> /\ PageGone("loading") /\ rides' = 0 /\ expired' = FALSE
      /\ UNCHANGED <<wallet, consent, yes>> /\ Move
  BY DEF Connect
<1>3. client' \in ClientRecord /\ client'.pc = "waiting" /\ client'.grant = None
  BY <1>1, <1>2 DEF ClientRecord, Opt
<1>4. req' \in [Req -> ReqRecord] /\ \A r \in Req : req'[r].pc = "idle"
  BY <1>2 DEF ReqRecord, Opt
<1>5. rides \in Nat /\ rides <= 1
  BY DEF CrossInv, TypeOK, OneRide
<1>6. /\ popup' \in PopupRecord /\ conn' \in ConnRecord /\ sign' \in [Req -> SignRecord]
      /\ popup'.at = "loading" /\ popup'.grant = None /\ conn' = IdleConn /\ sign' = IdleSign
      /\ PageWithin' /\ OneRide' /\ RevokedFindsNone' /\ LockNoted' /\ GrantDiesWithTheKey'
  BY <1>2, <1>5, PageLost
<1>7. toSigner' \in Seq(ToSigner) /\ toClient' \in Seq(ToClient) /\ Len(toSigner') = 0 /\ Len(toClient') = 0
  BY <1>2
<1>8. Queued(toSigner') = {} /\ Queued(toClient') = {}
  BY <1>7 DEF Queued
<1>9. OthersTyped
  BY <1>2, OthersKept
<1>10. TypeOK'
  BY <1>2, <1>3, <1>4, <1>6, <1>7, <1>9 DEF TypeOK, OthersTyped
<1>11. OneGrantPerConnect'
  BY <1>2, <1>6, <1>7, IdleTypes DEF OneGrantPerConnect, Unspent
<1>12. MessagesWithin' /\ ClientWithin'
  BY <1>3, <1>4, <1>8 DEF MessagesWithin, ClientWithin
<1> QED
  BY <1>6, <1>10, <1>11, <1>12 DEF CrossInv

\* The ends of a connection.
LEMMA EndKeeps ==
    ASSUME CrossInv, ConnectTimeout \/ Disconnect \/ ClosedPoll
    PROVE  CrossInv'
<1>1. Ended /\ UNCHANGED <<toSigner, toClient, wallet, consent, expired, yes, rides>>
  BY DEF ConnectTimeout, Disconnect, ClosedPoll, ConnectRejected
<1>2. moves' = moves \/ Move
  BY DEF ConnectTimeout, Disconnect, ClosedPoll
<1>3. PageGone("closed") \/ (popup' = popup /\ conn' = conn /\ sign' = sign)
  BY DEF ConnectTimeout, Disconnect, ClosedPoll, ConnectRejected
<1>4. /\ SameAsk /\ ClientWithin' /\ client' \in ClientRecord /\ req' \in [Req -> ReqRecord]
      /\ client'.pc = "ended"
  BY <1>1, ClientEnds
<1>5. OthersTyped /\ SomeTaken /\ NothingSigned
  BY <1>1, <1>2, OthersKept, NoMessage DEF SomeTaken, CrossInv, TypeOK
<1>6. CASE PageGone("closed")
  BY <1>1, <1>4, <1>5, <1>6, PageGoes
<1>7. CASE popup' = popup /\ conn' = conn /\ sign' = sign
  BY <1>1, <1>4, <1>5, <1>7, PageAloneQuiet
<1> QED
  BY <1>3, <1>6, <1>7

\* One request changes and what had been asked for stays.
LEMMA OneRequest ==
    ASSUME CrossInv, NEW r \in Req, NEW q \in ReqRecord, req' = [req EXCEPT ![r] = q],
           UNCHANGED <<client, yes>>,
           q.pc # "idle" /\ q.t \in Template, q.pc = "pending" => client.pc = "live",
           req[r].pc # "idle" => q.t = req[r].t,
           q.pc = "resolved" => InScope(r) /\ SaidYes(q.by) /\ client.expected \in {None, q.by}
    PROVE  SameAsk /\ ClientWithin' /\ client' \in ClientRecord /\ req' \in [Req -> ReqRecord]
<1>1. req \in [Req -> ReqRecord] /\ client \in ClientRecord
  BY DEF CrossInv, TypeOK
<1>2. req' \in [Req -> ReqRecord] /\ \A s \in Req : req'[s] = IF s = r THEN q ELSE req[s]
  BY <1>1
<1>3. SameAsk
  BY <1>2 DEF SameAsk
<1>4. \A s \in Req : InScope(s) => InScope(s)'
  BY <1>3, AskKept
<1>5. \A a : SaidYes(a) => SaidYes(a)'
  BY <1>3, AskKept
<1>6. ClientWithin'
  BY <1>2, <1>4, <1>5 DEF CrossInv, ClientWithin
<1> QED
  BY <1>1, <1>2, <1>3, <1>6

\* A request is made, or finds the grant expired; or it times out.
LEMMA RequestKeeps ==
    ASSUME CrossInv, NEW r \in Req,
           (\E t \in Template : SignEvent(r, t)) \/ RequestTimeout(r)
    PROVE  CrossInv'
<1>0. /\ req[r] \in ReqRecord /\ client \in ClientRecord /\ toSigner \in Seq(ToSigner)
      /\ Queued(toSigner) \subseteq ToSigner
  BY QueuedType DEF CrossInv, TypeOK
<1>1. UNCHANGED <<toClient, popup, conn, sign, wallet, consent, expired, yes, rides, moves>>
  BY DEF SignEvent, RequestTimeout
<1>2. OthersTyped /\ NothingSigned
  BY <1>1, OthersKept, NoMessage DEF CrossInv, TypeOK
<1>3. CASE RequestTimeout(r)
  <2>1. PICK q : q = [req[r] EXCEPT !.pc = "rejected"]
    OBVIOUS
  <2>2. q \in ReqRecord /\ q.pc = "rejected" /\ q.t = req[r].t
    BY <1>0, <2>1 DEF ReqRecord
  <2>3. req[r].t \in Template
    BY <1>3 DEF CrossInv, ClientWithin, RequestTimeout
  <2>4. req' = [req EXCEPT ![r] = q] /\ UNCHANGED <<client, toSigner>>
    BY <1>3, <2>1 DEF RequestTimeout
  <2>5. SameAsk /\ ClientWithin' /\ client' \in ClientRecord /\ req' \in [Req -> ReqRecord]
    BY <1>1, <2>2, <2>3, <2>4, OneRequest
  <2> QED
    BY <1>1, <1>2, <2>4, <2>5, PageAloneQuiet DEF SomeTaken
<1>4. ASSUME NEW t \in Template, SignEvent(r, t) PROVE CrossInv'
  <2>1. client.pc = "live" /\ req[r].pc = "idle"
    BY <1>4 DEF SignEvent
  <2>2. CASE Ended /\ toSigner' = toSigner
    <3>1. /\ SameAsk /\ ClientWithin' /\ client' \in ClientRecord /\ req' \in [Req -> ReqRecord]
          /\ client'.pc = "ended"
      BY <1>1, <2>2, ClientEnds
    <3> QED
      BY <1>1, <1>2, <2>2, <3>1, PageAloneQuiet DEF SomeTaken
  <2>3. CASE /\ req' = [req EXCEPT ![r] = [pc |-> "pending", t |-> t, by |-> None]]
             /\ toSigner' = Append(toSigner, [type |-> "sign", id |-> r])
             /\ client' = client
    <3>1. PICK q : q = [pc |-> "pending", t |-> t, by |-> None]
      OBVIOUS
    <3>2. q \in ReqRecord /\ q.pc = "pending" /\ q.t = t
      BY <3>1 DEF ReqRecord, Opt
    <3>3. SameAsk /\ ClientWithin' /\ client' \in ClientRecord /\ req' \in [Req -> ReqRecord]
      BY <1>1, <2>1, <2>3, <3>1, <3>2, OneRequest
    <3>m. PICK m : m = [type |-> "sign", id |-> r]
      OBVIOUS
    <3>4. m \in ToSigner /\ m.type = "sign" /\ m.id = r
      BY <3>m DEF ToSigner
    <3>5. toSigner' \in Seq(ToSigner) /\ Queued(toSigner') \subseteq Queued(toSigner) \cup {m}
      BY <1>0, <2>3, <3>m, <3>4, QueuedAppend
    <3>6. MessagesWithin'
      <4>1. ASSUME NEW n \in Queued(toSigner'), n.type = "sign" PROVE req'[n.id].pc # "idle"
        <5>1. CASE n = m
          <6>1. req'[r] = q
            BY <2>3, <3>1 DEF CrossInv, TypeOK
          <6> QED
            BY <3>2, <3>4, <5>1, <6>1
        <5>2. CASE n # m
          <6>1. n \in Queued(toSigner) /\ n.id \in Req /\ req[n.id].pc # "idle"
            BY <1>0, <3>5, <4>1, <5>2 DEF CrossInv, MessagesWithin, ToSigner
          <6> QED
            BY <3>3, <6>1 DEF SameAsk
        <5> QED
          BY <5>1, <5>2
      <4>2. \A s \in Req : InScope(s) => InScope(s)'
        BY <3>3, AskKept
      <4>3. \A a : SaidYes(a) => SaidYes(a)'
        BY <3>3, AskKept
      <4>4. \A n \in Queued(toClient) : n.type = "signed" => n.id \in Req
        BY QueuedType DEF CrossInv, TypeOK, ToClient
      <4> QED
        BY <1>1, <4>1, <4>2, <4>3, <4>4 DEF CrossInv, MessagesWithin
    <3>7. OneGrantPerConnect'
      <4>1. \A i \in 1..Len(toSigner') : toSigner'[i].type = "connect" => i \in 1..Len(toSigner) /\ toSigner'[i] = toSigner[i]
        BY <1>0, <2>3
      <4>2. Unspent => Unspent'
        BY <1>1 DEF Unspent
      <4> QED
        BY <1>1, <2>1, <2>3, <4>1, <4>2 DEF CrossInv, OneGrantPerConnect
    <3> QED
      BY <1>1, <1>2, <3>3, <3>5, <3>6, <3>7, PageAlone DEF NothingSigned
  <2> QED
    BY <1>4, <2>2, <2>3 DEF SignEvent
<1> QED
  BY <1>3, <1>4

\* The relying page hears of the signer page.
LEMMA ListenKeeps == ASSUME CrossInv, ClientListen PROVE CrossInv'
<1> DEFINE m == Head(toClient)
<1>0. /\ toClient # <<>> /\ toClient' = Tail(toClient)
      /\ UNCHANGED <<wallet, consent, expired, yes, rides, moves>>
  BY DEF ClientListen
<1>1. /\ m \in ToClient /\ m \in Queued(toClient)
      /\ client \in ClientRecord /\ req \in [Req -> ReqRecord] /\ toSigner \in Seq(ToSigner)
  BY <1>0, QueuedTail DEF CrossInv, TypeOK
<1>2. NothingSigned /\ OthersTyped
  BY <1>0, MessageTaken, OthersKept DEF CrossInv, TypeOK
<1>3. CASE UNCHANGED <<client, req, toSigner, popup, conn, sign>>
  <2>1. SameAsk /\ ClientWithin' /\ client' \in ClientRecord /\ req' \in [Req -> ReqRecord]
    BY <1>0, <1>3, ClientKept
  <2> QED
    BY <1>0, <1>2, <1>3, <2>1, PageAloneQuiet DEF SomeTaken
<1>4. ASSUME Ended, UNCHANGED <<toSigner, popup, conn, sign>> PROVE CrossInv'
  <2>1. /\ SameAsk /\ ClientWithin' /\ client' \in ClientRecord /\ req' \in [Req -> ReqRecord]
        /\ client'.pc = "ended"
    BY <1>0, <1>4, ClientEnds
  <2> QED
    BY <1>0, <1>2, <1>4, <2>1, PageAloneQuiet DEF SomeTaken
<1>5. ASSUME ConnectRejected, toSigner' = toSigner PROVE CrossInv'
  <2>1. /\ SameAsk /\ ClientWithin' /\ client' \in ClientRecord /\ req' \in [Req -> ReqRecord]
        /\ client'.pc = "ended"
    BY <1>0, <1>5, ClientEnds DEF ConnectRejected
  <2> QED
    BY <1>0, <1>2, <1>5, <2>1, PageGoes DEF ConnectRejected, SomeTaken
<1>6. ASSUME NEW r \in Req, NEW q \in ReqRecord, req[r].pc = "pending",
             req' = [req EXCEPT ![r] = q], q.t = req[r].t,
             \/ q.pc = "rejected"
             \/ q.pc = "resolved" /\ InScope(r) /\ SaidYes(q.by) /\ client.expected \in {None, q.by},
             UNCHANGED <<client, toSigner, popup, conn, sign>>
      PROVE  CrossInv'
  <2>1. req[r].t \in Template
    BY <1>6 DEF CrossInv, ClientWithin
  <2>2. SameAsk /\ ClientWithin' /\ client' \in ClientRecord /\ req' \in [Req -> ReqRecord]
    BY <1>0, <1>6, <2>1, OneRequest
  <2> QED
    BY <1>0, <1>2, <1>6, <2>2, PageAloneQuiet DEF SomeTaken
<1>7. CASE OnReady(m)
  <2>1. CASE Ended /\ toSigner' = toSigner
    BY <1>4, <1>7, <2>1 DEF OnReady
  <2>2. CASE /\ client.pc = "waiting" /\ client' = [client EXCEPT !.pc = "connecting"]
             /\ toSigner' = Append(toSigner, [type |-> "connect", id |-> None])
             /\ req' = req
    <3>1. /\ client' \in ClientRecord /\ client'.pc = "connecting" /\ client'.scope = client.scope
          /\ client'.expected = client.expected /\ client'.grant = client.grant
      BY <1>1, <2>2 DEF ClientRecord
    <3>2. SameAsk
      BY <1>0, <2>2, <3>1 DEF SameAsk
    <3>3. \A r \in Req : InScope(r) => InScope(r)'
      BY <3>2, AskKept
    <3>4. \A a : SaidYes(a) => SaidYes(a)'
      BY <3>2, AskKept
    <3>5. ClientWithin'
      BY <2>2, <3>1, <3>3, <3>4 DEF CrossInv, ClientWithin
    <3>6. toSigner = <<>> /\ conn.pc = "idle" /\ Unspent
      BY <2>2 DEF CrossInv, OneGrantPerConnect
    <3>7. PICK n : n = [type |-> "connect", id |-> None]
      OBVIOUS
    <3>8. n \in ToSigner /\ n.type = "connect"
      BY <3>7 DEF ToSigner
    <3>9. /\ toSigner' \in Seq(ToSigner) /\ Len(toSigner') = 1
          /\ Queued(toSigner') \subseteq Queued(toSigner) \cup {n}
      <4>1. toSigner' = Append(toSigner, n) /\ Len(toSigner) = 0
        BY <2>2, <3>6, <3>7
      <4>2. Len(toSigner') = 1
        BY <1>1, <4>1
      <4>3. toSigner' \in Seq(ToSigner) /\ Queued(toSigner') \subseteq Queued(toSigner) \cup {n}
        BY <1>1, <3>8, <4>1, QueuedAppend
      <4> QED
        BY <4>2, <4>3
    <3>10. Queued(toSigner) = {}
      <4>1. Len(toSigner) = 0
        BY <3>6
      <4> QED
        BY <4>1 DEF Queued
    <3>11. MessagesWithin'
      <4>1. \A x \in Queued(toClient) : x.type = "signed" => x.id \in Req
        BY QueuedType DEF CrossInv, TypeOK, ToClient
      <4>2. \A x \in Queued(toClient') : x.type = "signed" => x \in Queued(toClient)
        BY <1>2 DEF NothingSigned
      <4> QED
        BY <3>3, <3>4, <3>8, <3>9, <3>10, <4>1, <4>2 DEF CrossInv, MessagesWithin
    <3>12. popup' = popup /\ conn' = conn /\ sign' = sign
      BY <1>7 DEF OnReady
    <3>13. OneGrantPerConnect'
      <4>1. conn'.pc = "idle" /\ Unspent'
        BY <1>0, <3>6, <3>12 DEF Unspent
      <4> QED
        BY <3>1, <3>9, <4>1 DEF OneGrantPerConnect
    <3> QED
      BY <1>0, <1>1, <1>2, <2>2, <3>1, <3>2, <3>5, <3>9, <3>11, <3>12, <3>13, PageAlone DEF NothingSigned
  <2> QED
    BY <1>7, <2>1, <2>2 DEF OnReady
<1>8. CASE OnConnected(m)
  <2>1. CASE ConnectRejected
    BY <1>5, <1>8, <2>1 DEF OnConnected
  <2>2. CASE /\ client.expected \in {None, m.grant.who}
             /\ client' = [client EXCEPT !.pc = "live", !.grant = m.grant]
             /\ UNCHANGED <<req, popup, conn, sign>>
    <3>1. PICK g : g = m.grant
      OBVIOUS
    <3>2. g \in [who : Account, scope : SUBSET Item] /\ g # None
      BY <1>1, <1>8, <3>1, CrossOriginAssumption DEF OnConnected, ToClient
    <3>3. /\ client' \in ClientRecord /\ client'.pc = "live" /\ client'.scope = client.scope
          /\ client'.expected = client.expected /\ client'.grant = g
      BY <1>1, <2>2, <3>1, <3>2 DEF ClientRecord, Opt
    <3>4. SameAsk
      BY <1>0, <2>2, <3>3 DEF SameAsk
    <3>5. \A r \in Req : InScope(r) => InScope(r)'
      BY <3>4, AskKept
    <3>6. \A a : SaidYes(a) => SaidYes(a)'
      BY <3>4, AskKept
    <3>7. ClientWithin'
      BY <2>2, <3>1, <3>2, <3>3, <3>5, <3>6 DEF CrossInv, ClientWithin
    <3> QED
      BY <1>0, <1>1, <1>2, <1>8, <2>2, <3>3, <3>4, <3>7, PageAloneQuiet DEF OnConnected, SomeTaken
  <2> QED
    BY <1>8, <2>1, <2>2 DEF OnConnected
<1>9. CASE OnSigned(m)
  <2>1. m.type = "signed" /\ m.id \in Req /\ req[m.id].pc = "pending"
    BY <1>1, <1>9 DEF OnSigned, ToClient
  <2>2. InScope(m.id) /\ SaidYes(m.by) /\ m.by \in Account
    BY <1>1, <2>1 DEF CrossInv, MessagesWithin, ToClient
  <2>3. client.grant # None /\ client.expected \in {None, client.grant.who}
    BY <2>1 DEF CrossInv, ClientWithin
  <2>4. PICK q : q = IF m.by = client.grant.who THEN [req[m.id] EXCEPT !.pc = "resolved", !.by = m.by]
                     ELSE [req[m.id] EXCEPT !.pc = "rejected"]
    OBVIOUS
  <2>5. req[m.id] \in ReqRecord
    BY <1>1, <2>1
  <2>6. /\ q \in ReqRecord /\ q.t = req[m.id].t
        /\ \/ q.pc = "rejected"
           \/ q.pc = "resolved" /\ q.by = m.by /\ m.by = client.grant.who
    BY <2>2, <2>4, <2>5 DEF ReqRecord, Opt
  <2>7. /\ req' = [req EXCEPT ![m.id] = q] /\ UNCHANGED <<client, toSigner, popup, conn, sign>>
    BY <1>1, <1>9, <2>4 DEF OnSigned
  <2> QED
    BY <1>6, <2>1, <2>2, <2>3, <2>6, <2>7
<1>10. CASE OnError(m)
  <2>1. CASE ConnectRejected
    BY <1>5, <1>10, <2>1 DEF OnError
  <2>2. CASE m.id # None /\ req[m.id].pc = "pending" /\ UNCHANGED <<popup, conn, sign>>
    <3>1. m.id \in Req /\ toSigner' = toSigner
      BY <1>1, <1>10, <2>2 DEF OnError, ToClient, Opt
    <3>2. Ended \/ (req' = [req EXCEPT ![m.id].pc = "rejected"] /\ client' = client)
      BY <1>10, <2>2 DEF OnError
    <3>3. PICK q : q = [req[m.id] EXCEPT !.pc = "rejected"]
      OBVIOUS
    <3>4. req[m.id] \in ReqRecord
      BY <1>1, <3>1
    <3>5. q \in ReqRecord /\ q.t = req[m.id].t /\ q.pc = "rejected"
      BY <3>3, <3>4 DEF ReqRecord
    <3>6. req' = [req EXCEPT ![m.id].pc = "rejected"] => req' = [req EXCEPT ![m.id] = q]
      BY <3>3
    <3> QED
      BY <1>4, <1>6, <2>2, <3>1, <3>2, <3>5, <3>6
  <2> QED
    BY <1>10, <2>1, <2>2 DEF OnError
<1>11. CASE OnRevoked(m)
  BY <1>4, <1>11 DEF OnRevoked
<1> QED
  BY <1>3, <1>7, <1>8, <1>9, <1>10, <1>11 DEF ClientListen, Heard

-----------------------------------------------------------------------------
(* The steps of the signer page. *)

\* The parts of a step that leaves the relying page's own state alone
LEMMA PageStep ==
    ASSUME CrossInv, UNCHANGED <<client, req>>, yes \subseteq yes', OthersTyped, NothingAsked,
           popup' \in PopupRecord, conn' \in ConnRecord, sign' \in [Req -> SignRecord], rides' \in Nat,
           popup'.at # "mounted" => popup'.grant = None /\ conn' = IdleConn /\ sign' = IdleSign,
           toClient' \in Seq(ToClient), MessagesWithin', OneGrantPerConnect',
           PageWithin', OneRide', RevokedFindsNone', LockNoted', GrantDiesWithTheKey'
    PROVE  CrossInv'
<1>1. ClientWithin' /\ client' \in ClientRecord /\ req' \in [Req -> ReqRecord]
  BY ClientKept
<1>2. TypeOK'
  BY <1>1 DEF TypeOK, OthersTyped, NothingAsked
<1> QED
  BY <1>1, <1>2 DEF CrossInv

\* The page loads, is left, or misses a message.
LEMMA PageComesAndGoes ==
    ASSUME CrossInv, Mount \/ Leave \/ Lost
    PROVE  CrossInv'
<1>0. /\ UNCHANGED <<client, req, wallet, consent, expired, yes, rides>>
      /\ popup \in PopupRecord
  BY DEF Mount, Leave, Lost, CrossInv, TypeOK
<1>1. SameAsk /\ ClientWithin' /\ client' \in ClientRecord /\ req' \in [Req -> ReqRecord]
  BY <1>0, ClientKept
<1>2. OthersTyped
  BY <1>0, OthersKept DEF Mount, Leave, Lost, CrossInv, TypeOK
<1>3. CASE Mount
  <2>1. /\ popup' = [popup EXCEPT !.at = "mounted"]
        /\ UNCHANGED <<toSigner, conn, sign>>
        /\ Reply([type |-> "ready"])
    BY <1>3 DEF Mount
  <2>2. popup' \in PopupRecord /\ popup'.at = "mounted" /\ popup'.grant = popup.grant
    BY <1>0, <2>1 DEF PopupRecord
  <2>3. PICK m : m = [type |-> "ready"]
    OBVIOUS
  <2>4. m \in ToClient /\ m.type # "signed"
    BY <2>3 DEF ToClient
  <2>5. NothingSigned /\ SomeTaken
    BY <2>1, <2>3, <2>4, OneMessage DEF SomeTaken
  <2>6. NothingAsked
    BY <2>5, TakenAsksNothing
  <2>7. SamePage
    BY <1>0, <2>1, <2>2 DEF SamePage
  <2>8. PageWithin' /\ OneRide' /\ RevokedFindsNone'
    BY <1>1, <2>7, PageKept
  <2>9. OneGrantPerConnect'
    BY <1>0, <2>5, <2>7, GrantOnceKept
  <2>10. LockNoted' /\ GrantDiesWithTheKey'
    BY <1>0, <2>1, <2>2, LockKept
  <2>11. MessagesWithin'
    BY <1>1, <2>5, <2>6, MessagesKept
  <2>12. conn' \in ConnRecord /\ sign' \in [Req -> SignRecord] /\ rides' \in Nat
    BY <1>0, <2>1 DEF CrossInv, TypeOK
  <2> QED
    BY <1>0, <1>2, <2>2, <2>5, <2>6, <2>8, <2>9, <2>10, <2>11, <2>12, PageStep DEF NothingSigned
<1>4. CASE Leave
  <2>1. PICK at \in {"closed", "loading"} : PageGone(at)
    BY <1>4 DEF Leave
  <2>2. SomeTaken /\ NothingSigned
    BY <1>4, NoMessage DEF Leave, SomeTaken
  <2> QED
    BY <1>0, <1>1, <1>2, <2>1, <2>2, PageGoes
<1>5. CASE Lost
  <2>1. SomeTaken /\ NothingSigned
    BY <1>5, NoMessage DEF Lost, SomeTaken
  <2>2. UNCHANGED <<popup, conn, sign>>
    BY <1>5 DEF Lost
  <2> QED
    BY <1>0, <1>1, <1>2, <2>1, <2>2, PageAloneQuiet
<1> QED
  BY <1>3, <1>4, <1>5

\* A connection being made has nothing behind it, and no other in sight.
LEMMA ConnAlone ==
    ASSUME CrossInv, conn.pc # "idle"
    PROVE  /\ Unspent /\ client.scope \subseteq Policy /\ popup.at = "mounted"
           /\ client.pc # "waiting" /\ \A i \in 1..Len(toSigner) : toSigner[i].type # "connect"
           /\ rides = 0 /\ popup.grant = None /\ sign = IdleSign /\ \A r \in Req : ~Riding(r)
<1>1. Unspent /\ client.scope \subseteq Policy /\ popup.at = "mounted"
  BY IdleTypes DEF CrossInv, OneGrantPerConnect, PageWithin, TypeOK
<1> QED
  BY <1>1, SpentOnce, IdleTypes DEF Unspent, Riding

\* A step of a connection being made, before it has made a grant
LEMMA ConnGoes ==
    ASSUME CrossInv, UNCHANGED <<client, req, toSigner, popup, sign, rides, expired>>, moves' = moves,
           yes \subseteq yes', OthersTyped, NothingSigned,
           conn.pc # "idle", conn' \in ConnRecord,
           conn'.pc \in {"store", "consent"} => conn'.who \in Account,
           LockNoted'
    PROVE  CrossInv'
<1>1. /\ Unspent /\ client.scope \subseteq Policy /\ popup.at = "mounted"
      /\ client.pc # "waiting" /\ \A i \in 1..Len(toSigner) : toSigner[i].type # "connect"
      /\ rides = 0 /\ popup.grant = None /\ sign = IdleSign /\ \A r \in Req : ~Riding(r)
  BY ConnAlone
<1>2. SameAsk
  BY ClientKept
<1>3. NothingAsked
  BY TakenAsksNothing DEF SomeTaken
<1>4. MessagesWithin'
  BY <1>2, <1>3, MessagesKept
<1>5. Unspent'
  BY <1>1 DEF Unspent
<1>6. OneGrantPerConnect'
  BY <1>1, <1>5 DEF OneGrantPerConnect
<1>7. PageWithin'
  BY <1>1, IdleTypes DEF PageWithin
<1>8. OneRide'
  BY <1>1 DEF OneRide, Riding
<1>9. RevokedFindsNone' /\ GrantDiesWithTheKey'
  BY <1>1 DEF RevokedFindsNone, GrantDiesWithTheKey
<1> QED
  BY <1>1, <1>3, <1>4, <1>6, <1>7, <1>8, <1>9, IdleTypes, PageStep
     DEF NothingSigned, CrossInv, TypeOK

\* A connection that is refused, or told so.
LEMMA FailedConnection ==
    ASSUME CrossInv, NEW code \in Code, ConnFail(code)
    PROVE  NothingSigned /\ conn' \in ConnRecord /\ conn'.pc = "idle"
<1>1. PICK m : m = Failed(None, code)
  OBVIOUS
<1>2. m \in ToClient /\ m.type # "signed"
  BY <1>1 DEF Failed, ToClient, Opt
<1> QED
  BY <1>1, <1>2, OneMessage, IdleTypes DEF ConnFail

\* The end of a connection: a grant to the account and for the scope that were said yes to,
\* or a refusal.
LEMMA GrantedKeeps ==
    ASSUME CrossInv, Granted, UNCHANGED <<client, req, toSigner, sign, wallet, expired, rides, moves>>,
           conn.pc \in {"store", "consent"}, yes \subseteq yes', OthersTyped, <<conn.who, client.scope>> \in yes'
    PROVE  CrossInv'
<1>1. /\ Unspent /\ client.scope \subseteq Policy /\ popup.at = "mounted"
      /\ client.pc # "waiting" /\ \A i \in 1..Len(toSigner) : toSigner[i].type # "connect"
      /\ rides = 0 /\ popup.grant = None /\ sign = IdleSign /\ \A r \in Req : ~Riding(r)
  BY ConnAlone
<1>2. /\ conn \in ConnRecord /\ popup \in PopupRecord /\ client \in ClientRecord
      /\ conn.who \in Account
  BY DEF CrossInv, TypeOK, PageWithin
<1>3. CASE ConnFail("REFUSED") /\ popup' = popup
  <2>1. NothingSigned /\ conn' \in ConnRecord /\ conn'.pc = "idle"
    BY <1>3, FailedConnection DEF Code
  <2>2. LockNoted'
    BY <2>1 DEF LockNoted
  <2> QED
    BY <1>3, <2>1, <2>2, ConnGoes
<1>4. ASSUME NEW g, NEW m, conn' = IdleConn,
             g = [who |-> conn.who, scope |-> client.scope, used |-> FALSE, overtaken |-> conn.overtaken],
             popup' = [popup EXCEPT !.grant = g],
             m = [type |-> "connected", grant |-> [who |-> g.who, scope |-> g.scope]], Reply(m)
      PROVE  CrossInv'
  <2>1. g \in Grant /\ g.who = conn.who /\ g.scope = client.scope /\ g.overtaken = conn.overtaken
    BY <1>2, <1>4 DEF Grant, ConnRecord, ClientRecord
  <2>2. popup' \in PopupRecord /\ popup'.at = "mounted" /\ popup'.grant = g
    BY <1>1, <1>2, <1>4, <2>1 DEF PopupRecord, Opt
  <2>3. m \in ToClient /\ m.type # "signed"
    BY <1>2, <1>4, <2>1 DEF ToClient, ClientRecord
  <2>4. NothingSigned
    BY <1>4, <2>3, OneMessage
  <2>5. SameAsk
    BY ClientKept
  <2>6. NothingAsked
    BY TakenAsksNothing DEF SomeTaken
  <2>7. MessagesWithin'
    BY <2>4, <2>5, <2>6, MessagesKept
  <2>8. conn' \in ConnRecord /\ conn'.pc = "idle"
    BY <1>4, IdleTypes
  <2>9. OneGrantPerConnect'
    BY <1>1, <2>8 DEF OneGrantPerConnect
  <2>10. SaidYes(g.who)'
    BY <2>1 DEF SaidYes
  <2>11. PageWithin'
    BY <1>1, <2>1, <2>2, <2>8, <2>10, IdleTypes DEF PageWithin
  <2>12. \A r \in Req : ~Riding(r)'
    BY <1>1 DEF Riding
  <2>13. OneRide' /\ RevokedFindsNone'
    BY <1>1, <2>12, IdleTypes DEF OneRide, RevokedFindsNone
  <2>14. LockNoted'
    BY <2>8 DEF LockNoted
  <2>15. GrantDiesWithTheKey'
    BY <2>1, <2>2 DEF CrossInv, LockNoted, GrantDiesWithTheKey
  <2> QED
    BY <1>1, <2>2, <2>4, <2>6, <2>7, <2>8, <2>9, <2>11, <2>13, <2>14, <2>15, PageStep
       DEF NothingSigned, CrossInv, TypeOK
<1>5. \/ ConnFail("REFUSED") /\ popup' = popup
      \/ \E g, m : /\ conn' = IdleConn
                   /\ g = [who |-> conn.who, scope |-> client.scope, used |-> FALSE, overtaken |-> conn.overtaken]
                   /\ popup' = [popup EXCEPT !.grant = g]
                   /\ m = [type |-> "connected", grant |-> [who |-> g.who, scope |-> g.scope]]
                   /\ Reply(m)
  BY DEF Granted
<1> QED
  BY <1>3, <1>4, <1>5

\* The steps of a connection being made.
LEMMA ConnKeeps ==
    ASSUME CrossInv, ConnUnlock \/ ConnNpub \/ ConnStore \/ ConnConsent
    PROVE  CrossInv'
<1>0. conn \in ConnRecord /\ wallet \in WalletRecord /\ client \in ClientRecord
  BY DEF CrossInv, TypeOK
<1>1. CASE ConnUnlock
  <2>1. /\ UNCHANGED <<client, req, toSigner, popup, sign, consent, expired, yes, rides, moves>>
        /\ conn.pc = "unlock"
    BY <1>1 DEF ConnUnlock
  <2>2. CASE ConnFail("DECLINED") /\ wallet' = wallet
    <3>1. NothingSigned /\ conn' \in ConnRecord /\ conn'.pc = "idle"
      BY <2>2, FailedConnection DEF Code
    <3>2. LockNoted' /\ OthersTyped
      BY <2>1, <2>2, <3>1, OthersKept DEF LockNoted, CrossInv, TypeOK
    <3> QED
      BY <2>1, <3>1, <3>2, ConnGoes
  <2>3. CASE /\ wallet' = [wallet EXCEPT !.locked = @ /\ ~wallet.ensures]
             /\ conn' = [conn EXCEPT !.pc = "npub"]
             /\ toClient' = toClient
    <3>0. PICK b \in BOOLEAN : (b <=> wallet.locked /\ ~wallet.ensures) /\ wallet' = [wallet EXCEPT !.locked = b]
      <4>1. wallet.locked \in BOOLEAN /\ wallet.ensures \in BOOLEAN
        BY <1>0 DEF WalletRecord
      <4> QED
        BY <2>3, <4>1
    <3>1. wallet' \in WalletRecord /\ (wallet'.ensures => ~wallet'.locked)
      BY <1>0, <3>0 DEF WalletRecord
    <3>2. conn' \in ConnRecord /\ conn'.pc = "npub"
      BY <1>0, <2>3 DEF ConnRecord
    <3>3. NothingSigned
      BY <2>3, NoMessage
    <3>4. OthersTyped /\ LockNoted'
      BY <2>1, <3>1 DEF OthersTyped, LockNoted, CrossInv, TypeOK
    <3> QED
      BY <2>1, <3>2, <3>3, <3>4, ConnGoes
  <2> QED
    BY <1>1, <2>2, <2>3 DEF ConnUnlock
<1>2. CASE ConnNpub
  <2>1. /\ UNCHANGED <<client, req, toSigner, popup, sign, wallet, consent, expired, yes, rides, moves>>
        /\ conn.pc = "npub"
    BY <1>2 DEF ConnNpub
  <2>2. OthersTyped
    BY <2>1, OthersKept DEF CrossInv, TypeOK
  <2>3. CASE ConnFail("SIGNER_ERROR")
    <3>1. NothingSigned /\ conn' \in ConnRecord /\ conn'.pc = "idle"
      BY <2>3, FailedConnection DEF Code
    <3>2. LockNoted'
      BY <3>1 DEF LockNoted
    <3> QED
      BY <2>1, <2>2, <3>1, <3>2, ConnGoes
  <2>4. CASE conn' = [conn EXCEPT !.pc = "store", !.who = wallet.who] /\ toClient' = toClient
    <3>1. /\ conn' \in ConnRecord /\ conn'.pc = "store" /\ conn'.who \in Account
          /\ conn'.overtaken = conn.overtaken
      BY <1>0, <2>4 DEF ConnRecord, WalletRecord, Opt
    <3>2. LockNoted'
      BY <2>1, <3>1 DEF CrossInv, LockNoted
    <3> QED
      BY <2>1, <2>2, <2>4, <3>1, <3>2, NoMessage, ConnGoes
  <2> QED
    BY <1>2, <2>3, <2>4 DEF ConnNpub
<1>3. CASE ConnStore
  <2>1. /\ UNCHANGED <<client, req, toSigner, sign, wallet, consent, expired, yes, rides, moves>>
        /\ conn.pc = "store"
    BY <1>3 DEF ConnStore
  <2>2. OthersTyped
    BY <2>1, OthersKept DEF CrossInv, TypeOK
  <2>3. CASE HasConsent /\ Granted
    <3>1. <<conn.who, client.scope>> \in yes'
      BY <2>1, <2>3 DEF HasConsent, CrossInv, TypeOK
    <3> QED
      BY <2>1, <2>2, <2>3, <3>1, GrantedKeeps
  <2>4. CASE conn' = [conn EXCEPT !.pc = "consent"] /\ UNCHANGED <<popup, toClient>>
    <3>1. /\ conn' \in ConnRecord /\ conn'.pc = "consent" /\ conn'.who = conn.who
          /\ conn'.overtaken = conn.overtaken
      BY <1>0, <2>4 DEF ConnRecord
    <3>2. conn.who \in Account
      BY <2>1 DEF CrossInv, PageWithin
    <3>3. LockNoted'
      BY <2>1, <3>1 DEF CrossInv, LockNoted
    <3> QED
      BY <2>1, <2>2, <2>4, <3>1, <3>2, <3>3, NoMessage, ConnGoes
  <2>5. CASE ConnFail("DECLINED") /\ popup' = popup
    <3>1. NothingSigned /\ conn' \in ConnRecord /\ conn'.pc = "idle"
      BY <2>5, FailedConnection DEF Code
    <3>2. LockNoted'
      BY <3>1 DEF LockNoted
    <3> QED
      BY <2>1, <2>2, <2>5, <3>1, <3>2, ConnGoes
  <2> QED
    BY <1>3, <2>3, <2>4, <2>5 DEF ConnStore
<1>4. CASE ConnConsent
  <2>1. /\ UNCHANGED <<client, req, toSigner, sign, wallet, expired, rides, moves>>
        /\ conn.pc = "consent"
    BY <1>4 DEF ConnConsent
  <2>2. CASE ConnFail("DECLINED") /\ UNCHANGED <<consent, yes, popup>>
    <3>1. NothingSigned /\ conn' \in ConnRecord /\ conn'.pc = "idle"
      BY <2>2, FailedConnection DEF Code
    <3>2. LockNoted' /\ OthersTyped
      BY <2>1, <2>2, <3>1, OthersKept DEF LockNoted, CrossInv, TypeOK
    <3> QED
      BY <2>1, <2>2, <3>1, <3>2, ConnGoes
  <2>3. CASE /\ consent' = {c \in consent : c[1] # conn.who} \cup {<<conn.who, client.scope>>}
             /\ yes' = yes \cup {<<conn.who, client.scope>>}
             /\ Granted
    <3>1. <<conn.who, client.scope>> \in Account \X SUBSET Item
      BY <1>0, <2>1 DEF CrossInv, PageWithin, ClientRecord
    <3>2. consent' \subseteq yes' /\ yes' \subseteq Account \X SUBSET Item
      BY <2>3, <3>1 DEF CrossInv, TypeOK
    <3>3. OthersTyped
      BY <2>1, <3>2 DEF OthersTyped, CrossInv, TypeOK
    <3> QED
      BY <2>1, <2>3, <3>3, GrantedKeeps
  <2>4. CASE /\ yes' = yes \cup {<<conn.who, client.scope>>}
             /\ ConnFail("DECLINED") /\ UNCHANGED <<consent, popup>>
    <3>1. NothingSigned /\ conn' \in ConnRecord /\ conn'.pc = "idle"
      BY <2>4, FailedConnection DEF Code
    <3>2. <<conn.who, client.scope>> \in Account \X SUBSET Item
      BY <1>0, <2>1 DEF CrossInv, PageWithin, ClientRecord
    <3>3. consent' \subseteq yes' /\ yes' \subseteq Account \X SUBSET Item /\ yes \subseteq yes'
      BY <2>4, <3>2 DEF CrossInv, TypeOK
    <3>4. LockNoted' /\ OthersTyped
      BY <2>1, <3>1, <3>3 DEF LockNoted, OthersTyped, CrossInv, TypeOK
    <3> QED
      BY <2>1, <2>4, <3>1, <3>3, <3>4, ConnGoes
  <2> QED
    BY <1>4, <2>2, <2>3, <2>4 DEF ConnConsent
<1> QED
  BY <1>1, <1>2, <1>3, <1>4

\* The request to connect arrives.
LEMMA HandleConnectKeeps == ASSUME CrossInv, HandleConnect PROVE CrossInv'
<1>0. /\ toSigner \in Seq(ToSigner) /\ toSigner # <<>> /\ toSigner' = Tail(toSigner)
      /\ Head(toSigner).type = "connect" /\ popup.at = "mounted"
      /\ UNCHANGED <<client, req, popup, sign, wallet, consent, expired, yes, rides, moves>>
  BY DEF HandleConnect, Listening, CrossInv, TypeOK
<1>1. conn.pc = "idle" /\ Unspent
  <2>1. 1 \in 1..Len(toSigner) /\ toSigner[1].type = "connect"
    BY <1>0, QueuedTail
  <2> QED
    BY <2>1 DEF CrossInv, OneGrantPerConnect
<1>2. \A i \in 1..Len(toSigner') : toSigner'[i].type # "connect"
  <2>1. ASSUME NEW i \in 1..Len(toSigner'), toSigner'[i].type = "connect" PROVE FALSE
    <3>1. i + 1 \in 1..Len(toSigner) /\ toSigner[i + 1].type = "connect" /\ i + 1 # 1
      BY <1>0, <2>1, QueuedTail
    <3> QED
      BY <3>1 DEF CrossInv, OneGrantPerConnect
  <2> QED
    BY <2>1
<1>3. client.pc # "waiting"
  BY <1>0 DEF CrossInv, OneGrantPerConnect
<1>4. NothingSigned /\ conn' \in ConnRecord /\ (conn'.pc = "idle" \/ (conn'.pc = "unlock" /\ client.scope \subseteq Policy))
  <2>1. CASE ConnFail("REFUSED")
    BY <2>1, FailedConnection DEF Code
  <2>2. CASE client.scope \subseteq Policy /\ conn' = [IdleConn EXCEPT !.pc = "unlock"] /\ toClient' = toClient
    <3>1. conn' \in ConnRecord /\ conn'.pc = "unlock"
      BY <2>2 DEF IdleConn, ConnRecord, Opt
    <3> QED
      BY <2>2, <3>1, NoMessage
  <2> QED
    BY <2>1, <2>2 DEF HandleConnect
<1>5. SameAsk
  BY <1>0, ClientKept
<1>6. SomeTaken /\ NothingAsked
  BY <1>0, TakenAsksNothing DEF SomeTaken
<1>7. MessagesWithin'
  BY <1>4, <1>5, <1>6, MessagesKept
<1>8. popup.grant = None /\ sign = IdleSign /\ rides = 0
  BY <1>1 DEF Unspent
<1>9. OneGrantPerConnect'
  BY <1>0, <1>2, <1>3, <1>8 DEF OneGrantPerConnect, Unspent
<1>10. PageWithin'
  BY <1>0, <1>4, <1>8, IdleTypes DEF PageWithin
<1>11. \A r \in Req : ~Riding(r)'
  BY <1>0, <1>8, IdleTypes DEF Riding
<1>12. OneRide' /\ RevokedFindsNone'
  BY <1>0, <1>8, <1>11, IdleTypes DEF OneRide, RevokedFindsNone
<1>13. LockNoted' /\ GrantDiesWithTheKey'
  BY <1>0, <1>4, <1>8 DEF LockNoted, GrantDiesWithTheKey
<1>14. OthersTyped
  BY <1>0, OthersKept DEF CrossInv, TypeOK
<1> QED
  BY <1>0, <1>4, <1>6, <1>7, <1>9, <1>10, <1>12, <1>13, <1>14, PageStep
     DEF NothingSigned, CrossInv, TypeOK

-----------------------------------------------------------------------------
(* Revocations, and the wallet's other tabs. *)

\* Without a grant, what was under way may end and nothing new begins.
LEMMA GrantTaken ==
    ASSUME CrossInv, UNCHANGED <<client, req>>, yes \subseteq yes', rides' = rides,
           popup'.grant = None,
           \A q \in Req : sign'[q].pc # "idle" =>
               sign'[q].pc = sign[q].pc /\ sign'[q].asked = sign[q].asked,
           conn'.pc = conn.pc, conn'.who = conn.who
    PROVE  PageWithin' /\ OneRide' /\ RevokedFindsNone' /\ GrantDiesWithTheKey'
<1>1. SameAsk
  BY ClientKept
<1>2. \A r \in Req : InScope(r) => InScope(r)'
  BY <1>1, AskKept
<1>3. PageWithin'
  BY <1>2 DEF CrossInv, PageWithin
<1>4. \A r \in Req : Riding(r)' => Riding(r)
  BY DEF Riding
<1>5. OneRide'
  BY <1>4 DEF CrossInv, OneRide
<1>6. RevokedFindsNone' /\ GrantDiesWithTheKey'
  BY DEF RevokedFindsNone, GrantDiesWithTheKey
<1> QED
  BY <1>3, <1>5, <1>6

\* What revokeAll does to a page with a grant
LEMMA RevokedEffect ==
    ASSUME CrossInv, Revoked
    PROVE  /\ popup' \in PopupRecord /\ popup'.at = popup.at /\ popup'.grant = None
           /\ sign' \in [Req -> SignRecord]
           /\ \A q \in Req : sign'[q].pc = sign[q].pc /\ sign'[q].asked = sign[q].asked
<1>1. popup \in PopupRecord /\ sign \in [Req -> SignRecord]
  BY DEF CrossInv, TypeOK
<1>2. popup' \in PopupRecord /\ popup'.at = popup.at /\ popup'.grant = None
  BY <1>1 DEF Revoked, PopupRecord, Opt
<1>3. ASSUME NEW q \in Req
      PROVE  sign'[q] \in SignRecord /\ sign'[q].pc = sign[q].pc /\ sign'[q].asked = sign[q].asked
  <2>1. PICK b \in BOOLEAN : b <=> sign[q].pc # "idle"
    OBVIOUS
  <2>2. b = (sign[q].pc # "idle")
    BY <2>1
  <2>3. sign'[q] = [sign[q] EXCEPT !.revoked = b]
    BY <2>2 DEF Revoked
  <2>4. sign[q] \in SignRecord
    BY <1>1
  <2> QED
    BY <2>3, <2>4 DEF SignRecord
<1>4. sign' \in [Req -> SignRecord]
  BY <1>3 DEF Revoked
<1> QED
  BY <1>2, <1>3, <1>4

\* Once something has come of a connection, the steps of its requests bring no other.
LEMMA SpentKept ==
    ASSUME CrossInv, ~Unspent, client' = client, conn'.pc = conn.pc, SomeTaken
    PROVE  conn.pc = "idle" /\ OneGrantPerConnect'
<1>1. client.pc # "waiting" /\ \A i \in 1..Len(toSigner) : toSigner[i].type # "connect"
  BY SpentOnce
<1>2. conn.pc = "idle"
  BY DEF CrossInv, OneGrantPerConnect
<1>3. \A i \in 1..Len(toSigner') : toSigner'[i].type # "connect"
  <2>1. CASE toSigner' = toSigner
    BY <1>1, <2>1
  <2>2. CASE toSigner # <<>> /\ toSigner' = Tail(toSigner)
    <3>1. toSigner \in Seq(ToSigner)
      BY DEF CrossInv, TypeOK
    <3>2. \A i \in 1..Len(toSigner') : i + 1 \in 1..Len(toSigner) /\ toSigner'[i] = toSigner[i + 1]
      BY <2>2, <3>1, QueuedTail
    <3> QED
      BY <1>1, <3>2
  <2> QED
    BY <2>1, <2>2 DEF SomeTaken
<1> QED
  BY <1>1, <1>2, <1>3 DEF OneGrantPerConnect

\* A grant is revoked: by the user, or with the lock of the wallet in another tab.
LEMMA RevokeKeeps ==
    ASSUME CrossInv, UserRevoke \/ OnSessionBus
    PROVE  CrossInv'
<1>0. /\ UNCHANGED <<client, req, toSigner, consent, expired, yes, rides>>
      /\ RevokeAll /\ popup.at = "mounted"
      /\ conn \in ConnRecord /\ wallet \in WalletRecord /\ popup \in PopupRecord
      /\ sign \in [Req -> SignRecord] /\ rides \in Nat
  BY DEF UserRevoke, OnSessionBus, CrossInv, TypeOK
<1>1. /\ conn' \in ConnRecord /\ conn'.pc = conn.pc /\ conn'.who = conn.who
      /\ wallet' \in WalletRecord
      /\ LockNoted'
  <2>1. CASE UserRevoke
    BY <1>0, <2>1 DEF UserRevoke, CrossInv, LockNoted
  <2>2. CASE OnSessionBus
    <3>1. PICK b \in BOOLEAN : b <=> conn.pc # "idle"
      OBVIOUS
    <3>2. b = (conn.pc # "idle")
      BY <3>1
    <3>3. conn' = [conn EXCEPT !.overtaken = b]
      BY <2>2, <3>2 DEF OnSessionBus
    <3>4. conn' \in ConnRecord /\ conn'.pc = conn.pc /\ conn'.who = conn.who /\ conn'.overtaken = b
      BY <1>0, <3>3 DEF ConnRecord
    <3>5. wallet' \in WalletRecord
      BY <1>0, <2>2 DEF OnSessionBus, WalletRecord
    <3>6. LockNoted'
      BY <3>1, <3>4 DEF LockNoted
    <3> QED
      BY <3>4, <3>5, <3>6
  <2> QED
    BY <2>1, <2>2
<1>2. OthersTyped
  BY <1>0, <1>1, MoveType DEF UserRevoke, OnSessionBus, OthersTyped, CrossInv, TypeOK
<1>3. SameAsk
  BY <1>0, ClientKept
<1>4. SomeTaken /\ NothingAsked
  BY <1>0, TakenAsksNothing DEF SomeTaken
<1>5. CASE popup.grant = None
  <2>1. UNCHANGED <<popup, sign, toClient>>
    BY <1>0, <1>5 DEF RevokeAll
  <2>2. NothingSigned
    BY <2>1, NoMessage
  <2>3. MessagesWithin'
    BY <1>3, <1>4, <2>2, MessagesKept
  <2>4. PageWithin' /\ OneRide' /\ RevokedFindsNone' /\ GrantDiesWithTheKey'
    BY <1>0, <1>1, <1>5, <2>1, GrantTaken
  <2>5. OneGrantPerConnect'
    BY <1>0, <1>1, <2>1 DEF CrossInv, OneGrantPerConnect, Unspent
  <2> QED
    BY <1>0, <1>1, <1>2, <1>4, <2>1, <2>2, <2>3, <2>4, <2>5, PageStep DEF NothingSigned
<1>6. CASE popup.grant # None
  <2>1. PICK m : m = [type |-> "revoked"]
    OBVIOUS
  <2>2. m \in ToClient /\ m.type # "signed"
    BY <2>1 DEF ToClient
  <2>3. Revoked /\ Reply(m)
    BY <1>0, <1>6, <2>1 DEF RevokeAll
  <2>4. NothingSigned
    BY <2>2, <2>3, OneMessage
  <2>5. MessagesWithin'
    BY <1>3, <1>4, <2>4, MessagesKept
  <2>6. /\ popup' \in PopupRecord /\ popup'.at = popup.at /\ popup'.grant = None
        /\ sign' \in [Req -> SignRecord]
        /\ \A q \in Req : sign'[q].pc = sign[q].pc /\ sign'[q].asked = sign[q].asked
    BY <2>3, RevokedEffect
  <2>7. PageWithin' /\ OneRide' /\ RevokedFindsNone' /\ GrantDiesWithTheKey'
    BY <1>0, <1>1, <2>6, GrantTaken
  <2>8. OneGrantPerConnect'
    BY <1>0, <1>1, <1>4, <1>6, SpentKept DEF Unspent
  <2> QED
    BY <1>0, <1>1, <1>2, <1>4, <2>4, <2>5, <2>6, <2>7, <2>8, PageStep DEF NothingSigned
<1> QED
  BY <1>5, <1>6

\* A lock in another tab, another account, a forgotten consent, an expiry.
LEMMA OutsideKeeps ==
    ASSUME CrossInv, WalletLock \/ Forget \/ Expire
    PROVE  CrossInv'
<1>0. /\ UNCHANGED <<client, req, toSigner, toClient, popup, conn, sign, yes, rides>> /\ Move
      /\ wallet \in WalletRecord /\ popup \in PopupRecord
  BY DEF WalletLock, Forget, Expire, CrossInv, TypeOK
<1>1. SameAsk /\ SomeTaken /\ NothingSigned
  BY <1>0, ClientKept, NoMessage DEF SomeTaken
<1>2. NothingAsked
  BY <1>1, TakenAsksNothing
<1>3. MessagesWithin'
  BY <1>1, <1>2, MessagesKept
<1>4. SamePage
  BY <1>0 DEF SamePage
<1>5. PageWithin' /\ OneRide' /\ RevokedFindsNone' /\ OneGrantPerConnect'
  BY <1>0, <1>1, <1>4, PageKept, GrantOnceKept
<1>6. wallet' \in WalletRecord /\ LockNoted' /\ GrantDiesWithTheKey'
  <2>1. CASE wallet' = wallet
    BY <1>0, <2>1, LockKept
  <2>2. CASE wallet' = [wallet EXCEPT !.locked = TRUE, !.bus = popup.at = "mounted"]
    <3>1. PICK b \in BOOLEAN : b <=> popup.at = "mounted"
      OBVIOUS
    <3>2. b = (popup.at = "mounted")
      BY <3>1
    <3>3. wallet' = [wallet EXCEPT !.locked = TRUE, !.bus = b]
      BY <2>2, <3>2
    <3>4. wallet' \in WalletRecord /\ wallet'.bus = b
      BY <1>0, <3>3 DEF WalletRecord
    <3>5. ~b => popup.grant = None /\ conn.pc = "idle"
      BY <3>1, IdleTypes DEF CrossInv, TypeOK
    <3> QED
      BY <1>0, <3>4, <3>5 DEF LockNoted, GrantDiesWithTheKey
  <2>3. ASSUME NEW w \in Account, wallet' = [wallet EXCEPT !.who = w]
        PROVE  wallet' \in WalletRecord /\ LockNoted' /\ GrantDiesWithTheKey'
    <3>1. /\ wallet' \in WalletRecord /\ wallet'.locked = wallet.locked /\ wallet'.bus = wallet.bus
          /\ wallet'.ensures = wallet.ensures
      BY <1>0, <2>3 DEF WalletRecord
    <3> QED
      BY <1>0, <3>1 DEF CrossInv, LockNoted, GrantDiesWithTheKey
  <2> QED
    BY <2>1, <2>2, <2>3 DEF WalletLock, Forget, Expire
<1>7. consent' \subseteq yes' /\ yes' \subseteq Account \X SUBSET Item
  BY <1>0 DEF WalletLock, Forget, Expire, CrossInv, TypeOK
<1>8. expired' \in BOOLEAN
  BY DEF WalletLock, Forget, Expire, CrossInv, TypeOK
<1>9. OthersTyped
  BY <1>0, <1>6, <1>7, <1>8, MoveType DEF OthersTyped
<1> QED
  BY <1>0, <1>1, <1>2, <1>3, <1>5, <1>6, <1>9, PageStep DEF NothingSigned, CrossInv, TypeOK

-----------------------------------------------------------------------------
(* The requests to sign. *)

\* A request that is refused, or told so
LEMMA FailedRequest ==
    ASSUME CrossInv, NEW r \in Req, NEW code \in Code, Reply(Failed(r, code))
    PROVE  NothingSigned
<1>1. PICK m : m = Failed(r, code)
  OBVIOUS
<1>2. m \in ToClient /\ m.type # "signed"
  BY <1>1 DEF Failed, ToClient, Opt
<1> QED
  BY <1>1, <1>2, OneMessage

\* A request arrives: it is refused, or finds the grant over, or goes ahead, and then has
\* claimed the consent if it needed it.
LEMMA HandleSignKeeps ==
    ASSUME CrossInv, NEW r \in Req, HandleSign(r)
    PROVE  CrossInv'
<1> DEFINE g == popup.grant
           t == req[r].t
<1>0. /\ UNCHANGED <<client, req, conn, wallet, consent, expired, yes, rides, moves>>
      /\ toSigner # <<>> /\ toSigner' = Tail(toSigner) /\ popup.at = "mounted"
      /\ toSigner \in Seq(ToSigner) /\ popup \in PopupRecord /\ sign \in [Req -> SignRecord]
      /\ conn \in ConnRecord /\ rides \in Nat /\ wallet \in WalletRecord
  BY DEF HandleSign, Listening, CrossInv, TypeOK
<1>1. req[r].pc # "idle" /\ t \in Template
  <2>1. Head(toSigner) \in Queued(toSigner) /\ Head(toSigner).type = "sign" /\ Head(toSigner).id = r
    BY <1>0, QueuedTail DEF HandleSign, Listening
  <2> QED
    BY <2>1 DEF CrossInv, MessagesWithin, ClientWithin
<1>2. SameAsk /\ ClientWithin' /\ client' \in ClientRecord /\ req' \in [Req -> ReqRecord]
  BY <1>0, ClientKept
<1>3. SomeTaken /\ NothingAsked /\ OthersTyped
  BY <1>0, TakenAsksNothing, OthersKept DEF SomeTaken, CrossInv, TypeOK
<1>4. ASSUME NEW code \in Code, Reply(Failed(r, code)), UNCHANGED <<popup, sign>>
      PROVE  CrossInv'
  <2>1. NothingSigned
    BY <1>4, FailedRequest
  <2> QED
    BY <1>0, <1>2, <1>3, <1>4, <2>1, PageAloneQuiet
<1>5. CASE g # None /\ Revoked /\ Reply(Failed(r, "GRANT_EXPIRED"))
  <2>1. NothingSigned
    BY <1>5, FailedRequest DEF Code
  <2>2. /\ popup' \in PopupRecord /\ popup'.at = popup.at /\ popup'.grant = None
        /\ sign' \in [Req -> SignRecord]
        /\ \A q \in Req : sign'[q].pc = sign[q].pc /\ sign'[q].asked = sign[q].asked
    BY <1>5, RevokedEffect
  <2>3. PageWithin' /\ OneRide' /\ RevokedFindsNone' /\ GrantDiesWithTheKey'
    BY <1>0, <2>2, GrantTaken
  <2>4. LockNoted'
    BY <1>0 DEF CrossInv, LockNoted
  <2>5. OneGrantPerConnect'
    BY <1>0, <1>3, <1>5, SpentKept DEF Unspent
  <2>6. MessagesWithin'
    BY <1>2, <1>3, <2>1, MessagesKept
  <2> QED
    BY <1>0, <1>3, <2>1, <2>2, <2>3, <2>4, <2>5, <2>6, PageStep DEF NothingSigned
<1>6. CASE /\ g # None /\ t.item \in g.scope
           /\ popup' = [popup EXCEPT !.grant = SignGuard(g, t)]
           /\ sign' = [sign EXCEPT ![r] = [pc |-> IF wallet.onSign THEN "prompt" ELSE "sign",
                                           asked |-> NeedsPrompt(g, t), revoked |-> FALSE]]
           /\ toClient' = toClient
  <2>1. g \in Grant /\ t.completion \in BOOLEAN
    BY <1>0, <1>1, <1>6, CrossOriginAssumption DEF PopupRecord, Opt
  <2>2. PICK u \in BOOLEAN : u <=> g.used \/ t.completion
    OBVIOUS
  <2>3. PICK a \in BOOLEAN : a <=> t.completion /\ g.used
    OBVIOUS
  <2>4. u = (g.used \/ t.completion) /\ a = (t.completion /\ g.used)
    BY <2>2, <2>3
  <2>5. PICK h : h = [g EXCEPT !.used = u]
    OBVIOUS
  <2>6. h \in Grant /\ h.who = g.who /\ h.scope = g.scope /\ h.used = u /\ h.overtaken = g.overtaken
    BY <2>1, <2>5 DEF Grant
  <2>7. popup' = [popup EXCEPT !.grant = h]
    BY <1>6, <2>4, <2>5 DEF SignGuard
  <2>8. popup' \in PopupRecord /\ popup'.at = "mounted" /\ popup'.grant = h
    BY <1>0, <2>6, <2>7 DEF PopupRecord, Opt
  <2>9. PICK p \in {"prompt", "sign"} : p = IF wallet.onSign THEN "prompt" ELSE "sign"
    OBVIOUS
  <2>10. PICK s : s = [pc |-> p, asked |-> a, revoked |-> FALSE]
    OBVIOUS
  <2>11. s \in SignRecord /\ s.pc # "idle" /\ s.asked = a /\ s.revoked = FALSE
    BY <2>9, <2>10 DEF SignRecord
  <2>12. sign' = [sign EXCEPT ![r] = s]
    BY <1>6, <2>4, <2>9, <2>10 DEF NeedsPrompt
  <2>13. /\ sign' \in [Req -> SignRecord] /\ sign'[r] = s
         /\ \A q \in Req : q # r => sign'[q] = sign[q]
    BY <1>0, <2>11, <2>12
  <2>14. NothingSigned
    BY <1>6, NoMessage
  <2>15. MessagesWithin'
    BY <1>2, <1>3, <2>14, MessagesKept
  <2>16. conn.pc = "idle" /\ OneGrantPerConnect'
    BY <1>0, <1>3, <1>6, SpentKept DEF Unspent
  <2>17. InScope(r) /\ \A q \in Req : InScope(q) => InScope(q)'
    BY <1>1, <1>2, <1>6, AskKept DEF CrossInv, PageWithin, InScope
  <2>18. PageWithin'
    <3>1. SaidYes(h.who)'
      BY <1>0, <1>6, <2>6 DEF CrossInv, PageWithin, SaidYes
    <3> QED
      BY <1>0, <1>6, <2>6, <2>8, <2>13, <2>16, <2>17, <3>1 DEF CrossInv, PageWithin
  <2>19. /\ \A q \in Req : q # r => (Riding(q)' <=> Riding(q))
         /\ Riding(r)' <=> t.completion /\ ~g.used
    BY <1>0, <2>1, <2>3, <2>11, <2>13 DEF Riding, Grant
  <2>20. OneRide'
    <3>1. /\ rides <= 1
          /\ \A q \in Req : Riding(q) => rides = 0 /\ \A v \in Req : Riding(v) => v = q
          /\ rides # 0 \/ (\E q \in Req : Riding(q)) => g.used
      BY <1>6 DEF CrossInv, OneRide
    <3>2. \A q \in Req : Riding(q)' => rides = 0 /\ \A v \in Req : Riding(v)' => v = q
      BY <2>19, <3>1
    <3>3. rides # 0 \/ (\E q \in Req : Riding(q)') => h.used
      BY <2>2, <2>6, <2>19, <3>1
    <3> QED
      BY <1>0, <2>8, <3>1, <3>2, <3>3 DEF OneRide
  <2>21. RevokedFindsNone'
    BY <1>6, <2>11, <2>13 DEF CrossInv, RevokedFindsNone
  <2>22. LockNoted' /\ GrantDiesWithTheKey'
    BY <1>0, <1>6, <2>6, <2>8 DEF CrossInv, LockNoted, GrantDiesWithTheKey
  <2> QED
    BY <1>0, <1>3, <2>8, <2>13, <2>14, <2>15, <2>16, <2>18, <2>20, <2>21, <2>22, PageStep DEF NothingSigned
<1>7. \/ \E code \in Code : Reply(Failed(r, code)) /\ UNCHANGED <<popup, sign>>
      \/ g # None /\ Revoked /\ Reply(Failed(r, "GRANT_EXPIRED"))
      \/ /\ g # None /\ t.item \in g.scope
         /\ popup' = [popup EXCEPT !.grant = SignGuard(g, t)]
         /\ sign' = [sign EXCEPT ![r] = [pc |-> IF wallet.onSign THEN "prompt" ELSE "sign",
                                         asked |-> NeedsPrompt(g, t), revoked |-> FALSE]]
         /\ toClient' = toClient
  BY DEF HandleSign, Code
<1> QED
  BY <1>4, <1>5, <1>6, <1>7

\* A request that ends: one that rode the consent is counted, if it was signed at all.
LEMMA SignEnds ==
    ASSUME CrossInv, NEW r \in Req, sign[r].pc # "idle", UNCHANGED <<client, req, yes>>,
           popup'.grant = popup.grant, conn' = conn, sign' = [sign EXCEPT ![r] = IdleSign[r]],
           rides' = rides \/ rides' = IF req[r].t.completion /\ ~sign[r].asked THEN rides + 1 ELSE rides
    PROVE  /\ sign' \in [Req -> SignRecord] /\ rides' \in Nat
           /\ PageWithin' /\ OneRide' /\ RevokedFindsNone'
<1>0. sign \in [Req -> SignRecord] /\ rides \in Nat
  BY DEF CrossInv, TypeOK
<1>1. /\ sign' \in [Req -> SignRecord] /\ sign'[r] = IdleSign[r]
      /\ \A q \in Req : q # r => sign'[q] = sign[q]
  BY <1>0, IdleTypes
<1>2. SameAsk
  BY ClientKept
<1>3. \A q \in Req : InScope(q) => InScope(q)'
  BY <1>2, AskKept
<1>4. PageWithin'
  <2>1. \A a : SaidYes(a) => SaidYes(a)'
    BY <1>2, AskKept
  <2> QED
    BY <1>1, <1>3, <2>1, IdleTypes DEF CrossInv, PageWithin
<1>5. ~Riding(r)' /\ \A q \in Req : q # r => (Riding(q)' <=> Riding(q))
  BY <1>1, IdleTypes DEF Riding
<1>6. rides' = rides \/ (Riding(r) /\ rides' = rides + 1)
  BY DEF Riding
<1>7. /\ rides <= 1
      /\ \A q \in Req : Riding(q) => rides = 0 /\ \A v \in Req : Riding(v) => v = q
      /\ popup.grant # None /\ (rides # 0 \/ \E q \in Req : Riding(q)) => popup.grant.used
  BY DEF CrossInv, OneRide
<1>8. OneRide' /\ rides' \in Nat
  <2>1. CASE rides' = rides
    BY <1>0, <1>5, <1>7, <2>1 DEF OneRide
  <2>2. CASE Riding(r) /\ rides' = rides + 1
    <3>1. rides = 0 /\ rides' = 1
      BY <1>7, <2>2
    <3>2. \A q \in Req : ~Riding(q)'
      BY <1>5, <1>7, <2>2
    <3>3. popup.grant # None => popup.grant.used
      BY <1>7, <2>2
    <3> QED
      BY <3>1, <3>2, <3>3 DEF OneRide
  <2> QED
    BY <1>6, <2>1, <2>2
<1>9. RevokedFindsNone'
  BY <1>1, IdleTypes DEF CrossInv, RevokedFindsNone
<1> QED
  BY <1>1, <1>4, <1>8, <1>9

\* A request that ends with an answer, a signed event of an account that said yes or another
LEMMA AnswerKeeps ==
    ASSUME CrossInv, NEW r \in Req, sign[r].pc # "idle", NEW m \in ToClient, SignAnswer(r, m),
           UNCHANGED <<client, req, toSigner, popup, conn, wallet, consent, expired, yes, moves>>,
           m.type = "signed" => m.id = r /\ SaidYes(m.by) /\ ~m.stale,
           rides' = rides \/ rides' = IF req[r].t.completion /\ ~sign[r].asked THEN rides + 1 ELSE rides
    PROVE  CrossInv'
<1>0. /\ sign' = [sign EXCEPT ![r] = IdleSign[r]] /\ toClient' = Append(toClient, m)
      /\ toClient \in Seq(ToClient)
  BY DEF SignAnswer, Reply, CrossInv, TypeOK
<1>1. /\ sign' \in [Req -> SignRecord] /\ rides' \in Nat
      /\ PageWithin' /\ OneRide' /\ RevokedFindsNone'
  BY <1>0, SignEnds
<1>2. SameAsk
  BY ClientKept
<1>3. SomeTaken /\ NothingAsked /\ OthersTyped
  BY TakenAsksNothing, OthersKept DEF SomeTaken, CrossInv, TypeOK
<1>4. LockNoted' /\ GrantDiesWithTheKey'
  BY LockKept
<1>5. ~Unspent
  BY IdleTypes DEF Unspent
<1>6. OneGrantPerConnect'
  BY <1>3, <1>5, SpentKept
<1>7. toClient' \in Seq(ToClient) /\ Queued(toClient') \subseteq Queued(toClient) \cup {m}
  BY <1>0, QueuedAppend
<1>8. MessagesWithin'
  <2>1. \A q \in Req : InScope(q) => InScope(q)'
    BY <1>2, AskKept
  <2>2. \A a : SaidYes(a) => SaidYes(a)'
    BY <1>2, AskKept
  <2>3. InScope(r)
    BY DEF CrossInv, PageWithin
  <2>4. \A n \in Queued(toClient) : n.type = "signed" => n.id \in Req
    BY QueuedType DEF CrossInv, TypeOK, ToClient
  <2>5. ASSUME NEW n \in Queued(toClient'), n.type = "signed"
        PROVE  InScope(n.id)' /\ SaidYes(n.by)' /\ ~n.stale
    <3>1. CASE n = m
      BY <2>1, <2>2, <2>3, <2>5, <3>1
    <3>2. CASE n # m
      BY <1>7, <2>1, <2>2, <2>4, <2>5, <3>2 DEF CrossInv, MessagesWithin
    <3> QED
      BY <3>1, <3>2
  <2>6. \A n \in Queued(toSigner') : n.type = "sign" => req'[n.id].pc # "idle"
    BY DEF CrossInv, MessagesWithin
  <2> QED
    BY <2>5, <2>6 DEF MessagesWithin
<1>9. /\ popup' \in PopupRecord /\ conn' \in ConnRecord
      /\ popup.at = "mounted"
  BY IdleTypes DEF CrossInv, TypeOK
<1> QED
  BY <1>1, <1>3, <1>4, <1>6, <1>7, <1>8, <1>9, PageStep

\* The prompt is answered.
LEMMA PromptKeeps ==
    ASSUME CrossInv, NEW r \in Req, SignPrompt(r)
    PROVE  CrossInv'
<1>0. /\ UNCHANGED <<client, req, toSigner, popup, conn, wallet, consent, expired, yes, rides, moves>>
      /\ sign[r].pc = "prompt" /\ sign \in [Req -> SignRecord] /\ popup.at = "mounted"
  BY IdleTypes DEF SignPrompt, CrossInv, TypeOK
<1>1. ASSUME NEW code \in Code, SignAnswer(r, Failed(r, code)) PROVE CrossInv'
  <2>1. PICK m : m = Failed(r, code)
    OBVIOUS
  <2>2. m \in ToClient /\ m.type # "signed"
    BY <2>1 DEF Failed, ToClient, Opt
  <2> QED
    BY <1>0, <1>1, <2>1, <2>2, AnswerKeeps
<1>2. CASE popup.grant # None /\ sign' = [sign EXCEPT ![r].pc = "sign"] /\ toClient' = toClient
  <2>1. PICK s : s = [sign[r] EXCEPT !.pc = "sign"]
    OBVIOUS
  <2>2. sign[r] \in SignRecord
    BY <1>0
  <2>3. s \in SignRecord /\ s.pc = "sign" /\ s.asked = sign[r].asked /\ s.revoked = sign[r].revoked
    BY <2>1, <2>2 DEF SignRecord
  <2>4. /\ sign' \in [Req -> SignRecord] /\ sign'[r] = s
        /\ \A q \in Req : q # r => sign'[q] = sign[q]
    BY <1>0, <1>2, <2>1, <2>3
  <2>5. SameAsk
    BY <1>0, ClientKept
  <2>6. SomeTaken /\ NothingAsked /\ NothingSigned /\ OthersTyped
    BY <1>0, <1>2, TakenAsksNothing, NoMessage, OthersKept DEF SomeTaken, CrossInv, TypeOK
  <2>7. MessagesWithin'
    BY <2>5, <2>6, MessagesKept
  <2>8. OneGrantPerConnect'
    BY <1>0, <1>2, <2>6, SpentKept DEF Unspent
  <2>9. \A q \in Req : (sign'[q].pc # "idle" <=> sign[q].pc # "idle") /\ sign'[q].asked = sign[q].asked /\ sign'[q].revoked = sign[q].revoked
    BY <1>0, <2>3, <2>4
  <2>10. PageWithin'
    <3>1. \A q \in Req : InScope(q) => InScope(q)'
      BY <2>5, AskKept
    <3>2. \A a : SaidYes(a) => SaidYes(a)'
      BY <2>5, AskKept
    <3> QED
      BY <1>0, <2>9, <3>1, <3>2 DEF CrossInv, PageWithin
  <2>11. \A q \in Req : Riding(q)' <=> Riding(q)
    BY <1>0, <2>9 DEF Riding
  <2>12. OneRide' /\ RevokedFindsNone'
    BY <1>0, <2>9, <2>11 DEF CrossInv, OneRide, RevokedFindsNone
  <2>13. LockNoted' /\ GrantDiesWithTheKey'
    BY <1>0, LockKept
  <2> QED
    BY <1>0, <2>4, <2>6, <2>7, <2>8, <2>10, <2>12, <2>13, PageStep
       DEF NothingSigned, CrossInv, TypeOK
<1>3. \/ \E code \in Code : SignAnswer(r, Failed(r, code))
      \/ popup.grant # None /\ sign' = [sign EXCEPT ![r].pc = "sign"] /\ toClient' = toClient
  BY DEF SignPrompt, Code
<1> QED
  BY <1>1, <1>2, <1>3

\* The signer returns: what it signed goes out under a grant of its own account, and any
\* other account ends the grant.
LEMMA SignKeeps ==
    ASSUME CrossInv, NEW r \in Req, Sign(r)
    PROVE  CrossInv'
<1>0. /\ UNCHANGED <<client, req, toSigner, conn, wallet, consent, expired, yes, moves>>
      /\ sign[r].pc = "sign" /\ sign \in [Req -> SignRecord] /\ popup.at = "mounted"
      /\ popup \in PopupRecord /\ wallet \in WalletRecord /\ toClient \in Seq(ToClient)
      /\ rides \in Nat /\ conn \in ConnRecord
  BY IdleTypes DEF Sign, CrossInv, TypeOK
<1>1. CASE /\ popup.grant # None /\ popup.grant.who = wallet.who /\ popup' = popup
           /\ SignAnswer(r, [type |-> "signed", id |-> r, by |-> wallet.who, stale |-> sign[r].revoked])
           /\ rides' = IF req[r].t.completion /\ ~sign[r].asked THEN rides + 1 ELSE rides
  <2>1. PICK m : m = [type |-> "signed", id |-> r, by |-> wallet.who, stale |-> sign[r].revoked]
    OBVIOUS
  <2>2. sign[r] \in SignRecord /\ sign[r].revoked = FALSE
    BY <1>0, <1>1 DEF CrossInv, RevokedFindsNone, SignRecord
  <2>3. /\ m \in ToClient /\ m.id = r /\ m.by = wallet.who /\ m.stale = FALSE
    BY <1>0, <2>1, <2>2 DEF ToClient, WalletRecord
  <2>4. SaidYes(m.by)
    BY <1>1, <2>3 DEF CrossInv, PageWithin
  <2> QED
    BY <1>0, <1>1, <2>1, <2>3, <2>4, AnswerKeeps
<1>2. ASSUME NEW code \in Code, SignAnswer(r, Failed(r, code)), UNCHANGED <<popup, rides>> PROVE CrossInv'
  <2>1. PICK m : m = Failed(r, code)
    OBVIOUS
  <2>2. m \in ToClient /\ m.type # "signed"
    BY <2>1 DEF Failed, ToClient, Opt
  <2> QED
    BY <1>0, <1>2, <2>1, <2>2, AnswerKeeps
<1>3. CASE /\ popup.grant # None
           /\ popup' = [popup EXCEPT !.grant = None]
           /\ sign' = [q \in Req |-> IF q = r THEN IdleSign[r]
                                     ELSE [sign[q] EXCEPT !.revoked = sign[q].pc # "idle"]]
           /\ toClient' = toClient \o <<Failed(r, "REVOKED"), [type |-> "revoked"]>>
           /\ rides' = rides
  <2>1. popup' \in PopupRecord /\ popup'.at = "mounted" /\ popup'.grant = None
    BY <1>0, <1>3 DEF PopupRecord, Opt
  <2>2. ASSUME NEW q \in Req
        PROVE  /\ sign'[q] \in SignRecord
               /\ sign'[q].pc # "idle" => sign'[q].pc = sign[q].pc /\ sign'[q].asked = sign[q].asked
    <3>1. CASE q = r
      BY <1>3, <3>1, IdleTypes
    <3>2. CASE q # r
      <4>1. PICK b \in BOOLEAN : b <=> sign[q].pc # "idle"
        OBVIOUS
      <4>2. b = (sign[q].pc # "idle")
        BY <4>1
      <4>3. sign'[q] = [sign[q] EXCEPT !.revoked = b]
        BY <1>3, <3>2, <4>2
      <4>4. sign[q] \in SignRecord
        BY <1>0
      <4> QED
        BY <4>3, <4>4 DEF SignRecord
    <3> QED
      BY <3>1, <3>2
  <2>3. sign' \in [Req -> SignRecord]
    BY <1>3, <2>2
  <2>4. NothingSigned
    <3>1. PICK m, n : m = Failed(r, "REVOKED") /\ n = [type |-> "revoked"]
      OBVIOUS
    <3>2. m \in ToClient /\ m.type # "signed" /\ n \in ToClient /\ n.type # "signed"
      BY <3>1 DEF Failed, ToClient, Code, Opt
    <3>3. PICK q : q = Append(toClient, m)
      OBVIOUS
    <3>4. q \in Seq(ToClient) /\ Queued(q) \subseteq Queued(toClient) \cup {m}
      BY <1>0, <3>2, <3>3, QueuedAppend
    <3>5. toClient' = Append(q, n)
      BY <1>0, <1>3, <3>1, <3>2, <3>3
    <3>6. toClient' \in Seq(ToClient) /\ Queued(toClient') \subseteq Queued(q) \cup {n}
      BY <3>2, <3>4, <3>5, QueuedAppend
    <3> QED
      BY <3>2, <3>4, <3>6 DEF NothingSigned
  <2>5. SameAsk
    BY <1>0, ClientKept
  <2>6. SomeTaken /\ NothingAsked /\ OthersTyped
    BY <1>0, TakenAsksNothing, OthersKept DEF SomeTaken, CrossInv, TypeOK
  <2>7. MessagesWithin'
    BY <2>4, <2>5, <2>6, MessagesKept
  <2>8. PageWithin' /\ OneRide' /\ RevokedFindsNone' /\ GrantDiesWithTheKey'
    BY <1>0, <1>3, <2>1, <2>2, GrantTaken
  <2>9. OneGrantPerConnect'
    BY <1>0, <1>3, <2>6, SpentKept DEF Unspent
  <2>10. LockNoted'
    BY <1>0 DEF CrossInv, LockNoted
  <2> QED
    BY <1>0, <1>3, <2>1, <2>3, <2>4, <2>6, <2>7, <2>8, <2>9, <2>10, PageStep DEF NothingSigned
<1> QED
  BY <1>1, <1>2, <1>3 DEF Sign, StillGranted, Code

-----------------------------------------------------------------------------
(* The theorems. *)

\* A step in which nothing happens keeps the invariant.
LEMMA StutterKeeps == CrossInv /\ UNCHANGED vars => CrossInv'
<1> SUFFICES ASSUME CrossInv, UNCHANGED vars PROVE CrossInv'
  OBVIOUS
<1>1. UNCHANGED <<client, req, toSigner, toClient, popup, conn, sign, wallet, consent, expired, yes, rides, moves>>
  BY DEF vars
<1>2. SameAsk /\ ClientWithin' /\ client' \in ClientRecord /\ req' \in [Req -> ReqRecord]
  BY <1>1, ClientKept
<1>3. OthersTyped /\ SomeTaken /\ NothingSigned
  BY <1>1, OthersKept, NoMessage DEF SomeTaken, CrossInv, TypeOK
<1> QED
  BY <1>1, <1>2, <1>3, PageAloneQuiet

\* Every state of the relying page, the signer page and the messages between them satisfies
\* the inductive invariant.
THEOREM CrossInductive == Spec => []CrossInv
<1>1. ASSUME CrossInv, [Next]_vars
      PROVE  CrossInv'
  <2>1. ASSUME NEW a \in Asks, Connect(a[1], a[2]) PROVE CrossInv'
    BY <1>1, <2>1, ConnectKeeps
  <2>2. ASSUME NEW r \in Req, NEW t \in Template, SignEvent(r, t) PROVE CrossInv'
    BY <1>1, <2>2, RequestKeeps
  <2>3. ASSUME NEW r \in Req, RequestTimeout(r) PROVE CrossInv'
    BY <1>1, <2>3, RequestKeeps
  <2>4. CASE ConnectTimeout \/ Disconnect \/ ClosedPoll
    BY <1>1, <2>4, EndKeeps
  <2>5. CASE ClientListen
    BY <1>1, <2>5, ListenKeeps
  <2>6. CASE SignerStep
    <3>1. CASE Mount
      BY <1>1, <3>1, PageComesAndGoes
    <3>2. CASE HandleConnect
      BY <1>1, <3>2, HandleConnectKeeps
    <3>3. CASE ConnUnlock \/ ConnNpub \/ ConnStore \/ ConnConsent
      BY <1>1, <3>3, ConnKeeps
    <3>4. ASSUME NEW r \in Req, HandleSign(r) \/ SignPrompt(r) \/ Sign(r) PROVE CrossInv'
      BY <1>1, <3>4, HandleSignKeeps, PromptKeeps, SignKeeps
    <3> QED
      BY <2>6, <3>1, <3>2, <3>3, <3>4 DEF SignerStep
  <2>7. CASE Lost \/ Leave
    BY <1>1, <2>7, PageComesAndGoes
  <2>8. CASE OnSessionBus \/ UserRevoke
    BY <1>1, <2>8, RevokeKeeps
  <2>9. CASE WalletLock \/ Forget \/ Expire
    BY <1>1, <2>9, OutsideKeeps
  <2>10. CASE UNCHANGED vars
    BY <1>1, <2>10, StutterKeeps
  <2> QED
    BY <1>1, <2>1, <2>2, <2>3, <2>4, <2>5, <2>6, <2>7, <2>8, <2>9, <2>10 DEF Next
<1> QED
  BY <1>1, InitCross, PTL DEF Spec

\* The types, and that a page that is gone holds neither a grant nor a call.
THEOREM CrossTypes == Spec => []TypeOK
<1>1. CrossInv => TypeOK
  BY DEF CrossInv
<1> QED
  BY <1>1, CrossInductive, PTL

\* crossOriginSigner.ts:379: one consent covers one completion proof, however many are asked
\* for at once.
THEOREM OneCompletion == Spec => []OneCompletionPerConsent
<1>1. CrossInv => OneCompletionPerConsent
  BY DEF CrossInv, OneRide, OneCompletionPerConsent
<1> QED
  BY <1>1, CrossInductive, PTL

\* What a relying page gets signed is within its policy, by the account it expected, and
\* within something that account said yes to.
THEOREM WithinWhatWasSaid == Spec => []NothingBeyondConsent
<1>1. CrossInv => NothingBeyondConsent
  <2> SUFFICES ASSUME CrossInv, NEW r \in Req, req[r].pc = "resolved"
               PROVE  /\ client.expected \in {None, req[r].by}
                      /\ req[r].t.item \in Policy
                      /\ \E s \in SUBSET Item : req[r].t.item \in s /\ <<req[r].by, s>> \in yes
    BY DEF NothingBeyondConsent
  <2>1. InScope(r) /\ SaidYes(req[r].by) /\ client.expected \in {None, req[r].by}
    BY DEF CrossInv, ClientWithin
  <2>2. client.scope \in SUBSET Item
    BY DEF CrossInv, TypeOK, ClientRecord
  <2> QED
    BY <2>1, <2>2 DEF InScope, SaidYes
<1> QED
  BY <1>1, CrossInductive, PTL

\* crossOriginSigner.ts:407: no signature leaves the page once its grant was revoked.
THEOREM NothingAfterRevocation == Spec => []NoSignatureAfterRevocation
<1>1. CrossInv => NoSignatureAfterRevocation
  BY DEF CrossInv, MessagesWithin, Queued, NoSignatureAfterRevocation
<1> QED
  BY <1>1, CrossInductive, PTL

\* crossOriginSigner.ts:450: once the page has heard of a lock it has no grant, except from
\* a connection the lock overtook (in a wallet that supplies ensureUnlocked).
THEOREM GrantDies == Spec => []GrantDiesWithTheKey
<1>1. CrossInv => GrantDiesWithTheKey
  BY DEF CrossInv
<1> QED
  BY <1>1, CrossInductive, PTL
=============================================================================
