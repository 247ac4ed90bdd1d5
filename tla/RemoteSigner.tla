---------------------------- MODULE RemoteSigner ----------------------------
(***************************************************************************)
(* The NIP-46 remote signer (nap-client-nip46): pairing with a bunker over *)
(* relays, the encrypted record that lets the next visit restore the       *)
(* pairing, and requests that a person on a phone answers late or never.   *)
(* connect() and disconnect() may overlap, and each of their awaits may    *)
(* fail or time out.                                                       *)
(*                                                                         *)
(* A pairing is named by the connection it was made on, 0 being the one of *)
(* an earlier visit. The bunker, the relays and nostr-tools are external.  *)
(***************************************************************************)
EXTENDS Naturals, FiniteSets

CONSTANTS
    Call,       \* calls of connect and disconnect under way at once
    Req,        \* requests (get_public_key, sign_event, ping) under way at once
    MaxConn,    \* bound: connections opened
    MaxMoves,   \* bound: calls and requests made
    None

ASSUME RemoteAssumption == MaxConn \in Nat /\ MaxMoves \in Nat

\* "No pairing", "no connection" and "nothing stored" are told from every value they stand beside.
ASSUME NoneAssumption == None \notin Nat /\ None \notin [p : 0..MaxConn, readable : BOOLEAN]

VARIABLES
    mode,       \* what connect() was given: a token, relays, or only a store
    storing,    \* a secretStore and a passphrase are configured
    record,     \* the stored pairing
    current,    \* the signer's connection
    conn,       \* the connections opened: with their pool and client key
    call, req,
    acked,      \* pairings the bunker has acknowledged
    replaced,   \* ghost: connections a later connect() took the place of
    last,       \* ghost: what the call that did something last was, if it overlapped no other
    moves

vars == <<mode, storing, record, current, conn, call, req, acked, replaced, last, moves>>

Conn == 1..MaxConn
Opt(S) == S \cup {None}

Pc == {"idle", "start", "load", "restore", "unrestore", "forget", "parse", "pair", "wait", "unpair",
       "save", "unsave", "close", "clear"}

CallRecord == [pc : Pc, op : {"none", "connect", "disconnect"}, conn : Opt(Conn), alone : BOOLEAN,
               hint : {"none", "declined", "wrong"}]

Idle == [pc |-> "idle", op |-> "none", conn |-> None, alone |-> TRUE, hint |-> "none"]

NoConn == [st |-> "none", p |-> None, zero |-> FALSE]

Init ==
    /\ mode \in {"token", "relays", "store"}
    /\ storing \in BOOLEAN
    /\ mode = "store" => storing
    /\ record \in IF storing THEN {None, [p |-> 0, readable |-> TRUE], [p |-> 0, readable |-> FALSE]}
                  ELSE {None}
    /\ current = None
    /\ conn = [i \in Conn |-> NoConn]
    /\ call = [c \in Call |-> Idle]
    /\ req = [r \in Req |-> None]
    /\ acked = {0}
    /\ replaced = {} /\ last = "none" /\ moves = 0

Move == moves < MaxMoves /\ moves' = moves + 1

InFlight == {c \in Call : call[c].pc # "idle"}

Go(c, pc) == call' = [call EXCEPT ![c].pc = pc]

\* The call settles, one way or the other: what it amounted to is noted if it was alone.
SettleAs(c, what) ==
    /\ call' = [call EXCEPT ![c] = Idle]
    /\ last' = IF call[c].alone THEN what ELSE "mixed"

Settle(c) == SettleAs(c, call[c].op)

-----------------------------------------------------------------------------
(* Connections. *)

Fresh == {i \in Conn : conn[i].st = "none" /\ \A j \in 1..(i - 1) : conn[j].st # "none"}

\* openConnection: a pool and its sockets, with a new client key or the stored one
Open(c, pc, p) ==
    \E i \in Fresh :
        /\ conn' = [conn EXCEPT ![i] = [st |-> "open", p |-> IF p = None THEN i ELSE p, zero |-> FALSE]]
        /\ call' = [call EXCEPT ![c] = [@ EXCEPT !.pc = pc, !.conn = i]]

\* Mutant of Close: the subscription is closed and the sockets are not.
Close_KeepsPool(i) == UNCHANGED conn

\* closeConnection, whose own failures are swallowed
Close(i) == conn' = [conn EXCEPT ![i].st = "closed"]

-----------------------------------------------------------------------------
(* connect() and disconnect(). *)

\* A connect() opens at most two connections; the bound leaves room for all under way.
Start(c, op) ==
    /\ call[c].pc = "idle" /\ Move
    /\ Cardinality({i \in Conn : conn[i].st = "none"}) >= 2 * (Cardinality(InFlight) + 1)
    /\ call' = [d \in Call |->
                  IF d = c THEN [Idle EXCEPT !.pc = "start", !.op = op, !.alone = InFlight = {}]
                  ELSE [call[d] EXCEPT !.alone = call[d].pc = "idle"]]
    /\ UNCHANGED <<mode, storing, record, current, conn, req, acked, replaced, last>>

\* After restore() found nothing to reuse
Pair(c) ==
    \/ mode = "token" /\ Go(c, "parse") /\ UNCHANGED <<conn, last>>
    \/ mode = "relays" /\ Open(c, "wait", None) /\ UNCHANGED last
    \/ mode = "store" /\ Settle(c) /\ UNCHANGED conn

ConnectStart(c) ==
    /\ call[c].pc = "start" /\ call[c].op = "connect"
    /\ \/ current # None /\ call' = [call EXCEPT ![c] = Idle] /\ UNCHANGED <<conn, last>>
       \/ current = None /\ storing /\ Go(c, "load") /\ UNCHANGED <<conn, last>>
       \/ current = None /\ ~storing /\ Pair(c)
    /\ UNCHANGED <<mode, storing, record, current, req, acked, replaced, moves>>

\* loadConnection: absent, undecryptable and another version's are all nothing.
Loadable == IF record = None THEN FALSE ELSE record.readable

\* The store may reject, and connect() with it.
Load(c) ==
    /\ call[c].pc = "load"
    /\ \/ Loadable /\ Open(c, "restore", record.p) /\ UNCHANGED last
       \/ ~Loadable /\ Pair(c)
       \/ Settle(c) /\ UNCHANGED conn
    /\ UNCHANGED <<mode, storing, record, current, req, acked, replaced, moves>>

\* parseBunkerInput
Parse(c) ==
    /\ call[c].pc = "parse"
    /\ \/ Open(c, "pair", None) /\ UNCHANGED last
       \/ Settle(c) /\ UNCHANGED conn
    /\ UNCHANGED <<mode, storing, record, current, req, acked, replaced, moves>>

\* The bunker acknowledges a pairing; whether its answer arrives is another matter.
BunkerAck(c) ==
    /\ call[c].pc \in {"restore", "pair", "wait"} /\ conn[call[c].conn].p \notin acked
    /\ acked' = acked \cup {conn[call[c].conn].p}
    /\ UNCHANGED <<mode, storing, record, current, conn, call, req, replaced, last, moves>>

\* Mutant of Acknowledged: what the bunker answered is not looked at.
Acknowledged_AnyAnswer(p) == TRUE

\* "ack", or the secret echoed
Acknowledged(p) == p \in acked

\* The connection a connect() ends with; one that was there before is dropped, not closed.
Connected(c) ==
    /\ current' = call[c].conn
    /\ replaced' = replaced \cup ({current} \ {None})
    /\ Settle(c)

\* The handshake's answer to a restored pairing
Restored(c) ==
    /\ call[c].pc = "restore" /\ Acknowledged(conn[call[c].conn].p)
    /\ Connected(c)
    /\ UNCHANGED <<mode, storing, record, conn, req, acked, moves>>

\* The handshake of a new pairing is answered, or a signer echoes the URI's secret.
Paired(c) ==
    /\ call[c].pc \in {"pair", "wait"} /\ Acknowledged(conn[call[c].conn].p)
    /\ IF storing THEN Go(c, "save") /\ UNCHANGED <<current, replaced, last>> ELSE Connected(c)
    /\ UNCHANGED <<mode, storing, record, conn, req, acked, moves>>

\* While waiting for a signer to come, a decline or a wrong secret is only remembered:
\* anybody could have sent it.
Noise(c) ==
    /\ call[c].pc = "wait"
    /\ \/ call[c].hint # "declined" /\ call' = [call EXCEPT ![c].hint = "declined"]
       \/ call[c].hint = "none" /\ call' = [call EXCEPT ![c].hint = "wrong"]
    /\ UNCHANGED <<mode, storing, record, current, conn, req, acked, replaced, last, moves>>

\* A handshake fails, is declined or times out: the connection is closed first.
Unpaired(c) ==
    /\ call[c].pc \in {"restore", "pair", "wait"}
    /\ Go(c, IF call[c].pc = "restore" THEN "unrestore" ELSE "unpair")
    /\ UNCHANGED <<mode, storing, record, current, conn, req, acked, replaced, last, moves>>

\* Closed; a stored pairing that no longer works is then dropped as well.
Closed(c) ==
    /\ call[c].pc \in {"unrestore", "unpair", "unsave"}
    /\ Close(call[c].conn)
    /\ \/ call[c].pc = "unrestore" /\ Go(c, "forget") /\ UNCHANGED last
       \/ call[c].pc # "unrestore" /\ Settle(c)
    /\ UNCHANGED <<mode, storing, record, current, req, acked, replaced, moves>>

\* store.clear, after which the call pairs afresh, or which rejects, and connect() with it
Forget(c) ==
    /\ call[c].pc = "forget"
    /\ \/ record' = None /\ Pair(c)
       \/ Settle(c) /\ UNCHANGED <<record, conn>>
    /\ UNCHANGED <<mode, storing, current, req, acked, replaced, moves>>

\* Mutant of Save: the connection is kept when it could not be stored.
Save_Anyway(c) ==
    /\ call[c].pc = "save"
    /\ \/ record' = [p |-> conn[call[c].conn].p, readable |-> TRUE]
       \/ UNCHANGED record
    /\ Connected(c)
    /\ UNCHANGED <<mode, storing, conn, req, acked, moves>>

\* persist: a pairing that cannot be remembered is torn down.
Save(c) ==
    /\ call[c].pc = "save"
    /\ \/ /\ record' = [p |-> conn[call[c].conn].p, readable |-> TRUE]
          /\ Connected(c)
       \/ /\ Go(c, "unsave")
          /\ UNCHANGED <<record, current, replaced, last>>
    /\ UNCHANGED <<mode, storing, conn, req, acked, moves>>

DisconnectStart(c) ==
    /\ call[c].pc = "start" /\ call[c].op = "disconnect"
    /\ current' = None
    /\ call' = [call EXCEPT ![c] = [@ EXCEPT !.pc = IF current = None THEN "clear" ELSE "close", !.conn = current]]
    /\ UNCHANGED <<mode, storing, record, conn, req, acked, replaced, last, moves>>

\* Mutant of DisconnectClose: the key is zeroed under an open connection.
DisconnectClose_ZeroOnly(c) ==
    /\ call[c].pc = "close"
    /\ conn' = [conn EXCEPT ![call[c].conn].zero = TRUE]
    /\ Go(c, "clear")
    /\ UNCHANGED <<mode, storing, record, current, req, acked, replaced, last, moves>>

\* Closed, and the client key zeroed
DisconnectClose(c) ==
    /\ call[c].pc = "close"
    /\ conn' = [conn EXCEPT ![call[c].conn] = [@ EXCEPT !.st = "closed", !.zero = TRUE]]
    /\ Go(c, "clear")
    /\ UNCHANGED <<mode, storing, record, current, req, acked, replaced, last, moves>>

\* The connection is gone by now; if the store rejects, so does disconnect(), and the record
\* stays.
DisconnectClear(c) ==
    /\ call[c].pc = "clear"
    /\ \/ /\ record' = IF storing THEN None ELSE record
          /\ Settle(c)
       \/ /\ storing
          /\ SettleAs(c, "kept")
          /\ UNCHANGED record
    /\ UNCHANGED <<mode, storing, current, conn, req, acked, replaced, moves>>

-----------------------------------------------------------------------------
(* Requests. *)

Ask(r) ==
    /\ req[r] = None /\ current # None /\ Move
    /\ req' = [req EXCEPT ![r] = current]
    /\ UNCHANGED <<mode, storing, record, current, conn, call, acked, replaced, last>>

\* A bunker answers only over a connection that is still open.
Answered(r) ==
    /\ req[r] # None /\ conn[req[r]].st = "open"
    /\ req' = [req EXCEPT ![r] = None]
    /\ UNCHANGED <<mode, storing, record, current, conn, call, acked, replaced, last, moves>>

\* Mutant of WithTimeout: only a live connection's requests time out.
WithTimeout_Open(r) ==
    /\ req[r] # None /\ conn[req[r]].st = "open"
    /\ req' = [req EXCEPT ![r] = None]
    /\ UNCHANGED <<mode, storing, record, current, conn, call, acked, replaced, last, moves>>

WithTimeout(r) ==
    /\ req[r] # None
    /\ req' = [req EXCEPT ![r] = None]
    /\ UNCHANGED <<mode, storing, record, current, conn, call, acked, replaced, last, moves>>

-----------------------------------------------------------------------------
Step(c) ==
    \/ ConnectStart(c) \/ Load(c) \/ Parse(c) \/ Restored(c) \/ Paired(c) \/ Unpaired(c)
    \/ Closed(c) \/ Forget(c) \/ Save(c)
    \/ DisconnectStart(c) \/ DisconnectClose(c) \/ DisconnectClear(c)

Next ==
    \/ \E c \in Call : Step(c) \/ BunkerAck(c) \/ Noise(c) \/ \E op \in {"connect", "disconnect"} : Start(c, op)
    \/ \E r \in Req : Ask(r) \/ Answered(r) \/ WithTimeout(r)

\* Timers fire, and the browser's own promises (storage, cryptography, fetch, closing a
\* socket) settle. The bunker need not ever answer.
Fairness ==
    /\ \A c \in Call : WF_vars(Step(c))
    /\ \A r \in Req : WF_vars(WithTimeout(r))

Spec == Init /\ [][Next]_vars
FairSpec == Spec /\ Fairness

-----------------------------------------------------------------------------
(* Properties. *)

\* The type invariant.
TypeOK ==
    /\ mode \in {"token", "relays", "store"} /\ storing \in BOOLEAN
    /\ record \in Opt([p : 0..MaxConn, readable : BOOLEAN])
    /\ current \in Opt(Conn)
    /\ conn \in [Conn -> [st : {"none", "open", "closed"}, p : Opt(0..MaxConn), zero : BOOLEAN]]
    /\ call \in [Call -> CallRecord] /\ req \in [Req -> Opt(Conn)]
    /\ acked \subseteq 0..MaxConn /\ replaced \subseteq Conn
    /\ last \in {"none", "connect", "disconnect", "kept", "mixed"} /\ moves \in 0..MaxMoves
    /\ \A i \in Conn : (conn[i].p = None <=> conn[i].st = "none") /\ (conn[i].zero => conn[i].st = "closed")

\* connection.ts:109: what the signer uses, and what it stores for the next visit, is a
\* pairing the bunker acknowledged, whoever else answered the connection URI meanwhile.
OnlyAcknowledgedPairings ==
    /\ current # None => conn[current].p \in acked
    /\ record # None => record.p \in acked

\* connection.ts:117 and signer.ts:173: no failure leaves sockets that nobody can close. An
\* open connection is the signer's, a call's that is still under way, or one that another
\* connect() running at the same time took the place of; and the signer's is open.
NothingLeaks ==
    /\ \A i \in Conn : conn[i].st = "open" =>
          i = current \/ i \in replaced \/ \E c \in InFlight : call[c].conn = i
    /\ current # None => conn[current].st = "open" /\ ~conn[current].zero

\* What is stored is what is in use: a connect() that overlapped no other call and left a
\* connection left its pairing stored; a disconnect() that overlapped none left no
\* connection open but those a connect() had replaced, not even if it rejected because the
\* store would not forget the pairing ("kept"), and if it resolved no record either.
Agreement ==
    /\ last = "connect" /\ current # None /\ storing => record # None /\ record.p = conn[current].p
    /\ last = "disconnect" => record = None
    /\ last \in {"disconnect", "kept"} =>
          current = None /\ \A i \in Conn \ replaced : conn[i].st # "open"

StoreAgrees == InFlight = {} => Agreement

\* timeout.ts: every call and every request settles, whatever the bunker does.
EverythingSettles ==
    /\ \A c \in Call : (call[c].pc # "idle") ~> (call[c].pc = "idle")
    /\ \A r \in Req : (req[r] # None) ~> (req[r] = None)

-----------------------------------------------------------------------------
(* Why the safety properties hold: an inductive invariant. *)

\* The stages of a call that has a connection of its own to close or to hand over
Holds(c) == call[c].pc \in {"restore", "unrestore", "pair", "wait", "unpair", "save", "unsave", "close"}

\* A call's connection is open and its own; the signer's is open, and no call's; one that
\* lost its place was opened once.
Holders ==
    /\ \A c \in Call : Holds(c) =>
          /\ call[c].conn \in Conn \ replaced /\ call[c].conn # current
          /\ conn[call[c].conn].st = "open"
    /\ \A c, d \in Call : Holds(c) /\ Holds(d) /\ c # d => call[c].conn # call[d].conn
    /\ current # None => current \notin replaced /\ conn[current].st = "open"
    /\ \A i \in replaced : conn[i].st # "none"

\* Nothing is open but what somebody holds.
Held ==
    \A i \in Conn : conn[i].st = "open" =>
        i = current \/ i \in replaced \/ \E c \in Call : Holds(c) /\ call[c].conn = i

\* A pairing is acknowledged before it is stored or used.
AckedFirst ==
    /\ OnlyAcknowledgedPairings
    /\ \A c \in Call : call[c].pc = "save" => conn[call[c].conn].p \in acked

\* Nothing is stored where there is no store.
StoreUsed ==
    /\ mode = "store" => storing
    /\ ~storing => record = None /\ \A c \in Call : call[c].pc # "save"

\* The stages belong to one of the two calls.
Stages ==
    \A c \in Call :
        /\ call[c].pc \in {"close", "clear"} => call[c].op = "disconnect"
        /\ call[c].pc \notin {"idle", "start", "close", "clear"} => call[c].op = "connect"

\* A call that overlapped no other is the only one; past its start the signer has no
\* connection, and what it restores is what is stored.
AloneIsAlone ==
    \A c \in Call : call[c].pc # "idle" /\ call[c].alone =>
        /\ \A d \in Call \ {c} : call[d].pc = "idle"
        /\ call[c].pc # "start" => current = None
        /\ call[c].pc = "restore" => record # None /\ record.p = conn[call[c].conn].p

\* What StoreAgrees promises holds whenever no call has changed anything yet.
Agreed == Agreement \/ \E c \in Call : call[c].pc \notin {"idle", "start", "load"}

RemoteInv ==
    TypeOK /\ Holders /\ Held /\ AckedFirst /\ StoreUsed /\ Stages /\ AloneIsAlone /\ Agreed
=============================================================================
